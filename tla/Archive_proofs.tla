---------------------------- MODULE Archive_proofs ----------------------------
(***************************************************************************)
(* What Archive keeps for any agents, messages, tasks and bounds.          *)
(*                                                                         *)
(* The invariants go beside the types: where the ledger's numbers stand    *)
(* (Ledgered), what an agent has been told (Told), what refers to what     *)
(* (ReferencesResolve), and what a run under way may rely on, which is     *)
(* that the rows it selected are as they were (RunHolds).                  *)
(***************************************************************************)
EXTENDS Archive, FiniteSetTheorems, WellFoundedInduction, TLAPS

\* Every message's row is as old as the last send of its identifier, and no
\* number an agent keeps is ahead of the ledger.
Ledgered ==
  /\ \A row \in mail :
       row.at \in SendIds(row.id) /\ \A n \in SendIds(row.id) : n <= row.at
  /\ \A r \in sends : r.audit <= head
  /\ \A a \in Agents : cursor[a] <= head /\ joined[a] <= head

\* Besides NothingPassedOver: what listings covered they listed.
Told == NothingPassedOver /\ \A a \in Agents : covered[a] \subseteq heard[a]

\* A run's copy is in a file before anything is deleted, and what it selected
\* every active agent has marked.
RunHolds ==
  /\ run.phase = "idle" => run = Idle
  /\ run.phase = "published" => Copy \in files
  /\ run.phase # "idle" =>
       \A row \in mail, a \in Active : row.id \in run.mail => row.at <= cursor[a]

ArchiveInv == ArchiveTypeOK /\ Ledgered /\ Told /\ ReferencesResolve /\ RunHolds

-----------------------------------------------------------------------------
\* Pages.

\* A nonempty set of natural numbers has a least element.
LEMMA LeastElement ==
  ASSUME NEW S \in SUBSET Nat, S # {}
  PROVE  \E x \in S : \A y \in S : x <= y
<1>1. PICK x \in S : \A y \in S : ~ (<<y, x>> \in OpToRel(<, Nat))
  BY NatLessThanWellFounded, WFMin
<1>2. \A y \in S : ~ (y < x)
  BY <1>1 DEF OpToRel
<1> QED BY <1>2

\* What is unread are finitely many audit ids.
LEMMA UnreadIds ==
  ASSUME ArchiveTypeOK, NEW a \in Agents
  PROVE  Unread(a) \subseteq AuditIds /\ IsFiniteSet(Unread(a)) /\ Unread(a) \subseteq Nat
<1>1. Unread(a) \subseteq AuditIds
  BY DEF Unread, SendIds, ArchiveTypeOK, InboxTypeOK
<1>2. IsFiniteSet(AuditIds)
  BY InboxAssumption, FS_Interval DEF AuditIds
<1>3. IsFiniteSet(Unread(a))
  BY <1>1, <1>2, FS_Subset
<1>4. AuditIds \subseteq Nat
  BY InboxAssumption DEF AuditIds
<1> QED BY <1>1, <1>3, <1>4

\* A page leaves out nothing older than what it shows.
LEMMA PageIsOldest ==
  ASSUME ArchiveTypeOK, NEW a \in Agents, NEW n \in Page(a), NEW k \in Unread(a), k <= n
  PROVE  k \in Page(a)
<1> DEFINE Before(x) == {y \in Unread(a) : y < x}
<1>1. n \in Unread(a) /\ Cardinality(Before(n)) < PageLimit
  BY DEF Page
<1>2. Before(k) \subseteq Before(n)
  BY UnreadIds, <1>1
<1>3. IsFiniteSet(Before(n))
  BY UnreadIds, FS_Subset
<1>4. /\ Cardinality(Before(k)) <= Cardinality(Before(n)) /\ IsFiniteSet(Before(k))
  BY <1>2, <1>3, FS_Subset
<1>5. Cardinality(Before(k)) \in Nat /\ Cardinality(Before(n)) \in Nat
  BY <1>3, <1>4, FS_CardinalityType
<1>6. Cardinality(Before(k)) < PageLimit
  BY <1>1, <1>4, <1>5, InboxAssumption
<1> QED BY <1>6 DEF Page

\* A page that is not full leaves out nothing at all.
LEMMA ShortPageIsAll ==
  ASSUME ArchiveTypeOK, NEW a \in Agents, Cardinality(Page(a)) < PageLimit
  PROVE  Unread(a) \subseteq Page(a)
<1> SUFFICES ASSUME Unread(a) \ Page(a) # {} PROVE FALSE
  OBVIOUS
<1>1. PICK n \in Unread(a) \ Page(a) : \A y \in Unread(a) \ Page(a) : n <= y
  BY UnreadIds, LeastElement
<1> DEFINE Before == {y \in Unread(a) : y < n}
<1>2. Before \subseteq Page(a)
  BY <1>1, UnreadIds
<1>3. IsFiniteSet(Page(a))
  BY UnreadIds, FS_Subset DEF Page
<1>4. Cardinality(Before) <= Cardinality(Page(a)) /\ IsFiniteSet(Before)
  BY <1>2, <1>3, FS_Subset
<1>5. Cardinality(Before) \in Nat /\ Cardinality(Page(a)) \in Nat
  BY <1>3, <1>4, FS_CardinalityType
<1>6. Cardinality(Before) < PageLimit
  BY <1>4, <1>5, InboxAssumption
<1> QED BY <1>1, <1>6 DEF Page
\* A nonempty set of numbers up to a bound has a greatest element, which Max is.
LEMMA GreatestElement ==
  ASSUME NEW b \in Nat, NEW S \in SUBSET (1 .. b), S # {}
  PROVE  Max(S) \in S /\ \A y \in S : Max(S) >= y
<1> DEFINE Above == {m \in Nat : \A y \in S : y <= m}
<1>1. b \in Above
  OBVIOUS
<1>2. PICK m \in Above : \A k \in Above : m <= k
  BY <1>1, LeastElement
<1>3. m \in S
  <2> SUFFICES ASSUME m \notin S PROVE FALSE
    OBVIOUS
  <2>1. m \in Nat /\ \A y \in S : y <= m
    OBVIOUS
  <2>2. \A y \in S : y \in Nat \ {0} /\ y # m
    OBVIOUS
  <2>3. PICK z \in S : TRUE
    OBVIOUS
  <2>4. m - 1 \in Nat
    BY <2>1, <2>2, <2>3
  <2>5. \A y \in S : y <= m - 1
    BY <2>1, <2>2
  <2>6. m <= m - 1
    BY <1>2, <2>4, <2>5
  <2> QED BY <2>1, <2>6
<1>4. \E x \in S : \A y \in S : x >= y
  BY <1>2, <1>3
<1> QED BY <1>4 DEF Max

\* What a page answers for it has.
LEMMA PageCovers ==
  ASSUME ArchiveTypeOK, NEW a \in Agents, NEW k \in Unread(a), k <= Reach(Page(a))
  PROVE  k \in Page(a)
<1>1. CASE Cardinality(Page(a)) < PageLimit
  BY <1>1, ShortPageIsAll
<1>2. CASE ~(Cardinality(Page(a)) < PageLimit)
  <2>1. Page(a) \subseteq 1 .. MaxHead
    BY UnreadIds DEF Page, AuditIds
  <2>2. Page(a) # {}
    BY <1>2, FS_EmptySet, InboxAssumption
  <2>3. Max(Page(a)) \in Page(a)
    BY <2>1, <2>2, GreatestElement, InboxAssumption
  <2>4. k <= Max(Page(a))
    BY <1>2 DEF Reach
  <2> QED BY <2>3, <2>4, PageIsOldest
<1> QED BY <1>1, <1>2

-----------------------------------------------------------------------------
\* Types.

LEMMA TypesAtStart == ArchiveInit => ArchiveTypeOK
BY InboxAssumption
  DEF ArchiveInit, InboxInit, ArchiveTypeOK, InboxTypeOK, Idle

LEMMA RedactedMail ==
  ASSUME NEW row \in Mail
  PROVE  [row EXCEPT !.redacted = TRUE] \in Mail
BY DEF Mail

LEMMA TypesStep == ArchiveTypeOK /\ [ArchiveNext]_archiveVars => ArchiveTypeOK'
<1> SUFFICES ASSUME ArchiveTypeOK, [ArchiveNext]_archiveVars PROVE ArchiveTypeOK'
  OBVIOUS
<1> USE InboxAssumption, ArchiveAssumption DEF ArchiveTypeOK, InboxTypeOK
<1>1. CASE InboxStep
  <2> USE <1>1 DEF InboxStep, taskVars, readerVars, ledgerVars, AuditedBy, AuditIds
  <2>1. ASSUME NEW a \in Agents, NEW by \in Agents, Register(a, by) PROVE ArchiveTypeOK'
    BY <2>1 DEF Register
  <2>2. ASSUME NEW a \in Agents, NEW by \in Agents, NEW new \in {"active", "inactive"},
               SetAgent(a, by, new)
        PROVE ArchiveTypeOK'
    BY <2>2 DEF SetAgent
  <2>3. ASSUME NEW a \in Agents, NEW row \in mail, Redact(a, row) PROVE ArchiveTypeOK'
    <3>1. [row EXCEPT !.redacted = TRUE] \in Mail
      BY RedactedMail, row \in Mail
    <3>2. mail' \subseteq Mail
      BY <2>3, <3>1 DEF Redact
    <3> QED BY <2>3, <3>2 DEF Redact
  <2>4. ASSUME NEW a \in Agents, ListInbox(a) PROVE ArchiveTypeOK'
    BY <2>4, UnreadIds DEF ListInbox, Page
  <2>5. ASSUME NEW a \in Agents, NEW n \in 0 .. MaxHead, MarkRead(a, n) PROVE ArchiveTypeOK'
    BY <2>5, UnreadIds DEF MarkRead
  <2> QED BY <2>1, <2>2, <2>3, <2>4, <2>5 DEF InboxNext
<1>2. CASE MessageStep
  <2> SUFFICES ASSUME NEW by \in Agents, NEW m \in Messages, NEW to \in Agents \cup {Team},
                      NEW t \in Tasks \cup {NoTask}, SendMessage(by, m, to, t)
               PROVE  ArchiveTypeOK'
    BY <1>2 DEF MessageStep
  <2>1. head' = head + 1 /\ head + 1 \in AuditIds /\ head' \in 0 .. MaxHead
    BY DEF SendMessage, Send, AuditedBy, AuditIds
  <2>2. mail' \subseteq Mail
    <3>1. NewMail(m, to, t) \in Mail
      BY <2>1 DEF NewMail, Mail
    <3> QED BY <3>1 DEF SendMessage, Send
  <2>3. sends' \subseteq [audit : AuditIds, id : Messages]
    BY <2>1 DEF SendMessage, Send
  <2> QED BY <2>1, <2>2, <2>3 DEF SendMessage, Send, taskVars, readerVars
<1>3. CASE TaskStep
  <2>1. PICK by \in Agents : TaskWrite(by) /\ tasks' \subseteq TaskRow /\ deps' \subseteq Tasks \X Tasks
    <3>1. ASSUME NEW by \in Agents, NEW t \in Tasks, CreateTask(by, t)
          PROVE  TaskWrite(by) /\ tasks' \subseteq TaskRow /\ deps' \subseteq Tasks \X Tasks
      <4>1. head + 1 \in AuditIds
        BY <3>1 DEF CreateTask, TaskWrite, AuditedBy, AuditIds
      <4>2. [id |-> t, born |-> head + 1, done |-> FALSE, edition |-> 0] \in TaskRow
        BY <4>1 DEF TaskRow
      <4> QED BY <3>1, <4>2 DEF CreateTask
    <3>2. ASSUME NEW by \in Agents, NEW row \in tasks, FinishTask(by, row) \/ EditTask(by, row)
          PROVE  TaskWrite(by) /\ tasks' \subseteq TaskRow /\ deps' \subseteq Tasks \X Tasks
      <4>1. row.edition < MaxEdition => [row EXCEPT !.edition = @ + 1] \in TaskRow
        BY DEF TaskRow
      <4>2. [row EXCEPT !.done = TRUE] \in TaskRow
        BY DEF TaskRow
      <4> QED BY <3>2, <4>1, <4>2 DEF FinishTask, EditTask
    <3>3. ASSUME NEW by \in Agents, NEW t \in Tasks, NEW u \in Tasks, AddDependency(by, t, u)
          PROVE  TaskWrite(by) /\ tasks' \subseteq TaskRow /\ deps' \subseteq Tasks \X Tasks
      BY <3>3 DEF AddDependency
    <3> QED BY <1>3, <3>1, <3>2, <3>3 DEF TaskStep
  <2> QED BY <2>1 DEF TaskWrite, AuditedBy, readerVars
<1>4. CASE ArchiveStep
  <2> USE DEF inboxVars, ledgerVars, readerVars, taskVars, Idle
  <2>1. ASSUME NEW by \in Agents, NEW old \in SUBSET (Tasks \cup Messages), Select(by, old)
        PROVE  ArchiveTypeOK'
    <3>1. EligibleTasks(old) \subseteq Tasks /\ EligibleMessages(old) \subseteq Messages
      BY DEF EligibleTasks, EligibleMessages, Ids, TaskRow, Mail
    <3> QED BY <2>1, <3>1 DEF Select
  <2>2. ASSUME NEW by \in Agents, Delete(by) PROVE ArchiveTypeOK'
    <3>1. mail' \subseteq Mail
      BY <2>2 DEF Delete, Detached, Mail
    <3> QED BY <2>2, <3>1 DEF Delete, AuditedBy
  <2>3. CASE Publish
    <3>1. Copy \in File
      BY DEF Copy, File, Detached, Mail
    <3> QED BY <2>3, <3>1 DEF Publish
  <2>4. CASE Refused \/ Crash
    BY <2>4 DEF Refused, Crash
  <2> QED BY <1>4, <2>1, <2>2, <2>3, <2>4 DEF ArchiveStep
<1>5. CASE UNCHANGED archiveVars
  BY <1>5 DEF archiveVars, inboxVars, ledgerVars, readerVars, taskVars
<1> QED BY <1>1, <1>2, <1>3, <1>4, <1>5 DEF ArchiveNext

\* Every variable of the database, the files and the run keeps its type.
THEOREM ArchiveTypeCorrect == ArchiveSpec => []ArchiveTypeOK
<1>1. ArchiveInit => ArchiveTypeOK
  BY TypesAtStart
<1>2. ArchiveTypeOK /\ [ArchiveNext]_archiveVars => ArchiveTypeOK'
  BY TypesStep
<1> QED BY <1>1, <1>2, PTL DEF ArchiveSpec

-----------------------------------------------------------------------------
\* The ledger's numbers.

SameMessage(row, old) == old.id = row.id /\ old.at = row.at /\ old.to = row.to

\* Only a send brings a message: any other step leaves the send rows alone,
\* and every message after it was there before it.
LEMMA NoNewMail ==
  ASSUME ArchiveTypeOK, [ArchiveNext]_archiveVars, ~MessageStep
  PROVE  sends' = sends /\ \A row \in mail' : \E old \in mail : SameMessage(row, old)
<1> USE DEF ArchiveTypeOK, InboxTypeOK, SameMessage
<1>1. CASE InboxStep
  <2>1. ASSUME NEW a \in Agents, NEW row \in mail, Redact(a, row)
        PROVE  sends' = sends /\ \A x \in mail' : \E old \in mail : SameMessage(x, old)
    <3>1. LET new == [row EXCEPT !.redacted = TRUE]
          IN  new.id = row.id /\ new.at = row.at /\ new.to = row.to
      BY DEF Mail
    <3> QED BY <2>1, <3>1 DEF Redact
  <2>2. ASSUME NEW a \in Agents, NEW by \in Agents,
               Register(a, by) \/ (\E new \in {"active", "inactive"} : SetAgent(a, by, new))
        PROVE  sends' = sends /\ mail' = mail
    BY <2>2 DEF Register, SetAgent
  <2>3. ASSUME NEW a \in Agents, ListInbox(a) \/ (\E n \in 0 .. MaxHead : MarkRead(a, n))
        PROVE  sends' = sends /\ mail' = mail
    BY <2>3 DEF ListInbox, MarkRead, ledgerVars
  <2> QED BY <1>1, <2>1, <2>2, <2>3 DEF InboxStep, InboxNext
<1>2. CASE TaskStep
  BY <1>2 DEF TaskStep, CreateTask, FinishTask, EditTask, AddDependency, TaskWrite
<1>3. CASE ArchiveStep
  <2>1. ASSUME NEW by \in Agents, Delete(by)
        PROVE  sends' = sends /\ \A x \in mail' : \E old \in mail : SameMessage(x, old)
    <3>1. \A old \in mail : SameMessage(Detached(old, run.tasks), old)
      BY DEF Detached, Mail
    <3> QED BY <2>1, <3>1 DEF Delete
  <2>2. ASSUME ~ \E by \in Agents : Delete(by) PROVE sends' = sends /\ mail' = mail
    BY <1>3, <2>2 DEF ArchiveStep, Select, Publish, Refused, Crash, inboxVars, ledgerVars
  <2> QED BY <2>1, <2>2
<1>4. CASE UNCHANGED archiveVars
  BY <1>4 DEF archiveVars, inboxVars, ledgerVars
<1> QED BY <1>1, <1>2, <1>3, <1>4 DEF ArchiveNext

\* The numbers agents keep stay behind the ledger, which only grows.
LEMMA NumbersStep ==
  ASSUME ArchiveTypeOK, Ledgered, [ArchiveNext]_archiveVars
  PROVE  /\ head' \in Nat /\ head <= head'
         /\ \A a \in Agents :
              cursor'[a] <= head' /\ joined'[a] <= head'
<1> USE InboxAssumption DEF ArchiveTypeOK, InboxTypeOK, Ledgered
<1> DEFINE Goal == /\ head' \in Nat /\ head <= head'
                   /\ \A a \in Agents :
                        cursor'[a] <= head' /\ joined'[a] <= head'
<1>1. ASSUME NEW a \in Agents, NEW by \in Agents, Register(a, by) PROVE Goal
  BY <1>1 DEF Register
<1>2. ASSUME NEW a \in Agents, NEW n \in 0 .. MaxHead, MarkRead(a, n) PROVE Goal
  BY <1>2 DEF MarkRead, AuditedBy
<1>3. ASSUME NEW a \in Agents, ListInbox(a) PROVE Goal
  BY <1>3 DEF ListInbox, ledgerVars
<1>4. ASSUME UNCHANGED <<cursor, readerVars>>, head' = head \/ (head < MaxHead /\ head' = head + 1)
      PROVE  Goal
  BY <1>4 DEF readerVars
<1>5. ASSUME NEW a \in Agents, NEW row \in mail, Redact(a, row) PROVE Goal
  BY <1>4, <1>5 DEF Redact, AuditedBy
<1>6. ASSUME NEW a \in Agents, NEW by \in Agents, NEW new \in {"active", "inactive"},
             SetAgent(a, by, new)
      PROVE  Goal
  BY <1>4, <1>6 DEF SetAgent, AuditedBy
<1>7. CASE InboxStep
  BY <1>1, <1>2, <1>3, <1>5, <1>6, <1>7 DEF InboxStep, InboxNext
<1>8. CASE MessageStep
  BY <1>4, <1>8 DEF MessageStep, SendMessage, Send, AuditedBy
<1>9. CASE TaskStep
  BY <1>4, <1>9 DEF TaskStep, CreateTask, FinishTask, EditTask, AddDependency, TaskWrite, AuditedBy
<1>10. CASE ArchiveStep
  BY <1>4, <1>10
    DEF ArchiveStep, Select, Publish, Delete, Refused, Crash, AuditedBy, inboxVars, ledgerVars
<1>11. CASE UNCHANGED archiveVars
  BY <1>4, <1>11 DEF archiveVars, inboxVars, ledgerVars
<1> QED BY <1>7, <1>8, <1>9, <1>10, <1>11 DEF ArchiveNext

LEMMA LedgeredStep ==
  ASSUME ArchiveTypeOK, Ledgered, [ArchiveNext]_archiveVars
  PROVE  Ledgered'
<1> USE DEF ArchiveTypeOK, InboxTypeOK
<1>1. \A r \in sends' : r.audit <= head'
  <2>1. CASE MessageStep
    BY <2>1, NumbersStep DEF MessageStep, SendMessage, Send, AuditedBy, Ledgered, AuditIds
  <2>2. CASE ~MessageStep
    BY <2>2, NoNewMail, NumbersStep DEF Ledgered, AuditIds
  <2> QED BY <2>1, <2>2
<1>2. \A row \in mail' : row.at \in SendIds(row.id)' /\ \A n \in SendIds(row.id)' : n <= row.at
  <2>1. CASE MessageStep
    <3> SUFFICES ASSUME NEW by \in Agents, NEW m \in Messages, NEW to \in Agents \cup {Team},
                        NEW t \in Tasks \cup {NoTask}, SendMessage(by, m, to, t)
                 PROVE  \A row \in mail' :
                          row.at \in SendIds(row.id)' /\ \A n \in SendIds(row.id)' : n <= row.at
      BY <2>1 DEF MessageStep
    <3> USE DEF SendMessage, Send
    <3>1. \A n \in SendIds(m)' : n <= head + 1
      BY DEF SendIds, Ledgered, AuditIds
    <3>2. head + 1 \in SendIds(m)'
      <4> DEFINE new == [audit |-> head + 1, id |-> m]
      <4>1. new.id = m /\ new.audit = head + 1
        OBVIOUS
      <4>2. new \in {r \in sends' : r.id = m}
        BY <4>1
      <4> HIDE DEF new
      <4> QED BY <4>1, <4>2 DEF SendIds
    <3>3. \A row \in mail : SendIds(row.id)' = SendIds(row.id)
      <4> SUFFICES ASSUME NEW row \in mail PROVE SendIds(row.id)' = SendIds(row.id)
        OBVIOUS
      <4> DEFINE new == [audit |-> head + 1, id |-> m]
      <4>1. row.id # m /\ new.id = m
        OBVIOUS
      <4>2. {r \in sends' : r.id = row.id} = {r \in sends : r.id = row.id}
        BY <4>1
      <4> QED BY <4>2 DEF SendIds
    <3>4. NewMail(m, to, t).at = head + 1 /\ NewMail(m, to, t).id = m
      BY DEF NewMail
    <3> QED BY <3>1, <3>2, <3>3, <3>4 DEF Ledgered
  <2>2. CASE ~MessageStep
    BY <2>2, NoNewMail DEF SendIds, SameMessage, Ledgered
  <2> QED BY <2>1, <2>2
<1> QED BY <1>1, <1>2, NumbersStep DEF Ledgered

-----------------------------------------------------------------------------
\* What agents have been told.

\* What listings covered they listed.
LEMMA CoveredStep ==
  ASSUME ArchiveTypeOK, [ArchiveNext]_archiveVars, \A a \in Agents : covered[a] \subseteq heard[a]
  PROVE  \A a \in Agents : covered'[a] \subseteq heard'[a]
<1> USE DEF ArchiveTypeOK, InboxTypeOK
<1> DEFINE Goal == \A a \in Agents : covered'[a] \subseteq heard'[a]
<1>1. ASSUME NEW a \in Agents, ListInbox(a) PROVE Goal
  <2>1. {k \in Unread(a) : k <= Reach(Page(a))} \subseteq Page(a)
    BY PageCovers
  <2> QED BY <1>1, <2>1 DEF ListInbox
<1>2. ASSUME UNCHANGED <<heard, covered>> PROVE Goal
  BY <1>2
<1>3. CASE InboxStep
  BY <1>1, <1>2, <1>3 DEF InboxStep, InboxNext, Register, SetAgent, Redact, MarkRead, readerVars
<1>4. CASE MessageStep
  BY <1>2, <1>4 DEF MessageStep, SendMessage, Send, readerVars
<1>5. CASE TaskStep
  BY <1>2, <1>5 DEF TaskStep, CreateTask, FinishTask, EditTask, AddDependency, TaskWrite, readerVars
<1>6. CASE ArchiveStep
  BY <1>2, <1>6
    DEF ArchiveStep, Select, Publish, Delete, Refused, Crash, inboxVars, readerVars
<1>7. CASE UNCHANGED archiveVars
  BY <1>2, <1>7 DEF archiveVars, inboxVars, readerVars
<1> QED BY <1>3, <1>4, <1>5, <1>6, <1>7 DEF ArchiveNext

LEMMA ToldStep ==
  ASSUME ArchiveTypeOK, Ledgered, Told, [ArchiveNext]_archiveVars
  PROVE  Told'
<1> USE DEF ArchiveTypeOK, InboxTypeOK
<1>c. \A a \in Agents : covered'[a] \subseteq heard'[a]
  BY CoveredStep DEF Told
<1> SUFFICES ASSUME NEW x \in Agents, NEW row \in mail', AddressedTo(row, x), joined'[x] < row.at,
                    row.at <= cursor'[x]
             PROVE  row.at \in heard'[x] \cup skipped'[x]
  BY <1>c DEF Told, NothingPassedOver, AddressedTo
<1> DEFINE Goal == row.at \in heard'[x] \cup skipped'[x]
<1>1. CASE MessageStep
  <2> SUFFICES ASSUME NEW by \in Agents, NEW m \in Messages, NEW to \in Agents \cup {Team},
                      NEW t \in Tasks \cup {NoTask}, SendMessage(by, m, to, t)
               PROVE  Goal
    BY <1>1 DEF MessageStep
  <2>1. UNCHANGED <<cursor, readerVars>> /\ mail' = mail \cup {NewMail(m, to, t)}
    BY DEF SendMessage, Send
  <2>2. NewMail(m, to, t).at = head + 1
    BY DEF NewMail
  <2>3. row \in mail
    BY <2>1, <2>2 DEF Ledgered, readerVars
  <2> QED BY <2>1, <2>3 DEF Told, NothingPassedOver, readerVars
<1>2. CASE ~MessageStep
  <2>1. PICK old \in mail : SameMessage(row, old)
    BY <1>2, NoNewMail
  <2>2. AddressedTo(old, x) /\ old.at = row.at /\ old.at <= head /\ old.at \in SendIds(old.id)
    BY <2>1 DEF AddressedTo, SameMessage, Ledgered, SendIds
  <2>3. joined[x] < old.at /\ old.at <= cursor[x] => row.at \in heard[x] \cup skipped[x]
    BY <2>2 DEF Told, NothingPassedOver
  <2>4. ASSUME NEW a \in Agents, NEW by \in Agents, Register(a, by) PROVE Goal
    BY <2>2, <2>3, <2>4 DEF Register, Mail, AuditIds
  <2>5. ASSUME NEW a \in Agents, ListInbox(a) PROVE Goal
    BY <2>2, <2>3, <2>5 DEF ListInbox
  <2>6. ASSUME NEW a \in Agents, NEW n \in 0 .. MaxHead, MarkRead(a, n) PROVE Goal
    <3>1. CASE old.at <= cursor[x]
      BY <2>2, <2>3, <2>6, <3>1 DEF MarkRead
    <3>2. CASE ~(old.at <= cursor[x])
      <4>1. old.at \in Unread(x)
        BY <2>2, <3>2 DEF Unread, Mail, AuditIds
      <4>2. a = x /\ old.at <= n
        BY <2>2, <2>6, <3>2 DEF MarkRead
      <4> QED BY <2>2, <2>6, <4>1, <4>2, <1>c DEF MarkRead
    <3> QED BY <3>1, <3>2
  <2>7. ASSUME UNCHANGED <<cursor, readerVars>> PROVE Goal
    BY <2>2, <2>3, <2>7 DEF readerVars
  <2>8. CASE InboxStep
    BY <2>4, <2>5, <2>6, <2>7, <2>8 DEF InboxStep, InboxNext, SetAgent, Redact
  <2>9. CASE TaskStep
    BY <2>7, <2>9 DEF TaskStep, CreateTask, FinishTask, EditTask, AddDependency, TaskWrite
  <2>10. CASE ArchiveStep
    BY <2>7, <2>10 DEF ArchiveStep, Select, Publish, Delete, Refused, Crash, inboxVars
  <2>11. CASE UNCHANGED archiveVars
    BY <2>7, <2>11 DEF archiveVars, inboxVars
  <2> QED BY <1>2, <2>8, <2>9, <2>10, <2>11 DEF ArchiveNext
<1> QED BY <1>1, <1>2

-----------------------------------------------------------------------------
\* What refers to what.

\* A row that is rewritten keeps its identifier.
LEMMA RewrittenIds ==
  ASSUME NEW rows, NEW row \in rows, NEW new, new.id = row.id
  PROVE  Ids((rows \ {row}) \cup {new}) = Ids(rows)
BY DEF Ids

\* The copy a run makes is closed: what it refers to it contains.
LEMMA CopyResolves ==
  ASSUME ArchiveTypeOK, ReferencesResolve
  PROVE  Resolves(Copy)
<1> USE DEF ArchiveTypeOK, InboxTypeOK
<1>1. Resolves(Live)
  BY DEF ReferencesResolve
<1>2. Ids(Copy.tasks) = Ids(tasks) \cap run.tasks
  BY DEF Copy, Ids
<1>3. Copy.deps \subseteq Ids(Copy.tasks) \X Ids(Copy.tasks)
  <2> SUFFICES ASSUME NEW d \in Copy.deps PROVE d \in Ids(Copy.tasks) \X Ids(Copy.tasks)
    OBVIOUS
  <2>1. d \in deps /\ d[1] \in run.tasks /\ d[2] \in run.tasks
    BY DEF Copy
  <2>2. d \in Ids(tasks) \X Ids(tasks)
    BY <1>1, <2>1 DEF Resolves, Live
  <2> QED BY <1>2, <2>1, <2>2
<1>4. ASSUME NEW x \in Copy.mail PROVE x.task \in Ids(Copy.tasks) \cup {NoTask}
  <2>1. PICK row \in mail : x = Detached(row, Tasks \ run.tasks)
    BY <1>4 DEF Copy
  <2>2. row.task \in Ids(tasks) \cup {NoTask} /\ row.task \in Tasks \cup {NoTask}
    BY <1>1 DEF Resolves, Live, Mail
  <2>3. [row EXCEPT !.task = NoTask].task = NoTask
    BY DEF Mail
  <2> QED BY <1>2, <2>1, <2>2, <2>3 DEF Detached
<1> QED BY <1>3, <1>4 DEF Resolves

\* A deletion the foreign keys allow leaves nothing that refers to what went.
LEMMA DeletionResolves ==
  ASSUME ArchiveTypeOK, ReferencesResolve, NEW by \in Agents, Delete(by)
  PROVE  Resolves(Live)'
<1> USE DEF ArchiveTypeOK, InboxTypeOK
<1>1. Resolves(Live)
  BY DEF ReferencesResolve
<1>2. Ids(tasks') = Ids(tasks) \ run.tasks
  BY DEF Delete, Ids
<1>3. deps' \subseteq Ids(tasks') \X Ids(tasks')
  <2> SUFFICES ASSUME NEW d \in deps' PROVE d \in Ids(tasks') \X Ids(tasks')
    OBVIOUS
  <2>1. d \in deps /\ d[1] \notin run.tasks /\ d[2] \notin run.tasks
    BY DEF Delete, Deletable
  <2>2. d \in Ids(tasks) \X Ids(tasks)
    BY <1>1, <2>1 DEF Resolves, Live
  <2> QED BY <1>2, <2>1, <2>2
<1>4. ASSUME NEW x \in mail' PROVE x.task \in Ids(tasks') \cup {NoTask}
  <2>1. PICK row \in mail : x = Detached(row, run.tasks)
    BY <1>4 DEF Delete
  <2>2. row.task \in Ids(tasks) \cup {NoTask}
    BY <1>1 DEF Resolves, Live
  <2>3. [row EXCEPT !.task = NoTask].task = NoTask
    BY DEF Mail
  <2> QED BY <1>2, <2>1, <2>2, <2>3 DEF Detached
<1> QED BY <1>3, <1>4 DEF Resolves, Live

LEMMA ResolvesStep ==
  ASSUME ArchiveTypeOK, ReferencesResolve, [ArchiveNext]_archiveVars
  PROVE  ReferencesResolve'
<1> USE DEF ArchiveTypeOK, InboxTypeOK
<1>1. Resolves(Live) /\ \A f \in files : Resolves(f)
  BY DEF ReferencesResolve
<1>2. \A f \in files' : Resolves(f)
  <2>1. CASE Publish
    BY <1>1, <2>1, CopyResolves DEF Publish
  <2>2. CASE UNCHANGED files
    BY <1>1, <2>2
  <2> QED BY <2>1, <2>2
    DEF ArchiveNext, InboxStep, MessageStep, SendMessage, TaskStep, CreateTask, FinishTask,
        EditTask, AddDependency, TaskWrite, ArchiveStep, Select, Delete, Refused, Crash, archiveVars
<1>3. Resolves(Live)'
  <2> USE <1>1 DEF Resolves, Live
  <2>1. CASE UNCHANGED <<mail, tasks, deps>>
    BY <2>1
  <2>2. CASE InboxStep
    <3>1. ASSUME NEW a \in Agents, NEW row \in mail, Redact(a, row) PROVE Resolves(Live)'
      <4>1. [row EXCEPT !.redacted = TRUE].task = row.task
        BY DEF Mail
      <4>2. tasks' = tasks /\ deps' = deps
        BY <2>2 DEF InboxStep, taskVars
      <4> QED BY <3>1, <4>1, <4>2 DEF Redact
    <3> QED BY <2>1, <2>2, <3>1
      DEF InboxStep, InboxNext, Register, SetAgent, ListInbox, MarkRead, taskVars
  <2>3. CASE MessageStep
    <3>1. PICK m, to, t : /\ t \in Ids(tasks) \cup {NoTask}
                          /\ mail' = mail \cup {NewMail(m, to, t)}
                          /\ tasks' = tasks /\ deps' = deps
      BY <2>3 DEF MessageStep, SendMessage, Send, taskVars
    <3>2. NewMail(m, to, t).task = t
      BY DEF NewMail
    <3> QED BY <3>1, <3>2
  <2>4. CASE TaskStep
    <3>1. ASSUME NEW by \in Agents, NEW t \in Tasks, CreateTask(by, t) PROVE Resolves(Live)'
      BY <3>1 DEF CreateTask, TaskWrite, Ids
    <3>2. ASSUME NEW by \in Agents, NEW row \in tasks, FinishTask(by, row) \/ EditTask(by, row)
          PROVE  Resolves(Live)'
      <4>1. /\ [row EXCEPT !.done = TRUE].id = row.id
            /\ [row EXCEPT !.edition = @ + 1].id = row.id
        BY DEF TaskRow
      <4>2. Ids(tasks') = Ids(tasks)
        <5>1. \E new : new.id = row.id /\ tasks' = (tasks \ {row}) \cup {new}
          BY <3>2, <4>1 DEF FinishTask, EditTask
        <5> QED BY <3>2, <5>1, RewrittenIds
      <4>3. deps' = deps /\ mail' = mail
        BY <3>2 DEF FinishTask, EditTask, TaskWrite
      <4> QED BY <4>2, <4>3
    <3>3. ASSUME NEW by \in Agents, NEW t \in Tasks, NEW u \in Tasks, AddDependency(by, t, u)
          PROVE  Resolves(Live)'
      BY <3>3 DEF AddDependency, TaskWrite
    <3> QED BY <2>4, <3>1, <3>2, <3>3 DEF TaskStep
  <2>5. CASE ArchiveStep
    BY <2>1, <2>5, DeletionResolves DEF ArchiveStep, Select, Publish, Refused, Crash, inboxVars, taskVars
  <2>6. CASE UNCHANGED archiveVars
    BY <2>1, <2>6 DEF archiveVars, inboxVars, taskVars
  <2> QED BY <2>2, <2>3, <2>4, <2>5, <2>6 DEF ArchiveNext
<1> QED BY <1>2, <1>3 DEF ReferencesResolve

-----------------------------------------------------------------------------
\* A run under way.

\* The send the selection compares with the cursors is the row's own.
LEMMA LastSendIsOwn ==
  ASSUME ArchiveTypeOK, Ledgered, NEW row \in mail
  PROVE  LastSend(row.id) = row.at
<1>1. row.at \in SendIds(row.id) /\ \A n \in SendIds(row.id) : row.at >= n
  BY DEF Ledgered, ArchiveTypeOK, InboxTypeOK, SendIds, AuditIds
<1>2. SendIds(row.id) \subseteq Nat
  BY InboxAssumption DEF ArchiveTypeOK, InboxTypeOK, SendIds, AuditIds
<1> QED BY <1>1, <1>2 DEF LastSend, Max

LEMMA RunHoldsStep ==
  ASSUME ArchiveTypeOK, Ledgered, RunHolds, [ArchiveNext]_archiveVars
  PROVE  RunHolds'
<1> USE DEF ArchiveTypeOK, InboxTypeOK
<1>1. CASE run' = Idle
  BY <1>1 DEF RunHolds, Idle
<1>2. ASSUME NEW by \in Agents, NEW old \in SUBSET (Tasks \cup Messages), Select(by, old)
      PROVE  RunHolds'
  <2>1. run'.phase = "selected" /\ run'.mail = EligibleMessages(old)
    BY <1>2 DEF Select
  <2>2. \A row \in mail, a \in Active : row.id \in EligibleMessages(old) => row.at <= cursor[a]
    BY LastSendIsOwn DEF EligibleMessages
  <2>3. UNCHANGED <<mail, agentStatus, cursor>>
    BY <1>2 DEF Select, inboxVars
  <2> QED BY <2>1, <2>2, <2>3 DEF RunHolds, Active
<1>3. CASE Publish
  <2>1. UNCHANGED <<mail, agentStatus, cursor, tasks, deps>>
    BY <1>3 DEF Publish, inboxVars, taskVars
  <2>2. run'.phase = "published" /\ run'.tasks = run.tasks /\ run'.mail = run.mail
    BY <1>3 DEF Publish
  <2>3. Copy' = Copy
    BY <2>1, <2>2 DEF Copy
  <2> QED BY <1>3, <2>1, <2>2, <2>3 DEF RunHolds, Publish, Active
<1>4. CASE UNCHANGED archiveVars
  BY <1>4 DEF RunHolds, Copy, Active, archiveVars, inboxVars, taskVars
<1>5. CASE InboxStep \/ MessageStep \/ TaskStep
  BY <1>1, <1>5
    DEF InboxStep, MessageStep, SendMessage, TaskStep, CreateTask, FinishTask, EditTask,
        AddDependency, TaskWrite, Admitted
<1>6. CASE ArchiveStep
  BY <1>1, <1>2, <1>3, <1>6 DEF ArchiveStep, Delete, Refused, Crash
<1> QED BY <1>4, <1>5, <1>6 DEF ArchiveNext

-----------------------------------------------------------------------------
\* The invariant and what follows from it.

\* The inductive invariant behind the properties below.
THEOREM ArchiveInvariant == ArchiveSpec => []ArchiveInv
<1>1. ArchiveInit => ArchiveInv
  <2> SUFFICES ASSUME ArchiveInit PROVE ArchiveInv
    OBVIOUS
  <2>1. ArchiveTypeOK
    BY TypesAtStart
  <2>2. Ledgered /\ Told /\ RunHolds
    BY InboxAssumption DEF ArchiveInit, InboxInit, Ledgered, Told, NothingPassedOver, RunHolds, Idle
  <2>3. ReferencesResolve
    BY DEF ArchiveInit, InboxInit, ReferencesResolve, Resolves, Live
  <2> QED BY <2>1, <2>2, <2>3 DEF ArchiveInv
<1>2. ArchiveInv /\ [ArchiveNext]_archiveVars => ArchiveInv'
  BY TypesStep, LedgeredStep, ToldStep, ResolvesStep, RunHoldsStep DEF ArchiveInv
<1> QED BY <1>1, <1>2, PTL DEF ArchiveSpec

\* No message that is still there lies behind a cursor unlisted.
THEOREM NothingSkipped == ArchiveSpec => []NothingPassedOver
<1>1. ArchiveInv => NothingPassedOver
  BY DEF ArchiveInv, Told
<1> QED BY <1>1, ArchiveInvariant, PTL

\* The live database and every archive file contain what they refer to.
THEOREM ReferencesStand == ArchiveSpec => []ReferencesResolve
<1>1. ArchiveInv => ReferencesResolve
  BY DEF ArchiveInv
<1> QED BY <1>1, ArchiveInvariant, PTL

\* Only a deletion removes rows.
LEMMA OnlyDeleteRemoves ==
  ASSUME ArchiveTypeOK, [ArchiveNext]_archiveVars, ~ \E by \in Agents : Delete(by)
  PROVE  Ids(tasks) \subseteq Ids(tasks') /\ Ids(mail) \subseteq Ids(mail')
<1> USE DEF ArchiveTypeOK, InboxTypeOK, Ids
<1>1. ASSUME NEW a \in Agents, NEW row \in mail, Redact(a, row) PROVE Ids(mail) \subseteq Ids(mail')
  <2>1. [row EXCEPT !.redacted = TRUE].id = row.id
    BY DEF Mail
  <2> QED BY <1>1, <2>1 DEF Redact
<1>2. CASE InboxStep
  BY <1>1, <1>2
    DEF InboxStep, InboxNext, Register, SetAgent, ListInbox, MarkRead, taskVars
<1>3. CASE MessageStep
  BY <1>3 DEF MessageStep, SendMessage, Send, taskVars
<1>4. CASE TaskStep
  <2>1. ASSUME NEW by \in Agents, NEW row \in tasks, FinishTask(by, row) \/ EditTask(by, row)
        PROVE  Ids(tasks) \subseteq Ids(tasks')
    <3>1. /\ [row EXCEPT !.done = TRUE].id = row.id
          /\ [row EXCEPT !.edition = @ + 1].id = row.id
      BY DEF TaskRow
    <3> QED BY <2>1, <3>1 DEF FinishTask, EditTask
  <2> QED BY <1>4, <2>1
    DEF TaskStep, CreateTask, FinishTask, EditTask, AddDependency, TaskWrite
<1>5. CASE ArchiveStep
  BY <1>5 DEF ArchiveStep, Select, Publish, Refused, Crash, inboxVars, taskVars
<1>6. CASE UNCHANGED archiveVars
  BY <1>6 DEF archiveVars, inboxVars, taskVars
<1> QED BY <1>2, <1>3, <1>4, <1>5, <1>6 DEF ArchiveNext

\* A row that leaves the live database is in an archive file as it last was.
THEOREM RowsStay == ArchiveSpec => RowsLeaveArchived
<1>1. ArchiveInv /\ [ArchiveNext]_archiveVars => [ArchivedRowsOnly]_archiveVars
  <2> SUFFICES ASSUME ArchiveInv, [ArchiveNext]_archiveVars PROVE ArchivedRowsOnly
    OBVIOUS
  <2>1. ASSUME NEW by \in Agents, Delete(by) PROVE ArchivedRowsOnly
    <3>1. Copy \in files
      BY <2>1 DEF Delete, ArchiveInv, RunHolds
    <3>2. ASSUME NEW row \in tasks, row.id \notin Ids(tasks') PROVE row \in Copy.tasks
      BY <2>1, <3>2 DEF Delete, Ids, Copy
    <3>3. ASSUME NEW row \in mail, row.id \notin Ids(mail')
          PROVE  row \in Copy.mail \/ [row EXCEPT !.task = NoTask] \in Copy.mail
      <4>1. Detached(row, run.tasks).id = row.id
        BY DEF Detached, ArchiveInv, ArchiveTypeOK, InboxTypeOK, Mail
      <4>2. row.id \in run.mail
        BY <2>1, <3>3, <4>1 DEF Delete, Ids
      <4> QED BY <4>2 DEF Copy, Detached
    <3> QED BY <3>1, <3>2, <3>3 DEF ArchivedRowsOnly, Copied
  <2>2. CASE ~ \E by \in Agents : Delete(by)
    BY <2>2, OnlyDeleteRemoves DEF ArchivedRowsOnly, ArchiveInv, Ids
  <2> QED BY <2>1, <2>2
<1> QED BY <1>1, ArchiveInvariant, PTL DEF ArchiveSpec, RowsLeaveArchived

\* A message is removed only when every active agent it is addressed to has
\* been listed it, or registered after it was sent, or itself marked past it
\* when no listing covered it.
THEOREM ReadFirst == ArchiveSpec => ReadBeforeRemoved
<1>1. ArchiveInv /\ [ArchiveNext]_archiveVars => [ReadRowsOnly]_archiveVars
  <2> SUFFICES ASSUME ArchiveInv, [ArchiveNext]_archiveVars, NEW row \in mail, NEW a \in Active,
                      AddressedTo(row, a), row.id \notin Ids(mail')
               PROVE  row.at \in heard[a] \cup skipped[a] \/ row.at <= joined[a]
    BY DEF ReadRowsOnly
  <2>1. PICK by \in Agents : Delete(by)
    BY OnlyDeleteRemoves DEF ArchiveInv, Ids
  <2>2. row.id \in run.mail
    <3>1. Detached(row, run.tasks).id = row.id
      BY DEF Detached, ArchiveInv, ArchiveTypeOK, InboxTypeOK, Mail
    <3> QED BY <2>1, <3>1 DEF Delete, Ids
  <2>3. row.at <= cursor[a]
    BY <2>1, <2>2 DEF Delete, ArchiveInv, RunHolds
  <2>4. row.at \in Nat /\ joined[a] \in Nat /\ a \in Agents
    BY InboxAssumption DEF ArchiveInv, ArchiveTypeOK, InboxTypeOK, Mail, AuditIds, Active
  <2> QED BY <2>3, <2>4 DEF ArchiveInv, Told, NothingPassedOver
<1> QED BY <1>1, ArchiveInvariant, PTL DEF ArchiveSpec, ReadBeforeRemoved
=============================================================================

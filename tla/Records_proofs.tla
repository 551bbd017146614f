--------------------------- MODULE Records_proofs ---------------------------
(***************************************************************************)
(* Theorems of Records, for any records, statuses and texts and any bounds.*)
(*                                                                         *)
(* Every operation but a redaction writes one record and one audit row     *)
(* (WritesOne); the invariants are shown for such a write, for a redaction *)
(* and for the passing of time.                                            *)
(***************************************************************************)
EXTENDS Records, SequenceTheorems, TLAPS

\* What an operation that is not a redaction does: record o becomes row, audit
\* row a is appended.
WritesOne(o, row, a) ==
  /\ Room
  /\ record' = [record EXCEPT ![o] = row]
  /\ past' = Append(past, record')
  /\ audit' = Append(audit, a)
  /\ clock' = clock

\* What is known of the row it writes and of the audit row that tells of it.
Accounted(o, row, a) ==
  /\ a.object = o /\ a.by = 0 /\ a.at = clock
  /\ a.action \in {"create", "status", "update", "resolve"}
  /\ a.action = "create" <=> ~Present(o)
  /\ a.detail \in References \cup {NoReference}
  /\ a.detail \in References => Present(a.detail)
  /\ row.status # "absent" /\ row.updated <= clock
  /\ Present(o) => a.changes = ChangedFields(o, row)

\* What is known besides of an escalation, open until it is resolved.
Resolves(o, row, a) ==
  /\ a.action = "resolve" => o \in Escalations
  /\ a.action = "resolve" /\ a.named = "open" => record[o].status = "open"
  /\ o \in Escalations /\ Present(o) => row.status # "open"

Named == Statuses \cup EscalationStatuses \cup {AnyStatus}

\* The change rows of a record that is there are well formed.
LEMMA ChangedType ==
  ASSUME RecordsTypeOK, NEW o \in Objects, Present(o), NEW row \in Row, row.status # "absent"
  PROVE  ChangedFields(o, row) \in SUBSET Changes
<1>1. record[o] \in Row
  BY DEF RecordsTypeOK
<1>2. \A f \in Fields : record[o][f] \in Values /\ row[f] \in Values
  BY <1>1 DEF Row, Values, Fields, Present
<1>3. QED
  BY <1>2 DEF ChangedFields, Changes

\* A new audit row is well formed.
LEMMA NewAuditType ==
  ASSUME RecordsTypeOK, NEW action \in {"create", "status", "update", "resolve", "redact"},
         NEW o \in Objects \cup AuditIds, NEW detail \in References \cup {NoReference},
         NEW changes \in SUBSET Changes, NEW named \in Named, NEW entered
  PROVE  NewAudit(action, o, detail, changes, named, entered) \in AuditRow
  BY RecordsAssumption DEF NewAudit, AuditRow, AuditStamp, RecordsTypeOK, Named

\* Each creation writes one record and accounts for it.
LEMMA CreateShape ==
  ASSUME RecordsTypeOK, NEW o \in Objects, NEW row \in Row, NEW entered,
         row.status # "absent", row.updated <= clock, Create(o, row, entered)
  PROVE  \E a \in AuditRow : WritesOne(o, row, a) /\ Accounted(o, row, a) /\ Resolves(o, row, a)
<1> DEFINE a == NewAudit("create", o, NoReference, {}, AnyStatus, entered)
<1>1. a \in AuditRow
  BY NewAuditType DEF Named
<1>2. /\ a.object = o /\ a.by = 0 /\ a.at = clock /\ a.action = "create"
      /\ a.detail = NoReference
  BY DEF NewAudit, AuditStamp
<1>3. WritesOne(o, row, a)
  BY DEF Create, Put, WritesOne
<1>4. Accounted(o, row, a) /\ Resolves(o, row, a)
  <2> HIDE DEF a
  <2>1. ~Present(o)
    BY DEF Create
  <2>2. QED
    BY <1>2, <2>1, RecordsAssumption DEF Accounted, Resolves
<1>5. QED
  BY <1>1, <1>3, <1>4

\* Each change of a record writes it and accounts for it.
LEMMA ChangeShape ==
  ASSUME RecordsTypeOK, NEW o \in Objects, NEW row \in Row, NEW entered, Room,
         NEW action \in {"status", "update", "resolve"},
         NEW because \in References \cup {NoReference}, NEW named \in Named,
         Present(o), Resolvable(because), AsNamed(o, named),
         row.status # "absent", row.updated <= clock,
         action = "resolve" => o \in Escalations,
         o \in Escalations => row.status # "open",
         Change(action, o, row, because, named, entered)
  PROVE  \E a \in AuditRow : WritesOne(o, row, a) /\ Accounted(o, row, a) /\ Resolves(o, row, a)
<1> DEFINE a == NewAudit(action, o, because, ChangedFields(o, row), named, entered)
<1>1. a \in AuditRow
  BY NewAuditType, ChangedType
<1>2. /\ a.object = o /\ a.by = 0 /\ a.at = clock /\ a.action = action
      /\ a.detail = because /\ a.changes = ChangedFields(o, row) /\ a.named = named
  BY DEF NewAudit, AuditStamp
<1>3. WritesOne(o, row, a)
  BY DEF Change, Put, WritesOne
<1>4. Accounted(o, row, a) /\ Resolves(o, row, a)
  <2> HIDE DEF a
  <2>1. because \in References => Present(because)
    BY RecordsAssumption DEF Resolvable
  <2>2. named = "open" => record[o].status = "open"
    BY RecordsAssumption DEF AsNamed, EscalationStatuses
  <2>3. QED
    BY <1>2, <2>1, <2>2 DEF Accounted, Resolves
<1>5. QED
  BY <1>1, <1>3, <1>4

-----------------------------------------------------------------------------

\* The row a well-formed record becomes is well formed.
LEMMA ChangedRowType ==
  ASSUME RecordsTypeOK, NEW o \in Objects, NEW status \in Statuses \cup EscalationStatuses,
         NEW text \in Texts, NEW at \in 0 .. clock
  PROVE  /\ [record[o] EXCEPT !.status = status, !.updated = at] \in Row
         /\ [record[o] EXCEPT !.text = text, !.updated = at] \in Row
         /\ [record[o] EXCEPT !.status = status, !.text = text, !.updated = at] \in Row
<1>1. record[o] \in Row /\ at \in 0 .. MaxClock
  BY RecordsAssumption DEF RecordsTypeOK
<1>2. QED
  BY <1>1 DEF Row

\* What every step does.
LEMMA StepShape ==
  ASSUME RecordsTypeOK, RecordsNext
  PROVE  \/ Tick
         \/ \E o \in Objects, row \in Row, a \in AuditRow :
              WritesOne(o, row, a) /\ Accounted(o, row, a) /\ Resolves(o, row, a)
         \/ \E n \in 1 .. Len(audit), entered \in 0 .. clock : Redact(n, entered)
<1> SUFFICES ASSUME NEW entered \in 0 .. clock, Operation(entered)
             PROVE  \/ \E o \in Objects, row \in Row, a \in AuditRow :
                         WritesOne(o, row, a) /\ Accounted(o, row, a) /\ Resolves(o, row, a)
                    \/ \E n \in 1 .. Len(audit) : Redact(n, entered)
  BY DEF RecordsNext
<1> DEFINE Written == \E o \in Objects, row \in Row, a \in AuditRow :
                         WritesOne(o, row, a) /\ Accounted(o, row, a) /\ Resolves(o, row, a)
<1>0. clock \in 0 .. MaxClock /\ MaxClock \in Nat /\ entered <= clock /\ entered \in 0 .. MaxClock
  BY RecordsAssumption DEF RecordsTypeOK
<1>1. ASSUME NEW o \in Objects, NEW status \in Statuses, NEW uri \in Texts,
             AddArtifact(o, status, uri, entered)
      PROVE  Written
  <2> DEFINE row == [status |-> status, text |-> uri, updated |-> entered]
  <2>1. row \in Row /\ row.status # "absent" /\ row.updated <= clock
    BY <1>0, RecordsAssumption DEF Row
  <2>2. Create(o, row, entered)
    BY <1>1 DEF AddArtifact
  <2>3. QED
    BY <2>1, <2>2, CreateShape
<1>2. ASSUME NEW o \in Objects, NEW status \in Statuses, AddDecision(o, status, entered)
      PROVE  Written
  <2> DEFINE row == [status |-> status, text |-> NoText, updated |-> entered]
  <2>1. row \in Row /\ row.status # "absent" /\ row.updated <= clock
    BY <1>0, RecordsAssumption DEF Row
  <2>2. Create(o, row, entered)
    BY <1>2 DEF AddDecision
  <2>3. QED
    BY <2>1, <2>2, CreateShape
<1>3. ASSUME NEW o \in Objects, AddEscalation(o, entered)
      PROVE  Written
  <2> DEFINE row == [status |-> "open", text |-> NoText, updated |-> entered]
  <2>1. row \in Row /\ row.status # "absent" /\ row.updated <= clock
    BY <1>0 DEF Row, EscalationStatuses
  <2>2. Create(o, row, entered)
    BY <1>3 DEF AddEscalation
  <2>3. QED
    BY <2>1, <2>2, CreateShape
<1>4. ASSUME NEW o \in Objects, AddReview(o, entered)
      PROVE  Written
  <2> DEFINE row == [status |-> "created", text |-> NoText, updated |-> 0]
  <2>1. row \in Row /\ row.status # "absent" /\ row.updated <= clock
    BY <1>0 DEF Row
  <2>2. Create(o, row, entered)
    BY <1>4 DEF AddReview
  <2>3. QED
    BY <2>1, <2>2, CreateShape
<1>5. ASSUME NEW o \in Objects, NEW named \in Named, NEW uri \in Texts,
             UpdateArtifact(o, uri, named, entered)
      PROVE  Written
  <2> DEFINE row == [record[o] EXCEPT !.text = uri, !.updated = entered]
  <2>0. record[o] \in Row /\ Present(o) /\ o \in Artifacts
    BY <1>5 DEF RecordsTypeOK, UpdateArtifact
  <2>1. row \in Row
    BY <1>0, <2>0 DEF Row
  <2>2. row.status # "absent" /\ row.updated <= clock
    BY <1>0, <2>0 DEF Row, Present
  <2>3. o \notin Escalations
    BY <2>0, RecordsAssumption
  <2>4. Change("update", o, row, NoReference, named, entered) /\ Room /\ AsNamed(o, named)
    BY <1>5 DEF UpdateArtifact
  <2>5. Resolvable(NoReference)
    BY DEF Resolvable
  <2> HIDE DEF row
  <2>6. QED
    BY <2>0, <2>1, <2>2, <2>3, <2>4, <2>5, ChangeShape
<1>6. ASSUME NEW o \in Objects, NEW named \in Named, NEW because \in References \cup {NoReference},
             NEW status \in Statuses,
             SetArtifactStatus(o, status, named, because, entered)
               \/ SetDecisionStatus(o, status, named, because, entered)
      PROVE  Written
  <2> DEFINE row == [record[o] EXCEPT !.status = status, !.updated = clock]
  <2>0. record[o] \in Row /\ Present(o) /\ o \in Artifacts \cup Decisions
    BY <1>6 DEF RecordsTypeOK, SetArtifactStatus, SetDecisionStatus
  <2>1. row \in Row
    BY <1>0, <2>0 DEF Row
  <2>2. row.status # "absent" /\ row.updated <= clock
    BY <1>0, <2>0, RecordsAssumption DEF Row
  <2>3. o \notin Escalations
    BY <2>0, RecordsAssumption
  <2>4. Change("status", o, row, because, named, entered) /\ Room /\ AsNamed(o, named)
          /\ Resolvable(because)
    BY <1>6 DEF SetArtifactStatus, SetDecisionStatus
  <2> HIDE DEF row
  <2>5. QED
    BY <2>0, <2>1, <2>2, <2>3, <2>4, ChangeShape
<1>7. ASSUME NEW o \in Objects, NEW named \in Named, NEW because \in References \cup {NoReference},
             NEW status \in {"resolved", "closed_no_action"}, NEW text \in Texts,
             ResolveEscalation(o, status, text, named, because, entered)
      PROVE  Written
  <2> DEFINE row == [record[o] EXCEPT !.status = status, !.text = text, !.updated = clock]
  <2>0. record[o] \in Row /\ Present(o) /\ o \in Escalations
    BY <1>7 DEF RecordsTypeOK, ResolveEscalation
  <2>1. row \in Row
    BY <1>0, <2>0 DEF Row, EscalationStatuses
  <2>2. row.status # "absent" /\ row.updated <= clock /\ row.status # "open"
    BY <1>0, <2>0 DEF Row
  <2>3. Change("resolve", o, row, because, named, entered) /\ Room /\ AsNamed(o, named)
          /\ Resolvable(because)
    BY <1>7 DEF ResolveEscalation
  <2> HIDE DEF row
  <2>4. QED
    BY <2>0, <2>1, <2>2, <2>3, ChangeShape
<1>8. ASSUME NEW n \in AuditIds, Redact(n, entered)
      PROVE  n \in 1 .. Len(audit)
  BY <1>8 DEF Redact
<1>9. QED
  <2> HIDE DEF Written
  <2>1. Written \/ \E n \in 1 .. Len(audit) : Redact(n, entered)
    BY <1>1, <1>2, <1>3, <1>4, <1>5, <1>6, <1>7, <1>8 DEF Operation, Named
  <2>2. QED
    BY <2>1 DEF Written

\* What a write leaves of the rows before it.
LEMMA WriteFacts ==
  ASSUME RecordsTypeOK, NEW o \in Objects, NEW row \in Row, NEW a \in AuditRow,
         WritesOne(o, row, a)
  PROVE  /\ Len(audit) \in Nat /\ Len(audit') = Len(audit) + 1
         /\ audit' \in Seq(AuditRow) /\ audit'[Len(audit) + 1] = a
         /\ \A n \in 1 .. Len(audit) : audit'[n] = audit[n]
         /\ record' \in [Objects -> Row] /\ record'[o] = row
         /\ \A p \in Objects \ {o} : record'[p] = record[p]
         /\ past' \in Seq([Objects -> Row]) /\ Len(past') = Len(audit')
         /\ past'[Len(audit) + 1] = record'
         /\ \A n \in 1 .. Len(audit) : past'[n] = past[n]
<1>1. record' \in [Objects -> Row]
  BY DEF WritesOne, RecordsTypeOK
<1>2. audit \in Seq(AuditRow) /\ past \in Seq([Objects -> Row]) /\ Len(past) = Len(audit)
  BY DEF RecordsTypeOK
<1>3. /\ Len(audit') = Len(audit) + 1 /\ audit' \in Seq(AuditRow) /\ audit'[Len(audit) + 1] = a
      /\ \A n \in 1 .. Len(audit) : audit'[n] = audit[n]
  BY <1>2, AppendProperties DEF WritesOne
<1>4. /\ Len(past') = Len(past) + 1 /\ past' \in Seq([Objects -> Row])
      /\ past'[Len(past) + 1] = record' /\ \A n \in 1 .. Len(past) : past'[n] = past[n]
  BY <1>1, <1>2, AppendProperties DEF WritesOne
<1>5. record'[o] = row /\ \A p \in Objects \ {o} : record'[p] = record[p]
  BY DEF WritesOne, RecordsTypeOK
<1>6. Len(audit) \in Nat
  BY <1>2, LenProperties
<1>7. QED
  BY <1>1, <1>2, <1>3, <1>4, <1>5, <1>6

\* What a redaction leaves of the rows before it.
LEMMA RedactFacts ==
  ASSUME RecordsTypeOK, NEW n \in 1 .. Len(audit), NEW entered \in 0 .. clock, Redact(n, entered)
  PROVE  /\ Len(audit) \in Nat /\ Len(audit') = Len(audit) + 1
         /\ audit' \in Seq(AuditRow)
         /\ audit'[Len(audit) + 1] = NewAudit("redact", n, NoReference, {}, AnyStatus, entered)
         /\ audit'[n] = Tombstone(audit[n], Len(audit) + 1)
         /\ \A m \in 1 .. Len(audit) : m # n => audit'[m] = audit[m]
         /\ record' = record
         /\ past' \in Seq([Objects -> Row]) /\ Len(past') = Len(audit')
         /\ past'[Len(audit) + 1] = record
         /\ \A m \in 1 .. Len(audit) : past'[m] = past[m]
<1> DEFINE stone == Tombstone(audit[n], Len(audit) + 1)
           told == NewAudit("redact", n, NoReference, {}, AnyStatus, entered)
           withheld == [audit EXCEPT ![n] = stone]
<1>1. /\ audit \in Seq(AuditRow) /\ past \in Seq([Objects -> Row]) /\ Len(past) = Len(audit)
      /\ record \in [Objects -> Row] /\ Len(audit) \in Nat /\ Len(audit) + 1 \in AuditIds
      /\ n \in AuditIds
  BY LenProperties, RecordsAssumption DEF RecordsTypeOK, Redact, Room, AuditIds
<1>2. stone \in AuditRow
  <2>1. audit[n] \in AuditRow
    BY <1>1, ElementOfSeq
  <2>2. {[field |-> c.field, old |-> Sentinel, new |-> Sentinel] : c \in audit[n].changes}
          \in SUBSET Changes
    BY <2>1 DEF AuditRow, Changes, Values
  <2>3. Len(audit) + 1 \in 0 .. MaxAudit
    BY <1>1, RecordsAssumption DEF AuditIds
  <2>4. QED
    BY <2>1, <2>2, <2>3 DEF Tombstone, AuditRow
<1>3. told \in AuditRow
  BY <1>1, NewAuditType DEF Named
<1>4. /\ withheld \in Seq(AuditRow) /\ Len(withheld) = Len(audit) /\ withheld[n] = stone
      /\ \A m \in 1 .. Len(audit) : m # n => withheld[m] = audit[m]
  BY <1>1, <1>2, ExceptSeq
<1>5. audit' = Append(withheld, told) /\ past' = Append(past, record) /\ record' = record
  BY DEF Redact
<1> HIDE DEF stone, told, withheld
<1>6. /\ audit' \in Seq(AuditRow) /\ Len(audit') = Len(audit) + 1 /\ audit'[Len(audit) + 1] = told
      /\ \A m \in 1 .. Len(audit) : audit'[m] = withheld[m]
  BY <1>3, <1>4, <1>5, AppendProperties
<1>7. /\ past' \in Seq([Objects -> Row]) /\ Len(past') = Len(past) + 1
      /\ past'[Len(past) + 1] = record /\ \A m \in 1 .. Len(past) : past'[m] = past[m]
  BY <1>1, <1>5, AppendProperties
<1>8. QED
  BY <1>1, <1>4, <1>5, <1>6, <1>7 DEF stone, told

-----------------------------------------------------------------------------

\* Strengthenings.  What is on record was created; what was on record still is;
\* an escalation that someone resolved as open is open no longer; only a tombstone
\* names a redaction.
Created ==
  \A o \in Objects : Present(o) =>
    \E m \in 1 .. Len(audit) : audit[m].action = "create" /\ audit[m].object = o

Kept ==
  \A n \in 1 .. Len(audit), o \in Objects : past[n][o].status # "absent" => Present(o)

Unmarked == \A n \in 1 .. Len(audit) : ~IsTombstone(audit[n]) => audit[n].by = 0

Settled ==
  \A n \in 1 .. Len(audit) :
    audit[n].action = "resolve" /\ audit[n].named = "open" =>
      /\ audit[n].object \in Escalations
      /\ Present(audit[n].object) /\ record[audit[n].object].status # "open"

Trail ==
  /\ RecordsTypeOK /\ Created /\ Settled /\ Kept /\ Unmarked
  /\ CausesCameFirst /\ TombstonesResolve /\ NoOutOfBandFindings
  /\ OpenResolvedOnce /\ ChangesRebuildPast

LEMMA TrailInit == RecordsInit => Trail
<1> SUFFICES ASSUME RecordsInit PROVE Trail
  OBVIOUS
<1>1. audit = << >> /\ past = << >> /\ Len(audit) = 0 /\ 1 .. 0 = {}
  BY DEF RecordsInit
<1>2. RecordsTypeOK
  <2>1. Absent \in Row
    BY RecordsAssumption DEF Absent, Row
  <2>2. audit \in Seq(AuditRow) /\ past \in Seq([Objects -> Row])
    BY <1>1
  <2>3. QED
    BY <1>1, <2>1, <2>2, RecordsAssumption DEF RecordsTypeOK, RecordsInit
<1>3. \A o \in Objects : ~Present(o)
  BY DEF RecordsInit, Absent, Present
<1>4. Created /\ Settled /\ Kept /\ Unmarked /\ CausesCameFirst /\ TombstonesResolve /\ OpenResolvedOnce
        /\ ChangesRebuildPast
  BY <1>1, <1>3 DEF Created, Settled, Kept, Unmarked, CausesCameFirst, TombstonesResolve, OpenResolvedOnce,
       ChangesRebuildPast
<1>5. NoOutOfBandFindings
  BY <1>3 DEF NoOutOfBandFindings
<1>6. QED
  BY <1>2, <1>4, <1>5 DEF Trail

LEMMA TrailWrite ==
  ASSUME Trail, NEW o \in Objects, NEW row \in Row, NEW a \in AuditRow,
         WritesOne(o, row, a), Accounted(o, row, a), Resolves(o, row, a)
  PROVE  Trail'
<1> USE DEF Trail
<1> DEFINE last == Len(audit) + 1
<1>0. /\ last \in Nat /\ Len(audit) \in Nat /\ Len(audit') = last /\ audit'[last] = a
      /\ last \in 1 .. Len(audit')
      /\ \A n \in 1 .. Len(audit) : audit'[n] = audit[n] /\ n \in 1 .. Len(audit')
      /\ \A n \in 1 .. Len(audit') : n \in 1 .. Len(audit) \/ n = last
      /\ record'[o] = row /\ \A p \in Objects \ {o} : record'[p] = record[p]
      /\ past'[last] = record' /\ \A n \in 1 .. Len(audit) : past'[n] = past[n]
  BY WriteFacts
<1> HIDE DEF last
<1>1. RecordsTypeOK'
  <2>1. Len(audit') <= MaxAudit
    BY <1>0, RecordsAssumption DEF WritesOne, Room, last
  <2>2. QED
    BY <2>1, WriteFacts DEF WritesOne, RecordsTypeOK
<1>2. \A p \in Objects : Present(p) => Present(p)'
  BY <1>0 DEF Present, Accounted
<1>3. Created'
  <2> SUFFICES ASSUME NEW p \in Objects, Present(p)'
               PROVE  \E m \in 1 .. Len(audit') : audit'[m].action = "create" /\ audit'[m].object = p
    BY DEF Created
  <2>1. CASE Present(p)
    BY <1>0, <2>1 DEF Created
  <2>2. CASE ~Present(p)
    <3>1. p = o
      BY <1>0, <2>2 DEF Present
    <3>2. QED
      BY <1>0, <2>2, <3>1 DEF Accounted
  <2>3. QED
    BY <2>1, <2>2
<1>4. Settled'
  <2> SUFFICES ASSUME NEW n \in 1 .. Len(audit'), audit'[n].action = "resolve", audit'[n].named = "open"
               PROVE  /\ audit'[n].object \in Escalations
                      /\ Present(audit[n].object)'
                      /\ record'[audit'[n].object].status # "open"
    BY DEF Settled
  <2>0. Escalations \subseteq Objects
    BY DEF Objects
  <2>1. CASE n \in 1 .. Len(audit)
    <3>1. /\ audit'[n] = audit[n] /\ audit[n].object \in Escalations
          /\ Present(audit[n].object) /\ record[audit[n].object].status # "open"
      BY <1>0, <2>1 DEF Settled
    <3>2. QED
      BY <1>0, <1>2, <2>0, <3>1 DEF Resolves
  <2>2. CASE n = last
    <3>1. /\ audit'[n] = a /\ a.object = o /\ o \in Escalations /\ record[o].status = "open"
      BY <1>0, <2>2 DEF Accounted, Resolves
    <3>2. QED
      BY <1>0, <1>2, <3>1 DEF Resolves, Present
  <2>3. QED
    BY <1>0, <2>1, <2>2
<1>5. CausesCameFirst'
  <2> SUFFICES ASSUME NEW n \in 1 .. Len(audit'), audit'[n].detail \in References
               PROVE  \E m \in 1 .. n - 1 :
                        audit'[m].action = "create" /\ audit'[m].object = audit'[n].detail
    BY DEF CausesCameFirst
  <2>1. CASE n \in 1 .. Len(audit)
    <3>1. \A m \in 1 .. n - 1 : m \in 1 .. Len(audit)
      BY <1>0, <2>1
    <3>2. audit'[n] = audit[n]
      BY <1>0, <2>1
    <3>3. QED
      BY <1>0, <2>1, <3>1, <3>2 DEF CausesCameFirst
  <2>2. CASE n = last
    <3>1. Present(a.detail) /\ a.detail \in Objects /\ audit'[n] = a
      BY <1>0, <2>2 DEF Accounted, Objects, References
    <3>2. 1 .. n - 1 = 1 .. Len(audit)
      BY <1>0, <2>2 DEF last
    <3>3. QED
      BY <1>0, <3>1, <3>2 DEF Created
  <2>3. QED
    BY <1>0, <2>1, <2>2
<1>6. TombstonesResolve'
  <2> SUFFICES ASSUME NEW n \in 1 .. Len(audit'), IsTombstone(audit'[n])
               PROVE  /\ audit'[n].by \in 1 .. Len(audit')
                      /\ audit'[audit'[n].by].action = "redact" /\ audit'[audit'[n].by].object = n
                      /\ \A c \in audit'[n].changes : c.old = Sentinel /\ c.new = Sentinel
    BY DEF TombstonesResolve
  <2>1. n # last
    BY <1>0, RecordsAssumption DEF Accounted, IsTombstone
  <2>2. n \in 1 .. Len(audit) /\ audit'[n] = audit[n]
    BY <1>0, <2>1
  <2>3. QED
    BY <1>0, <2>2 DEF TombstonesResolve
<1>7. NoOutOfBandFindings'
  <2> SUFFICES ASSUME NEW p \in Objects \ Reviews, Present(p)'
               PROVE  \E n \in 1 .. Len(audit') :
                        audit'[n].object = p /\ record'[p].updated <= audit'[n].at
    BY DEF NoOutOfBandFindings, LastAuditAt
  <2>1. CASE p = o
    BY <1>0, <2>1 DEF Accounted
  <2>2. CASE p # o
    <3>1. Present(p) /\ record'[p] = record[p]
      BY <1>0, <2>2 DEF Present
    <3>2. PICK n \in 1 .. Len(audit) : audit[n].object = p /\ record[p].updated <= audit[n].at
      BY <3>1 DEF NoOutOfBandFindings, LastAuditAt
    <3>3. QED
      BY <1>0, <3>1, <3>2
  <2>3. QED
    BY <2>1, <2>2
<1>8. OpenResolvedOnce'
  <2> DEFINE AsOpen(b) == b.action = "resolve" /\ b.named = "open"
  <2>1. ASSUME NEW n \in 1 .. Len(audit), AsOpen(audit'[n]), AsOpen(audit'[last])
        PROVE  audit'[n].object # audit'[last].object
    <3>1. audit'[n] = audit[n] /\ record[audit[n].object].status # "open"
      BY <1>0, <2>1 DEF Settled
    <3>2. a.object = o /\ record[o].status = "open"
      BY <1>0, <2>1 DEF Accounted, Resolves
    <3>3. QED
      BY <1>0, <3>1, <3>2
  <2>2. ASSUME NEW n \in 1 .. Len(audit'), NEW m \in 1 .. Len(audit'), AsOpen(audit'[n]), AsOpen(audit'[m]),
               audit'[n].object = audit'[m].object
        PROVE  n = m
    <3>1. CASE n \in 1 .. Len(audit) /\ m \in 1 .. Len(audit)
      BY <1>0, <2>2, <3>1 DEF OpenResolvedOnce
    <3>2. CASE n = last \/ m = last
      BY <1>0, <2>1, <2>2, <3>2
    <3>3. QED
      BY <1>0, <3>1, <3>2
  <2>3. QED
    BY <2>2 DEF OpenResolvedOnce
<1>9. Kept'
  <2> SUFFICES ASSUME NEW n \in 1 .. Len(audit'), NEW p \in Objects, past'[n][p].status # "absent"
               PROVE  Present(p)'
    BY DEF Kept
  <2>1. CASE n \in 1 .. Len(audit)
    BY <1>0, <1>2, <2>1 DEF Kept
  <2>2. CASE n = last
    BY <1>0, <2>2 DEF Present
  <2>3. QED
    BY <1>0, <2>1, <2>2
<1>10. ChangesRebuildPast'
  <2> SUFFICES ASSUME NEW p \in Objects, NEW field \in Fields, NEW n \in 1 .. Len(audit'),
                      past'[n][p].status # "absent"
               PROVE  /\ ChangesAfter(p, field, n)' = {} => record'[p][field] = past'[n][p][field]
                      /\ \A m \in ChangesAfter(p, field, n)' :
                           (\A k \in ChangesAfter(p, field, n)' : m <= k) =>
                             \A c \in audit'[m].changes :
                               c.field = field => c.old \in {past'[n][p][field], Sentinel}
    BY DEF ChangesRebuildPast
  <2>1. CASE n = last
    <3>1. ChangesAfter(p, field, n)' = {}
      BY <1>0, <2>1 DEF ChangesAfter
    <3>2. QED
      BY <1>0, <2>1, <3>1
  <2>2. CASE n \in 1 .. Len(audit)
    <3> DEFINE later == ChangesAfter(p, field, n)
               held == past[n][p][field]
    <3>1. past'[n] = past[n] /\ past[n][p].status # "absent" /\ Present(p)
      BY <1>0, <2>2 DEF Kept
    <3>2. /\ later = {} => record[p][field] = held
          /\ \A m \in later : (\A k \in later : m <= k) =>
               \A c \in audit[m].changes : c.field = field => c.old \in {held, Sentinel}
      BY <2>2, <3>1 DEF ChangesRebuildPast
    <3>3. \A m \in 1 .. Len(audit) : m \in later' <=> m \in later
      BY <1>0, <2>2 DEF ChangesAfter
    <3>4. \A m \in later : m \in 1 .. Len(audit) /\ m < last
      BY <1>0, <2>2 DEF ChangesAfter, last
    <3>5. \A m \in later' : m \in 1 .. Len(audit) \/ m = last
      BY <1>0, <2>2 DEF ChangesAfter
    <3>6. last \in later' <=> p = o /\ \E c \in a.changes : c.field = field
      BY <1>0, <2>2 DEF ChangesAfter, Accounted, last
    <3>7. p = o => a.changes = ChangedFields(o, row)
      BY <3>1 DEF Accounted
    <3>8. p = o /\ record[o][field] # row[field] => last \in later'
      <4> DEFINE change == [field |-> field, old |-> record[o][field], new |-> row[field]]
      <4>1. record[o][field] # row[field] => change \in ChangedFields(o, row)
        BY DEF ChangedFields
      <4>2. change.field = field
        OBVIOUS
      <4> HIDE DEF change, later
      <4>3. QED
        BY <3>6, <3>7, <4>1, <4>2
    <3>9. \A c \in ChangedFields(o, row) : c.field = field => c.old = record[o][field]
      BY DEF ChangedFields
    <3> HIDE DEF later, held
    <3>10. ASSUME later' = {}
           PROVE  record'[p][field] = held
      <4>1. later = {} /\ last \notin later'
        BY <3>3, <3>4, <3>10
      <4>2. record[p][field] = held
        BY <3>2, <4>1
      <4>3. QED
        BY <1>0, <3>8, <4>1, <4>2
    <3>11. ASSUME NEW m \in later', \A k \in later' : m <= k,
                  NEW c \in audit'[m].changes, c.field = field
           PROVE  c.old \in {held, Sentinel}
      <4>1. CASE m \in 1 .. Len(audit)
        <5>1. m \in later /\ audit'[m] = audit[m] /\ \A k \in later : m <= k
          BY <1>0, <3>3, <3>4, <3>11, <4>1
        <5>2. QED
          BY <3>2, <3>11, <5>1
      <4>2. CASE m = last
        <5>1. later = {}
          <6>1. \A k \in later : last <= k /\ k < last /\ k \in Int
            BY <3>3, <3>4, <3>11, <4>2
          <6>2. QED
            BY <1>0, <6>1
        <5>2. p = o /\ c \in ChangedFields(o, row)
          BY <1>0, <3>6, <3>7, <3>11, <4>2
        <5>3. QED
          BY <3>2, <3>9, <3>11, <5>1, <5>2
      <4>3. QED
        BY <3>5, <4>1, <4>2
    <3>12. QED
      BY <3>1, <3>10, <3>11 DEF later, held
  <2>3. QED
    BY <1>0, <2>1, <2>2
<1>11. Unmarked'
  BY <1>0 DEF Unmarked, Accounted
<1>12. QED
  BY <1>1, <1>3, <1>4, <1>5, <1>6, <1>7, <1>8, <1>9, <1>10, <1>11

LEMMA TrailRedact ==
  ASSUME Trail, NEW r \in 1 .. Len(audit), NEW entered \in 0 .. clock, Redact(r, entered)
  PROVE  Trail'
<1> USE DEF Trail
<1> DEFINE last == Len(audit) + 1
           told == NewAudit("redact", r, NoReference, {}, AnyStatus, entered)
           stone == Tombstone(audit[r], last)
\* Every row keeps what it says but for its text; the new row is the redaction's.
<1>0. /\ last \in Nat /\ Len(audit) \in Nat /\ Len(audit') = last /\ audit'[last] = told
      /\ last \in 1 .. Len(audit') /\ audit'[r] = stone
      /\ \A n \in 1 .. Len(audit) : n # r => audit'[n] = audit[n]
      /\ \A n \in 1 .. Len(audit) : n \in 1 .. Len(audit') /\ n # last
      /\ \A n \in 1 .. Len(audit') : n \in 1 .. Len(audit) \/ n = last
      /\ record' = record /\ past'[last] = record
      /\ \A n \in 1 .. Len(audit) : past'[n] = past[n]
  BY RedactFacts
<1>a. /\ told.action = "redact" /\ told.object = r /\ told.detail = NoReference
      /\ told.changes = {} /\ told.by = 0
  BY DEF NewAudit
<1>b. audit[r] \in AuditRow
  BY ElementOfSeq DEF RecordsTypeOK
<1>c. /\ stone.action = audit[r].action /\ stone.object = audit[r].object
      /\ stone.named = audit[r].named /\ stone.at = audit[r].at
      /\ stone.detail = Sentinel /\ stone.by = last
      /\ stone.changes = {[field |-> c.field, old |-> Sentinel, new |-> Sentinel] :
                             c \in audit[r].changes}
  BY <1>b DEF Tombstone, AuditRow
<1>d. /\ \A c \in stone.changes : c.old = Sentinel /\ c.new = Sentinel
      /\ \A field : (\E c \in stone.changes : c.field = field)
                       <=> (\E c \in audit[r].changes : c.field = field)
  <2> DEFINE withheld(c) == [field |-> c.field, old |-> Sentinel, new |-> Sentinel]
  <2>1. \A c : withheld(c).field = c.field /\ withheld(c).old = Sentinel
                  /\ withheld(c).new = Sentinel
    OBVIOUS
  <2>2. stone.changes = {withheld(c) : c \in audit[r].changes}
    BY <1>c
  <2> HIDE DEF withheld, stone
  <2>3. QED
    BY <2>1, <2>2
<1> HIDE DEF last, told, stone
<1>e. \A n \in 1 .. Len(audit) :
        /\ audit'[n].action = audit[n].action /\ audit'[n].object = audit[n].object
        /\ audit'[n].named = audit[n].named /\ audit'[n].at = audit[n].at
        /\ \A field : (\E c \in audit'[n].changes : c.field = field)
                         <=> (\E c \in audit[n].changes : c.field = field)
  <2> SUFFICES ASSUME NEW n \in 1 .. Len(audit)
               PROVE  /\ audit'[n].action = audit[n].action /\ audit'[n].object = audit[n].object
                      /\ audit'[n].named = audit[n].named /\ audit'[n].at = audit[n].at
                      /\ \A field : (\E c \in audit'[n].changes : c.field = field)
                                       <=> (\E c \in audit[n].changes : c.field = field)
    OBVIOUS
  <2>1. CASE n = r
    BY <1>0, <1>c, <1>d, <2>1
  <2>2. CASE n # r
    <3>1. audit'[n] = audit[n]
      BY <1>0, <2>2
    <3>2. QED
      BY <3>1
  <2>3. QED
    BY <2>1, <2>2
<1>1. RecordsTypeOK'
  <2>1. Len(audit') <= MaxAudit
    BY <1>0, RecordsAssumption DEF Redact, Room, last
  <2>2. QED
    BY <2>1, RedactFacts DEF Redact, RecordsTypeOK
<1>2. \A p : Present(p)' <=> Present(p)
  BY <1>0 DEF Present
<1>3. Created'
  <2> SUFFICES ASSUME NEW p \in Objects, Present(p)
               PROVE  \E m \in 1 .. Len(audit') : audit'[m].action = "create" /\ audit'[m].object = p
    BY <1>2 DEF Created
  <2>1. PICK m \in 1 .. Len(audit) : audit[m].action = "create" /\ audit[m].object = p
    BY DEF Created
  <2>2. QED
    BY <1>0, <1>e, <2>1
<1>4. Settled'
  <2> SUFFICES ASSUME NEW n \in 1 .. Len(audit'),
                      audit'[n].action = "resolve", audit'[n].named = "open"
               PROVE  /\ audit'[n].object \in Escalations
                      /\ record[audit'[n].object].status \notin {"absent", "open"}
    BY <1>0 DEF Settled, Present
  <2>1. n \in 1 .. Len(audit)
    BY <1>0, <1>a
  <2>2. audit[n].object \in Escalations /\ record[audit[n].object].status \notin {"absent", "open"}
    BY <1>e, <2>1 DEF Settled, Present
  <2>3. QED
    BY <1>e, <2>1, <2>2
<1>5. CausesCameFirst'
  <2> SUFFICES ASSUME NEW n \in 1 .. Len(audit'), audit'[n].detail \in References
               PROVE  \E m \in 1 .. n - 1 :
                        audit'[m].action = "create" /\ audit'[m].object = audit'[n].detail
    BY DEF CausesCameFirst
  <2>1. n \in 1 .. Len(audit) /\ n # r
    BY <1>0, <1>a, <1>c, RecordsAssumption
  <2>2. PICK m \in 1 .. n - 1 : audit[m].action = "create" /\ audit[m].object = audit[n].detail
    BY <1>0, <2>1 DEF CausesCameFirst
  <2>3. m \in 1 .. Len(audit)
    BY <1>0, <2>1
  <2>4. QED
    BY <1>0, <1>e, <2>1, <2>2, <2>3
<1>6. TombstonesResolve'
  <2> SUFFICES ASSUME NEW n \in 1 .. Len(audit'), IsTombstone(audit'[n])
               PROVE  /\ audit'[n].by \in 1 .. Len(audit')
                      /\ audit'[audit'[n].by].action = "redact" /\ audit'[audit'[n].by].object = n
                      /\ \A c \in audit'[n].changes : c.old = Sentinel /\ c.new = Sentinel
    BY DEF TombstonesResolve
  <2>1. n # last
    BY <1>0, <1>a, RecordsAssumption DEF IsTombstone
  <2>2. CASE n = r
    BY <1>0, <1>a, <1>c, <1>d, <2>2
  <2>3. CASE n # r
    <3>1. n \in 1 .. Len(audit) /\ audit'[n] = audit[n]
      BY <1>0, <2>1, <2>3
    <3>2. /\ audit[n].by \in 1 .. Len(audit)
          /\ audit[audit[n].by].action = "redact" /\ audit[audit[n].by].object = n
          /\ \A c \in audit[n].changes : c.old = Sentinel /\ c.new = Sentinel
      BY <3>1 DEF TombstonesResolve
    <3>3. QED
      BY <1>0, <1>e, <3>1, <3>2
  <2>4. QED
    BY <2>2, <2>3
<1>7. NoOutOfBandFindings'
  <2> SUFFICES ASSUME NEW p \in Objects \ Reviews, Present(p)
               PROVE  \E n \in 1 .. Len(audit') :
                        audit'[n].object = p /\ record[p].updated <= audit'[n].at
    BY <1>0, <1>2 DEF NoOutOfBandFindings, LastAuditAt
  <2>1. PICK n \in 1 .. Len(audit) : audit[n].object = p /\ record[p].updated <= audit[n].at
    BY DEF NoOutOfBandFindings, LastAuditAt
  <2>2. QED
    BY <1>0, <1>e, <2>1
<1>8. OpenResolvedOnce'
  BY <1>0, <1>a, <1>e DEF OpenResolvedOnce
<1>9. Kept'
  BY <1>0, <1>2 DEF Kept, Present
<1>10. ChangesRebuildPast'
  <2> SUFFICES ASSUME NEW p \in Objects, NEW field \in Fields, NEW n \in 1 .. Len(audit'),
                      past'[n][p].status # "absent"
               PROVE  /\ ChangesAfter(p, field, n)' = {} => record'[p][field] = past'[n][p][field]
                      /\ \A m \in ChangesAfter(p, field, n)' :
                           (\A k \in ChangesAfter(p, field, n)' : m <= k) =>
                             \A c \in audit'[m].changes :
                               c.field = field => c.old \in {past'[n][p][field], Sentinel}
    BY DEF ChangesRebuildPast
  <2>1. CASE n = last
    <3>1. ChangesAfter(p, field, n)' = {}
      BY <1>0, <2>1 DEF ChangesAfter
    <3>2. QED
      BY <1>0, <2>1, <3>1
  <2>2. CASE n \in 1 .. Len(audit)
    <3>1. \A m : m \in ChangesAfter(p, field, n)' <=> m \in ChangesAfter(p, field, n)
      <4>1. last \notin ChangesAfter(p, field, n)'
        BY <1>0, <1>a DEF ChangesAfter
      <4>2. \A m \in 1 .. Len(audit) :
              m \in ChangesAfter(p, field, n)' <=> m \in ChangesAfter(p, field, n)
        <5> SUFFICES ASSUME NEW m \in 1 .. Len(audit)
                     PROVE  m \in ChangesAfter(p, field, n)' <=> m \in ChangesAfter(p, field, n)
          OBVIOUS
        <5>1. /\ audit'[m].object = audit[m].object
              /\ (\E c \in audit'[m].changes : c.field = field)
                   <=> (\E c \in audit[m].changes : c.field = field)
          BY <1>e
        <5>2. m \in n + 1 .. Len(audit') <=> m \in n + 1 .. Len(audit)
          BY <1>0, <2>2
        <5>3. QED
          BY <5>1, <5>2 DEF ChangesAfter
      <4>3. \A m : /\ m \in ChangesAfter(p, field, n) => m \in 1 .. Len(audit)
                   /\ m \in ChangesAfter(p, field, n)' => m \in 1 .. Len(audit) \/ m = last
        BY <1>0, <2>2 DEF ChangesAfter
      <4>4. QED
        BY <4>1, <4>2, <4>3
    <3>2. \A m \in ChangesAfter(p, field, n) : m \in 1 .. Len(audit)
      BY <1>0, <2>2 DEF ChangesAfter
    <3>3. past'[n] = past[n] /\ record' = record
      BY <1>0, <2>2
    <3>4. /\ ChangesAfter(p, field, n) = {} => record[p][field] = past[n][p][field]
          /\ \A m \in ChangesAfter(p, field, n) :
               (\A k \in ChangesAfter(p, field, n) : m <= k) =>
                 \A c \in audit[m].changes : c.field = field => c.old \in {past[n][p][field], Sentinel}
      BY <2>2, <3>3 DEF ChangesRebuildPast
    <3>5. \A m \in 1 .. Len(audit) : audit'[m] = audit[m] \/ \A c \in audit'[m].changes : c.old = Sentinel
      BY <1>0, <1>d
    <3>6. QED
      BY <3>1, <3>2, <3>3, <3>4, <3>5
  <2>3. QED
    BY <1>0, <2>1, <2>2
<1>11. Unmarked'
  <2> SUFFICES ASSUME NEW n \in 1 .. Len(audit'), ~IsTombstone(audit'[n])
               PROVE  audit'[n].by = 0
    BY DEF Unmarked
  <2>1. CASE n = last
    BY <1>0, <1>a, <2>1
  <2>2. CASE n # last
    <3>1. n # r /\ n \in 1 .. Len(audit)
      BY <1>0, <1>c, <2>2 DEF IsTombstone
    <3>2. audit'[n] = audit[n]
      BY <1>0, <3>1
    <3>3. QED
      BY <3>1, <3>2 DEF Unmarked
  <2>3. QED
    BY <2>1, <2>2
<1>12. QED
  BY <1>1, <1>3, <1>4, <1>5, <1>6, <1>7, <1>8, <1>9, <1>10, <1>11

\* Time and stuttering leave the trail as it is.
LEMMA TrailStill ==
  ASSUME Trail, Tick \/ UNCHANGED vars
  PROVE  Trail'
<1>1. audit' = audit /\ record' = record /\ past' = past
  BY DEF Tick, vars
<1>2. RecordsTypeOK'
  BY <1>1, RecordsAssumption DEF Trail, RecordsTypeOK, Tick, vars
<1>3. Created' /\ Settled' /\ Kept' /\ Unmarked'
  BY <1>1 DEF Trail, Created, Settled, Kept, Unmarked, Present
<1>4. CausesCameFirst' /\ TombstonesResolve' /\ OpenResolvedOnce'
  BY <1>1 DEF Trail, CausesCameFirst, TombstonesResolve, OpenResolvedOnce
<1>5. NoOutOfBandFindings'
  <2>1. ASSUME NEW o
        PROVE  LastAuditAt(o)' = LastAuditAt(o) /\ Present(o)' = Present(o)
    BY <1>1 DEF LastAuditAt, Present
  <2>2. QED
    BY <1>1, <2>1 DEF Trail, NoOutOfBandFindings
<1>6. ChangesRebuildPast'
  BY <1>1 DEF Trail, ChangesRebuildPast, ChangesAfter
<1>7. QED
  BY <1>2, <1>3, <1>4, <1>5, <1>6 DEF Trail

LEMMA TrailNext == Trail /\ [RecordsNext]_vars => Trail'
<1> SUFFICES ASSUME Trail, [RecordsNext]_vars PROVE Trail'
  OBVIOUS
<1>1. CASE UNCHANGED vars \/ Tick
  BY <1>1, TrailStill
<1>2. ASSUME NEW o \in Objects, NEW row \in Row, NEW a \in AuditRow,
             WritesOne(o, row, a), Accounted(o, row, a), Resolves(o, row, a)
      PROVE  Trail'
  BY <1>2, TrailWrite
<1>3. ASSUME NEW n \in 1 .. Len(audit), NEW entered \in 0 .. clock, Redact(n, entered)
      PROVE  Trail'
  BY <1>3, TrailRedact
<1>4. QED
  BY <1>1, <1>2, <1>3, StepShape DEF Trail

\* The inductive invariant of the records and their ledger.
THEOREM RecordsTrail == RecordsSpec => []Trail
  BY TrailInit, TrailNext, PTL DEF RecordsSpec

\* Records and audit rows keep their types: _db_helpers.audit and the tables.
THEOREM RecordsTypeCorrect == RecordsSpec => []RecordsTypeOK
  BY RecordsTrail, PTL DEF Trail

\* Whatever the operations and redactions, a reader of audit changes can go back
\* to any earlier value, unless it was redacted.
THEOREM PastRebuilt == RecordsSpec => []ChangesRebuildPast
  BY RecordsTrail, PTL DEF Trail

\* doctor finds no dangling redaction.
THEOREM NoDanglingRedaction == RecordsSpec => []TombstonesResolve
  BY RecordsTrail, PTL DEF Trail

\* doctor raises no false alarm of an out-of-band edit, however long a write
\* waited between its two stamps.
THEOREM NoFalseAlarm == RecordsSpec => []NoOutOfBandFindings
  BY RecordsTrail, PTL DEF Trail

\* A cause named with --because was on record before the row that names it.
THEOREM CausesPrecede == RecordsSpec => []CausesCameFirst
  BY RecordsTrail, PTL DEF Trail

\* escalation resolve --if-status open succeeds once for an escalation.
THEOREM OneResolution == RecordsSpec => []OpenResolvedOnce
  BY RecordsTrail, PTL DEF Trail

-----------------------------------------------------------------------------

Entries == {Entry(row) : row \in AuditRow}

\* The entries of any log of well-formed rows are a sequence.
LEMMA EntriesOf ==
  ASSUME NEW log \in Seq(AuditRow)
  PROVE  LET told == [n \in 1 .. Len(log) |-> Entry(log[n])] IN
         told \in Seq(Entries) /\ Len(told) = Len(log)
<1>1. Len(log) \in Nat
  BY LenProperties
<1>2. \A n \in 1 .. Len(log) : Entry(log[n]) \in Entries
  BY ElementOfSeq DEF Entries
<1>3. [n \in 1 .. Len(log) |-> Entry(log[n])] \in [1 .. Len(log) -> Entries]
  BY <1>2
<1>4. QED
  BY <1>1, <1>3

\* The ledger before and after a step.
LEMMA LedgerRows ==
  ASSUME Trail, Trail'
  PROVE  /\ AuditLedger \in Seq(Entries) /\ AuditLedger' \in Seq(Entries)
         /\ Len(AuditLedger) = Len(audit) /\ Len(AuditLedger') = Len(audit')
         /\ \A n \in 1 .. Len(audit) : AuditLedger[n] = Entry(audit[n])
         /\ \A n \in 1 .. Len(audit') : AuditLedger'[n] = Entry(audit'[n])
<1>1. audit \in Seq(AuditRow) /\ audit' \in Seq(AuditRow)
  BY DEF Trail, RecordsTypeOK
<1>2. AuditLedger \in Seq(Entries) /\ Len(AuditLedger) = Len(audit)
  BY <1>1, EntriesOf DEF AuditLedger
<1>3. AuditLedger' \in Seq(Entries) /\ Len(AuditLedger') = Len(audit')
  BY <1>1, EntriesOf DEF AuditLedger
<1>4. QED
  BY <1>2, <1>3 DEF AuditLedger

\* A row without a tombstone is readable in the ledger.
LEMMA ReadableEntry ==
  ASSUME NEW row, row.detail # Sentinel, row.by = 0
  PROVE  Promised!Readable(Entry(row))
<1>1. Entry(row).text = <<row.detail, row.changes>> /\ Entry(row).by = 0
  BY DEF Entry, IsTombstone
<1>2. <<row.detail, row.changes>> # <<Sentinel, {}>>
  OBVIOUS
<1>3. QED
  BY <1>1, <1>2 DEF Promised!Readable, Gone

\* Every operation but a redaction tells one more fact.
LEMMA WriteTells ==
  ASSUME Trail, NEW o \in Objects, NEW row \in Row, NEW a \in AuditRow,
         WritesOne(o, row, a), Accounted(o, row, a), Resolves(o, row, a)
  PROVE  Promised!Tell
<1>0. Trail'
  BY TrailWrite
<1>1. /\ Len(audit) \in Nat /\ Len(audit') = Len(audit) + 1 /\ audit'[Len(audit) + 1] = a
      /\ \A n \in 1 .. Len(audit) : audit'[n] = audit[n]
  BY WriteFacts DEF Trail
<1>2. /\ AuditLedger \in Seq(Entries) /\ AuditLedger' \in Seq(Entries)
      /\ Len(AuditLedger) = Len(audit) /\ Len(AuditLedger') = Len(audit) + 1
      /\ \A n \in 1 .. Len(audit) : AuditLedger'[n] = AuditLedger[n]
      /\ AuditLedger'[Len(audit) + 1] = Entry(a)
  BY <1>0, <1>1, LedgerRows
<1>3. Entry(a) \in Entries
  BY DEF Entries
<1>4. AuditLedger' = Append(AuditLedger, Entry(a))
  <2> DEFINE longer == Append(AuditLedger, Entry(a))
  <2>1. /\ longer \in Seq(Entries) /\ Len(longer) = Len(audit) + 1
        /\ \A n \in 1 .. Len(audit) : longer[n] = AuditLedger[n]
        /\ longer[Len(audit) + 1] = Entry(a)
    BY <1>2, <1>3, AppendProperties
  <2> HIDE DEF longer
  <2>2. \A n \in 1 .. Len(AuditLedger') : AuditLedger'[n] = longer[n]
    BY <1>1, <1>2, <2>1
  <2>3. AuditLedger' = longer
    BY <1>2, <2>1, <2>2, SeqEqual
  <2>4. QED
    BY <2>3 DEF longer
<1>5. a.detail # Sentinel /\ a.by = 0 /\ a.action # "redact"
  BY RecordsAssumption DEF Accounted
<1>6. Promised!Readable(Entry(a)) /\ Entry(a).withholds = 0
  BY <1>5, ReadableEntry DEF Entry
<1>7. Promised!Newest = Entry(a)
  BY <1>2 DEF Promised!Newest
<1>8. QED
  BY <1>1, <1>2, <1>4, <1>6, <1>7 DEF Promised!Tell, Promised!Grows

\* A redaction withholds one row's text and says so.
LEMMA RedactWithholds ==
  ASSUME Trail, NEW r \in 1 .. Len(audit), NEW entered \in 0 .. clock, Redact(r, entered)
  PROVE  Promised!Withhold(r)
<1> DEFINE told == NewAudit("redact", r, NoReference, {}, AnyStatus, entered)
           stone == Tombstone(audit[r], Len(audit) + 1)
           withheld == [AuditLedger EXCEPT ![r] = Entry(stone)]
<1>0. Trail'
  BY TrailRedact
<1>1. /\ Len(audit) \in Nat /\ Len(audit') = Len(audit) + 1 /\ audit'[Len(audit) + 1] = told
      /\ audit'[r] = stone /\ audit' \in Seq(AuditRow) /\ audit \in Seq(AuditRow)
      /\ \A n \in 1 .. Len(audit) : n # r => audit'[n] = audit[n]
  BY RedactFacts DEF Trail, RecordsTypeOK
<1>2. stone \in AuditRow /\ told \in AuditRow /\ audit[r] \in AuditRow
  <2>1. r \in 1 .. Len(audit') /\ Len(audit) + 1 \in 1 .. Len(audit')
    BY <1>1
  <2> HIDE DEF stone, told
  <2>2. QED
    BY <1>1, <2>1, ElementOfSeq
<1>3. /\ told.action = "redact" /\ told.object = r /\ told.detail = NoReference /\ told.by = 0
  BY DEF NewAudit
<1>4. /\ stone.action = audit[r].action /\ stone.object = audit[r].object
      /\ stone.at = audit[r].at /\ stone.detail = Sentinel /\ stone.by = Len(audit) + 1
  BY <1>2 DEF Tombstone, AuditRow
<1>5. audit[r].detail # Sentinel /\ audit[r].by = 0
  BY DEF Redact, IsTombstone, Trail, Unmarked
<1> HIDE DEF told, stone
<1>6. /\ AuditLedger \in Seq(Entries) /\ AuditLedger' \in Seq(Entries)
      /\ Len(AuditLedger) = Len(audit) /\ Len(AuditLedger') = Len(audit) + 1
      /\ \A n \in 1 .. Len(audit) : n # r => AuditLedger'[n] = AuditLedger[n]
      /\ AuditLedger'[r] = Entry(stone) /\ AuditLedger[r] = Entry(audit[r])
      /\ AuditLedger'[Len(audit) + 1] = Entry(told)
  BY <1>0, <1>1, LedgerRows
<1>7. Entry(stone) \in Entries /\ Entry(told) \in Entries
  BY <1>2 DEF Entries
<1>8. AuditLedger' = Append(withheld, Entry(told))
  <2>1. /\ withheld \in Seq(Entries) /\ Len(withheld) = Len(audit)
        /\ \A n \in 1 .. Len(audit) : withheld[n] = IF n = r THEN Entry(stone) ELSE AuditLedger[n]
    BY <1>6, <1>7, ExceptSeq
  <2> HIDE DEF withheld
  <2> DEFINE longer == Append(withheld, Entry(told))
  <2>2. /\ longer \in Seq(Entries) /\ Len(longer) = Len(audit) + 1
        /\ \A n \in 1 .. Len(audit) : longer[n] = withheld[n]
        /\ longer[Len(audit) + 1] = Entry(told)
    BY <1>7, <2>1, AppendProperties
  <2> HIDE DEF longer
  <2>3. ASSUME NEW n \in 1 .. Len(AuditLedger')
        PROVE  AuditLedger'[n] = longer[n]
    <3>1. CASE n = Len(audit) + 1
      BY <1>6, <2>2, <3>1
    <3>2. CASE n # Len(audit) + 1
      <4>1. n \in 1 .. Len(audit)
        BY <1>1, <1>6, <3>2
      <4>2. longer[n] = withheld[n]
        BY <2>2, <4>1
      <4>3. CASE n = r
        BY <1>6, <2>1, <4>1, <4>2, <4>3
      <4>4. CASE n # r
        BY <1>6, <2>1, <4>1, <4>2, <4>4
      <4>5. QED
        BY <4>3, <4>4
    <3>3. QED
      BY <3>1, <3>2
  <2>4. AuditLedger' = longer
    BY <1>6, <2>2, <2>3, SeqEqual
  <2>5. QED
    BY <2>4 DEF longer
<1>9. Promised!Readable(Entry(told)) /\ Entry(told).withholds = r
  BY <1>3, ReadableEntry, RecordsAssumption DEF Entry
<1>10. Promised!Readable(Entry(audit[r]))
  BY <1>5, ReadableEntry
<1>11. Entry(stone) = [fact |-> AuditLedger[r].fact, text |-> Gone,
                       withholds |-> AuditLedger[r].withholds, by |-> Len(AuditLedger) + 1]
  BY <1>4, <1>6 DEF Entry, IsTombstone
<1>12. Promised!Newest = Entry(told)
  BY <1>6 DEF Promised!Newest
<1>13. QED
  BY <1>1, <1>6, <1>8, <1>9, <1>10, <1>11, <1>12 DEF Promised!Withhold, Promised!Grows

\* The audit log is an append-only ledger in which a text is only ever withheld
\* by an entry that says so: audit, redact and the triggers on audit_log.
THEOREM LedgerKept == RecordsSpec => ImplementsLedger
<1>1. RecordsInit => Promised!LedgerInit
  BY DEF RecordsInit, Promised!LedgerInit, AuditLedger
<1>2. ASSUME Trail, [RecordsNext]_vars
      PROVE  [Promised!LedgerNext]_AuditLedger
  <2>1. CASE Tick \/ UNCHANGED vars
    BY <2>1 DEF Tick, vars, AuditLedger
  <2>2. ASSUME NEW o \in Objects, NEW row \in Row, NEW a \in AuditRow,
               WritesOne(o, row, a), Accounted(o, row, a), Resolves(o, row, a)
        PROVE  Promised!LedgerNext
    BY <1>2, <2>2, WriteTells DEF Promised!LedgerNext
  <2>3. ASSUME NEW n \in 1 .. Len(audit), NEW entered \in 0 .. clock, Redact(n, entered)
        PROVE  Promised!LedgerNext
    <3>1. Len(AuditLedger) = Len(audit)
      BY <1>2, EntriesOf DEF Trail, RecordsTypeOK, AuditLedger
    <3>2. QED
      BY <1>2, <2>3, <3>1, RedactWithholds DEF Promised!LedgerNext
  <2>4. QED
    BY <1>2, <2>1, <2>2, <2>3, StepShape DEF Trail
<1>3. QED
  BY <1>1, <1>2, RecordsTrail, PTL DEF RecordsSpec, ImplementsLedger, Promised!LedgerSpec
=============================================================================

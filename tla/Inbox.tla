-------------------------------- MODULE Inbox --------------------------------
(***************************************************************************)
(* Messages and the read position every agent keeps over them.             *)
(*                                                                         *)
(* A message is sent to one agent or to the whole team; its place in the   *)
(* project's history is the audit id of its send row, which stays in the   *)
(* ledger when the message is gone.  An agent's cursor is an audit id: the *)
(* inbox is what was sent to the agent after it, listed in order, a page   *)
(* at a time.  Listing moves nothing; mark-read moves the cursor, forward  *)
(* only and never past the ledger's head.                                  *)
(*                                                                         *)
(* Operations commit one at a time and each appends one audit row, so that *)
(* head, the newest audit id, counts them.  Sessions are left out: they    *)
(* decide nothing here but whether an agent may be deactivated, and an     *)
(* agent need not have any.                                                *)
(***************************************************************************)
EXTENDS Naturals, FiniteSets, FiniteSetsExt

CONSTANTS
  Agents,     \* agent identifiers
  Veterans,   \* the agents registered before cursors existed
  Messages,   \* message identifiers
  Tasks,      \* the tasks a message may be about
  NoTask,     \* "about no task"
  Team,       \* the recipient "team"
  PageLimit,  \* inbox list --limit
  MaxHead     \* bound: no audit id past this one

ASSUME InboxAssumption ==
  /\ Veterans \subseteq Agents
  /\ Team \notin Agents /\ NoTask \notin Tasks
  /\ PageLimit \in Nat \ {0} /\ MaxHead \in Nat

VARIABLES
  agentStatus,  \* agents.status, or "absent"
  head,         \* the newest audit_log.id
  mail,         \* the rows of messages
  sends,        \* the audit rows with action "send"
  cursor,       \* metadata.inbox_cursors; 0 where an agent has no entry
  joined,       \* history: the audit id of the agent's registration
  heard,        \* history: the audit ids of the messages listed to the agent
  covered,      \* history: those of the messages its listings reached past
  skipped       \* history: those of the messages it marked and no listing covered

ledgerVars == <<head, sends>>
readerVars == <<joined, heard, covered, skipped>>
inboxVars == <<agentStatus, ledgerVars, mail, cursor, readerVars>>

-----------------------------------------------------------------------------

AuditIds == 1 .. MaxHead

Mail ==
  [id : Messages, at : AuditIds, to : Agents \cup {Team}, task : Tasks \cup {NoTask},
   redacted : BOOLEAN]

Active == {a \in Agents : agentStatus[a] = "active"}

SendIds(m) == {r.audit : r \in {r \in sends : r.id = m}}

\* An identifier is free again once its message is archived: the row that is
\* there now came with the last send.
LastSend(m) == Max(SendIds(m))

InboxTypeOK ==
  /\ agentStatus \in [Agents -> {"absent", "active", "inactive"}]
  /\ head \in 0 .. MaxHead
  /\ mail \subseteq Mail
  /\ sends \subseteq [audit : AuditIds, id : Messages]
  /\ cursor \in [Agents -> 0 .. MaxHead]
  /\ joined \in [Agents -> 0 .. MaxHead]
  /\ heard \in [Agents -> SUBSET AuditIds]
  /\ covered \in [Agents -> SUBSET AuditIds]
  /\ skipped \in [Agents -> SUBSET AuditIds]

InboxInit ==
  /\ agentStatus = [a \in Agents |-> IF a \in Veterans THEN "active" ELSE "absent"]
  /\ head = 0
  /\ mail = {}
  /\ sends = {}
  /\ cursor = [a \in Agents |-> 0]
  /\ joined = [a \in Agents |-> 0]
  /\ heard = [a \in Agents |-> {}]
  /\ covered = [a \in Agents |-> {}]
  /\ skipped = [a \in Agents |-> {}]

\* audit(): the actor is active, and the row takes the next id.
AuditedBy(a) == agentStatus[a] = "active" /\ head < MaxHead /\ head' = head + 1

-----------------------------------------------------------------------------
\* agent add and agent update.

\* An agent may register itself: its row is inserted before the audit row is
\* checked.  Its cursor starts at its own creation.
Register(a, by) ==
  /\ agentStatus[a] = "absent"
  /\ by = a \/ agentStatus[by] = "active"
  /\ head < MaxHead /\ head' = head + 1
  /\ agentStatus' = [agentStatus EXCEPT ![a] = "active"]
  /\ cursor' = [cursor EXCEPT ![a] = head + 1]
  /\ joined' = [joined EXCEPT ![a] = head + 1]
  /\ UNCHANGED <<mail, sends, heard, covered, skipped>>

SetAgent(a, by, new) ==
  /\ agentStatus[a] # "absent"
  /\ AuditedBy(by)
  /\ agentStatus' = [agentStatus EXCEPT ![a] = new]
  /\ UNCHANGED <<mail, sends, cursor, readerVars>>

-----------------------------------------------------------------------------
\* message send and message redact.

\* Mutant of NewMail: dated before its send row.
NewMailBefore(m, to, t) ==
  [id |-> m, at |-> head, to |-> to, task |-> t, redacted |-> FALSE]

\* The row and its send row belong together; at stands for created_at.
NewMail(m, to, t) ==
  [id |-> m, at |-> head + 1, to |-> to, task |-> t, redacted |-> FALSE]

\* The composition says which tasks exist.
Send(by, m, to, t) ==
  /\ \A row \in mail : row.id # m
  /\ AuditedBy(by)
  /\ mail' = mail \cup {NewMail(m, to, t)}
  /\ sends' = sends \cup {[audit |-> head + 1, id |-> m]}
  /\ UNCHANGED <<agentStatus, cursor, readerVars>>

\* The row stays where it is; only its body is replaced, once.
Redact(by, row) ==
  /\ row \in mail /\ ~row.redacted
  /\ AuditedBy(by)
  /\ mail' = (mail \ {row}) \cup {[row EXCEPT !.redacted = TRUE]}
  /\ UNCHANGED <<agentStatus, sends, cursor, readerVars>>

-----------------------------------------------------------------------------
\* inbox list and inbox mark-read.

AddressedTo(row, a) == row.to \in {a, Team}

\* The audit ids the query selects: one for each send row of a message that
\* is still there.
Unread(a) ==
  UNION {{n \in SendIds(row.id) : n > cursor[a]} : row \in {row \in mail : AddressedTo(row, a)}}

\* Mutant of Page: the newest messages first.
PageNewestFirst(a) ==
  {n \in Unread(a) : Cardinality({k \in Unread(a) : k > n}) < PageLimit}

\* ORDER BY a.id LIMIT
Page(a) == {n \in Unread(a) : Cardinality({k \in Unread(a) : k < n}) < PageLimit}

\* A page says that nothing before its last message is unread but what it has,
\* and nothing up to the head when it is not full.
Reach(page) == IF Cardinality(page) < PageLimit THEN head ELSE Max(page)

\* One read transaction: cursor, head and page belong to one moment.
ListInbox(a) ==
  /\ agentStatus[a] # "absent"
  /\ heard' = [heard EXCEPT ![a] = @ \cup Page(a)]
  /\ covered' = [covered EXCEPT ![a] = @ \cup {k \in Unread(a) : k <= Reach(Page(a))}]
  /\ UNCHANGED <<agentStatus, ledgerVars, mail, cursor, joined, skipped>>

\* Any cursor from the current one to the head is taken, whatever was listed.
MarkRead(a, n) ==
  /\ n >= cursor[a] /\ n <= head
  /\ AuditedBy(a)
  /\ cursor' = [cursor EXCEPT ![a] = n]
  /\ skipped' = [skipped EXCEPT ![a] = @ \cup {k \in Unread(a) : k <= n /\ k \notin covered[a]}]
  /\ UNCHANGED <<agentStatus, mail, sends, joined, heard, covered>>

InboxNext ==
  \E a \in Agents :
    \/ \E by \in Agents :
         \/ Register(a, by)
         \/ \E new \in {"active", "inactive"} : SetAgent(a, by, new)
    \/ \E row \in mail : Redact(a, row)
    \/ ListInbox(a)
    \/ \E n \in 0 .. MaxHead : MarkRead(a, n)

-----------------------------------------------------------------------------
\* Properties.

\* Hazard: the cursor is one number for a list read a page at a time, while
\* messages arrive and other clients of the same agent mark.  A message that is
\* still there lies behind an agent's cursor only if it was listed to that agent,
\* or was sent before the agent registered, or the agent itself marked past it
\* when it lay beyond all its listings: at the head after a full page, say.
NothingPassedOver ==
  \A a \in Agents, row \in mail :
    AddressedTo(row, a) /\ joined[a] < row.at /\ row.at <= cursor[a]
      => row.at \in heard[a] \cup skipped[a]
=============================================================================

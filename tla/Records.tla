------------------------------- MODULE Records -------------------------------
(***************************************************************************)
(* The records agents keep beside their tasks (artifacts, decisions,       *)
(* escalations, reviews) and the ledger that tells their history: one      *)
(* audit row for every mutation, with a change row for every field whose   *)
(* value the mutation changed, and the redaction that takes the text of a  *)
(* row back.                                                               *)
(*                                                                         *)
(* Each operation is one transaction.  Its caller knows the record from an *)
(* earlier read and may name the status it saw there; since that read may  *)
(* lie any number of transactions back, the status named is any at all.    *)
(* For the same reason the time `entered' at which an operation took its   *)
(* first stamp, before it waited for the writer lock, is any time up to    *)
(* now.  Who may act is the subject of TaskClaims; here every actor is an  *)
(* active agent, and the tasks and reviewers named by a record exist.      *)
(***************************************************************************)
EXTENDS Naturals, Sequences

CONSTANTS
  Artifacts, Decisions, Escalations, Reviews,  \* identifiers
  Statuses,     \* the statuses of artifacts and of decisions
  Texts,        \* what the other fields of a record may hold
  NoText,       \* the field is empty
  NoReference,  \* a change without --because
  AnyStatus,    \* a change without --if-status
  MaxAudit,     \* bound: no audit id past this one
  MaxClock      \* bound: no time past this one

Objects == Artifacts \cup Decisions \cup Escalations \cup Reviews
References == Decisions \cup Reviews
\* No operation sets the schema's in_review.
EscalationStatuses == {"open", "resolved", "closed_no_action"}
AuditIds == 1 .. MaxAudit

\* What a detail or a change row's value reads once it is redacted; the id that
\* the tombstone names is the field `by' of the audit row.
Sentinel == "[redacted]"

\* Free text never has the form of a tombstone (see the README).
ASSUME RecordsAssumption ==
  /\ MaxAudit \in Nat /\ MaxClock \in Nat
  /\ Artifacts \cap Decisions = {} /\ Artifacts \cap Escalations = {}
  /\ Artifacts \cap Reviews = {} /\ Decisions \cap Escalations = {}
  /\ Decisions \cap Reviews = {} /\ Escalations \cap Reviews = {}
  /\ "absent" \notin Statuses /\ AnyStatus \notin Statuses \cup EscalationStatuses
  /\ NoReference \notin References
  /\ Sentinel \notin Statuses \cup Texts \cup {NoText, NoReference} \cup References
  /\ Objects \cap AuditIds = {}

VARIABLES
  clock,   \* now(), in whole seconds
  record,  \* the rows of artifacts, decisions, escalations and reviews
  audit,   \* audit_log, each row with its rows of change_log
  past     \* history: the records as each audit row left them

vars == <<clock, record, audit, past>>

-----------------------------------------------------------------------------

Fields == {"status", "text"}

Absent == [status |-> "absent", text |-> NoText, updated |-> 0]

Values == Statuses \cup EscalationStatuses \cup {"created"} \cup Texts \cup {NoText, Sentinel}

Row ==
  [status : Statuses \cup EscalationStatuses \cup {"absent", "created"},
   text : Texts \cup {NoText}, updated : 0 .. MaxClock]

Changes ==
  [field : Fields, old : Values, new : Values]

AuditRow ==
  [action : {"create", "status", "update", "resolve", "redact"},
   object : Objects \cup AuditIds,
   detail : References \cup {NoReference, Sentinel},
   by : 0 .. MaxAudit,
   changes : SUBSET Changes,
   named : Statuses \cup EscalationStatuses \cup {AnyStatus},
   at : 0 .. MaxClock]

\* Every variable keeps its type: the rows the tables' constraints admit.
RecordsTypeOK ==
  /\ clock \in 0 .. MaxClock
  /\ record \in [Objects -> Row]
  /\ audit \in Seq(AuditRow) /\ Len(audit) <= MaxAudit
  /\ past \in Seq([Objects -> Row]) /\ Len(past) = Len(audit)

RecordsInit ==
  /\ clock = 0
  /\ record = [o \in Objects |-> Absent]
  /\ audit = << >>
  /\ past = << >>

-----------------------------------------------------------------------------

Present(o) == record[o].status # "absent"

Room == Len(audit) < MaxAudit

\* Mutant of AuditStamp: the stamp of the operation's entry is used.
AuditStampAtEntry(entered) == entered

\* audit: one row, stamped when it is written.
AuditStamp(entered) == clock

\* Mutant of ChangedFields: the time of the change is a field.
ChangedColumns(o, row) ==
  {[field |-> f, old |-> record[o][f], new |-> row[f]] :
     f \in {f \in DOMAIN row : record[o][f] # row[f]}}

\* Mutant of ChangedFields: only a change of the status is told.
ChangedStatus(o, row) ==
  {[field |-> f, old |-> record[o][f], new |-> row[f]] :
     f \in {f \in {"status"} : record[o][f] # row[f]}}

\* A change row for every field whose value the mutation changed.
ChangedFields(o, row) ==
  {[field |-> f, old |-> record[o][f], new |-> row[f]] :
     f \in {f \in Fields : record[o][f] # row[f]}}

NewAudit(action, o, detail, changes, named, entered) ==
  [action |-> action, object |-> o, detail |-> detail, by |-> 0, changes |-> changes,
   named |-> named, at |-> AuditStamp(entered)]

Put(o, row) ==
  /\ record' = [record EXCEPT ![o] = row]
  /\ past' = Append(past, record')

Create(o, row, entered) ==
  /\ Room /\ ~Present(o)
  /\ Put(o, row)
  /\ audit' = Append(audit, NewAudit("create", o, NoReference, {}, AnyStatus, entered))
  /\ UNCHANGED clock

Change(action, o, row, because, named, entered) ==
  /\ Put(o, row)
  /\ audit' = Append(audit, NewAudit(action, o, because, ChangedFields(o, row), named, entered))
  /\ UNCHANGED clock

\* Mutant of AsNamed: the expectation is not compared.
AsNamedOrNot(o, named) == TRUE

\* require_expected_status: a caller that names a status must name the present one.
AsNamed(o, named) == named \in {AnyStatus, record[o].status}

\* Mutant of Resolvable: the reference is written as it came.
ResolvableUnchecked(because) == TRUE

\* resolve_reference: what caused a change must be on record when it is named.
Resolvable(because) == because # NoReference => Present(because)

-----------------------------------------------------------------------------

\* artifacts.uri is UNIQUE.
UriFree(o, uri) == \A a \in Artifacts \ {o} : record[a].text # uri

AddArtifact(o, status, uri, entered) ==
  /\ o \in Artifacts /\ status \in Statuses /\ UriFree(o, uri)
  /\ Create(o, [status |-> status, text |-> uri, updated |-> entered], entered)

AddDecision(o, status, entered) ==
  /\ o \in Decisions /\ status \in Statuses
  /\ Create(o, [status |-> status, text |-> NoText, updated |-> entered], entered)

AddEscalation(o, entered) ==
  /\ o \in Escalations
  /\ Create(o, [status |-> "open", text |-> NoText, updated |-> entered], entered)

AddReview(o, entered) ==
  /\ o \in Reviews
  /\ Create(o, [status |-> "created", text |-> NoText, updated |-> 0], entered)

\* artifact status: the status alone, and the time it was changed.
SetArtifactStatus(o, status, named, because, entered) ==
  /\ Room /\ o \in Artifacts /\ Present(o) /\ status \in Statuses
  /\ AsNamed(o, named) /\ Resolvable(because)
  /\ Change("status", o, [record[o] EXCEPT !.status = status, !.updated = clock],
            because, named, entered)

\* artifact update: uri, type or boundaries; the status stays as it is.
UpdateArtifact(o, uri, named, entered) ==
  /\ Room /\ o \in Artifacts /\ Present(o)
  /\ AsNamed(o, named) /\ UriFree(o, uri)
  /\ Change("update", o, [record[o] EXCEPT !.text = uri, !.updated = entered],
            NoReference, named, entered)

SetDecisionStatus(o, status, named, because, entered) ==
  /\ Room /\ o \in Decisions /\ Present(o) /\ status \in Statuses
  /\ AsNamed(o, named) /\ Resolvable(because)
  /\ Change("status", o, [record[o] EXCEPT !.status = status, !.updated = clock],
            because, named, entered)

\* escalation resolve: also of one that is resolved already.
ResolveEscalation(o, status, resolution, named, because, entered) ==
  /\ Room /\ o \in Escalations /\ Present(o)
  /\ status \in {"resolved", "closed_no_action"}
  /\ AsNamed(o, named) /\ Resolvable(because)
  /\ Change("resolve", o,
            [record[o] EXCEPT !.status = status, !.text = resolution, !.updated = clock],
            because, named, entered)

IsTombstone(row) == row.detail = Sentinel

\* Mutant of Tombstone: the sentinel names the last row before the redaction.
TombstonePrevious(row, id) ==
  [row EXCEPT !.detail = Sentinel, !.by = id - 1,
              !.changes = {[field |-> c.field, old |-> Sentinel, new |-> Sentinel] :
                             c \in row.changes}]

\* The row's text and its change rows' values give way to the redaction's id.
Tombstone(row, id) ==
  [row EXCEPT !.detail = Sentinel, !.by = id,
              !.changes = {[field |-> c.field, old |-> Sentinel, new |-> Sentinel] :
                             c \in row.changes}]

\* Mutant of Redact: a tombstone may be redacted again.
RedactAgain(n, entered) ==
  /\ Room /\ n \in 1 .. Len(audit)
  /\ audit' = Append([audit EXCEPT ![n] = Tombstone(audit[n], Len(audit) + 1)],
                     NewAudit("redact", n, NoReference, {}, AnyStatus, entered))
  /\ past' = Append(past, record)
  /\ UNCHANGED <<clock, record>>

\* audit redact: the redaction is told first, then the row it names is emptied.
Redact(n, entered) ==
  /\ Room /\ n \in 1 .. Len(audit)
  /\ ~IsTombstone(audit[n])
  /\ audit' = Append([audit EXCEPT ![n] = Tombstone(audit[n], Len(audit) + 1)],
                     NewAudit("redact", n, NoReference, {}, AnyStatus, entered))
  /\ past' = Append(past, record)
  /\ UNCHANGED <<clock, record>>

Tick ==
  /\ clock < MaxClock
  /\ clock' = clock + 1
  /\ UNCHANGED <<record, audit, past>>

-----------------------------------------------------------------------------

Operation(entered) ==
  \/ \E o \in Objects :
       \/ \E status \in Statuses :
            \/ \E uri \in Texts : AddArtifact(o, status, uri, entered)
            \/ AddDecision(o, status, entered)
       \/ AddEscalation(o, entered) \/ AddReview(o, entered)
       \/ \E named \in Statuses \cup EscalationStatuses \cup {AnyStatus} :
            \/ \E uri \in Texts : UpdateArtifact(o, uri, named, entered)
            \/ \E because \in References \cup {NoReference} :
                 \/ \E status \in Statuses :
                      \/ SetArtifactStatus(o, status, named, because, entered)
                      \/ SetDecisionStatus(o, status, named, because, entered)
                 \/ \E status \in {"resolved", "closed_no_action"}, text \in Texts :
                      ResolveEscalation(o, status, text, named, because, entered)
  \/ \E n \in AuditIds : Redact(n, entered)

RecordsNext == Tick \/ \E entered \in 0 .. clock : Operation(entered)

RecordsSpec == RecordsInit /\ [][RecordsNext]_vars

-----------------------------------------------------------------------------

\* audit changes: the audit rows after row n that changed a record's field.
ChangesAfter(o, field, n) ==
  {m \in n + 1 .. Len(audit) :
     audit[m].object = o /\ \E c \in audit[m].changes : c.field = field}

\* "Current state plus the recorded updates reconstructs any earlier state"
\* (docs/cli-contract.md): what a field held when audit row n was written is
\* what the first change after it replaced, or what the field still holds,
\* wherever no redaction has taken the value back.
ChangesRebuildPast ==
  \A o \in Objects, field \in Fields, n \in 1 .. Len(audit) :
    past[n][o].status # "absent" =>
      LET later == ChangesAfter(o, field, n) IN
      /\ later = {} => record[o][field] = past[n][o][field]
      /\ \A m \in later : (\A k \in later : m <= k) =>
           \A c \in audit[m].changes :
             c.field = field => c.old \in {past[n][o][field], Sentinel}

\* doctor's dangling redactions: the row a tombstone names is the redaction of
\* the very row the tombstone stands in, though it may be redacted itself.
TombstonesResolve ==
  \A n \in 1 .. Len(audit) :
    IsTombstone(audit[n]) =>
      LET r == audit[n].by IN
      /\ r \in 1 .. Len(audit)
      /\ audit[r].action = "redact" /\ audit[r].object = n
      /\ \A c \in audit[n].changes : c.old = Sentinel /\ c.new = Sentinel

LastAuditAt(o) == {audit[n].at : n \in {n \in 1 .. Len(audit) : audit[n].object = o}}

\* doctor's out-of-band edits: as long as every write goes through the runtime,
\* however long it waited for the lock, no row is newer than its last audit row.
NoOutOfBandFindings ==
  \A o \in Objects \ Reviews :
    Present(o) => \E at \in LastAuditAt(o) : record[o].updated <= at

\* The audit trail never points at a record that was never there: what a row
\* names as its cause was created by an earlier row.
CausesCameFirst ==
  \A n \in 1 .. Len(audit) :
    audit[n].detail \in References =>
      \E m \in 1 .. n - 1 : audit[m].action = "create" /\ audit[m].object = audit[n].detail

\* Of all who saw an escalation open and say so when they resolve it, one at
\* most succeeds, whatever was redacted or resolved without a word in between.
OpenResolvedOnce ==
  \A n, m \in 1 .. Len(audit) :
    /\ audit[n].action = "resolve" /\ audit[n].named = "open"
    /\ audit[m].action = "resolve" /\ audit[m].named = "open"
    /\ audit[n].object = audit[m].object
    => n = m

-----------------------------------------------------------------------------

Gone == <<Sentinel, {}>>

\* The audit log, as its readers see it: what it says of who did what and when
\* is the fact, its detail and its change rows are the text.
Entry(row) ==
  [fact |-> <<row.action, row.object, row.at>>,
   text |-> IF IsTombstone(row) THEN Gone ELSE <<row.detail, row.changes>>,
   withholds |-> IF row.action = "redact" THEN row.object ELSE 0,
   by |-> row.by]

AuditLedger == [n \in 1 .. Len(audit) |-> Entry(audit[n])]

Promised == INSTANCE Ledger WITH ledger <- AuditLedger

\* Every transaction appends to the ledger or withholds one row's text and says
\* so; nothing else of it ever changes.
ImplementsLedger == Promised!LedgerSpec
=============================================================================

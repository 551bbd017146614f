---------------------------- MODULE DatabaseFile ----------------------------
(***************************************************************************)
(* The database file, the write-ahead log beside it, and the operations    *)
(* that put another file in its place: restore and migrate.                *)
(*                                                                         *)
(* Every client holds the shared lock on the database's lock file from     *)
(* connect to close; restore and migrate hold the exclusive one from start *)
(* to end.  A job stages a verified copy beside the target, preserves the  *)
(* target in a safety backup, renames the copy over it, removes the old    *)
(* sidecar files and verifies the result; when that fails it puts the      *)
(* safety backup back.  Each of these is a step on the file system, and    *)
(* between any two the process may fail, get a signal or be killed.        *)
(*                                                                         *)
(* A database's content is the set of the commits in it.  Of SQLite the    *)
(* module uses this much: a commit goes to the log; the last connection to *)
(* close moves the log into the main file and removes it, unless its       *)
(* process is killed; whoever opens a main file replays the log beside it, *)
(* be it another file's.                                                   *)
(***************************************************************************)
EXTENDS Naturals, FiniteSets

CONSTANTS
  Clients,   \* the processes that use the database
  NoFile,    \* no database, or no safety backup
  MaxMark,   \* bound: commits
  MaxFiles   \* bound: backup files

ASSUME BoundAssumption == MaxMark \in Nat /\ MaxFiles \in Nat

VARIABLES
  db,     \* the main file, or NoFile
  log,    \* the sidecar files
  conn,   \* the clients' connections; "stale": to a file that was replaced
  files,  \* the backups: safety backups and those taken with backup
  marks,  \* the number of commits so far
  acked,  \* the commits whose callers were told so
  job,    \* the restore or migrate under way
  said    \* how the last one ended, as its caller was told

clientVars == <<conn, acked>>
fileVars == <<db, log, files>>
databaseVars == <<fileVars, clientVars, marks, job, said>>

-----------------------------------------------------------------------------

\* Commit 0 stands for what the database held at first.
Marks == 0 .. MaxMark

Main == [rows : SUBSET Marks, schema : {1, 2}, sound : BOOLEAN]

\* foreign: the log of another main file than the one it lies beside.
Log == [rows : SUBSET Marks, foreign : BOOLEAN]

NoLog == [rows |-> {}, foreign |-> FALSE]

\* A verified copy has no log; a byte-for-byte one may.
Copy == [rows : SUBSET Marks, schema : {1, 2}, sound : BOOLEAN, log : SUBSET Marks]

ASSUME NullAssumption == NoFile \notin Main \cup Copy

Holds(f) == f.rows \cup f.log

Phases ==
  {"locked", "half", "ready", "renamed", "cleared", "verified", "failing",
   "undoing", "emptied", "swapped", "copied"}

\* was: history, what the target held when the job got its lock.
Job ==
  [kind : {"restore", "migrate"}, at : Phases, staged : SUBSET Marks, mark : Marks,
   safety : Copy \cup {NoFile}, was : SUBSET Marks]

Idle == [at |-> "idle"]

Outcomes ==
  {"nothing", "done", "unchanged", "interrupted", "rolled back", "rollback failed", "killed"}

DatabaseTypeOK ==
  /\ db \in Main \cup {NoFile}
  /\ log \in Log
  /\ conn \in [Clients -> {"closed", "open", "stale"}]
  /\ files \subseteq Copy
  /\ marks \in Marks
  /\ acked \subseteq Marks
  /\ job \in Job \cup {Idle}
  /\ said \in Outcomes

\* What a reader of the pair finds.  A main file with another's log is garbage.
Content(main, side) ==
  IF main = NoFile \/ side.foreign THEN {} ELSE main.rows \cup side.rows

Visible == Content(db, log)

\* Every commit appends to the audit log.
NextMark == marks + 1

\* A database of either schema, or none, and a backup from elsewhere.
DatabaseInit ==
  /\ \/ db = NoFile /\ acked = {}
     \/ /\ db \in [rows : {{0}}, schema : {1, 2}, sound : {TRUE}]
        /\ acked = {0}
  /\ log = NoLog
  /\ conn = [c \in Clients |-> "closed"]
  /\ files = {[rows |-> {}, schema |-> 2, sound |-> TRUE, log |-> {}]}
  /\ marks = 0
  /\ job = Idle
  /\ said = "nothing"

\* Mutant of Closed: the connection is still open when the file is replaced.
ClosedLater(main, side) == {<<main, side>>}

\* Opening the pair and closing it again: the log is in the main file and
\* gone.  A damaged main file may leave it where it is.
Closed(main, side) ==
  IF side.foreign THEN {<<[main EXCEPT !.rows = {}, !.sound = FALSE], NoLog>>}
  ELSE {<<[main EXCEPT !.rows = @ \cup side.rows], NoLog>>}
         \cup IF main.sound THEN {} ELSE {<<main, side>>}

ReadAndClosed == \E pair \in Closed(db, log) : db' = pair[1] /\ log' = pair[2]

-----------------------------------------------------------------------------
\* Clients.

\* Mutant of Admitted: the lock is taken only for the publication itself.
AdmittedWhileStaging == job.at \in {"idle", "locked", "half", "ready"}

\* The shared lock can be had.
Admitted == job.at = "idle"

\* connect: the file is there and its schema is supported.
Connect(c) ==
  /\ Admitted
  /\ conn[c] = "closed"
  /\ db # NoFile /\ ~log.foreign
  /\ db.sound /\ db.schema = 2
  /\ conn' = [conn EXCEPT ![c] = "open"]
  /\ UNCHANGED <<fileVars, acked, marks, job, said>>

\* The same with another file's log: the schema check fails on what it finds,
\* and the connection is closed again.
ConnectForeign(c) ==
  /\ Admitted
  /\ conn[c] = "closed"
  /\ db # NoFile /\ log.foreign
  /\ ReadAndClosed
  /\ UNCHANGED <<files, clientVars, marks, job, said>>

\* init where there is nothing: one transaction creates every table.
Initialise(c) ==
  /\ Admitted
  /\ conn[c] = "closed"
  /\ db = NoFile
  /\ db' = [rows |-> {}, schema |-> 2, sound |-> TRUE]
  /\ conn' = [conn EXCEPT ![c] = "open"]
  /\ UNCHANGED <<log, files, acked, marks, job, said>>

\* Any mutation.  A commit to a replaced file is in no file that has a name.
Commit(c) ==
  /\ conn[c] # "closed"
  /\ marks < MaxMark
  /\ marks' = NextMark
  /\ acked' = acked \cup {NextMark}
  /\ log' = IF conn[c] = "open" THEN [log EXCEPT !.rows = @ \cup {NextMark}] ELSE log
  /\ UNCHANGED <<db, files, conn, job, said>>

\* Mutant of Backup: the main file is copied and the log is not.
BackupMainOnly(c) ==
  /\ conn[c] = "open"
  /\ Cardinality(files) < MaxFiles
  /\ files' = files \cup {[rows |-> db.rows, schema |-> 2, sound |-> TRUE, log |-> {}]}
  /\ UNCHANGED <<db, log, clientVars, marks, job, said>>

\* backup: a verified copy of one moment under a name of its own.
Backup(c) ==
  /\ conn[c] = "open"
  /\ Cardinality(files) < MaxFiles
  /\ files' = files \cup {[rows |-> Visible, schema |-> 2, sound |-> TRUE, log |-> {}]}
  /\ UNCHANGED <<db, log, clientVars, marks, job, said>>

LastOpen(c) == \A d \in Clients \ {c} : conn[d] # "open"

\* close_connection, at the end of the operation's scope.
Close(c) ==
  /\ conn[c] # "closed"
  /\ conn' = [conn EXCEPT ![c] = "closed"]
  /\ IF conn[c] = "open" /\ LastOpen(c)
       THEN ReadAndClosed
       ELSE UNCHANGED <<db, log>>
  /\ UNCHANGED <<files, acked, marks, job, said>>

\* The client's process is killed, and its locks go with it.
Die(c) ==
  /\ conn[c] # "closed"
  /\ conn' = [conn EXCEPT ![c] = "closed"]
  /\ UNCHANGED <<fileVars, acked, marks, job, said>>

\* The main file is found damaged one day.
Damage ==
  /\ job = Idle /\ \A c \in Clients : conn[c] = "closed"
  /\ db # NoFile /\ db.sound
  /\ db' = [db EXCEPT !.sound = FALSE]
  /\ UNCHANGED <<log, files, clientVars, marks, job, said>>

-----------------------------------------------------------------------------
\* The job up to the rename.

Unlocked == \A c \in Clients : conn[c] = "closed"

Start(kind) ==
  /\ job = Idle /\ Unlocked
  /\ kind = "migrate" => db # NoFile
  /\ job' = [kind |-> kind, at |-> "locked", staged |-> {}, mark |-> 0,
             safety |-> NoFile, was |-> Visible]
  /\ UNCHANGED <<fileVars, clientVars, marks, said>>

\* _prepare_restore: a copy of the input with the restore's own audit row.
\* The input has passed every check.
StageRestore(f) ==
  /\ job.at = "locked" /\ job.kind = "restore"
  /\ f \in files /\ f.sound /\ f.schema = 2
  /\ marks < MaxMark
  /\ marks' = NextMark
  /\ job' = [job EXCEPT !.at = "half", !.staged = Holds(f) \cup {NextMark}, !.mark = NextMark]
  /\ UNCHANGED <<fileVars, clientVars, said>>

\* Mutant of Preserved: only the main file is copied.
PreservedMainOnly(main, side) ==
  [rows |-> main.rows, schema |-> main.schema, sound |-> main.sound, log |-> {}]

\* Healthy or not, everything there is to copy.
Preserved(main, side) ==
  [rows |-> main.rows, schema |-> main.schema, sound |-> main.sound, log |-> side.rows]

\* _preserved_target_state: an online backup of a healthy target, or the main
\* file and the sidecars that remain once the connection is closed.
PreserveTarget ==
  /\ job.at = "half" /\ job.kind = "restore"
  /\ IF db = NoFile
       THEN /\ job' = [job EXCEPT !.at = "ready"]
            /\ UNCHANGED fileVars
       ELSE /\ Cardinality(files) < MaxFiles
            /\ ReadAndClosed
            /\ files' = files \cup {Preserved(db', log')}
            /\ job' = [job EXCEPT !.at = "ready", !.safety = Preserved(db', log')]
  /\ UNCHANGED <<clientVars, marks, said>>

\* _require_migratable_source and _verified_v1_backup, over one connection
\* that reads the log too.
BackupBeforeMigrate ==
  /\ job.at = "locked" /\ job.kind = "migrate"
  /\ db.sound /\ db.schema = 1 /\ ~log.foreign
  /\ Cardinality(files) < MaxFiles
  /\ LET copy == [rows |-> Visible, schema |-> 1, sound |-> TRUE, log |-> {}]
     IN  /\ files' = files \cup {copy}
         /\ job' = [job EXCEPT !.at = "half", !.safety = copy]
  /\ UNCHANGED <<db, log, clientVars, marks, said>>

\* _staged_migrated_copy, after which that connection is closed.
StageMigrated ==
  /\ job.at = "half" /\ job.kind = "migrate"
  /\ marks < MaxMark
  /\ marks' = NextMark
  /\ job' = [job EXCEPT !.at = "ready", !.staged = Visible \cup {NextMark}, !.mark = NextMark]
  /\ ReadAndClosed
  /\ UNCHANGED <<files, clientVars, said>>

-----------------------------------------------------------------------------
\* From the rename on.

\* A rename leaves the connections to the old file where they are.
Orphaned == [c \in Clients |-> IF conn[c] = "open" THEN "stale" ELSE conn[c]]

\* os.replace(staged, target): the old sidecars lie beside the new file.
Rename ==
  /\ job.at = "ready"
  /\ db' = [rows |-> job.staged, schema |-> 2, sound |-> TRUE]
  /\ log' = [log EXCEPT !.foreign = log.rows # {}]
  /\ conn' = Orphaned
  /\ job' = [job EXCEPT !.at = "renamed"]
  /\ UNCHANGED <<files, acked, marks, said>>

ClearSidecars ==
  /\ job.at = "renamed"
  /\ log' = NoLog
  /\ job' = [job EXCEPT !.at = "cleared"]
  /\ UNCHANGED <<db, files, clientVars, marks, said>>

Verify ==
  /\ job.at = "cleared"
  /\ job' = [job EXCEPT !.at = "verified"]
  /\ UNCHANGED <<fileVars, clientVars, marks, said>>

Finish ==
  /\ job.at = "verified"
  /\ acked' = acked \cup {job.mark}
  /\ job' = Idle
  /\ said' = "done"
  /\ UNCHANGED <<fileVars, conn, marks>>

-----------------------------------------------------------------------------
\* Errors and signals.

\* Mutant of Unwound: what the job holds is not let go.
UnwoundHolding(outcome) ==
  /\ job' = [job EXCEPT !.at = "idle"]
  /\ said' = outcome
  /\ UNCHANGED <<files, clientVars, marks>>

\* The job ends; a connection it had open to its target is closed.
Unwound(outcome) ==
  /\ job' = Idle
  /\ said' = outcome
  /\ UNCHANGED <<files, clientVars, marks>>

\* Mutant of Published: the flag alone, which is set after the rename.
PublishedFlag == job.at \in {"cleared", "verified", "failing"}

\* published is set, or the staged file is gone from its name.
Published == job.at \in {"renamed", "cleared", "verified", "failing"}

\* The target is as it was, but for what a connection to it has tidied up.
BreakBefore(outcome) ==
  /\ job.at \in {"locked", "half", "ready", "renamed"}
  /\ ~Published
  /\ \/ UNCHANGED <<db, log>>
     \/ db # NoFile /\ ReadAndClosed
  /\ Unwound(outcome)

\* except BaseException: a failure or a signal once the target is replaced.
BreakAfter ==
  /\ Published /\ job.at \in {"renamed", "cleared"}
  /\ job' = [job EXCEPT !.at = "failing"]
  /\ UNCHANGED <<fileVars, clientVars, marks, said>>

\* A signal once the verification is over, or on the way into the handler, is
\* nobody's: no rollback.
SignalOutside ==
  /\ job.at \in {"verified", "failing"}
  /\ UNCHANGED <<db, log>>
  /\ Unwound("interrupted")

BeginUndo ==
  /\ job.at = "failing"
  /\ job' = [job EXCEPT !.at = "undoing"]
  /\ UNCHANGED <<fileVars, clientVars, marks, said>>

EmptySidecars ==
  /\ job.at = "undoing"
  /\ log' = NoLog
  /\ job' = [job EXCEPT !.at = "emptied"]
  /\ UNCHANGED <<db, files, clientVars, marks, said>>

\* There was no target: there is none again.
Remove ==
  /\ job.at = "emptied" /\ job.safety = NoFile
  /\ db' = NoFile
  /\ UNCHANGED log
  /\ Unwound("rolled back")

\* The safety backup is copied and the copy renamed over the target.
SwapBack ==
  /\ job.at = "emptied" /\ job.safety # NoFile
  /\ db' = [rows |-> job.safety.rows, schema |-> job.safety.schema, sound |-> job.safety.sound]
  /\ conn' = Orphaned
  /\ job' = [job EXCEPT !.at = "swapped"]
  /\ UNCHANGED <<log, files, acked, marks, said>>

\* A byte-for-byte copy has its sidecars put back.
CopySidecars ==
  /\ job.at = "swapped"
  /\ log' = [rows |-> job.safety.log, foreign |-> FALSE]
  /\ job' = [job EXCEPT !.at = "copied"]
  /\ UNCHANGED <<db, files, clientVars, marks, said>>

\* rollback_succeeded; a verified copy is verified once more.
FinishUndo ==
  /\ job.at = "copied"
  /\ UNCHANGED <<db, log>>
  /\ Unwound("rolled back")

BreakUndo ==
  /\ job.at \in {"undoing", "emptied", "swapped", "copied"}
  /\ UNCHANGED <<db, log>>
  /\ Unwound("rollback failed")

\* The job's process is killed.
Kill ==
  /\ job # Idle
  /\ UNCHANGED <<db, log>>
  /\ Unwound("killed")

-----------------------------------------------------------------------------

ClientStep ==
  \/ \E c \in Clients :
       \/ Connect(c) \/ ConnectForeign(c) \/ Initialise(c)
       \/ Commit(c) \/ Backup(c) \/ Close(c) \/ Die(c)
  \/ Damage

PublishStep ==
  \/ \E kind \in {"restore", "migrate"} : Start(kind)
  \/ \E f \in files : StageRestore(f)
  \/ PreserveTarget \/ BackupBeforeMigrate \/ StageMigrated
  \/ Rename \/ ClearSidecars \/ Verify \/ Finish

BreakStep ==
  \/ \E outcome \in {"unchanged", "interrupted"} : BreakBefore(outcome)
  \/ BreakAfter \/ SignalOutside \/ BeginUndo \/ EmptySidecars \/ Remove
  \/ SwapBack \/ CopySidecars \/ FinishUndo \/ BreakUndo \/ Kill

DatabaseNext == ClientStep \/ PublishStep \/ BreakStep

DatabaseSpec == DatabaseInit /\ [][DatabaseNext]_databaseVars

-----------------------------------------------------------------------------
\* Properties.

\* Hazard: a restore replaces the file under its clients and may stop at any
\* step.  Every commit a caller was told of is in the database or in a backup.
NothingLost == \A m \in acked : m \in Visible \/ \E f \in files : m \in Holds(f)

Kept(rows) == \E f \in files : rows \subseteq Holds(f)

\* Hazard: what the target holds is spread over the main file and its
\* sidecars when it is copied.  What a step takes out of the database, of the
\* commits that callers were told of, is in one backup as a whole.
ReplacedIsKept ==
  [][LET told == Visible \cap acked IN told \subseteq Visible' \/ Kept(told)]_databaseVars

\* Hazard: the rename leaves the old log beside the new file.  Only a damaged
\* database's log can be found there, and a backup has it.
NoStaleLog == log.foreign => \E f \in files : ~f.sound /\ log.rows \subseteq f.log

Reported ==
  /\ said' = "done" => Visible' = job.staged /\ job.mark \in Visible'
  /\ said' \in {"unchanged", "rolled back"} => Visible' = job.was

\* Hazard: a signal may come between the rename and the assignment that
\* records it, and the undoing may fail too.  What a job says of the target
\* is so: replaced and verified, unchanged, or as it was before.
ReportsTruthfully == [][job # Idle /\ job' = Idle => Reported]_databaseVars

\* Hazard: a restore or a migration is a dozen steps on the file system, any
\* of which may be the last.  From outside it is one step: the content stays
\* what it was until the job is over, and is then replaced as a whole by a
\* backup, or by itself, with the job's own commit; only a job that says it
\* was cut short leaves less, and never of what no backup has.
Settled == IF job = Idle THEN Visible ELSE job.was

Copies == {Holds(f) : f \in files}

Store ==
  INSTANCE DurableStore WITH
    Commits <- Marks,
    content <- Settled,
    copies <- Copies,
    told <- acked,
    answer <- said

ImplementsDurableStore == Store!StoreSpec

\* "If restore is interrupted after atomic replacement may have occurred, it
\* performs rollback and returns restore_verification_failed"
\* (docs/cli-contract.md): operation_interrupted means an unchanged target.
InterruptedBeforeReplacement ==
  [][job # Idle /\ job' = Idle /\ said' = "interrupted" => Visible' = job.was]_databaseVars

-----------------------------------------------------------------------------
\* The inductive invariant behind them.

AllKept == \A m \in acked : \E f \in files : m \in Holds(f)

\* The job has the database to itself, nobody is connected to a replaced
\* file, and there is no log without a main file.
Exclusive ==
  /\ job # Idle => Unlocked
  /\ \A c \in Clients : conn[c] # "stale"
  /\ \A c \in Clients : conn[c] = "open" => db # NoFile /\ ~log.foreign
  /\ db = NoFile => log = NoLog

\* Before the rename: the target is as it was, and a migration's is sound
\* and has its backup.
Untouched ==
  /\ job.at \in {"locked", "half", "ready"} => Visible = job.was
  /\ job.at \in {"locked", "half"} /\ job.kind = "migrate" => db # NoFile
  /\ job.at = "half" /\ job.kind = "migrate" =>
       db.sound /\ ~log.foreign /\ job.safety # NoFile

Replacing == Phases \ {"locked", "half"}

\* From then on all of it is in the safety backup, and what a rename will
\* leave beside the new file is in a damaged database's backup.
SafetyFirst ==
  /\ job.at \in Replacing => AllKept
  /\ job.at \in Replacing /\ job.safety = NoFile => job.was = {}
  /\ job.at # "idle" /\ job.safety # NoFile =>
       job.safety \in files /\ Holds(job.safety) = job.was
  /\ job.at = "ready" /\ log.rows # {} => \E f \in files : ~f.sound /\ log.rows \subseteq f.log
  /\ log.foreign => AllKept

\* The copy that will be the new file is made.
Staged == job.at \in Replacing \/ (job.at = "half" /\ job.kind = "restore")

\* What the target is at each step of the replacement and of its undoing.
Replaced ==
  /\ Staged => job.mark \in job.staged
  /\ job.at \in {"renamed", "cleared", "verified"} => db # NoFile /\ db.rows = job.staged
  /\ job.at \in {"cleared", "verified", "emptied", "swapped"} => log = NoLog
  /\ job.at \in {"swapped", "copied"} =>
       db # NoFile /\ job.safety # NoFile /\ db.rows = job.safety.rows
  /\ job.at = "copied" => ~log.foreign /\ log.rows = job.safety.log
  /\ job.at \in {"failing", "undoing", "emptied"} => db # NoFile

FileInv ==
  DatabaseTypeOK /\ Exclusive /\ Untouched /\ SafetyFirst /\ Replaced /\ NothingLost /\ NoStaleLog

\* What ReplacedIsKept needs besides: nobody was told of the new file's own
\* commit before the job is done, and the rest of it is in one backup.
StagedIsKept ==
  /\ \A m \in acked : m <= marks
  /\ Staged => job.mark <= marks /\ job.mark \notin acked /\ Kept(job.staged \ {job.mark})
  /\ job.at \in {"renamed", "failing", "undoing"} => log.foreign \/ log.rows = {}
  /\ job.at \in {"failing", "undoing", "emptied"} => db.rows = job.staged

\* What the refinement needs besides: the staged copy is a backup, or for a
\* migration the target itself, with the job's own commit.
StagedFrom ==
  Staged => \E rows \in Copies \cup {job.was} : job.staged = rows \cup {job.mark}
=============================================================================

------------------------------- MODULE Archive -------------------------------
(***************************************************************************)
(* archive: closed tasks and read messages past a cutoff move from the     *)
(* live database to a file of their own.                                   *)
(*                                                                         *)
(* A run holds the database's exclusive file lock, which keeps every other *)
(* client out from selection to deletion.  It selects what may go, copies  *)
(* it into a new file, publishes that file by a rename, and then deletes   *)
(* the rows in one transaction.  The file and the database are two things: *)
(* the run may stop between the rename and the commit, because the process *)
(* dies or because the deletion violates a foreign key.                    *)
(*                                                                         *)
(* Of a task only its being done, its dependencies and the edition of its  *)
(* content matter here; TaskClaims has its life before.  Which rows are    *)
(* past the cutoff is left open: a run may find any of them old enough.    *)
(***************************************************************************)
EXTENDS Inbox

CONSTANTS
  MaxEdition,  \* bound: edits of one task
  MaxFiles,    \* bound: archive files
  MayCrash     \* whether a run's process may die

ASSUME ArchiveAssumption == MaxEdition \in Nat /\ MaxFiles \in Nat /\ MayCrash \in BOOLEAN

VARIABLES
  tasks,  \* the rows of tasks, each with its assignees and evidence
  deps,   \* task_dependencies: <<t, u>> when t depends on u
  files,  \* the published archive files
  run     \* the archive run: its phase and the rows it selected

taskVars == <<tasks, deps>>
archiveVars == <<inboxVars, taskVars, files, run>>

-----------------------------------------------------------------------------

\* born tells two tasks of one identifier apart, as created_at does.
TaskRow == [id : Tasks, born : AuditIds, done : BOOLEAN, edition : 0 .. MaxEdition]

Ids(rows) == {row.id : row \in rows}

Idle == [phase |-> "idle", tasks |-> {}, mail |-> {}]

File == [tasks : SUBSET TaskRow, deps : SUBSET (Tasks \X Tasks), mail : SUBSET Mail]

ArchiveTypeOK ==
  /\ InboxTypeOK
  /\ tasks \subseteq TaskRow
  /\ deps \subseteq Tasks \X Tasks
  /\ files \subseteq File
  /\ run \in [phase : {"idle", "selected", "published"},
              tasks : SUBSET Tasks, mail : SUBSET Messages]

ArchiveInit ==
  /\ InboxInit
  /\ tasks = {}
  /\ deps = {}
  /\ files = {}
  /\ run = Idle

-----------------------------------------------------------------------------
\* The other clients.

\* Mutant of Admitted: the exclusive lock is let go once the file is there.
AdmittedWhilePublished == run.phase # "selected"

\* Every other operation takes the shared lock on the database's lock file.
Admitted == run = Idle

InboxStep ==
  /\ Admitted
  /\ InboxNext
  /\ UNCHANGED <<taskVars, files, run>>

SendMessage(by, m, to, t) ==
  /\ Admitted
  /\ t \in Ids(tasks) \cup {NoTask}
  /\ Send(by, m, to, t)
  /\ UNCHANGED <<taskVars, files, run>>

TaskWrite(by) ==
  /\ Admitted
  /\ AuditedBy(by)
  /\ UNCHANGED <<agentStatus, mail, sends, cursor, readerVars, files, run>>

\* task create: the identifier of an archived task is free again.
CreateTask(by, t) ==
  /\ t \notin Ids(tasks)
  /\ TaskWrite(by)
  /\ tasks' = tasks \cup {[id |-> t, born |-> head + 1, done |-> FALSE, edition |-> 0]}
  /\ UNCHANGED deps

\* task status, up to done.
FinishTask(by, row) ==
  /\ row \in tasks /\ ~row.done
  /\ TaskWrite(by)
  /\ tasks' = (tasks \ {row}) \cup {[row EXCEPT !.done = TRUE]}
  /\ UNCHANGED deps

\* task update, task assign and evidence add, which a done task accepts too.
EditTask(by, row) ==
  /\ row \in tasks /\ row.edition < MaxEdition
  /\ TaskWrite(by)
  /\ tasks' = (tasks \ {row}) \cup {[row EXCEPT !.edition = @ + 1]}
  /\ UNCHANGED deps

\* dependency add: of any two tasks, done or not, in a circle or not.
AddDependency(by, t, u) ==
  /\ t # u /\ {t, u} \subseteq Ids(tasks)
  /\ <<t, u>> \notin deps
  /\ TaskWrite(by)
  /\ deps' = deps \cup {<<t, u>>}
  /\ UNCHANGED tasks

-----------------------------------------------------------------------------
\* Selection.

\* Done, past the cutoff, and every direct dependent done and past it too.
EligibleTasks(old) ==
  LET closed == {row.id : row \in {row \in tasks : row.done}} \cap old
  IN  {t \in closed : \A d \in deps : d[2] = t => d[1] \in closed}

\* Mutant of EligibleMessages: any send of the identifier counts.
EligibleMessagesAnySend(old) ==
  {m \in Ids(mail) \cap old :
    Active # {} /\ \A a \in Active : \E n \in SendIds(m) : n <= cursor[a]}

\* The last send of the identifier lies at or before the lowest cursor of the
\* active agents, if there are any.
EligibleMessages(old) ==
  {m \in Ids(mail) \cap old : Active # {} /\ \A a \in Active : LastSend(m) <= cursor[a]}

-----------------------------------------------------------------------------
\* The run.

\* With the lock held and nothing to move, archive writes nothing at all.
Select(by, old) ==
  /\ run = Idle
  /\ Cardinality(files) < MaxFiles
  /\ agentStatus[by] = "active" /\ head < MaxHead
  /\ run' = [phase |-> "selected", tasks |-> EligibleTasks(old), mail |-> EligibleMessages(old)]
  /\ run'.tasks \cup run'.mail # {}
  /\ UNCHANGED <<inboxVars, taskVars, files>>

\* A message keeps its task only where the task is.
Detached(row, gone) == IF row.task \in gone THEN [row EXCEPT !.task = NoTask] ELSE row

\* The file's content: the rows as they are now, the dependencies among them,
\* and the messages' links to them.
Copy ==
  [tasks |-> {row \in tasks : row.id \in run.tasks},
   deps |-> {d \in deps : {d[1], d[2]} \subseteq run.tasks},
   mail |-> {Detached(row, Tasks \ run.tasks) : row \in {row \in mail : row.id \in run.mail}}]

\* The copy is verified and synced, and os.replace gives it its name.
Publish ==
  /\ run.phase = "selected"
  /\ files' = files \cup {Copy}
  /\ run' = [run EXCEPT !.phase = "published"]
  /\ UNCHANGED <<inboxVars, taskVars>>

\* Mutant of Deletable: foreign keys are not enforced on this connection.
DeletableUnchecked(gone) == TRUE

\* depends_on_task_id has no ON DELETE: a row of a task that stays refuses.
Deletable(gone) == \A d \in deps : d[2] \in gone => d[1] \in gone

\* One transaction: the messages, then the tasks with what cascades from them,
\* then the archive audit row.
Delete(by) ==
  /\ run.phase = "published"
  /\ Deletable(run.tasks)
  /\ AuditedBy(by)
  /\ mail' = {Detached(row, run.tasks) : row \in {row \in mail : row.id \notin run.mail}}
  /\ tasks' = {row \in tasks : row.id \notin run.tasks}
  /\ deps' = {d \in deps : d[1] \notin run.tasks}
  /\ run' = Idle
  /\ UNCHANGED <<agentStatus, sends, cursor, readerVars, files>>

\* The deletion violates a foreign key and rolls back; the file stays.
Refused ==
  /\ run.phase = "published"
  /\ ~Deletable(run.tasks)
  /\ run' = Idle
  /\ UNCHANGED <<inboxVars, taskVars, files>>

\* The process dies; the lock dies with it and a temporary copy is no file.
Crash ==
  /\ MayCrash
  /\ run # Idle
  /\ run' = Idle
  /\ UNCHANGED <<inboxVars, taskVars, files>>

ArchiveStep ==
  \/ \E by \in Agents :
       \/ \E old \in SUBSET (Tasks \cup Messages) : Select(by, old)
       \/ Delete(by)
  \/ Publish \/ Refused \/ Crash

TaskStep ==
  \E by \in Agents :
    \/ \E t \in Tasks : CreateTask(by, t)
    \/ \E row \in tasks : FinishTask(by, row) \/ EditTask(by, row)
    \/ \E t, u \in Tasks : AddDependency(by, t, u)

MessageStep ==
  \E by \in Agents, m \in Messages, to \in Agents \cup {Team}, t \in Tasks \cup {NoTask} :
    SendMessage(by, m, to, t)

ArchiveNext == InboxStep \/ MessageStep \/ TaskStep \/ ArchiveStep

ArchiveSpec == ArchiveInit /\ [][ArchiveNext]_archiveVars

-----------------------------------------------------------------------------
\* Properties.

\* Some archive file has the message, with its task or without.
Copied(row) == \E f \in files : row \in f.mail \/ [row EXCEPT !.task = NoTask] \in f.mail

ArchivedRowsOnly ==
  /\ \A row \in tasks : row.id \notin Ids(tasks') => \E f \in files : row \in f.tasks
  /\ \A row \in mail : row.id \notin Ids(mail') => Copied(row)

\* Hazard: the file is published before the rows are deleted, and the copy is
\* made of rows selected earlier.  A row that leaves the live database is in
\* an archive file exactly as it last was.
RowsLeaveArchived == [][ArchivedRowsOnly]_archiveVars

ReadRowsOnly ==
  \A row \in mail, a \in Active :
    AddressedTo(row, a) /\ row.id \notin Ids(mail')
      => row.at \in heard[a] \cup skipped[a] \/ row.at <= joined[a]

\* Hazard: agents read at their own pace and an identifier may be sent again.
\* A message is removed only when every active agent it is addressed to has
\* been listed its last send, or registered after it, or itself marked past it
\* unlisted.
ReadBeforeRemoved == [][ReadRowsOnly]_archiveVars

Live == [tasks |-> tasks, deps |-> deps, mail |-> mail]

Resolves(f) ==
  /\ f.deps \subseteq Ids(f.tasks) \X Ids(f.tasks)
  /\ \A row \in f.mail : row.task \in Ids(f.tasks) \cup {NoTask}

\* Hazard: two selections, a cascade and a foreign key decide together what a
\* deletion leaves behind.  In the live database and in every archive file
\* dependencies and messages refer to tasks of the same database.
ReferencesResolve == \A f \in files \cup {Live} : Resolves(f)

\* The comment at _maintenance_archive.py:140-142: when no run is under way,
\* no row is both in an archive file and in the live database.
FilesAgree ==
  run = Idle => \A f \in files : f.tasks \cap tasks = {} /\ f.mail \cap mail = {}
=============================================================================

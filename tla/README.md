# Verification of the coordination database

The program under `src/coordination` keeps the shared state of a project's
agents in one SQLite file: who is registered and at work, which session holds
which task, who has read what, and an append-only audit log of every change.
Any number of processes use the file at once, through a CLI or an MCP server;
none of them talks to another except through the database and the lock files
beside it. This directory holds TLA+ models of that system, TLC runs that check
them, and TLAPS proofs of what matters most.

    tlc -workers 2 -config MCTaskClaims.cfg MCTaskClaims     # a run
    tlapm TaskClaims_proofs.tla                              # a proof module

`PROJECT.json` lists the components, runs, mutants, findings, hazards and
theorems, and for each definition the source lines it stands for. All paths
below are relative to `src/`, those of modules to `src/coordination/`.

## 1. Inventory

| Component | State | Operations | Hard behaviour | What makes it correct |
|---|---|---|---|---|
| Coordination core (`entities/agents`, `_sessions_*`, `_tasks_*`, `evidence`) | `agents`, `agent_sessions`, `tasks`, `task_assignees`, `task_claims`, `task_evidence` | register, update; start, heartbeat, end, recover, sweep; create, update, assign, status, claim; add evidence | clients decide on what they read earlier; a lease expires under a slow holder; a reap releases several tasks at once | one live claim per task in progress, revisions stand for content, only holders change claimed tasks, no silent holder for ever |
| Ledger (`_db_helpers.audit`, `audit`, `_audit_write`) | `audit_log`, `change_log` | one row per mutation in its transaction, with a change row for every field that changed; redact; list, changes, history | redactions of redactions, in any order; stamps taken before the writer lock was waited for; a row under another agent's session | entries are only added; what is withheld says so; the past can be rebuilt; every row names an actor and its own session |
| Messages and inbox (`messages`, `inbox`) | `messages`, `metadata.inbox_cursors` | send, redact, list, show; inbox list, mark-read | a cursor over pages while messages arrive | nothing is passed over unlisted but by an agent's own marks |
| Archive (`_maintenance_archive*`) | archive files; deletes from nearly every table | select, copy, publish, delete under the exclusive lock | death or refusal between rename and commit; foreign keys and cascades | a row leaves only into a file; only what was read is removed |
| Connections and locks (`_connections`, `_locking`) | the lock file, SQLite's own locks | connect, close, scopes; shared and exclusive lock with timeout | a file replaced under a connection; lock cycles | no connection outlives its file |
| Restore and migrate (`_maintenance_restore*`, `_maintenance_migrate*`) | the database file and its sidecars, safety backups | stage, preserve, rename, clear, verify, roll back | failure, signal or kill between any two steps, the rollback's included | nothing acknowledged is lost; reports are true |
| Backup (`_maintenance_backup`) | backup files | verified copy, raw copy | committed data in the log only; audit after publication; two backups in opposite directions | a backup is one moment's state; it replaces no database in use |
| Records (`_artifacts_*`, `decisions`, `escalations`, `reviews`) | their tables | add, status with optional `--if-status`, update, resolve | clients that saw the same status; a cause named by `--because` | no lost update when the status is named; causes exist; no false alarm from doctor |
| Dependencies (`dependencies`) | `task_dependencies` | add, resolve | circles and chains when tasks are archived | references resolve |
| Output and export (`_output`, `reports`) | exported files, staged files | audit, guard, lock, stage, publish, remove the staged name | audit before the write; no-clobber by link and unlink; a failure or kill between any two | what a caller is told happened did; no file is replaced without `--force`, and none of the project's own |
| Discovery, paths, guards, config (`_discovery`, `_paths`, `_guards`, `_config`) | `config.yml` | select a database; admit an output | several spellings of one file; sidecars, lock files and metadata near it; enclosing projects | an output is no file a database depends on |
| Service, CLI, MCP (`service`, `_service_*`, `cli`, `transports`) | one connection scope and a receipt per call | dispatch, error translation, signals | a signal while an error is being handled | one envelope per outcome |
| Reports, inspect, doctor (`_reports_*`, `diagnostics`) | none | read transactions | consistency of one moment | the invariants doctor evaluates |
| Descriptors (`_descriptor_*`, `filtering`) | none | filters, orders, pages | ties between equal rows at a page's edge | every row is listed once |
| Installer (`scripts/install.sh`) | the managed bundle, `.coordination`, the installer's lock | check, lock, stage, put aside, rename, verify, clean up | two runs at once; failure, signal or kill between any two steps, the cleanup's included | a bundle that worked is never lost; one run at a time; one backend per project |

Every mutation of rows is one `BEGIN IMMEDIATE` transaction
(`_db_helpers.py:41-60`) that reads, decides, writes and appends its audit row,
and rolls all of it back when a check fails. Committed mutations are therefore
serial, and *what interleaves is the clients*: whatever a client read, any
number of transactions may commit before it writes. Restore, migrate and
archive are different: they hold the exclusive lock on `<db>.lock`, and work in
many file-system steps, each of which can be the last. The installer and the
publication of outputs are like them, each with a lock of its own.

## 2. Modules

| Module | Models | Composes |
|---|---|---|
| `FencedLease` | what claims promise: an abstract lease with fencing | - |
| `DurableStore` | what the database file promises: an abstract store, replaced as a whole | - |
| `TaskClaims` | the core, one action per operation | implements `FencedLease` |
| `ClaimClients` | clients that read, write at the revision read, and retry | extends `TaskClaims` |
| `Inbox` | messages, cursors, listing and marking | - |
| `Archive` | archive runs beside every other client | extends `Inbox` |
| `DatabaseFile` | connections, the lock, commits, backup, restore and migrate | implements `DurableStore` |
| `Ledger` | what an audit log promises: an abstract ledger | - |
| `Records` | artifacts, decisions, escalations, reviews; audit and change rows; redaction | implements `Ledger` |
| `OutputPaths` | discovery, when two paths are one file, guards on outputs | - |
| `Outputs` | backup, export and a write as processes with locks and faults | extends `OutputPaths` |
| `Installer` | runs of `install.sh` | - |
| `Queries` | filters, orders and pages, as operators | - |
| `MC*` | TLC's definitions: symmetry, later starts, paths and requests | each extends its module |
| `*_proofs` | the theorems | each extends its module |

### Core: `TaskClaims`

The variables are the columns any check reads. `agentStatus`, `owner`,
`sessionStatus` are `agents.status`, `agent_sessions.agent_id` and `.status`;
`silence[s]` is the whole seconds since `last_seen_at`, which is all any
comparison of stamps depends on (a cutoff `now - N` is compared with
`last_seen_at`); `status`, `revision`, `assignees`, `evidenced`, `claims` are
the task tables; `newest` is the actor and session of the newest audit row.
Titles, priorities, tags and notes are abstracted to the revision they move.

Each action is a whole handler: its preconditions in the code's order of
`require_*` and `fail` calls (an operation that fails changes nothing and so is
no step), its triggers, its audit row. `ClaimTask` is the free claim and the
claim that finds the task held by a silent session, which it reaps, all of that
session's tasks included, in the same transaction (`_tasks_claim.py:72-165`).
`Reap` is `recover_session_claims`, shared by takeover, `session recover` and
`session sweep`. `Accountable` and `Seen` are what `audit` checks and touches:
an explicit session must be active and the actor's own, and is refreshed.

`FencedLease` says what a reader of the docs takes claims to be: a resource has
at most one holder, loses it only by release or by being fenced, and whoever
was fenced never holds anything again. `ImplementsFencedLease` maps
`holder[t]` to the session of the task's claim row and `fenced` to the ended
sessions; every transaction must be one lease step or none.

`ClaimClients` adds, for the clients it follows, the request under way: the
task and revision `task show` returned, what the task was then, how often the
request was applied and at which revision. A request is sent any number of
times (`Submit`), whatever happened to earlier replies.

### Inbox and archive: `Inbox`, `Archive`

The audit id orders everything, so `head`, the newest id, is the clock;
`sends` are the ledger's send rows, which outlive their messages. `cursor` is
`metadata.inbox_cursors`. A client marks any cursor between its own and the head
(`MarkRead`), the head after a full page included. History are `joined`, when an
agent registered, `heard`, what was listed to it, `covered`, how far its listings
went (`Reach`: all there is when the page was not full, else the page's last
message), and `skipped`, what it marked beyond them.

`Archive` has the run as a variable, idle, selected or published, between
which other clients are admitted only if the code's exclusive lock would admit
them (`Admitted`). `Select` is the two eligibility queries, `Publish` the copy
and the rename, `Delete` the transaction, which `Refused` and `Crash` replace
when a foreign key or a death stops it. Whether a row is past the cutoff is
left open, so every age is covered.

### Database file: `DatabaseFile`

`db` and `log` are the main file and its write-ahead log, each a set of commits
(its content), `conn` the clients' connections, `files` the backups, `acked`
the commits whose callers were told so, `job` the restore or migration with its
phase and what it has staged and saved. One action per file-system step:
`StageRestore`, `PreserveTarget` (or `BackupBeforeMigrate`, `StageMigrated`),
`Rename`, `ClearSidecars`, `Verify`, `Finish`; and the undoing: `BeginUndo`,
`EmptySidecars`, `Remove` or `SwapBack` with `CopySidecars`, `FinishUndo`.
`BreakBefore`, `BreakAfter`, `SignalOutside`, `BreakUndo` and `Kill` are the
ways any of them ends early; they differ in where the exception is raised and
so in what the caller is told (`Published` is the code's own test,
`_maintenance_restore.py:112-121`).

SQLite is external, and this much of it is assumed: a commit is in the log
until the last connection closes, which moves the log into the main file and
removes it, unless the process is killed; a damaged main file may leave the log
in place; whoever opens a main file replays the log beside it, be it another
file's. Each was confirmed by experiment with SQLite 3.40.1.

`DurableStore` says what somebody who restores or migrates counts on: there is
one content and a set of copies, and a replacement is one step, to a copy (or the
content itself) with the replacement's own commit, or no step at all; only one
that says it was cut short may leave less, and then one copy has what there was.
`ImplementsDurableStore` maps `content` to what the database holds, or while a
job is under way to what it held when the job got its lock, so that the whole job
shows at its end; `copies` are the backups' contents, `told` is `acked`.

### Records and ledger: `Records`, `Ledger`

`record` is the row of each artifact, decision, escalation and review: its
status, one further field standing for all others, and `updated_at`. `audit` is
`audit_log` with each row's `change_log` rows; `past` is history, the records as
each audit row left them. A caller's expected status (`named`) is any status,
since it comes from a read that may lie any number of transactions back. For
the same reason `entered`, when the operation took its first stamp, is any time
up to now: some columns are stamped before the writer lock is waited for and
some after (`_artifacts_write.py`, `_db_helpers.py:83-136`), and only the order
of the two keeps doctor's out-of-band query quiet. `ChangedFields` is the
comparison of old and new values, `AsNamed` is `require_expected_status`,
`Resolvable` is `resolve_reference`. A tombstone is `Sentinel` with the
redaction's id in `by`.

`Ledger` says what a reader of an audit log may count on: entries are added and
never change or go, except that an entry's text may be withheld, once, together
with a new entry that says so. `ImplementsLedger` maps each audit row to an
entry: action, object and time are the fact, detail and change rows the text.

### Outputs: `OutputPaths`, `Outputs`

A path is a sequence of directories and a name with suffixes, so that sidecars
and lock files of a path are paths too; `Folded` makes two spellings one file,
as a file system without case does, and `SameFile` is what
`paths_refer_to_same_file` sees of that. `ProjectDatabase`,
`Explicit` and `Nearest` are discovery, `ValidOutput`, `ExternalTo`,
`ClearOfConfigured` and `Contained` the guards, each with the conditions of the
function that `map` names.

A root is whatever directory folds to one (`IsRoot`), so discovery finds an
enclosing project through any spelling of it.

In `Outputs` each process invokes one operation and `pc` is where it is in it.
`file` has for each place who made the file there, which tells files that were at
one place apart, as an inode does; `rows` are the audit rows of each such file,
and `opened` is the one a process has open, whatever is at its place by then.
`shares` and `owns` are the lock files it has locked; the source's lock is held
shared to the end, the output's publish lock and, for a backup, the lock of the
database to be replaced exclusively. `Publish` is a rename with `--force` and a
link, followed by `Unlink`, without. An export writes its audit row first and
checks its output afterwards; a backup the other way round. `Unwind` is any
exception: `TimedOut` raises it where a lock is held by another, `Fail` anywhere
at all. `Kill` is a death without unwinding, `Intrude` another program's file at
the output's place. `log` is where SQLite's sidecars
lie.

### Installer: `Installer`

`pc` follows each run through `install.sh`; `hadOld`, `started`, `complete` and
`owns` are the script's flags `had_old_bundle`, `publish_started`,
`install_complete` and `lock_acquired`, from which its cleanup finds out what to
undo. `bundle` is what stands in the managed bundle's place, `rollback` what
each run has put aside. A directory being removed is first `Torn`, so that a
kill inside `rm -rf` is covered. `Preflight` comes before the lock and may be
stale after it. `Interrupted` is a failing command or a signal, after which the
cleanup runs; `Kill` is one after which it does not; `ClearStale` is the
operator who removes a dead run's lock.

### Queries: `Queries`

`Descriptor` is the nine descriptors' filterable columns by kind. `Admitted` and
`Holds` are a `--where` and its SQL, `conditions` what a list's own options select
(`--tag`, `--assignee`, the recipient), `Ordering` the parts of ORDER BY with the
tie-breaker the engine adds, `Precedes` the order they make. SQLite may return
rows it does not tell apart either way, and another way in the next query, so a
page has rows that are on it for certain (`OnPage`) and rows that may be
(`MayBeOnPage`).

## 3. Runs

| Run | Question | Size |
|---|---|---|
| `claims_one_task` | is the core safe, and a fenced lease, from an empty database? | 2 agents, 3 sessions, 1 task |
| `claims_two_tasks` | does reaping a session release all it holds at once? | 2 agents, 2 sessions, 2 tasks |
| `claims_liveness` | does a silent holder always lose its task? | 2 agents, 2 sessions, 1 task, no symmetry |
| `claim_clients` | is a write at the revision read applied once, and against what was seen? | 1 followed client, 1 other |
| `archive_inbox` | is anything passed over, or removed unread? | 2 agents (one late), 2 messages, pages of 1 |
| `archive_tasks` | do references resolve in database and files, and does a row leave only into a file? | 3 tasks, 1 message about a task, 2 archive files |
| `database_file` | is anything lost, or misreported, wherever a job stops, and is a job one step of the abstract store? | 2 clients, 4 commits, 4 backup files |
| `records` | does the ledger tell the truth, whatever was redacted; is an escalation seen open resolved once? | 2 artifacts, 1 decision, 1 escalation, 1 review, 2 statuses, 2 texts, 4 audit rows |
| `outputs` | is every output whole, recorded and in a permitted place, and does every operation end? | 2 processes, 20 requests, 3 databases, 3 configurations or none, 1 fault |
| `installer` | is a working bundle ever lost, or another backend's project installed over? | 4 runs, 2 kills |
| `archive_refused`, `restore_signal` | violations: see Findings | as small as shows them |

Why the bounds are enough to see what is asked:

- *Core.* `Lease = 2` with `MaxSilence = 2` has a session just below, at and
  (saturated) past the lease; silence saturates because no code distinguishes
  more. `MaxRevision = 4` lets a task be created, claimed, lost and claimed
  again, a takeover taking two revisions at once; the bound is a guard of the
  actions (`Room`). Two agents and three sessions allow an agent with two
  sessions, which own-session and takeover checks must tell apart. The later
  start of `claims_two_tasks` and `claim_clients` (`ReadyInit`: sessions
  running, tasks created and evidenced) is reached from `Init` by `agent add`,
  `session start`, `task create` and `evidence add`; it spends the states on
  claims.
- *Archive.* Pages of one message make every two-message inbox span pages;
  `MaxHead = 6` leaves room for a registration, three sends (an identifier
  used again included), a mark and an archive run. Three tasks are the least
  for a chain `x -> o -> t`. `archive_tasks` uses the same later start, tasks
  created one after another, and the second made dependent on the first; two
  files let a second run follow one that crashed or was refused.
- *File.* Four commits allow one before, one in the log, one by the job and one
  after it; four backup files a given one, a client's and two safety backups.
- *Records.* Four audit rows let a record be created, changed twice and a row
  redacted, or a redaction be redacted in its turn; two artifacts contend for one
  uri, two statuses are the least that can be lost. `MaxClock = 1` separates the
  stamp taken on entry from the one taken under the lock.
- *Outputs.* Locks are taken between two parties, and a third adds no new order
  of two. The project's database `a` is configured plainly, through a directory
  or not at all; `b` and `c` lie outside it and are backed up into each other;
  the requests contain backups and exports with and without `--force`, with and
  without an actor, by agents (backups), and at outputs that alias the database, its log and the
  configuration, or the database through another spelling of its project, and one
  export over a database that another request backs up. A fault is a kill or an
  intruder.
- *Installer.* Four runs and two kills: a run that is killed, one that finds what
  it left, a second killed on top of it, and one at the end.

Deadlock is checked except where the model may really stop: in the archive runs
and `records` at the bound on audit ids (`MaxHead`, `MaxAudit`), since every
operation appends a row; in `installer` and `outputs` because every process ends.

*Fairness.* Two runs assume any. `outputs` has weak fairness of each process's
own steps: nothing stops a process for ever but a lock, and each lock is waited
for with a busy timeout (`_locking.py:75-136`), after which it unwinds; failures,
kills and intruders are never owed. `claims_liveness` has weak fairness of
`Tick`, that time passes, and of `SweepStep`, that somebody sweeps again and
again. The docs make the sweep the operator's scheduled job ("Nightly sweep of
silent workers", `docs/adapters/sqlite.md:367-369`). In it no client is assumed
to ever take a step. The property speaks of tasks with room below the revision
bound, since in the model, not in the program, a task at the bound cannot be
taken away.

`Queries` has no state and so no run; its theorems cover it.

Every property of a passing run has a mutant in `PROJECT.json`: an operator
beside the definition it replaces, changed as a plausible bug would change it
(`PageNewestFirst`, `PublishedFlag`, `RecordEarly`, `UndoneUnchecked`...), under
which TLC finds the property violated.

## 4. What is proved

For every value of the constants under the modules' named assumptions (null
values outside the sets they complete, bounds that are naturals, a lease within
the range of silence):

- **Core** (`TaskClaims_proofs`). `ClaimInv` is inductive: `TypeOK`,
  `CoordinationInvariants`, `ClaimantIsAssigned` and `AuditNamesOwnSession`, and
  two facts without which these are not: `OneClaimPerTask` (the table's primary
  key; without it releasing "the" claim would leave another) and
  `AuditNamesStartedSession` (else starting a session under another agent could
  change whom the newest row's session belongs to). From it follow the action
  properties `RevisionStandsForTask`, `OnlyHolderChangesTask` and
  `TakeoverOnlyAfterLease`.
- **Lease** (`TaskClaims_proofs`). `Spec => Fenced!LeaseSpec`: the initial
  states map, and each transaction is an `Acquire`, a `Release`, a `Fence`, a
  `TakeOver` or a stutter.
- **Clients** (`ClaimClients_proofs`). Client behaviours are core behaviours, so
  the core's invariants hold; with `AbsentAtZero` and `RowsHaveRevision`, the
  invariant `KnowsTask`, that while a task is at the revision a client was shown
  it is as it was shown and nothing was applied, gives `AppliedOnce` and
  `NoLostUpdate`. With `ReplayInv` (what a claim that committed
  left stands as long as the task is at the revision it led to) they give
  `PlainClaimReplays`.
- **Archive** (`Archive_proofs`). `ArchiveInv` adds to the types `Ledgered` (a
  message is as old as its identifier's last send, no cursor is ahead of the
  ledger), `Told` (`NothingPassedOver`, and that a message covered by listings was
  listed), `ReferencesResolve` and `RunHolds` (what a run selected is
  unchanged, and once published it is in a file). From it `NothingPassedOver`,
  `ReferencesResolve`, `RowsLeaveArchived` and `ReadBeforeRemoved`.
- **Database file** (`DatabaseFile_proofs`). `FileInv` follows a job: until the
  rename the target's content is what it was (`Untouched`); from then on all of
  it is in the safety backup (`SafetyFirst`); at each later phase the target is
  the staged copy, or the safety backup's parts (`Replaced`); and nobody is
  connected meanwhile (`Exclusive`). From it `NothingLost`, `NoStaleLog` and
  `ReportsTruthfully`. `ReplacedIsKept` needs `StagedIsKept` besides: the staged
  copy less the job's own commit is in one backup, and nobody was told of that
  commit yet.
- **Store** (`DatabaseFile_proofs`). `DatabaseSpec => Store!StoreSpec`. The
  initial states map; while no job is under way each client's step is an
  `Accept`, a `Copy` or a stutter; a job's steps before its last are a `Copy` or a
  stutter; the last is a `Replace`, a `Decline` or a `CutShort`. It needs, besides
  the above, `StagedFrom`, that the staged copy is a backup (or a migration's
  target) with the job's commit, and `WhatIsThere`, what the target is wherever a
  job stops. Of `DurableStore` itself it is proved that a commit somebody was told
  of is in the content or in a copy (`StoreIsDurable`).
- **Records** (`Records_proofs`). Every operation but a redaction writes one
  record and appends one audit row (`WritesOne`, `Accounted`), so the invariant
  `Trail` is shown once for such a write, once for a redaction and once for time.
  It adds to the properties what they rest on: what is on record was
  created by some row (`Created`), an escalation resolved by name is open no more
  (`Settled`), records once there stay (`Kept`), only a redacted row carries an id
  (`Unmarked`). From it `ChangesRebuildPast`, `TombstonesResolve` and
  `NoOutOfBandFindings` (theorems `NoDanglingRedaction` and `NoFalseAlarm`),
  `CausesCameFirst`, `OpenResolvedOnce`, and that `Records`
  implements `Ledger`: each operation is a `Tell`, each redaction a `Withhold`,
  time a stutter.
- **Outputs** (`Outputs_proofs`). First lemmas about paths, for any roots, working
  directory and spelling of names (`PathsAssumption` asks only that roots are
  there and spelt as they fold): two spellings of one file have the same sidecars and lock
  files (`WithFold`, `LockFold`, `ProtectedFold`) and are seen to be one where their
  directory is there (`SameThere`), a path that lies in a project
  by any spelling has that project's root among its enclosing ones (`RootAround`),
  two spellings of a root select the same database (`ProjectFold`), and what the
  guards admit is no managed file of any project (`NotManaged`). On them rests
  `OutputsInv`: the output was found acceptable before a lock on it was asked for
  (`Checked`), who has which lock and that owners exclude everybody (`Locked`),
  every maker's file is at its own place and published (`Made`), and how far each
  is in its answer (`Answering`). Hence `OutputsTypeOK`, `ToldTruly`,
  `OutputsKeepFiles` and `NothingUnderfoot`, for any number of processes and any
  requests.
- **Installer** (`Installer_proofs`). `InstallInv` says for the run that has the
  lock what stands in the bundle's place and aside at each point (`Phase`), for
  every run which flags it can have (`Place`), that SQLite's run has seen SQLite's
  configuration (`Backend`), and `Kept`: what a run found may itself be torn, left
  by a dead run whose whole one is still aside, and then that one must stay. Hence
  `BundleSurvives`, `OneAtATime`, `SqliteBySqlite` and `EndsWholly`, for any number
  of runs and kills.
- **Queries** (`Queries_proofs`). Every order the engine builds ends in a column
  that tells rows apart (`IsOrder`), so of two rows one precedes the other
  (`OrderIsTotal`: irreflexive, transitive, total by the first differing part),
  so a row has one position, the number of rows before it; so the pages at
  multiples of the limit hold every selected row once and no other
  (`PagesTellAll`), as long as nothing is written between them.

All inductive invariants were model-checked on the runs' instances first, and
`PagesTellAll` was evaluated on small tables.

*Only model-checked*: `SilentHolderLosesTask` and `WaitsEnd`, which are liveness
under fairness and beyond the prover; and the two violations. Every other property
of a passing run is a theorem.

## 5. Findings

1. `archive_refused` (bug). `_eligible_tasks` looks at direct dependents only.
   With `x` open, `o` and `t` done and old, `o` depending on `t` and `x` on `o`,
   it selects `t` without `o`; the file is published, and the deletion then
   violates `task_dependencies.depends_on_task_id` and rolls back. The file says
   `t` moved, the database still has it, and every later run repeats this. The
   comment at `_maintenance_archive.py:140-142` says the two can never disagree.
   Nothing is lost (`RowsLeaveArchived` holds).
2. `restore_signal` (divergence). A signal that is handled after the last
   statement of restore's `try` block, or on the way into its `except` clause,
   ends with `operation_interrupted` and the restored database in place, where
   `docs/cli-contract.md:1748-1750` has a rollback and
   `restore_verification_failed`.

Limits a reader should know, which no property contradicts.

- *Claims.* A holder silent for exactly the lease is displaced;
  `docs/cli-contract.md:820-822` says more than 3600 seconds. Both stamps are cut
  to whole seconds, so a silence of little more than 3599 s can count as 3600. A
  claim that displaced a silent holder moves the task two revisions on, so its
  retry is answered `stale_task_revision` and not as the idempotent replay of
  `docs/cli-contract.md:815-818` (`PlainClaimReplays` is about the others). A claim
  followed by the holder's own update is no longer recognised as a replay.
- *Inbox.* Marking the cursor at `HEAD` after a listing, as
  `scaffold/AGENTS-sqlite.md:34` puts it, passes over what a full page left out,
  and what arrived since. The code lets a client do so and the model has it:
  `NothingPassedOver` and `ReadBeforeRemoved` say that what its own marks skip is
  all that is lost to it.
- *Records.* `artifact update --if-status` leaves the status as it is, so two
  callers that saw the same status both succeed, contrary to the comment at
  `_artifacts_write.py:87-91`; a status that was changed and changed back passes
  for the one seen. Free text that begins like a tombstone is taken for one
  (`RecordsAssumption` excludes it). Redacting a change leaves the value in the
  change row before or after it. `updated_at` may be stamped before the writer
  lock is waited for, so a reader that polls with `--updated-since` can miss a row
  that commits later with an older stamp. The clock is assumed not to go back.
- *Outputs.* A kill between the link and the removal of the staged name leaves two
  names, and the guards then refuse the file, with `--force` too. Of directories
  that are not there yet the guards compare the spelling (`SameDirectory`), so an
  output spelt in another case, in a directory made for it, can take the place of
  a configured database that is yet to be made. The operation log records `ok` for
  an operation that SIGINT interrupts and whose caller is told so
  (`_service_core.py:187`: no `except` clause names KeyboardInterrupt); nothing
  reads the log. A failed backup
  may be published without a row, a failed export may have a row without a file
  (`ToldTruly` says what does hold). Two backups in opposite directions may both
  time out. An export with `--force` over a database that is neither selected nor
  configured takes no lock of it: whoever has it open goes on with the file that
  was there, and is told of a row in a file without a name. `NothingUnderfoot` is
  about backups, and `ToldTruly` about the file that was opened.
- *Installer.* A Markdown bundle may be installed over a SQLite project whose
  installation was under way at the check (`docs/upgrade.md:23` has the backend
  authoritative); `SqliteBySqlite` is the direction that holds. A first run
  stopped between the first file and `config.yml` leaves a directory that later
  runs refuse (`install.sh:426-428`). A failure puts the bundle back, not
  `AGENTS.md`, `.gitignore` or `config.yml`. A second signal during the cleanup
  ends it where it is.
- *Queries.* Rows written between two pages may move from one to the other.
  `id:in=` takes 500 values but the page holds 100 unless asked for more.

## 6. What is not modelled, and why

- Sessions in `Inbox`: there they decide only whether an agent may be
  deactivated. `OFFSET` paging of inbox lists: the documented client goes on by
  cursor.
- A dependency row from an archived task to one that stays is removed by cascade
  and is in no file, and so are the archived task's `artifact_tasks` rows;
  `RowsLeaveArchived` speaks of tasks and messages.
- The composition of `Archive` and `TaskClaims`: a task identifier archived and
  created again starts at revision 1 again.
- In `DatabaseFile`: the waits for locks and their timeouts (a refused operation
  is no step; `Outputs` has them), which of the checks refuses a job (left open),
  damage to the file during an operation, path guards, file permissions, `fsync`,
  and staged files left beside the database, which nothing opens.
- In `Records`: links to tasks, reviewers and who may act; the schema's status
  `in_review`, which no operation sets.
- In `Outputs`: outputs whose directory would have to be made (`OutputsAssumption`),
  the operation log, symbolic links and hard links made beforehand, the syntax of
  `config.yml`, a configuration edited during an operation, and SQLite's own wait
  for the writer lock when the row is written (a `Fail`).
- In `Installer`: the text written into `AGENTS.md` and `.gitignore`.
- The MCP transport and the launchers, which forward each call to one service
  operation; `verify-install.sh` and the reports, which only read.
- Argument parsing, validation of text, envelopes, report layout: no state that
  another operation reads.

## 7. Plan

What could come next, in order.

1. `Archive` composed with the claims: an identifier created again, and a
   request for the old task's revision.
2. A reader of the records that polls with `--updated-since` and with `--since`,
   also across a restore of an older file.

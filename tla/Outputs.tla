------------------------------ MODULE Outputs ------------------------------
(***************************************************************************)
(* backup, export and an ordinary write, each by one process: the locks    *)
(* they take one inside the other, the publication of a staged file with   *)
(* and without --force, the row that records it, and what the caller is    *)
(* told, with failures, signals and kills at every step.                   *)
(***************************************************************************)
EXTENDS OutputPaths

CONSTANTS
  Processes,  \* each invokes one operation
  Requests,   \* what they may ask for
  OnDisk,     \* the databases that exist, by path
  Nobody,     \* no process: what was there before, or another program's
  MaxFaults   \* bound: kills, and files made by other programs

Outs == {r.out : r \in Requests} \ {NoPath}
Files == {Folded(p) : p \in Outs \cup OnDisk}

\* backup needs an output, export may print; agents have backup only, and must
\* name an actor.
IsRequest(r) ==
  /\ {r.db, r.out} \subseteq Paths \cup {NoPath}
  /\ r.kind \in {"backup", "export", "write"}
  /\ {r.force, r.actor, r.agent} \subseteq BOOLEAN
  /\ r.out = NoPath => r.kind # "backup"
  /\ r.kind = "write" => r.actor /\ r.out = NoPath
  /\ r.agent => r.kind = "backup" /\ r.actor

\* An output whose directory would have to be made first is left out.
ASSUME OutputsAssumption ==
  /\ \A r \in Requests : IsRequest(r)
  /\ OnDisk \subseteq Paths
  /\ \A p \in Outs \cup OnDisk : FoldAll(p.in) \in Directories
  /\ MaxFaults \in Nat
  /\ Nobody \notin Processes /\ NoFile \notin Processes \cup {Nobody}

VARIABLES
  file,       \* by folded place: who made the file that is there
  rows,       \* the audit rows of a database, by place and maker
  log,        \* the databases beside which SQLite's sidecars lie
  request,    \* what each process asked for
  pc,         \* where it is in the operation
  database,   \* the database it selected
  opened,     \* who made the one that it opened there, whatever is there now
  shares,     \* the lock files that it has locked, shared
  owns,       \* and exclusively
  staged,     \* its temporary name exists
  receipt,    \* the audit id of the row that it wrote
  told,       \* what the caller was told
  published,  \* history: who has published
  faults      \* history: the number of faults

vars == <<config, file, rows, log, request, pc, database, opened, shares, owns,
          staged, receipt, told, published, faults>>

asked == <<config, request, database>>
disk == <<file, rows, log, staged, published>>
locks == <<shares, owns>>
answers == <<receipt, told>>

-----------------------------------------------------------------------------

Row == [by : Processes, what : {"backup", "export", "write"}]

Makers == Processes \cup {Nobody}

Active == {"connect", "record", "guard", "output", "namespace", "stage",
           "publish", "unlink", "return", "close"}

LockFiles ==
  {Folded(DatabaseLock(p)) : p \in Outs \cup OnDisk} \cup {Folded(OutputLock(p)) : p \in Outs}

OutputsTypeOK ==
  /\ config \in [Roots -> Settings \cup {NoFile}]
  /\ file \in [Files -> Makers \cup {NoFile}]
  /\ rows \in [Files \X Makers -> Seq(Row)]
  /\ log \subseteq Files
  /\ request \in [Processes -> Requests]
  /\ pc \in [Processes -> {"idle", "done", "dead"} \cup Active]
  /\ database \in [Processes -> Paths \cup {NoPath}]
  /\ \A p \in Processes : pc[p] \in Active => database[p] # NoPath /\ Folded(database[p]) \in Files
  /\ opened \in [Processes -> Makers]
  /\ shares \in [Processes -> SUBSET LockFiles] /\ owns \in [Processes -> SUBSET LockFiles]
  /\ \A p \in Processes : pc[p] \notin Active => shares[p] = {} /\ owns[p] = {}
  /\ staged \in [Processes -> BOOLEAN]
  /\ receipt \in [Processes -> Nat]
  /\ told \in [Processes -> {"nothing", "ok", "error"}]
  /\ published \subseteq Processes
  /\ faults \in 0 .. MaxFaults

OutputsInit ==
  /\ config \in [Roots -> Settings \cup {NoFile}]
  /\ file = [f \in Files |-> IF f \in {Folded(d) : d \in OnDisk} THEN Nobody ELSE NoFile]
  /\ rows = [d \in Files \X Makers |-> <<>>]
  /\ log = {}
  /\ request \in [Processes -> Requests]
  /\ pc = [p \in Processes |-> "idle"]
  /\ database = [p \in Processes |-> NoPath] /\ opened = [p \in Processes |-> Nobody]
  /\ shares = [p \in Processes |-> {}] /\ owns = [p \in Processes |-> {}]
  /\ staged = [p \in Processes |-> FALSE]
  /\ receipt = [p \in Processes |-> 0]
  /\ told = [p \in Processes |-> "nothing"]
  /\ published = {} /\ faults = 0

Goto(p, next) == pc' = [pc EXCEPT ![p] = next]

Out(p) == request[p].out
Place(p) == Folded(Out(p))
Source(p) == Folded(database[p])
Opened(p) == <<Source(p), opened[p]>>
Is(p, kind) == request[p].kind = kind
Exists(f) == file[f] # NoFile

\* What is there was there before, or is a backup.
IsDatabase(f) ==
  \/ file[f] = Nobody /\ \E d \in OnDisk : f = Folded(d)
  \/ file[f] \in Processes /\ Is(file[f], "backup")

\* A second name, left by a publication that was killed half-way.
IsLinked(f) == file[f] \in Processes /\ staged[file[f]]

\* Advisory locks conflict between any two handles, of one process or of two.
MayShare(l) == \A q \in Processes : l \notin owns[q]
MayOwn(l) == \A q \in Processes : l \notin owns[q] \cup shares[q]

\* The last connection removes SQLite's sidecars as it closes.
LogAfter(p) ==
  {f \in log : pc[p] = "connect" \/ f # Source(p)
                 \/ \E q \in Processes \ {p} : Folded(DatabaseLock(database[p])) \in shares[q]}

-----------------------------------------------------------------------------

\* The envelope and the exit status.
Answer(p, answer) == told' = [told EXCEPT ![p] = answer]

\* Mutant of Unwind: the locks stay with the process.
UnwindHolding(p) ==
  /\ Goto(p, "done")
  /\ Answer(p, "error")
  /\ staged' = [staged EXCEPT ![p] = FALSE]
  /\ log' = LogAfter(p)
  /\ UNCHANGED <<asked, opened, file, rows, locks, receipt, published, faults>>

\* Every exception: what is staged goes, the locks are released, and the
\* failure leaves no receipt.
Unwind(p) ==
  /\ Goto(p, "done")
  /\ Answer(p, "error")
  /\ staged' = [staged EXCEPT ![p] = FALSE]
  /\ shares' = [shares EXCEPT ![p] = {}] /\ owns' = [owns EXCEPT ![p] = {}]
  /\ log' = LogAfter(p)
  /\ UNCHANGED <<asked, opened, file, rows, receipt, published, faults>>

\* A backup's output is checked before anything is opened.
Selected(r) ==
  {d \in Discovered(r.db) : r.kind = "backup" => Contained(r, d) /\ Acceptable(r, d)}

Begin(p) ==
  /\ pc[p] = "idle"
  /\ \/ /\ \E d \in Selected(request[p]) :
             /\ Folded(d) \in Files
             /\ database' = [database EXCEPT ![p] = d]
        /\ Goto(p, "connect")
        /\ UNCHANGED told
     \/ /\ \A d \in Selected(request[p]) : Folded(d) \notin Files
        /\ Goto(p, "done") /\ Answer(p, "error")
        /\ UNCHANGED database
  /\ UNCHANGED <<config, request, opened, disk, locks, receipt, faults>>

\* The shared lock of the source is held to the end of the operation.
Connect(p) ==
  LET l == Folded(DatabaseLock(database[p])) IN
  /\ pc[p] = "connect" /\ MayShare(l)
  /\ IF IsDatabase(Source(p)) /\ ~IsLinked(Source(p))
     THEN /\ opened' = [opened EXCEPT ![p] = file[Source(p)]]
          /\ shares' = [shares EXCEPT ![p] = {l}]
          /\ log' = log \cup {Source(p)}
          /\ Goto(p, CASE Is(p, "backup") -> "output"
                       [] Is(p, "export") /\ ~request[p].actor -> "guard"
                       [] OTHER -> "record")
          /\ UNCHANGED <<asked, file, rows, staged, published, owns, answers, faults>>
     ELSE Unwind(p)

\* Mutant of Record: the id is read before the row is there.
RecordEarly(p) ==
  /\ pc[p] = "record"
  /\ rows' = [rows EXCEPT ![Opened(p)] = Append(@, [by |-> p, what |-> request[p].kind])]
  /\ receipt' = [receipt EXCEPT ![p] = Len(rows[Opened(p)])]
  /\ Goto(p, IF Is(p, "export") THEN "guard" ELSE "close")
  /\ UNCHANGED <<asked, opened, file, log, staged, published, locks, told, faults>>

\* The audit row, in a transaction of its own.
Record(p) ==
  /\ pc[p] = "record"
  /\ rows' = [rows EXCEPT ![Opened(p)] = Append(@, [by |-> p, what |-> request[p].kind])]
  /\ receipt' = [receipt EXCEPT ![p] = Len(rows'[Opened(p)])]
  /\ Goto(p, IF Is(p, "export") THEN "guard" ELSE "close")
  /\ UNCHANGED <<asked, opened, file, log, staged, published, locks, told, faults>>

\* An export checks its output only when it comes to write it.
Guard(p) ==
  /\ pc[p] = "guard"
  /\ CASE Out(p) = NoPath ->
            /\ Goto(p, "close")
            /\ UNCHANGED <<asked, opened, disk, locks, answers, faults>>
       [] Out(p) # NoPath /\ Acceptable(request[p], database[p]) ->
            /\ Goto(p, "output")
            /\ UNCHANGED <<asked, opened, disk, locks, answers, faults>>
       [] OTHER -> Unwind(p)

LockOutput(p) ==
  LET l == Folded(OutputLock(Out(p))) IN
  /\ pc[p] = "output" /\ MayOwn(l)
  /\ IF Is(p, "backup") /\ ~request[p].force /\ Exists(Place(p))
     THEN Unwind(p)
     ELSE /\ owns' = [owns EXCEPT ![p] = @ \cup {l}]
          /\ Goto(p, IF Is(p, "backup") THEN "namespace" ELSE "stage")
          /\ UNCHANGED <<asked, opened, disk, shares, answers, faults>>

\* Mutant of LockNamespace: only the output lock is taken.
LockNamespaceNot(p) ==
  /\ pc[p] = "namespace"
  /\ IF IsLinked(Place(p)) \/ Place(p) \in log
     THEN Unwind(p)
     ELSE /\ Goto(p, "stage")
          /\ UNCHANGED <<asked, opened, disk, locks, answers, faults>>

\* Nobody has the destination open, and nobody left a log beside it.
LockNamespace(p) ==
  LET l == Folded(DatabaseLock(Out(p))) IN
  /\ pc[p] = "namespace" /\ MayOwn(l)
  /\ IF IsLinked(Place(p)) \/ Place(p) \in log
     THEN Unwind(p)
     ELSE /\ owns' = [owns EXCEPT ![p] = @ \cup {l}]
          /\ Goto(p, "stage")
          /\ UNCHANGED <<asked, opened, disk, shares, answers, faults>>

\* A backup is a copy of what its connection has open.
Stage(p) ==
  /\ pc[p] = "stage"
  /\ staged' = [staged EXCEPT ![p] = TRUE]
  /\ rows' = IF Is(p, "backup") THEN [rows EXCEPT ![<<Place(p), p>>] = rows[Opened(p)]] ELSE rows
  /\ Goto(p, "publish")
  /\ UNCHANGED <<asked, opened, file, log, published, locks, answers, faults>>

\* With --force a rename over whatever is there; without, a link, which fails
\* when something is.
Publish(p) ==
  /\ pc[p] = "publish"
  /\ IF ~request[p].force /\ Exists(Place(p))
     THEN Unwind(p)
     ELSE /\ file' = [file EXCEPT ![Place(p)] = p]
          /\ published' = published \cup {p}
          /\ staged' = [staged EXCEPT ![p] = ~request[p].force]
          /\ Goto(p, "unlink")
          /\ UNCHANGED <<asked, opened, rows, log, locks, answers, faults>>

Unlink(p) ==
  /\ pc[p] = "unlink"
  /\ staged' = [staged EXCEPT ![p] = FALSE]
  /\ Goto(p, "return")
  /\ UNCHANGED <<asked, opened, file, rows, log, published, locks, answers, faults>>

\* The output's locks are released; a backup is recorded now.
Return(p) ==
  /\ pc[p] = "return"
  /\ owns' = [owns EXCEPT ![p] = {}]
  /\ Goto(p, IF Is(p, "backup") /\ request[p].actor THEN "record" ELSE "close")
  /\ UNCHANGED <<asked, opened, disk, shares, answers, faults>>

\* The end of the operation's scope.
Close(p) ==
  /\ pc[p] = "close"
  /\ Goto(p, "done")
  /\ Answer(p, "ok")
  /\ shares' = [shares EXCEPT ![p] = {}]
  /\ log' = LogAfter(p)
  /\ UNCHANGED <<asked, opened, file, rows, staged, published, owns, receipt, faults>>

\* Mutant of TimedOut: the source's lock alone has a timeout.
TimedOutConnecting(p) ==
  /\ pc[p] = "connect" /\ ~MayShare(Folded(DatabaseLock(database[p])))
  /\ Unwind(p)

\* A lock is waited for until the busy timeout.
TimedOut(p) ==
  /\ \/ pc[p] = "connect" /\ ~MayShare(Folded(DatabaseLock(database[p])))
     \/ pc[p] = "output" /\ ~MayOwn(Folded(OutputLock(Out(p))))
     \/ pc[p] = "namespace" /\ ~MayOwn(Folded(DatabaseLock(Out(p))))
  /\ Unwind(p)

Step(p) ==
  \/ Begin(p) \/ Connect(p) \/ Record(p) \/ Guard(p) \/ LockOutput(p)
  \/ LockNamespace(p) \/ Stage(p) \/ Publish(p) \/ Unlink(p) \/ Return(p)
  \/ Close(p) \/ TimedOut(p)

\* A statement refused, a full disk, a signal turned into an exception.
Fail(p) == pc[p] \in Active /\ Unwind(p)

\* Advisory locks go with the process; its temporary file and the log stay.
Kill(p) ==
  /\ pc[p] \in Active /\ faults < MaxFaults
  /\ Goto(p, "dead") /\ faults' = faults + 1
  /\ shares' = [shares EXCEPT ![p] = {}] /\ owns' = [owns EXCEPT ![p] = {}]
  /\ UNCHANGED <<asked, opened, disk, answers>>

\* Another program makes a file where an output is to go.
Intrude(p) ==
  /\ pc[p] = "stage" /\ ~Exists(Place(p)) /\ faults < MaxFaults
  /\ file' = [file EXCEPT ![Place(p)] = Nobody]
  /\ faults' = faults + 1
  /\ UNCHANGED <<asked, opened, pc, rows, log, staged, published, locks, answers>>

OutputsNext == \E p \in Processes : Step(p) \/ Fail(p) \/ Kill(p) \/ Intrude(p)

\* A process goes on by itself, and no wait outlasts its timeout.
OutputsSpec ==
  /\ OutputsInit /\ [][OutputsNext]_vars
  /\ \A p \in Processes : WF_vars(Step(p))

-----------------------------------------------------------------------------

\* The files that belong to the projects: no output ever comes to their places.
Managed ==
  {Folded(p) : p \in UNION {Metadata(r) \cup UNION {ProtectedPaths(d) : d \in ProjectDatabase(r)} :
                              r \in {s \in Roots : Configured(s)}}}

\* A file keeps what was committed to it until an output replaces it, which needs
\* --force where something is, and comes neither to a managed place nor to that of
\* the database it is made from, however the path is spelt.
OutputsKeepFiles ==
  [][\A f \in Files :
       /\ Exists(f) /\ file'[f] = file[f] => IsPrefix(rows[<<f, file[f]>>], rows'[<<f, file[f]>>])
       /\ file'[f] # file[f] =>
            \/ ~Exists(f) /\ file'[f] = Nobody
            \/ /\ f \notin Managed
               /\ \E p \in Processes :
                    /\ p \in published' \ published /\ Place(p) = f /\ Source(p) # f
                    /\ Exists(f) => request[p].force]_vars

\* A backup never takes the place of a database that a process has open, or
\* whose log still holds what the file does not.
NothingUnderfoot ==
  [][\A p \in Processes : p \in published' \ published /\ Is(p, "backup") =>
       /\ Place(p) \notin log
       /\ \A q \in Processes : Folded(DatabaseLock(Out(p))) \notin shares[q]]_vars

\* What a caller is told happened, did: the file is whole under one name and the
\* row is the one the receipt names; a recorded backup exists, and no export that
\* names an actor goes unrecorded, whatever fails.
ToldTruly ==
  /\ \A p \in Processes :
       /\ told[p] = "ok" =>
            /\ Out(p) # NoPath => p \in published
            /\ ~staged[p]
            /\ request[p].actor => receipt[p] > 0
       /\ receipt[p] > 0 =>
            /\ receipt[p] <= Len(rows[Opened(p)])
            /\ rows[Opened(p)][receipt[p]] = [by |-> p, what |-> request[p].kind]
       /\ Is(p, "export") /\ request[p].actor /\ p \in published => receipt[p] > 0
  /\ \A d \in Files \X Makers : \A i \in DOMAIN rows[d] :
       rows[d][i].what = "backup" => rows[d][i].by \in published

\* Every operation ends, also two that wait for each other.
WaitsEnd == \A p \in Processes : pc[p] = "connect" ~> pc[p] \in {"done", "dead"}
=============================================================================

----------------------------- MODULE Installer -----------------------------
(***************************************************************************)
(* scripts/install.sh: several installations into one project directory,   *)
(* each stopped at any point by a failing command or a signal (its cleanup *)
(* runs) or by a kill (it does not).                                       *)
(*                                                                         *)
(* The managed bundle is published by renaming a staged directory over the *)
(* place of the one before, which stands aside until everything else has   *)
(* succeeded.  A directory being removed is first Torn, then gone.  Text   *)
(* files (AGENTS.md, .gitignore, README.md) are left out but for the       *)
(* configuration and for whether .coordination holds anything.             *)
(***************************************************************************)
EXTENDS Naturals, FiniteSets

CONSTANTS
  Installers,   \* runs of install.sh
  Prior,        \* the bundle that was there before all of them
  Nothing,      \* there is no such directory or file
  Torn,         \* a directory half removed
  Nobody,       \* the lock directory does not exist
  MaxKills      \* bound: kills without cleanup

Adapters == {"markdown", "sqlite"}
Whole == Installers \cup {Prior}
Directory == Whole \cup {Nothing, Torn}

ASSUME InstallerAssumption ==
  /\ MaxKills \in Nat
  /\ {Prior, Nothing, Torn} \cap Installers = {} /\ Nobody \notin Installers
  /\ Prior # Nothing /\ Prior # Torn /\ Nothing # Torn /\ Nothing \notin Adapters

VARIABLES
  adapter,   \* --adapter of each run
  pc,        \* where each run is
  lock,      \* the lock directory: who made it
  bundle,    \* what stands at the place of the managed bundle
  rollback,  \* what each run has put aside
  stage,     \* whether each run's staged bundle exists
  config,    \* the backend that config.yml names
  littered,  \* whether .coordination holds anything else
  hadOld,    \* had_old_bundle
  started,   \* publish_started
  complete,  \* install_complete
  owns,      \* lock_acquired
  found,     \* history: the bundle each run found when it took the lock
  kills      \* history: the number of kills

vars == <<adapter, pc, lock, bundle, rollback, stage, config, littered,
          hadOld, started, complete, owns, found, kills>>

files == <<bundle, rollback, stage, config, littered>>
flags == <<hadOld, started, complete, owns, found>>

-----------------------------------------------------------------------------

Steps == {"stage", "files", "config", "probe", "aside", "move", "check",
          "rename", "verify", "finish"}

\* From here on a failure or a signal runs the cleanup.
Trapped == {"checked"} \cup Steps

Cleaning == {"cleanup", "unlock"}

InstallerTypeOK ==
  /\ adapter \in [Installers -> Adapters]
  /\ pc \in [Installers -> {"start", "done", "dead"} \cup Trapped \cup Cleaning]
  /\ lock \in Installers \cup {Nobody}
  /\ bundle \in Directory /\ rollback \in [Installers -> Directory]
  /\ stage \in [Installers -> BOOLEAN]
  /\ config \in Adapters \cup {Nothing} /\ littered \in BOOLEAN
  /\ hadOld \in [Installers -> BOOLEAN] /\ started \in [Installers -> BOOLEAN]
  /\ complete \in [Installers -> BOOLEAN] /\ owns \in [Installers -> BOOLEAN]
  /\ found \in [Installers -> Directory]
  /\ lock # Nobody => owns[lock] /\ pc[lock] # "done"
  /\ kills \in 0 .. MaxKills

\* A project without the scaffold, or with it.
InstallerInit ==
  /\ adapter \in [Installers -> Adapters]
  /\ pc = [i \in Installers |-> "start"]
  /\ lock = Nobody
  /\ \/ bundle = Nothing /\ config = Nothing /\ littered = FALSE
     \/ bundle = Prior /\ config \in Adapters /\ littered = TRUE
  /\ rollback = [i \in Installers |-> Nothing]
  /\ stage = [i \in Installers |-> FALSE]
  /\ hadOld = [i \in Installers |-> FALSE]
  /\ started = [i \in Installers |-> FALSE]
  /\ complete = [i \in Installers |-> FALSE]
  /\ owns = [i \in Installers |-> FALSE]
  /\ found = [i \in Installers |-> Nothing]
  /\ kills = 0

Goto(i, next) == pc' = [pc EXCEPT ![i] = next]

-----------------------------------------------------------------------------
\* Before the lock: everything that can be checked is, and may be stale later.

\* The configured backend is authoritative; coordination state without a
\* configuration is ambiguous.
Suits(i) == IF config = Nothing THEN ~littered ELSE config = adapter[i]

Preflight(i) ==
  /\ pc[i] = "start"
  /\ Goto(i, IF lock = Nobody /\ Suits(i) THEN "checked" ELSE "done")
  /\ UNCHANGED <<adapter, lock, files, flags, kills>>

\* Mutant of TakeLock: the flag is set before the attempt.
TakeLockClaimed(i) ==
  /\ pc[i] = "checked"
  /\ owns' = [owns EXCEPT ![i] = TRUE]
  /\ IF lock = Nobody
     THEN /\ lock' = i /\ found' = [found EXCEPT ![i] = bundle] /\ Goto(i, "stage")
     ELSE /\ Goto(i, "cleanup") /\ UNCHANGED <<lock, found>>
  /\ UNCHANGED <<adapter, files, hadOld, started, complete, kills>>

\* mkdir is the test and the making; signals are ignored until the flag is set.
TakeLock(i) ==
  /\ pc[i] = "checked"
  /\ IF lock = Nobody
     THEN /\ lock' = i /\ owns' = [owns EXCEPT ![i] = TRUE]
          /\ found' = [found EXCEPT ![i] = bundle]
          /\ Goto(i, "stage")
     ELSE /\ Goto(i, "cleanup")
          /\ UNCHANGED <<lock, owns, found>>
  /\ UNCHANGED <<adapter, files, hadOld, started, complete, kills>>

-----------------------------------------------------------------------------
\* Under the lock: the staged bundle and the files of .coordination.

Stage(i) ==
  /\ pc[i] = "stage"
  /\ stage' = [stage EXCEPT ![i] = TRUE]
  /\ Goto(i, "files")
  /\ UNCHANGED <<adapter, lock, bundle, rollback, config, littered, flags, kills>>

\* Directories, templates and the README of .coordination.
WriteFiles(i) ==
  /\ pc[i] = "files"
  /\ littered' = TRUE
  /\ Goto(i, "config")
  /\ UNCHANGED <<adapter, lock, bundle, rollback, stage, config, flags, kills>>

\* copy_if_absent.
WriteConfig(i) ==
  /\ pc[i] = "config"
  /\ config' = IF config = Nothing THEN adapter[i] ELSE config
  /\ Goto(i, IF adapter[i] = "sqlite" THEN "probe" ELSE "aside")
  /\ UNCHANGED <<adapter, lock, bundle, rollback, stage, littered, flags, kills>>

\* Mutant of Discovered: any configuration will do.
DiscoveredAny == config # Nothing

\* What init and doctor find from the target: the nearest project's
\* configuration, which must name SQLite.
Discovered == config = "sqlite"

\* The staged runtime's init and doctor, in the target; a failure of either is
\* Interrupted.
Probe(i) ==
  /\ pc[i] = "probe" /\ Discovered
  /\ Goto(i, "aside")
  /\ UNCHANGED <<adapter, lock, files, flags, kills>>

-----------------------------------------------------------------------------
\* Publication.

\* Mutant of SetAside: the intent is not recorded.
SetAsideUnrecorded(i) ==
  /\ pc[i] = "aside" /\ rollback[i] = Nothing
  /\ Goto(i, IF bundle = Nothing THEN "check" ELSE "move")
  /\ UNCHANGED <<adapter, lock, files, flags, kills>>

\* The intent is recorded before the move.
SetAside(i) ==
  /\ pc[i] = "aside" /\ rollback[i] = Nothing
  /\ IF bundle = Nothing
     THEN Goto(i, "check") /\ UNCHANGED hadOld
     ELSE hadOld' = [hadOld EXCEPT ![i] = TRUE] /\ Goto(i, "move")
  /\ UNCHANGED <<adapter, lock, files, started, complete, owns, found, kills>>

MoveOld(i) ==
  /\ pc[i] = "move"
  /\ rollback' = [rollback EXCEPT ![i] = bundle]
  /\ bundle' = Nothing
  /\ Goto(i, "check")
  /\ UNCHANGED <<adapter, lock, stage, config, littered, flags, kills>>

\* The place must be free; again the intent comes first.
Intend(i) ==
  /\ pc[i] = "check" /\ bundle = Nothing
  /\ started' = [started EXCEPT ![i] = TRUE]
  /\ Goto(i, "rename")
  /\ UNCHANGED <<adapter, lock, files, hadOld, complete, owns, found, kills>>

Rename(i) ==
  /\ pc[i] = "rename"
  /\ bundle' = i
  /\ stage' = [stage EXCEPT ![i] = FALSE]
  /\ Goto(i, "verify")
  /\ UNCHANGED <<adapter, lock, rollback, config, littered, flags, kills>>

\* The published runtime's doctor, then the instructions in AGENTS.md.
Verify(i) ==
  /\ pc[i] = "verify"
  /\ adapter[i] = "sqlite" => Discovered
  /\ Goto(i, "finish")
  /\ UNCHANGED <<adapter, lock, files, flags, kills>>

Finish(i) ==
  /\ pc[i] = "finish"
  /\ complete' = [complete EXCEPT ![i] = TRUE]
  /\ Goto(i, "cleanup")
  /\ UNCHANGED <<adapter, lock, files, hadOld, started, owns, found, kills>>

-----------------------------------------------------------------------------
\* Cleanup, after success and after failure alike.

\* rm -rf: first some of it is gone, then all of it.
Removing(d) == IF d = Torn THEN Nothing ELSE Torn

\* Mutant of Undone: what was put aside is not looked for first.
UndoneUnchecked(i) ==
  ~complete[i] /\ bundle # Nothing /\ (hadOld[i] \/ started[i])

\* What stands at the bundle's place is this run's, and is to go.
Undone(i) ==
  /\ ~complete[i] /\ bundle # Nothing
  /\ IF hadOld[i] THEN rollback[i] # Nothing ELSE started[i]

RemoveNew(i) ==
  /\ pc[i] = "cleanup" /\ Undone(i)
  /\ bundle' = Removing(bundle)
  /\ UNCHANGED <<adapter, pc, lock, rollback, stage, config, littered, flags, kills>>

PutBack(i) ==
  /\ pc[i] = "cleanup" /\ ~complete[i] /\ hadOld[i]
  /\ rollback[i] # Nothing /\ bundle = Nothing
  /\ bundle' = rollback[i]
  /\ rollback' = [rollback EXCEPT ![i] = Nothing]
  /\ UNCHANGED <<adapter, pc, lock, stage, config, littered, flags, kills>>

\* Also the last command of a run that succeeds.
RemoveOld(i) ==
  /\ pc[i] = "cleanup" /\ complete[i] /\ rollback[i] # Nothing
  /\ rollback' = [rollback EXCEPT ![i] = Removing(rollback[i])]
  /\ UNCHANGED <<adapter, pc, lock, bundle, stage, config, littered, flags, kills>>

\* Without had_old_bundle a failure looks for nothing aside.
Settled(i) ==
  ~Undone(i) /\ (complete[i] \/ hadOld[i] => rollback[i] = Nothing)

Tidy(i) ==
  /\ pc[i] = "cleanup" /\ Settled(i)
  /\ stage' = [stage EXCEPT ![i] = FALSE]
  /\ Goto(i, "unlock")
  /\ UNCHANGED <<adapter, lock, bundle, rollback, config, littered, flags, kills>>

\* Mutant of Unlock: the lock is the one thing left behind.
UnlockNot(i) ==
  /\ pc[i] = "unlock"
  /\ Goto(i, "done")
  /\ UNCHANGED <<adapter, lock, files, flags, kills>>

\* The lock directory goes if this run made one, whosever it now is.
Unlock(i) ==
  /\ pc[i] = "unlock"
  /\ lock' = IF owns[i] THEN Nobody ELSE lock
  /\ Goto(i, "done")
  /\ UNCHANGED <<adapter, files, flags, kills>>

-----------------------------------------------------------------------------

\* A command fails (set -e) or a signal is handled.
Interrupted(i) ==
  /\ pc[i] \in Trapped
  /\ Goto(i, "cleanup")
  /\ UNCHANGED <<adapter, lock, files, flags, kills>>

\* SIGKILL or the end of the machine; in the cleanup any further signal does it,
\* and any command that fails.
Kill(i) ==
  /\ pc[i] \in Trapped \cup Cleaning /\ kills < MaxKills
  /\ Goto(i, "dead") /\ kills' = kills + 1
  /\ UNCHANGED <<adapter, lock, files, flags>>

\* Someone removes the lock that a dead run left.
ClearStale ==
  /\ lock # Nobody /\ pc[lock] = "dead"
  /\ lock' = Nobody
  /\ UNCHANGED <<adapter, pc, files, flags, kills>>

Progress(i) ==
  \/ Preflight(i) \/ TakeLock(i)
  \/ Stage(i) \/ WriteFiles(i) \/ WriteConfig(i) \/ Probe(i)
  \/ SetAside(i) \/ MoveOld(i) \/ Intend(i) \/ Rename(i) \/ Verify(i) \/ Finish(i)
  \/ RemoveNew(i) \/ PutBack(i) \/ RemoveOld(i) \/ Tidy(i) \/ Unlock(i)

InstallerNext ==
  \/ \E i \in Installers : Progress(i) \/ Interrupted(i) \/ Kill(i)
  \/ ClearStale

InstallerSpec == InstallerInit /\ [][InstallerNext]_vars

-----------------------------------------------------------------------------

\* A bundle that an installation found or finished is never lost: whoever is
\* stopped wherever, a whole one stands in its place or aside.
BundleSurvives ==
  (\E i \in Installers : complete[i] \/ found[i] \in Whole) =>
    \E d \in {bundle} \cup {rollback[i] : i \in Installers} : d \in Whole

\* Two runs are never at work on the bundle at once.
Working(i) == pc[i] \in Steps \cup {"cleanup", "unlock"} /\ owns[i]

OneAtATime == \A i, j \in Installers : Working(i) /\ Working(j) => i = j

\* A run that ends without success leaves the bundle it found, and one that
\* succeeds its own; neither leaves anything beside it, or the lock.
EndsWholly ==
  [][\A i \in Installers :
       pc[i] = "unlock" /\ pc'[i] = "done" =>
         /\ owns[i] => bundle = IF complete[i] THEN i ELSE found[i]
         /\ rollback[i] = Nothing /\ ~stage[i] /\ lock' # i]_vars

\* The SQLite runtime is never installed over another backend's project, however
\* stale the check before the lock was.
SqliteBySqlite ==
  \A i \in Installers : adapter[i] = "sqlite" /\ complete[i] => config = "sqlite"
=============================================================================

-------------------------- MODULE Installer_proofs --------------------------
(***************************************************************************)
(* Proofs about Installer, for any number of installations and of kills.   *)
(* The invariant InstallInv is inductive: it says at each step of the run  *)
(* that holds the lock where the bundle it found then stands.              *)
(***************************************************************************)
EXTENDS Installer, TLAPS

\* A run that has made no lock has touched nothing.
Fresh(i) ==
  /\ rollback[i] = Nothing /\ ~stage[i] /\ found[i] = Nothing
  /\ ~hadOld[i] /\ ~started[i] /\ ~complete[i] /\ ~owns[i]

\* What the run found is in its place,
InPlace(i) == bundle = found[i] /\ rollback[i] = Nothing

\* or aside, if there was anything.
Aside(i) ==
  IF hadOld[i] THEN found[i] # Nothing /\ rollback[i] = found[i]
               ELSE found[i] = Nothing /\ rollback[i] = Nothing

\* Before the intent to move is recorded, and between the two.
Before(i) == InPlace(i) /\ ~hadOld[i] /\ ~started[i]
Moving(i) == InPlace(i) /\ found[i] # Nothing /\ hadOld[i] /\ ~started[i]

\* The cleanup of a failure finds either.
Undoing(i) ==
  \/ InPlace(i) /\ (hadOld[i] => found[i] # Nothing) /\ (hadOld[i] \/ ~started[i])
  \/ Aside(i) /\ (hadOld[i] \/ started[i])

Phase(i) ==
  /\ pc[i] \in {"stage", "files", "config", "probe", "aside"} => Before(i)
  /\ pc[i] = "move" => Moving(i)
  /\ pc[i] = "check" => Aside(i) /\ bundle = Nothing /\ ~started[i]
  /\ pc[i] = "rename" => Aside(i) /\ bundle = Nothing /\ started[i]
  /\ pc[i] \in {"verify", "finish"} => Aside(i) /\ bundle = i /\ started[i]
  /\ pc[i] \in Steps => ~complete[i]
  /\ pc[i] = "cleanup" => IF complete[i] THEN bundle = i ELSE Undoing(i)
  /\ pc[i] = "unlock" =>
       /\ rollback[i] = Nothing /\ ~stage[i]
       /\ bundle = IF complete[i] THEN i ELSE found[i]

\* If there was ever a bundle, the run at work found one or one stands aside.
Kept(i) ==
  (\E j \in Installers : complete[j] \/ found[j] \in Whole) /\ ~complete[i] =>
    found[i] \in Whole \/ \E j \in Installers : rollback[j] \in Whole

\* Where a run is tells whether it has the lock.
Place(i) ==
  /\ pc[i] \in {"start", "checked"} => ~owns[i]
  /\ pc[i] \in Steps => owns[i]
  /\ pc[i] \in {"start", "checked"} \cup Cleaning /\ ~owns[i] => Fresh(i)

\* The backend is SQLite before SQLite's installation completes.
Backend(i) ==
  adapter[i] = "sqlite" /\ (pc[i] = "finish" \/ complete[i]) => config = "sqlite"

InstallInv ==
  /\ InstallerTypeOK /\ BundleSurvives
  /\ \A i \in Installers : Place(i) /\ Backend(i)
  /\ \A i \in Installers : Working(i) => lock = i /\ Phase(i) /\ Kept(i)

-----------------------------------------------------------------------------
\* Frames.

\* At most one run is at work.
LEMMA Alone ==
  ASSUME InstallInv, NEW i \in Installers, NEW j \in Installers, Working(i), Working(j)
  PROVE  i = j
BY DEF InstallInv

\* A step of i leaves the others alone.
Frame(i) ==
  /\ pc' = [pc EXCEPT ![i] = pc'[i]] /\ rollback' = [rollback EXCEPT ![i] = rollback'[i]]
  /\ stage' = [stage EXCEPT ![i] = stage'[i]] /\ hadOld' = [hadOld EXCEPT ![i] = hadOld'[i]]
  /\ started' = [started EXCEPT ![i] = started'[i]]
  /\ complete' = [complete EXCEPT ![i] = complete'[i]]
  /\ UNCHANGED <<adapter, lock, owns, found, kills>>

\* What is left to show of a step of the run at work that stays at work.
LEMMA WorkerStep ==
  ASSUME InstallInv, NEW i \in Installers, Working(i), Frame(i), InstallerTypeOK',
         pc'[i] \in Steps \cup Cleaning,
         config = "sqlite" => config' = "sqlite",
         pc'[i] \in Steps => ~complete'[i],
         Phase(i)', Kept(i)', Backend(i)', BundleSurvives'
  PROVE  InstallInv'
<1>1. owns[i] /\ owns'[i] /\ lock = i
  BY DEF InstallInv, Working, Frame
<1>2. ASSUME NEW j \in Installers PROVE Place(j)' /\ Backend(j)'
  <2>1. CASE j = i
    BY <1>1, <2>1 DEF Place, Steps, Cleaning
  <2>2. CASE j # i
    <3>1. Place(j) /\ Backend(j)
      BY DEF InstallInv
    <3>2. /\ pc'[j] = pc[j] /\ rollback'[j] = rollback[j] /\ stage'[j] = stage[j]
          /\ hadOld'[j] = hadOld[j] /\ started'[j] = started[j] /\ complete'[j] = complete[j]
      BY <2>2 DEF Frame, InstallInv, InstallerTypeOK
    <3>3. owns' = owns /\ found' = found /\ adapter' = adapter
      BY DEF Frame
    <3> QED
      BY <3>1, <3>2, <3>3 DEF Place, Backend, Fresh
  <2> QED
    BY <2>1, <2>2
<1>3. ASSUME NEW j \in Installers, Working(j)' PROVE lock' = j /\ Phase(j)' /\ Kept(j)'
  <2>1. CASE j = i
    BY <1>1, <2>1 DEF Frame
  <2>2. CASE j # i
    <3>1. pc'[j] = pc[j] /\ owns'[j] = owns[j]
      BY <2>2 DEF Frame, InstallInv, InstallerTypeOK
    <3>2. Working(j)
      BY <1>3, <3>1 DEF Working
    <3> QED
      BY <3>2, <2>2, Alone
  <2> QED
    BY <2>1, <2>2
<1> QED
  BY <1>2, <1>3 DEF InstallInv

\* As long as bundles stay where they are, none is lost.
LEMMA NoneMoved ==
  ASSUME InstallInv, NEW i \in Installers, Working(i),
         UNCHANGED <<bundle, rollback, complete, found>>
  PROVE  Kept(i)' /\ BundleSurvives'
BY DEF InstallInv, Kept, BundleSurvives

\* What the step of a run at work starts from.
LEMMA AtWork ==
  ASSUME InstallInv, NEW i \in Installers, pc[i] \in Steps
  PROVE  Working(i) /\ Phase(i) /\ Kept(i) /\ Backend(i) /\ lock = i /\ owns[i] /\ ~complete[i]
<1>1. Place(i) /\ Backend(i)
  BY DEF InstallInv
<1>2. owns[i]
  BY <1>1 DEF Place
<1>3. Working(i)
  BY <1>2 DEF Working
<1>4. lock = i /\ Phase(i) /\ Kept(i)
  BY <1>3 DEF InstallInv
<1> QED
  BY <1>1, <1>2, <1>3, <1>4 DEF Phase

\* And in the cleanup.
LEMMA AtCleanup ==
  ASSUME InstallInv, NEW i \in Installers, pc[i] \in Cleaning, owns[i]
  PROVE  Working(i) /\ Phase(i) /\ Kept(i) /\ Backend(i) /\ lock = i
<1>1. Backend(i)
  BY DEF InstallInv
<1>2. Working(i)
  BY DEF Working, Cleaning
<1> QED
  BY <1>1, <1>2 DEF InstallInv

\* A run without the lock finds nothing to clean up.
LEMMA NothingToDo ==
  ASSUME InstallInv, NEW i \in Installers, pc[i] \in Cleaning, ~owns[i]
  PROVE  Fresh(i) /\ ~Undone(i) /\ ~complete[i] /\ ~hadOld[i] /\ ~Working(i)
<1>1. Place(i)
  BY DEF InstallInv
<1>2. Fresh(i)
  BY <1>1 DEF Place
<1> QED
  BY <1>2 DEF Fresh, Undone, Working

-----------------------------------------------------------------------------
\* Types.

LEMMA TypeStep ==
  ASSUME InstallInv, InstallerNext
  PROVE  InstallerTypeOK'
<1>1. InstallerTypeOK
  BY DEF InstallInv
<1>2. kills + 1 \in 0 .. MaxKills <=> kills < MaxKills
  BY <1>1, InstallerAssumption DEF InstallerTypeOK
<1> USE DEF Goto, files, flags, Steps, Trapped, Cleaning
<1>3. ASSUME NEW i \in Installers, Progress(i) PROVE InstallerTypeOK'
  <2>1. CASE Preflight(i)
    <3>1. pc[i] = "start" /\ ~owns[i]
      BY <2>1 DEF Preflight, InstallInv, Place
    <3>2. lock # Nobody => lock # i
      BY <1>1, <3>1 DEF InstallerTypeOK
    <3> QED
      BY <1>1, <2>1, <3>2, InstallerAssumption DEF Preflight, InstallerTypeOK
  <2>2. CASE TakeLock(i)
    <3>1. CASE lock = Nobody
      <4>1. /\ lock' = i /\ owns' = [owns EXCEPT ![i] = TRUE] /\ pc' = [pc EXCEPT ![i] = "stage"]
            /\ found' = [found EXCEPT ![i] = bundle]
            /\ UNCHANGED <<adapter, bundle, rollback, stage, config, littered, hadOld, started,
                           complete, kills>>
        BY <2>2, <3>1 DEF TakeLock
      <4>2. owns'[i] /\ pc'[i] = "stage"
        BY <1>1, <4>1 DEF InstallerTypeOK
      <4>3. found' \in [Installers -> Directory] /\ owns' \in [Installers -> BOOLEAN]
        BY <1>1, <4>1 DEF InstallerTypeOK
      <4> QED
        BY <1>1, <4>1, <4>2, <4>3 DEF InstallerTypeOK
    <3>2. CASE lock # Nobody
      BY <1>1, <2>2, <3>2 DEF TakeLock, InstallerTypeOK
    <3> QED
      BY <3>1, <3>2
  <2>3. CASE Stage(i)
    BY <1>1, <2>3, InstallerAssumption DEF Stage, InstallerTypeOK
  <2>4. CASE WriteFiles(i)
    BY <1>1, <2>4, InstallerAssumption DEF WriteFiles, InstallerTypeOK
  <2>5. CASE WriteConfig(i)
    BY <1>1, <2>5, InstallerAssumption DEF WriteConfig, InstallerTypeOK, Adapters
  <2>6. CASE Probe(i)
    BY <1>1, <2>6, InstallerAssumption DEF Probe, InstallerTypeOK
  <2>7. CASE SetAside(i)
    <3>1. hadOld' \in [Installers -> BOOLEAN]
      BY <1>1, <2>7 DEF SetAside, InstallerTypeOK
    <3>2. PICK next \in {"check", "move"} : pc' = [pc EXCEPT ![i] = next]
      BY <2>7 DEF SetAside
    <3>3. UNCHANGED <<adapter, lock, files, started, complete, owns, found, kills>>
      BY <2>7 DEF SetAside
    <3> QED
      BY <1>1, <3>1, <3>2, <3>3 DEF InstallerTypeOK
  <2>8. CASE MoveOld(i)
    BY <1>1, <2>8, InstallerAssumption DEF MoveOld, InstallerTypeOK, Directory
  <2>9. CASE Intend(i)
    BY <1>1, <2>9, InstallerAssumption DEF Intend, InstallerTypeOK
  <2>10. CASE Rename(i)
    BY <1>1, <2>10, InstallerAssumption DEF Rename, InstallerTypeOK, Directory, Whole
  <2>11. CASE Verify(i)
    BY <1>1, <2>11, InstallerAssumption DEF Verify, InstallerTypeOK
  <2>12. CASE Finish(i)
    BY <1>1, <2>12, InstallerAssumption DEF Finish, InstallerTypeOK
  <2>13. CASE RemoveNew(i)
    BY <1>1, <2>13, InstallerAssumption DEF RemoveNew, InstallerTypeOK, Removing, Directory
  <2>14. CASE PutBack(i)
    BY <1>1, <2>14, InstallerAssumption DEF PutBack, InstallerTypeOK
  <2>15. CASE RemoveOld(i)
    BY <1>1, <2>15, InstallerAssumption DEF RemoveOld, InstallerTypeOK, Removing, Directory
  <2>16. CASE Tidy(i)
    BY <1>1, <2>16, InstallerAssumption DEF Tidy, InstallerTypeOK
  <2>17. CASE Unlock(i)
    <3>1. lock' # Nobody => lock' = lock /\ lock # i
      BY <1>1, <2>17, InstallerAssumption DEF Unlock, InstallerTypeOK
    <3> QED
      BY <1>1, <2>17, <3>1, InstallerAssumption DEF Unlock, InstallerTypeOK
  <2> QED
    BY <1>3, <2>1, <2>2, <2>3, <2>4, <2>5, <2>6, <2>7, <2>8, <2>9, <2>10, <2>11, <2>12, <2>13, <2>14, <2>15, <2>16, <2>17 DEF Progress
<1>4. ASSUME NEW i \in Installers, Interrupted(i) PROVE InstallerTypeOK'
  BY <1>1, <1>4 DEF Interrupted, InstallerTypeOK
<1>5. ASSUME NEW i \in Installers, Kill(i) PROVE InstallerTypeOK'
  BY <1>1, <1>2, <1>5 DEF Kill, InstallerTypeOK
<1>6. CASE ClearStale
  BY <1>1, <1>6 DEF ClearStale, InstallerTypeOK
<1> QED
  BY <1>3, <1>4, <1>5, <1>6 DEF InstallerNext

\* What is left to show of a step of a run that is not, or no longer, at work.
LEMMA Stands ==
  ASSUME InstallInv, InstallerTypeOK', NEW i \in Installers,
         UNCHANGED <<adapter, bundle, rollback, stage, config, hadOld, started, complete, owns, found>>,
         pc' = [pc EXCEPT ![i] = pc'[i]], pc'[i] # "finish", Place(i)', ~Working(i)',
         \A j \in Installers : j # i /\ Working(j) => lock' = lock
  PROVE  InstallInv'
<1>1. BundleSurvives'
  BY DEF InstallInv, BundleSurvives
<1>2. \A j \in Installers : j # i => pc'[j] = pc[j]
  BY DEF InstallInv, InstallerTypeOK
<1>3. ASSUME NEW j \in Installers PROVE Place(j)' /\ Backend(j)'
  <2>1. Place(j) /\ Backend(j)
    BY DEF InstallInv
  <2>2. CASE j # i
    BY <1>2, <2>1, <2>2 DEF Place, Backend, Fresh
  <2>3. CASE j = i
    BY <2>1, <2>3 DEF Backend
  <2> QED
    BY <2>2, <2>3
<1>4. ASSUME NEW j \in Installers, Working(j)' PROVE lock' = j /\ Phase(j)' /\ Kept(j)'
  <2>1. j # i
    BY <1>4
  <2>2. pc'[j] = pc[j]
    BY <1>2, <2>1
  <2>3. Working(j)
    BY <1>4, <2>2 DEF Working
  <2>4. lock = j /\ Phase(j) /\ Kept(j)
    BY <2>3 DEF InstallInv
  <2>5. lock' = lock
    BY <2>1, <2>3
  <2> QED
    BY <2>2, <2>4, <2>5 DEF Phase, Kept, Before, Moving, Undoing, InPlace, Aside
<1> QED
  BY <1>1, <1>3, <1>4 DEF InstallInv

-----------------------------------------------------------------------------
\* Before and while the lock is taken.

LEMMA PreflightKeeps ==
  ASSUME InstallInv, InstallerTypeOK', NEW i \in Installers, Preflight(i)
  PROVE  InstallInv'
<1>1. /\ pc[i] = "start" /\ pc' = [pc EXCEPT ![i] = pc'[i]] /\ pc'[i] \in {"checked", "done"}
      /\ UNCHANGED <<adapter, lock, bundle, rollback, stage, config, hadOld, started, complete,
                     owns, found>>
  BY DEF Preflight, Goto, files, flags, InstallInv, InstallerTypeOK
<1>2. Place(i)' /\ pc'[i] # "finish" /\ ~Working(i)'
  BY <1>1 DEF InstallInv, Place, Fresh, Working, Steps, Cleaning
<1> QED
  BY <1>1, <1>2, Stands

\* What is in the bundle's place when a run takes the lock is what it found.
LEMMA TakeLockKeeps ==
  ASSUME InstallInv, InstallerTypeOK', NEW i \in Installers, TakeLock(i)
  PROVE  InstallInv'
<1>1. InstallerTypeOK /\ Place(i) /\ Backend(i) /\ Fresh(i)
  BY DEF InstallInv, Place, TakeLock
<1>2. /\ pc[i] = "checked" /\ UNCHANGED <<adapter, bundle, rollback, stage, config, hadOld, started, complete>>
  BY DEF TakeLock, files
<1>3. CASE lock = Nobody
  <2>1. /\ lock' = i /\ owns' = [owns EXCEPT ![i] = TRUE] /\ pc' = [pc EXCEPT ![i] = "stage"]
        /\ found' = [found EXCEPT ![i] = bundle]
    BY <1>3 DEF TakeLock, Goto
  <2>2. /\ owns'[i] /\ pc'[i] = "stage" /\ found'[i] = bundle
    BY <1>1, <2>1 DEF InstallerTypeOK
  <2>3. ASSUME NEW j \in Installers, j # i
        PROVE  owns'[j] = owns[j] /\ pc'[j] = pc[j] /\ found'[j] = found[j] /\ ~Working(j)
    BY <1>1, <1>3, <2>1, <2>3, InstallerAssumption DEF InstallerTypeOK, InstallInv
  <2>4. BundleSurvives'
    BY <1>2, <2>2, <2>3 DEF InstallInv, BundleSurvives
  <2>5. ASSUME NEW j \in Installers PROVE Place(j)' /\ Backend(j)'
    <3>1. Place(j) /\ Backend(j)
      BY DEF InstallInv
    <3> QED
      BY <1>1, <1>2, <2>2, <2>3, <3>1 DEF Place, Backend, Fresh, Steps, Cleaning
  <2>6. Phase(i)'
    BY <1>1, <1>2, <2>2 DEF Phase, Before, InPlace, Fresh, Steps
  <2>7. Kept(i)'
    BY <1>2, <2>2, <2>4 DEF Kept, BundleSurvives
  <2>8. ASSUME NEW j \in Installers, j # i PROVE ~Working(j)'
    BY <2>3, <2>8 DEF Working
  <2> QED
    BY <2>1, <2>4, <2>5, <2>6, <2>7, <2>8 DEF InstallInv
<1>4. CASE lock # Nobody
  <2>1. pc' = [pc EXCEPT ![i] = "cleanup"] /\ UNCHANGED <<lock, owns, found>>
    BY <1>4 DEF TakeLock, Goto
  <2>2. pc'[i] = "cleanup" /\ ~owns[i]
    BY <1>1, <2>1 DEF InstallerTypeOK, Fresh
  <2>3. Place(i)' /\ ~Working(i)'
    BY <1>1, <1>2, <2>1, <2>2 DEF Place, Fresh, Working, Steps, Cleaning
  <2> QED
    BY <1>2, <2>1, <2>2, <2>3, Stands
<1> QED
  BY <1>3, <1>4

-----------------------------------------------------------------------------
\* Under the lock.

\* Nothing is moved until the old bundle is set aside.
LEMMA PrepareKeeps ==
  ASSUME InstallInv, InstallerTypeOK', NEW i \in Installers,
         Stage(i) \/ WriteFiles(i) \/ WriteConfig(i) \/ Probe(i)
  PROVE  InstallInv'
<1>1. pc[i] \in {"stage", "files", "config", "probe"}
  BY DEF Stage, WriteFiles, WriteConfig, Probe
<1>2. Working(i) /\ Before(i) /\ Backend(i) /\ ~complete[i]
  BY <1>1, AtWork DEF Steps, Phase
<1>3. /\ UNCHANGED <<adapter, lock, bundle, rollback, hadOld, started, complete, owns, found, kills>>
      /\ \E next \in {"files", "config", "probe", "aside"} : pc' = [pc EXCEPT ![i] = next]
      /\ stage' = stage \/ stage' = [stage EXCEPT ![i] = TRUE]
      /\ config = "sqlite" => config' = "sqlite"
  BY InstallerAssumption DEF Stage, WriteFiles, WriteConfig, Probe, Goto, files, flags, Adapters
<1>4. pc'[i] \in {"files", "config", "probe", "aside"} /\ Frame(i)
  BY <1>3 DEF Frame, InstallInv, InstallerTypeOK
<1>5. Phase(i)'
  BY <1>2, <1>3, <1>4 DEF Phase, Before, InPlace, Steps
<1>6. Kept(i)' /\ BundleSurvives'
  BY <1>2, <1>3, NoneMoved
<1>7. Backend(i)'
  BY <1>2, <1>3, <1>4 DEF Backend
<1> QED
  BY <1>2, <1>3, <1>4, <1>5, <1>6, <1>7, WorkerStep DEF Steps

LEMMA SetAsideKeeps ==
  ASSUME InstallInv, InstallerTypeOK', NEW i \in Installers, SetAside(i)
  PROVE  InstallInv'
<1>1. Working(i) /\ Before(i) /\ Backend(i) /\ ~complete[i]
  BY AtWork DEF Steps, Phase, SetAside
<1>2. /\ UNCHANGED <<adapter, lock, bundle, rollback, stage, config, started, complete, owns,
                     found, kills>>
      /\ IF bundle = Nothing
         THEN pc' = [pc EXCEPT ![i] = "check"] /\ hadOld' = hadOld
         ELSE pc' = [pc EXCEPT ![i] = "move"] /\ hadOld' = [hadOld EXCEPT ![i] = TRUE]
  BY DEF SetAside, Goto, files
<1>3. IF bundle = Nothing
      THEN pc'[i] = "check" /\ hadOld'[i] = hadOld[i]
      ELSE pc'[i] = "move" /\ hadOld'[i]
  BY <1>2 DEF InstallInv, InstallerTypeOK
<1>4. Frame(i)
  BY <1>2 DEF Frame, InstallInv, InstallerTypeOK
<1>5. Phase(i)'
  BY <1>1, <1>2, <1>3 DEF Phase, Before, Moving, Aside, InPlace, Steps
<1>6. Kept(i)' /\ BundleSurvives'
  BY <1>1, <1>2, NoneMoved
<1>7. Backend(i)'
  BY <1>1, <1>2, <1>3 DEF Backend
<1> QED
  BY <1>1, <1>2, <1>3, <1>4, <1>5, <1>6, <1>7, WorkerStep DEF Steps

\* The bundle in its place is then the one aside.
LEMMA MoveOldKeeps ==
  ASSUME InstallInv, InstallerTypeOK', NEW i \in Installers, MoveOld(i)
  PROVE  InstallInv'
<1>1. Working(i) /\ Moving(i) /\ Backend(i) /\ Kept(i) /\ ~complete[i] /\ pc[i] = "move"
  BY AtWork DEF Steps, Phase, MoveOld
<1>2. /\ UNCHANGED <<adapter, lock, stage, config, hadOld, started, complete, owns, found, kills>>
      /\ rollback' = [rollback EXCEPT ![i] = bundle] /\ bundle' = Nothing
      /\ pc' = [pc EXCEPT ![i] = "check"]
  BY DEF MoveOld, Goto, flags
<1>3. pc'[i] = "check" /\ rollback'[i] = bundle /\ \A j \in Installers : j # i => rollback'[j] = rollback[j]
  BY <1>2 DEF InstallInv, InstallerTypeOK
<1>4. Frame(i)
  BY <1>2 DEF Frame, InstallInv, InstallerTypeOK
<1>5. Phase(i)'
  BY <1>1, <1>2, <1>3 DEF Phase, Moving, Aside, InPlace, Steps
<1>6. Nothing \notin Whole
  BY InstallerAssumption DEF Whole
<1>7. Kept(i)'
  <2>1. ASSUME NEW j \in Installers, rollback[j] \in Whole PROVE rollback'[j] \in Whole
    BY <1>1, <1>3, <1>6, <2>1 DEF Moving, InPlace
  <2> QED
    BY <1>1, <1>2, <2>1 DEF Kept
<1>8. BundleSurvives'
  <2>1. CASE found[i] \in Whole
    <3>1. rollback'[i] \in Whole
      BY <1>1, <1>3, <2>1 DEF Moving, InPlace
    <3> QED
      BY <3>1 DEF BundleSurvives
  <2>2. CASE found[i] \notin Whole
    BY <1>1, <1>2, <1>7, <2>2 DEF Kept, BundleSurvives
  <2> QED
    BY <2>1, <2>2
<1>9. Backend(i)'
  BY <1>1, <1>2, <1>3 DEF Backend
<1> QED
  BY <1>1, <1>2, <1>3, <1>4, <1>5, <1>7, <1>8, <1>9, WorkerStep DEF Steps

LEMMA IntendKeeps ==
  ASSUME InstallInv, InstallerTypeOK', NEW i \in Installers, Intend(i)
  PROVE  InstallInv'
<1>1. Working(i) /\ Aside(i) /\ bundle = Nothing /\ Backend(i) /\ ~complete[i]
  BY AtWork DEF Steps, Phase, Intend
<1>2. /\ UNCHANGED <<adapter, lock, bundle, rollback, stage, config, hadOld, complete, owns,
                     found, kills>>
      /\ started' = [started EXCEPT ![i] = TRUE] /\ pc' = [pc EXCEPT ![i] = "rename"]
  BY DEF Intend, Goto, files
<1>3. pc'[i] = "rename" /\ started'[i]
  BY <1>2 DEF InstallInv, InstallerTypeOK
<1>4. Frame(i)
  BY <1>2 DEF Frame, InstallInv, InstallerTypeOK
<1>5. Phase(i)'
  BY <1>1, <1>2, <1>3 DEF Phase, Aside, Steps
<1>6. Kept(i)' /\ BundleSurvives'
  BY <1>1, <1>2, NoneMoved
<1>7. Backend(i)'
  BY <1>1, <1>2, <1>3 DEF Backend
<1> QED
  BY <1>1, <1>2, <1>3, <1>4, <1>5, <1>6, <1>7, WorkerStep DEF Steps

\* The new bundle is a whole one.
LEMMA RenameKeeps ==
  ASSUME InstallInv, InstallerTypeOK', NEW i \in Installers, Rename(i)
  PROVE  InstallInv'
<1>1. Working(i) /\ Aside(i) /\ started[i] /\ Backend(i) /\ Kept(i) /\ ~complete[i] /\ pc[i] = "rename"
  BY AtWork DEF Steps, Phase, Rename
<1>2. /\ UNCHANGED <<adapter, lock, rollback, config, hadOld, started, complete, owns, found, kills>>
      /\ bundle' = i /\ stage' = [stage EXCEPT ![i] = FALSE] /\ pc' = [pc EXCEPT ![i] = "verify"]
  BY DEF Rename, Goto, flags
<1>3. pc'[i] = "verify"
  BY <1>2 DEF InstallInv, InstallerTypeOK
<1>4. Frame(i)
  BY <1>2 DEF Frame, InstallInv, InstallerTypeOK
<1>5. Phase(i)'
  BY <1>1, <1>2, <1>3 DEF Phase, Aside, Steps
<1>6. Kept(i)'
  BY <1>1, <1>2 DEF Kept
<1>7. BundleSurvives'
  BY <1>2 DEF BundleSurvives, Whole
<1>8. Backend(i)'
  BY <1>1, <1>2, <1>3 DEF Backend
<1> QED
  BY <1>1, <1>2, <1>3, <1>4, <1>5, <1>6, <1>7, <1>8, WorkerStep DEF Steps

\* A SQLite installation is past this point only in a SQLite project.
LEMMA VerifyKeeps ==
  ASSUME InstallInv, InstallerTypeOK', NEW i \in Installers, Verify(i)
  PROVE  InstallInv'
<1>1. Working(i) /\ Aside(i) /\ bundle = i /\ started[i] /\ ~complete[i]
  BY AtWork DEF Steps, Phase, Verify
<1>2. /\ UNCHANGED <<adapter, lock, bundle, rollback, stage, config, hadOld, started, complete,
                     owns, found, kills>>
      /\ pc' = [pc EXCEPT ![i] = "finish"] /\ (adapter[i] = "sqlite" => config = "sqlite")
  BY DEF Verify, Goto, files, flags, Discovered
<1>3. pc'[i] = "finish"
  BY <1>2 DEF InstallInv, InstallerTypeOK
<1>4. Frame(i)
  BY <1>2 DEF Frame, InstallInv, InstallerTypeOK
<1>5. Phase(i)'
  BY <1>1, <1>2, <1>3 DEF Phase, Aside, Steps
<1>6. Kept(i)' /\ BundleSurvives'
  BY <1>1, <1>2, NoneMoved
<1>7. Backend(i)'
  BY <1>2 DEF Backend
<1> QED
  BY <1>1, <1>2, <1>3, <1>4, <1>5, <1>6, <1>7, WorkerStep DEF Steps

LEMMA FinishKeeps ==
  ASSUME InstallInv, InstallerTypeOK', NEW i \in Installers, Finish(i)
  PROVE  InstallInv'
<1>1. Working(i) /\ bundle = i /\ Backend(i) /\ pc[i] = "finish"
  BY AtWork DEF Steps, Phase, Finish
<1>2. /\ UNCHANGED <<adapter, lock, bundle, rollback, stage, config, hadOld, started, owns,
                     found, kills>>
      /\ complete' = [complete EXCEPT ![i] = TRUE] /\ pc' = [pc EXCEPT ![i] = "cleanup"]
  BY DEF Finish, Goto, files
<1>3. pc'[i] = "cleanup" /\ complete'[i]
  BY <1>2 DEF InstallInv, InstallerTypeOK
<1>4. Frame(i)
  BY <1>2 DEF Frame, InstallInv, InstallerTypeOK
<1>5. Phase(i)'
  BY <1>1, <1>2, <1>3 DEF Phase, Steps
<1>6. Kept(i)'
  BY <1>3 DEF Kept
<1>7. BundleSurvives'
  BY <1>1, <1>2 DEF BundleSurvives, Whole
<1>8. Backend(i)'
  BY <1>1, <1>2 DEF Backend
<1> QED
  BY <1>1, <1>2, <1>3, <1>4, <1>5, <1>6, <1>7, <1>8, WorkerStep DEF Steps, Cleaning

-----------------------------------------------------------------------------
\* The cleanup.

\* Whoever undoes has the lock, and what it found is aside.
LEMMA UndoneAside ==
  ASSUME InstallInv, NEW i \in Installers, pc[i] = "cleanup", ~complete[i],
         hadOld[i] \/ started[i], hadOld[i] => rollback[i] # Nothing
  PROVE  /\ owns[i] /\ Working(i) /\ Kept(i) /\ Backend(i)
         /\ Aside(i)
<1>1. owns[i]
  BY NothingToDo DEF Cleaning, Fresh
<1>2. Working(i) /\ Undoing(i) /\ Kept(i) /\ Backend(i)
  BY <1>1, AtCleanup DEF Cleaning, Phase
<1>3. Aside(i)
  BY <1>2 DEF Undoing, InPlace
<1> QED
  BY <1>1, <1>2, <1>3

LEMMA RemoveNewKeeps ==
  ASSUME InstallInv, InstallerTypeOK', NEW i \in Installers, RemoveNew(i)
  PROVE  InstallInv'
<1>1. /\ pc[i] = "cleanup" /\ ~complete[i]
      /\ (hadOld[i] \/ started[i]) /\ (hadOld[i] => rollback[i] # Nothing)
  BY DEF RemoveNew, Undone
<1>2. Working(i) /\ Kept(i) /\ Backend(i) /\ Aside(i)
  BY <1>1, UndoneAside
<1>3. UNCHANGED <<adapter, pc, lock, rollback, stage, config, hadOld, started, complete, owns, found, kills>>
  BY DEF RemoveNew, flags
<1>4. Frame(i)
  BY <1>3 DEF Frame, InstallInv, InstallerTypeOK
<1>5. Phase(i)'
  BY <1>1, <1>2, <1>3 DEF Phase, Undoing, Aside, Steps
<1>6. Kept(i)'
  BY <1>2, <1>3 DEF Kept
<1>7. BundleSurvives'
  <2>1. CASE found[i] \in Whole
    <3>1. rollback[i] \in Whole
      BY <1>2, <2>1, InstallerAssumption DEF Aside, Whole
    <3> QED
      BY <1>3, <3>1 DEF BundleSurvives
  <2>2. CASE found[i] \notin Whole
    BY <1>1, <1>2, <1>3, <2>2 DEF Kept, BundleSurvives
  <2> QED
    BY <2>1, <2>2
<1>8. Backend(i)'
  BY <1>2, <1>3 DEF Backend
<1> QED
  BY <1>1, <1>2, <1>3, <1>4, <1>5, <1>6, <1>7, <1>8, WorkerStep DEF Steps, Cleaning

LEMMA PutBackKeeps ==
  ASSUME InstallInv, InstallerTypeOK', NEW i \in Installers, PutBack(i)
  PROVE  InstallInv'
<1>1. /\ pc[i] = "cleanup" /\ ~complete[i] /\ hadOld[i] /\ rollback[i] # Nothing /\ bundle = Nothing
      /\ bundle' = rollback[i] /\ rollback' = [rollback EXCEPT ![i] = Nothing]
      /\ UNCHANGED <<adapter, pc, lock, stage, config, hadOld, started, complete, owns, found, kills>>
  BY DEF PutBack, flags
<1>2. Working(i) /\ Kept(i) /\ Backend(i) /\ Aside(i)
  BY <1>1, UndoneAside
<1>3. rollback'[i] = Nothing /\ \A j \in Installers : j # i => rollback'[j] = rollback[j]
  BY <1>1 DEF InstallInv, InstallerTypeOK
<1>4. Frame(i)
  BY <1>1 DEF Frame, InstallInv, InstallerTypeOK
<1>5. Phase(i)'
  BY <1>1, <1>2, <1>3 DEF Phase, Undoing, Aside, InPlace, Steps
<1>6. found[i] = rollback[i]
  BY <1>1, <1>2 DEF Aside
<1>7. Kept(i)'
  BY <1>1, <1>2, <1>3, <1>6 DEF Kept
<1>8. BundleSurvives'
  <2>1. CASE found[i] \in Whole
    BY <1>1, <1>6, <2>1 DEF BundleSurvives
  <2>2. CASE found[i] \notin Whole
    BY <1>1, <1>7, <2>2 DEF Kept, BundleSurvives
  <2> QED
    BY <2>1, <2>2
<1>9. Backend(i)'
  BY <1>1, <1>2 DEF Backend
<1> QED
  BY <1>1, <1>2, <1>4, <1>5, <1>7, <1>8, <1>9, WorkerStep DEF Steps, Cleaning

\* The old bundle goes only when the new one stands.
LEMMA RemoveOldKeeps ==
  ASSUME InstallInv, InstallerTypeOK', NEW i \in Installers, RemoveOld(i)
  PROVE  InstallInv'
<1>1. /\ pc[i] = "cleanup" /\ complete[i] /\ rollback' = [rollback EXCEPT ![i] = Removing(rollback[i])]
      /\ UNCHANGED <<adapter, pc, lock, bundle, stage, config, hadOld, started, complete, owns, found, kills>>
  BY DEF RemoveOld, flags
<1>2. owns[i]
  BY <1>1, NothingToDo DEF Cleaning, Fresh
<1>3. Working(i) /\ Backend(i) /\ bundle = i
  BY <1>1, <1>2, AtCleanup DEF Cleaning, Phase
<1>4. Frame(i)
  BY <1>1 DEF Frame, InstallInv, InstallerTypeOK
<1>5. Phase(i)'
  BY <1>1, <1>3 DEF Phase, Steps
<1>6. Kept(i)'
  BY <1>1 DEF Kept
<1>7. BundleSurvives'
  BY <1>1, <1>3 DEF BundleSurvives, Whole
<1>8. Backend(i)'
  BY <1>1, <1>3 DEF Backend
<1> QED
  BY <1>1, <1>3, <1>4, <1>5, <1>6, <1>7, <1>8, WorkerStep DEF Steps, Cleaning

\* What is settled is as the run found it, or as it made it.
LEMMA TidyKeeps ==
  ASSUME InstallInv, InstallerTypeOK', NEW i \in Installers, Tidy(i)
  PROVE  InstallInv'
<1>1. /\ pc[i] = "cleanup" /\ Settled(i)
      /\ stage' = [stage EXCEPT ![i] = FALSE] /\ pc' = [pc EXCEPT ![i] = "unlock"]
      /\ UNCHANGED <<adapter, lock, bundle, rollback, config, hadOld, started, complete, owns, found, kills>>
  BY DEF Tidy, Goto, flags
<1>2. pc'[i] = "unlock" /\ ~stage'[i]
  BY <1>1 DEF InstallInv, InstallerTypeOK
<1>3. CASE owns[i]
  <2>1. Working(i) /\ Backend(i) /\ (IF complete[i] THEN bundle = i ELSE Undoing(i))
    BY <1>1, <1>3, AtCleanup DEF Cleaning, Phase
  <2>2. Frame(i)
    BY <1>1 DEF Frame, InstallInv, InstallerTypeOK
  <2>3. rollback[i] = Nothing /\ bundle = IF complete[i] THEN i ELSE found[i]
    BY <1>1, <2>1 DEF Settled, Undone, Undoing, InPlace, Aside
  <2>4. Phase(i)'
    BY <1>1, <1>2, <2>3 DEF Phase, Steps
  <2>5. Kept(i)' /\ BundleSurvives'
    BY <1>1, <2>1, NoneMoved
  <2>6. Backend(i)'
    BY <1>1, <1>2, <2>1 DEF Backend
  <2> QED
    BY <1>1, <1>2, <2>1, <2>2, <2>4, <2>5, <2>6, WorkerStep DEF Steps, Cleaning
<1>4. CASE ~owns[i]
  <2>1. Fresh(i)
    BY <1>1, <1>4, NothingToDo DEF Cleaning
  <2>2. stage' = stage
    BY <1>1, <2>1 DEF Fresh, InstallInv, InstallerTypeOK
  <2>3. Place(i)' /\ pc'[i] # "finish" /\ ~Working(i)'
    BY <1>1, <1>2, <1>4, <2>1, <2>2 DEF Place, Fresh, Working, Steps
  <2> QED
    BY <1>1, <1>2, <2>2, <2>3, Stands
<1> QED
  BY <1>3, <1>4

LEMMA UnlockKeeps ==
  ASSUME InstallInv, InstallerTypeOK', NEW i \in Installers, Unlock(i)
  PROVE  InstallInv'
<1>1. /\ pc[i] = "unlock" /\ pc' = [pc EXCEPT ![i] = "done"]
      /\ lock' = (IF owns[i] THEN Nobody ELSE lock)
      /\ UNCHANGED <<adapter, bundle, rollback, stage, config, hadOld, started, complete, owns, found, kills>>
  BY DEF Unlock, Goto, files, flags
<1>2. pc'[i] = "done"
  BY <1>1 DEF InstallInv, InstallerTypeOK
<1>3. Place(i)' /\ ~Working(i)'
  BY <1>2 DEF Place, Working, Steps, Cleaning
<1>4. ASSUME NEW j \in Installers, j # i, Working(j) PROVE lock' = lock
  BY <1>1, <1>4, Alone DEF Working
<1> QED
  BY <1>1, <1>2, <1>3, <1>4, Stands

-----------------------------------------------------------------------------
\* Failures.

\* What a step has done so far is what its cleanup expects.
LEMMA InterruptedKeeps ==
  ASSUME InstallInv, InstallerTypeOK', NEW i \in Installers, Interrupted(i)
  PROVE  InstallInv'
<1>1. /\ pc[i] \in Trapped /\ pc' = [pc EXCEPT ![i] = "cleanup"]
      /\ UNCHANGED <<adapter, lock, bundle, rollback, stage, config, hadOld, started, complete,
                     owns, found, kills>>
  BY DEF Interrupted, Goto, files, flags
<1>2. pc'[i] = "cleanup"
  BY <1>1 DEF InstallInv, InstallerTypeOK
<1>3. CASE pc[i] = "checked"
  <2>1. Fresh(i)
    BY <1>3 DEF InstallInv, Place
  <2>2. Place(i)' /\ ~Working(i)'
    BY <1>1, <1>2, <2>1 DEF Place, Fresh, Working, Steps
  <2> QED
    BY <1>1, <1>2, <2>2, Stands
<1>4. CASE pc[i] \in Steps
  <2>1. Working(i) /\ Phase(i) /\ Backend(i) /\ ~complete[i]
    BY <1>4, AtWork
  <2>2. Undoing(i)
    BY <1>4, <2>1 DEF Phase, Steps, Before, Moving, Undoing, InPlace, Aside
  <2>3. Phase(i)'
    BY <1>1, <1>2, <2>1, <2>2 DEF Phase, Undoing, InPlace, Aside, Steps
  <2>4. Frame(i)
    BY <1>1 DEF Frame, InstallInv, InstallerTypeOK
  <2>5. Kept(i)' /\ BundleSurvives'
    BY <1>1, <2>1, NoneMoved
  <2>6. Backend(i)'
    BY <1>1, <1>2, <2>1 DEF Backend
  <2> QED
    BY <1>1, <1>2, <2>1, <2>3, <2>4, <2>5, <2>6, WorkerStep DEF Steps, Cleaning
<1> QED
  BY <1>1, <1>3, <1>4 DEF Trapped

LEMMA KillKeeps ==
  ASSUME InstallInv, InstallerTypeOK', NEW i \in Installers, Kill(i)
  PROVE  InstallInv'
<1>1. /\ pc' = [pc EXCEPT ![i] = "dead"]
      /\ UNCHANGED <<adapter, lock, bundle, rollback, stage, config, hadOld, started, complete, owns, found>>
  BY DEF Kill, Goto, files, flags
<1>2. pc'[i] = "dead"
  BY <1>1 DEF InstallInv, InstallerTypeOK
<1>3. Place(i)' /\ ~Working(i)'
  BY <1>2 DEF Place, Working, Steps, Cleaning
<1> QED
  BY <1>1, <1>2, <1>3, Stands

\* Whoever works has the lock, so a lock whose owner is dead is nobody's.
LEMMA ClearStaleKeeps ==
  ASSUME InstallInv, InstallerTypeOK', ClearStale
  PROVE  InstallInv'
<1>1. /\ lock # Nobody /\ pc[lock] = "dead"
      /\ UNCHANGED <<adapter, pc, bundle, rollback, stage, config, hadOld, started, complete, owns, found>>
  BY DEF ClearStale, files, flags
<1>2. lock \in Installers /\ pc' = [pc EXCEPT ![lock] = pc[lock]]
  BY <1>1 DEF InstallInv, InstallerTypeOK
<1>3. ASSUME NEW j \in Installers PROVE ~Working(j)
  BY <1>1 DEF InstallInv, Working, Steps
<1>4. PICK k \in Installers : k = lock
  BY <1>2
<1>5. pc' = [pc EXCEPT ![k] = pc'[k]] /\ pc'[k] = "dead"
  BY <1>1, <1>2, <1>4
<1>6. Place(k)' /\ ~Working(k)'
  BY <1>5 DEF Place, Working, Steps, Cleaning
<1> QED
  BY <1>1, <1>3, <1>5, <1>6, Stands

-----------------------------------------------------------------------------

LEMMA InstallInitInv == InstallerInit => InstallInv
<1> SUFFICES ASSUME InstallerInit PROVE InstallInv
  OBVIOUS
<1>1. InstallerTypeOK
  <2>1. pc \in [Installers -> {"start", "done", "dead"} \cup Trapped \cup Cleaning]
    BY DEF InstallerInit
  <2>2. bundle \in Directory /\ rollback \in [Installers -> Directory] /\ found \in [Installers -> Directory]
    BY DEF InstallerInit, Directory, Whole
  <2>3. config \in Adapters \cup {Nothing}
    BY DEF InstallerInit
  <2>4. littered \in BOOLEAN
    BY DEF InstallerInit
  <2>5. kills \in 0 .. MaxKills
    BY InstallerAssumption DEF InstallerInit
  <2> QED
    BY <2>1, <2>2, <2>3, <2>4, <2>5 DEF InstallerInit, InstallerTypeOK
<1>2. ASSUME NEW i \in Installers PROVE Place(i) /\ Backend(i) /\ ~Working(i)
  BY DEF InstallerInit, Place, Fresh, Backend, Working, Steps, Cleaning
<1>3. BundleSurvives
  BY InstallerAssumption DEF InstallerInit, BundleSurvives, Whole
<1> QED
  BY <1>1, <1>2, <1>3 DEF InstallInv

LEMMA InstallStepInv == InstallInv /\ [InstallerNext]_vars => InstallInv'
<1> SUFFICES ASSUME InstallInv, [InstallerNext]_vars PROVE InstallInv'
  OBVIOUS
<1>1. CASE UNCHANGED vars
  BY <1>1 DEF vars, InstallInv, InstallerTypeOK, BundleSurvives, Place, Fresh, Backend, Working,
     Phase, Kept, Before, Moving, Undoing, InPlace, Aside
<1>2. ASSUME InstallerNext PROVE InstallInv'
  <2>1. InstallerTypeOK'
    BY <1>2, TypeStep
  <2>2. ASSUME NEW i \in Installers, Progress(i) PROVE InstallInv'
    BY <2>1, <2>2, PreflightKeeps, TakeLockKeeps, PrepareKeeps, SetAsideKeeps, MoveOldKeeps,
       IntendKeeps, RenameKeeps, VerifyKeeps, FinishKeeps, RemoveNewKeeps, PutBackKeeps,
       RemoveOldKeeps, TidyKeeps, UnlockKeeps DEF Progress
  <2> QED
    BY <1>2, <2>1, <2>2, InterruptedKeeps, KillKeeps, ClearStaleKeeps DEF InstallerNext
<1> QED
  BY <1>1, <1>2

THEOREM InstallInvariant == InstallerSpec => []InstallInv
  BY InstallInitInv, InstallStepInv, PTL DEF InstallerSpec

\* Every variable keeps its type, and a lock has an owner that is not done with
\* it (the lock directory of install.sh).
THEOREM InstallerTypeCorrect == InstallerSpec => []InstallerTypeOK
<1>1. InstallInv => InstallerTypeOK
  BY DEF InstallInv
<1> QED
  BY <1>1, InstallInvariant, PTL

\* A bundle that an installation found or finished is never lost, for any
\* number of installations and of kills.
THEOREM BundlesSurvive == InstallerSpec => []BundleSurvives
<1>1. InstallInv => BundleSurvives
  BY DEF InstallInv
<1> QED
  BY <1>1, InstallInvariant, PTL

\* Two installations are never at work on the bundle at once.
THEOREM WorkAlone == InstallerSpec => []OneAtATime
<1>1. InstallInv => OneAtATime
  BY Alone DEF OneAtATime
<1> QED
  BY <1>1, InstallInvariant, PTL

\* The SQLite runtime is never installed over another backend's project.
THEOREM SqliteOverSqlite == InstallerSpec => []SqliteBySqlite
<1>1. InstallInv => SqliteBySqlite
  BY DEF InstallInv, Backend, SqliteBySqlite
<1> QED
  BY <1>1, InstallInvariant, PTL

\* A run that ends leaves the bundle it found or the one it made, and nothing
\* beside it.
THEOREM RunsEndWholly == InstallerSpec => EndsWholly
<1> DEFINE Wholly ==
      \A i \in Installers :
        pc[i] = "unlock" /\ pc'[i] = "done" =>
          /\ owns[i] => bundle = IF complete[i] THEN i ELSE found[i]
          /\ rollback[i] = Nothing /\ ~stage[i] /\ lock' # i
<1>1. ASSUME InstallInv, InstallerNext PROVE Wholly
  <2> SUFFICES ASSUME NEW i \in Installers, pc[i] = "unlock", pc'[i] = "done"
               PROVE  /\ owns[i] => bundle = IF complete[i] THEN i ELSE found[i]
                      /\ rollback[i] = Nothing /\ ~stage[i] /\ lock' # i
    OBVIOUS
  <2>1. InstallerTypeOK'
    BY <1>1, TypeStep
  <2>2. lock' # i
    BY <2>1, InstallerAssumption DEF InstallerTypeOK
  <2>3. CASE owns[i]
    BY <1>1, <2>2, <2>3, AtCleanup DEF Cleaning, Phase
  <2>4. CASE ~owns[i]
    BY <1>1, <2>2, <2>4, NothingToDo DEF Cleaning, Fresh
  <2> QED
    BY <2>3, <2>4
<1>2. InstallInv /\ [InstallerNext]_vars => [Wholly]_vars
  BY <1>1
<1> QED
  BY <1>2, InstallInvariant, PTL DEF InstallerSpec, EndsWholly

=============================================================================

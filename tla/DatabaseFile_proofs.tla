------------------------- MODULE DatabaseFile_proofs -------------------------
(***************************************************************************)
(* Proofs about DatabaseFile, for any clients and bounds.  The invariant   *)
(* FileInv is inductive: it follows a job through its steps, and says at   *)
(* each where the content of the target is then to be found.               *)
(***************************************************************************)
EXTENDS DatabaseFile, TLAPS

\* A job under way has all its fields.
LEMMA JobUnderWay ==
  ASSUME DatabaseTypeOK, job.at # "idle"
  PROVE  job \in Job
BY DEF DatabaseTypeOK, Idle

\* The phase is idle exactly when there is no job.
LEMMA IdlePhase ==
  ASSUME DatabaseTypeOK
  PROVE  job.at = "idle" <=> job = Idle
BY DEF DatabaseTypeOK, Idle, Job, Phases

\* A file that is there is a main file.
LEMMA FileThere ==
  ASSUME DatabaseTypeOK, db # NoFile
  PROVE  db \in Main
BY DEF DatabaseTypeOK

\* Opening and closing the pair changes nothing a reader finds, and leaves a
\* log only beside a damaged main file.
LEMMA ClosedKeepsContent ==
  ASSUME NEW main \in Main, NEW side \in Log, NEW pair \in Closed(main, side)
  PROVE  /\ pair[1] \in Main /\ pair[2] \in Log
         /\ pair[1] # NoFile
         /\ ~pair[2].foreign
         /\ Content(pair[1], pair[2]) = Content(main, side)
         /\ pair[2].rows # {} => ~pair[1].sound
         /\ main.sound /\ ~side.foreign => pair[2] = NoLog /\ pair[1].sound
<1>1. main # NoFile
  BY NullAssumption
<1>2. main = [rows |-> main.rows, schema |-> main.schema, sound |-> main.sound]
  BY DEF Main
<1>3. CASE side.foreign
  <2>1. pair = <<[main EXCEPT !.rows = {}, !.sound = FALSE], NoLog>>
    BY <1>3 DEF Closed
  <2>2. pair[1] \in Main /\ pair[2] \in Log
    BY <2>1 DEF Main, Log, NoLog, Marks
  <2> QED
    BY <1>1, <1>3, <2>1, <2>2, NullAssumption DEF Content, NoLog, Main
<1>4. CASE ~side.foreign /\ pair = <<[main EXCEPT !.rows = @ \cup side.rows], NoLog>>
  <2>1. pair[1] \in Main /\ pair[2] \in Log
    BY <1>4 DEF Main, Log, NoLog, Marks
  <2>2. pair[1].rows = main.rows \cup side.rows /\ pair[1].sound = main.sound /\ pair[2] = NoLog
    BY <1>4 DEF Main
  <2> QED
    BY <1>1, <1>4, <2>1, <2>2, NullAssumption DEF Content, NoLog
<1>5. CASE ~side.foreign /\ ~main.sound /\ pair = <<main, side>>
  BY <1>1, <1>5
<1> QED
  BY <1>3, <1>4, <1>5 DEF Closed

\* The same of a step that opens and closes the database.
LEMMA ReadKeeps ==
  ASSUME DatabaseTypeOK, db # NoFile, ReadAndClosed
  PROVE  /\ db' \in Main /\ log' \in Log
         /\ db' # NoFile
         /\ ~log'.foreign
         /\ Visible' = Visible
         /\ log'.rows # {} => ~db'.sound
         /\ db.sound /\ ~log.foreign => log' = NoLog /\ db'.sound
<1>1. PICK pair \in Closed(db, log) : db' = pair[1] /\ log' = pair[2]
  BY DEF ReadAndClosed
<1>2. db \in Main /\ log \in Log
  BY DEF DatabaseTypeOK
<1> QED
  BY <1>1, <1>2, ClosedKeepsContent DEF Visible

\* A file's content is that of the pair it was copied from.
LEMMA PreservedHolds ==
  ASSUME NEW main \in Main, NEW side \in Log, ~side.foreign
  PROVE  /\ Preserved(main, side) \in Copy
         /\ Preserved(main, side) # NoFile
         /\ Preserved(main, side).rows = main.rows
         /\ Preserved(main, side).log = side.rows
         /\ Preserved(main, side).sound = main.sound
         /\ Holds(Preserved(main, side)) = Content(main, side)
<1>1. main # NoFile
  BY NullAssumption
<1>2. Preserved(main, side) \in Copy
  BY DEF Preserved, Copy, Main, Log
<1> QED
  BY <1>1, <1>2, NullAssumption DEF Preserved, Holds, Content

-----------------------------------------------------------------------------
\* Types.

THEOREM DatabaseInitInv == DatabaseInit => FileInv
<1> SUFFICES ASSUME DatabaseInit PROVE FileInv
  OBVIOUS
<1>1. 0 \in Marks
  BY BoundAssumption DEF Marks
<1>2. db \in Main \cup {NoFile}
  BY <1>1 DEF DatabaseInit, Main
<1>3. files \subseteq Copy
  BY <1>1 DEF DatabaseInit, Copy
<1>4. DatabaseTypeOK
  BY <1>1, <1>2, <1>3 DEF DatabaseInit, DatabaseTypeOK, Log, NoLog, Outcomes
<1>5. job.at = "idle" /\ job = Idle /\ log = NoLog /\ ~log.foreign
  BY DEF DatabaseInit, Idle, NoLog
<1>6. Exclusive /\ Untouched /\ SafetyFirst /\ Replaced /\ NoStaleLog
  BY <1>5 DEF DatabaseInit, Exclusive, Untouched, SafetyFirst, Replaced, Staged, NoStaleLog,
     Replacing, Phases, NoLog
<1>7. NothingLost
  <2>1. CASE db = NoFile /\ acked = {}
    BY <2>1 DEF NothingLost
  <2>2. CASE db \in [rows : {{0}}, schema : {1, 2}, sound : {TRUE}] /\ acked = {0}
    <3>1. db # NoFile /\ db.rows = {0}
      BY <1>1, <2>2, NullAssumption DEF Main
    <3> QED
      BY <3>1, <1>5, <2>2 DEF NothingLost, Visible, Content
  <2> QED
    BY <2>1, <2>2 DEF DatabaseInit
<1> QED
  BY <1>4, <1>6, <1>7 DEF FileInv

-----------------------------------------------------------------------------
\* Clients' steps.  There is no job while anybody is connected.

LEMMA ConnectedMeansIdle ==
  ASSUME FileInv, NEW c \in Clients, conn[c] # "closed"
  PROVE  job = Idle /\ job.at = "idle" /\ conn[c] = "open" /\ db \in Main /\ ~log.foreign
<1>1. job = Idle
  BY DEF FileInv, Exclusive, Unlocked
<1>2. conn[c] = "open"
  BY DEF FileInv, Exclusive, DatabaseTypeOK
<1> QED
  BY <1>1, <1>2, FileThere DEF FileInv, Exclusive, Idle

\* Without a job, and with the file and its log as they were, all but what
\* names acked, files and connections stands.
LEMMA NoJob ==
  ASSUME job' = Idle
  PROVE  /\ job'.at = "idle"
         /\ Untouched' /\ Replaced'
         /\ (log'.foreign => AllKept') => SafetyFirst'
BY DEF Idle, Untouched, Replaced, Staged, SafetyFirst, Replacing, Phases

LEMMA ConnectKeepsInv ==
  ASSUME FileInv, NEW c \in Clients, Connect(c)
  PROVE  FileInv'
<1>1. job = Idle /\ job' = Idle
  BY IdlePhase DEF FileInv, Connect, Admitted
<1>2. DatabaseTypeOK'
  BY DEF FileInv, Connect, DatabaseTypeOK, fileVars
<1>3. Exclusive'
  BY <1>1 DEF FileInv, Connect, Exclusive, fileVars, DatabaseTypeOK
<1>4. SafetyFirst' /\ Untouched' /\ Replaced'
  BY <1>1, NoJob DEF FileInv, Connect, fileVars
<1>5. NothingLost' /\ NoStaleLog'
  BY DEF FileInv, Connect, fileVars, NothingLost, NoStaleLog, Visible
<1> QED
  BY <1>2, <1>3, <1>4, <1>5 DEF FileInv

LEMMA ConnectForeignKeepsInv ==
  ASSUME FileInv, NEW c \in Clients, ConnectForeign(c)
  PROVE  FileInv'
<1>1. job = Idle /\ job' = Idle
  BY IdlePhase DEF FileInv, ConnectForeign, Admitted
<1>2. /\ db' \in Main /\ log' \in Log /\ db' # NoFile /\ ~log'.foreign
      /\ Visible' = Visible
  BY ReadKeeps DEF FileInv, ConnectForeign
<1>3. DatabaseTypeOK'
  BY <1>2 DEF FileInv, ConnectForeign, DatabaseTypeOK, clientVars
<1>4. Exclusive'
  BY <1>1, <1>2 DEF FileInv, ConnectForeign, Exclusive, clientVars
<1>5. SafetyFirst' /\ Untouched' /\ Replaced'
  BY <1>1, <1>2, NoJob
<1>6. NothingLost' /\ NoStaleLog'
  BY <1>2 DEF FileInv, ConnectForeign, clientVars, NothingLost, NoStaleLog
<1> QED
  BY <1>3, <1>4, <1>5, <1>6 DEF FileInv

LEMMA InitialiseKeepsInv ==
  ASSUME FileInv, NEW c \in Clients, Initialise(c)
  PROVE  FileInv'
<1>1. job = Idle /\ job' = Idle
  BY IdlePhase DEF FileInv, Initialise, Admitted
<1>2. db' \in Main /\ db' # NoFile
  <2>1. db' \in Main
    BY DEF Initialise, Main
  <2> QED
    BY <2>1, NullAssumption
<1>3. log = NoLog /\ log' = NoLog /\ ~log'.foreign
  BY DEF FileInv, Exclusive, Initialise, NoLog
<1>4. DatabaseTypeOK'
  BY <1>2 DEF FileInv, Initialise, DatabaseTypeOK
<1>5. Exclusive'
  BY <1>1, <1>2, <1>3 DEF FileInv, Initialise, Exclusive, DatabaseTypeOK
<1>6. SafetyFirst' /\ Untouched' /\ Replaced'
  BY <1>1, <1>3, NoJob
<1>7. Visible = {}
  BY DEF Visible, Content, Initialise
<1>8. NothingLost' /\ NoStaleLog'
  BY <1>3, <1>7 DEF FileInv, Initialise, NothingLost, NoStaleLog
<1> QED
  BY <1>4, <1>5, <1>6, <1>8 DEF FileInv

LEMMA CommitKeepsInv ==
  ASSUME FileInv, NEW c \in Clients, Commit(c)
  PROVE  FileInv'
<1>1. job = Idle /\ job' = Idle /\ db \in Main /\ ~log.foreign /\ conn[c] = "open"
  BY ConnectedMeansIdle DEF Commit
<1>2. NextMark \in Marks
  BY BoundAssumption DEF FileInv, DatabaseTypeOK, Commit, NextMark, Marks
<1>3. log' = [log EXCEPT !.rows = @ \cup {NextMark}]
  BY <1>1 DEF Commit
<1>4. log' \in Log /\ ~log'.foreign /\ log'.rows = log.rows \cup {NextMark}
  BY <1>1, <1>2, <1>3 DEF FileInv, DatabaseTypeOK, Log
<1>5. DatabaseTypeOK'
  BY <1>2, <1>4 DEF FileInv, DatabaseTypeOK, Commit
<1>6. db # NoFile
  BY <1>1, NullAssumption
<1>7. Exclusive'
  BY <1>1, <1>4, <1>6 DEF FileInv, Exclusive, Commit
<1>8. SafetyFirst' /\ Untouched' /\ Replaced'
  BY <1>1, <1>4, NoJob
<1>9. Visible' = Visible \cup {NextMark}
  BY <1>1, <1>4, <1>6 DEF Commit, Visible, Content
<1>10. NothingLost' /\ NoStaleLog'
  BY <1>4, <1>9 DEF FileInv, Commit, NothingLost, NoStaleLog
<1> QED
  BY <1>5, <1>7, <1>8, <1>10 DEF FileInv

LEMMA BackupKeepsInv ==
  ASSUME FileInv, NEW c \in Clients, Backup(c)
  PROVE  FileInv'
<1>1. job = Idle /\ job' = Idle /\ db \in Main /\ ~log.foreign
  BY ConnectedMeansIdle DEF Backup
<1>2. Visible \subseteq Marks
  BY <1>1 DEF FileInv, DatabaseTypeOK, Visible, Content, Main, Log
<1>3. DatabaseTypeOK'
  <2>1. [rows |-> Visible, schema |-> 2, sound |-> TRUE, log |-> {}] \in Copy
    BY <1>2 DEF Copy
  <2>2. files' \subseteq Copy
    BY <2>1 DEF FileInv, DatabaseTypeOK, Backup
  <2> QED
    BY <2>2 DEF FileInv, DatabaseTypeOK, Backup, clientVars
<1>4. Exclusive'
  BY <1>1 DEF FileInv, Exclusive, Backup, clientVars, Unlocked
<1>5. SafetyFirst' /\ Untouched' /\ Replaced'
  BY <1>1, NoJob DEF Backup
<1>6. NothingLost' /\ NoStaleLog'
  BY <1>1 DEF FileInv, Backup, clientVars, NothingLost, NoStaleLog, Visible
<1> QED
  BY <1>3, <1>4, <1>5, <1>6 DEF FileInv

LEMMA CloseKeepsInv ==
  ASSUME FileInv, NEW c \in Clients, Close(c)
  PROVE  FileInv'
<1>1. job = Idle /\ job' = Idle /\ db \in Main /\ db # NoFile /\ ~log.foreign
  BY ConnectedMeansIdle, NullAssumption DEF Close
<1>2. db' \in Main /\ log' \in Log /\ db' # NoFile /\ ~log'.foreign /\ Visible' = Visible
  BY <1>1, ReadKeeps DEF FileInv, DatabaseTypeOK, Close, Visible
<1>3. DatabaseTypeOK'
  BY <1>2 DEF FileInv, DatabaseTypeOK, Close
<1>4. Exclusive'
  BY <1>1, <1>2 DEF FileInv, DatabaseTypeOK, Exclusive, Close
<1>5. SafetyFirst' /\ Untouched' /\ Replaced'
  BY <1>1, <1>2, NoJob
<1>6. NothingLost' /\ NoStaleLog'
  BY <1>2 DEF FileInv, Close, NothingLost, NoStaleLog
<1> QED
  BY <1>3, <1>4, <1>5, <1>6 DEF FileInv

LEMMA DieKeepsInv ==
  ASSUME FileInv, NEW c \in Clients, Die(c)
  PROVE  FileInv'
<1>1. job = Idle /\ job' = Idle /\ ~log.foreign
  BY ConnectedMeansIdle DEF Die
<1>2. DatabaseTypeOK'
  BY DEF FileInv, DatabaseTypeOK, Die, fileVars
<1>3. Exclusive'
  BY <1>1 DEF FileInv, DatabaseTypeOK, Exclusive, Die, fileVars
<1>4. SafetyFirst' /\ Untouched' /\ Replaced'
  BY <1>1, NoJob DEF Die, fileVars
<1>5. NothingLost' /\ NoStaleLog'
  BY DEF FileInv, Die, fileVars, NothingLost, NoStaleLog, Visible
<1> QED
  BY <1>2, <1>3, <1>4, <1>5 DEF FileInv

LEMMA DamageKeepsInv ==
  ASSUME FileInv, Damage
  PROVE  FileInv'
<1>1. job = Idle /\ job' = Idle /\ db \in Main
  BY FileThere DEF FileInv, Damage
<1>2. db' \in Main /\ db'.rows = db.rows
  BY <1>1 DEF Damage, Main
<1>3. db # NoFile /\ db' # NoFile
  BY <1>1, <1>2, NullAssumption
<1>4. DatabaseTypeOK'
  BY <1>2 DEF FileInv, DatabaseTypeOK, Damage, clientVars
<1>5. Exclusive'
  BY <1>1, <1>3 DEF FileInv, Exclusive, Damage, clientVars
<1>6. SafetyFirst' /\ Untouched' /\ Replaced'
  BY <1>1, NoJob DEF FileInv, SafetyFirst, AllKept, Damage, clientVars
<1>7. Visible' = Visible
  BY <1>2, <1>3 DEF Visible, Content, Damage
<1>8. NothingLost' /\ NoStaleLog'
  BY <1>7 DEF FileInv, Damage, clientVars, NothingLost, NoStaleLog
<1> QED
  BY <1>4, <1>5, <1>6, <1>8 DEF FileInv

-----------------------------------------------------------------------------
\* The job's steps.

\* While a job goes on, nobody is connected.
LEMMA JobAlone ==
  ASSUME FileInv, job.at # "idle"
  PROVE  job \in Job /\ Unlocked /\ job # Idle
BY JobUnderWay DEF FileInv, Exclusive, Idle

LEMMA StartKeepsInv ==
  ASSUME FileInv, NEW kind \in {"restore", "migrate"}, Start(kind)
  PROVE  FileInv'
<1>1. 0 \in Marks /\ Visible \subseteq Marks
  BY BoundAssumption DEF Marks, FileInv, DatabaseTypeOK, Visible, Content, Main, Log
<1>2. job' \in Job
  BY <1>1 DEF Start, Job, Phases
<1>3. job'.at = "locked" /\ job'.kind = kind /\ job'.safety = NoFile /\ job'.was = Visible
  BY DEF Start
<1>4. DatabaseTypeOK'
  BY <1>2 DEF FileInv, DatabaseTypeOK, Start, fileVars, clientVars
<1>5. Exclusive'
  BY DEF FileInv, Exclusive, Start, fileVars, clientVars, Unlocked
<1>6. Visible' = Visible
  BY DEF Start, fileVars, Visible
<1>7. Untouched'
  BY <1>3, <1>6 DEF Untouched, Start, fileVars
<1>8. SafetyFirst'
  BY <1>3 DEF FileInv, SafetyFirst, AllKept, Start, fileVars, clientVars, Replacing
<1>9. Replaced'
  BY <1>3 DEF Replaced, Staged, Replacing
<1>10. NothingLost' /\ NoStaleLog'
  BY <1>6 DEF FileInv, Start, fileVars, clientVars, NothingLost, NoStaleLog
<1> QED
  BY <1>4, <1>5, <1>7, <1>8, <1>9, <1>10 DEF FileInv

LEMMA StageRestoreKeepsInv ==
  ASSUME FileInv, NEW f \in files, StageRestore(f)
  PROVE  FileInv'
<1>1. job \in Job /\ Unlocked /\ job # Idle
  BY JobAlone DEF StageRestore
<1>2. NextMark \in Marks /\ Holds(f) \cup {NextMark} \subseteq Marks
  BY BoundAssumption DEF FileInv, DatabaseTypeOK, StageRestore, NextMark, Marks, Copy, Holds
<1>3. /\ job' \in Job /\ job'.at = "half" /\ job'.kind = "restore"
      /\ job'.safety = job.safety /\ job'.was = job.was
  BY <1>1, <1>2 DEF StageRestore, Job, Phases
<1>4. DatabaseTypeOK'
  BY <1>2, <1>3 DEF FileInv, DatabaseTypeOK, StageRestore, fileVars, clientVars
<1>5. Exclusive'
  BY <1>1 DEF FileInv, Exclusive, StageRestore, fileVars, clientVars, Unlocked
<1>6. Visible' = Visible
  BY DEF StageRestore, fileVars, Visible
<1>7. Untouched'
  BY <1>3, <1>6 DEF FileInv, Untouched, StageRestore, fileVars
<1>8. SafetyFirst'
  BY <1>3 DEF FileInv, SafetyFirst, AllKept, StageRestore, fileVars, clientVars, Replacing
<1>9. Replaced'
  BY <1>1, <1>2, <1>3 DEF Replaced, Staged, StageRestore, Replacing, Job
<1>10. NothingLost' /\ NoStaleLog'
  BY <1>6 DEF FileInv, StageRestore, fileVars, clientVars, NothingLost, NoStaleLog
<1> QED
  BY <1>4, <1>5, <1>7, <1>8, <1>9, <1>10 DEF FileInv

\* A backup that holds all that is visible completes what the backups hold.
LEMMA AllKeptWith ==
  ASSUME FileInv, NEW copy, Visible \subseteq Holds(copy), files' = files \cup {copy},
         acked' = acked
  PROVE  AllKept'
BY DEF FileInv, NothingLost, AllKept

LEMMA PreserveTargetKeepsInv ==
  ASSUME FileInv, PreserveTarget
  PROVE  FileInv'
<1>1. job \in Job /\ Unlocked /\ job # Idle
  BY JobAlone DEF PreserveTarget
<1>2. job.at = "half" /\ job.kind = "restore" /\ Visible = job.was /\ job.mark \in job.staged
  BY DEF FileInv, Untouched, Replaced, Staged, PreserveTarget
<1>3. CASE db = NoFile
  <2>1. job' = [job EXCEPT !.at = "ready"] /\ db' = db /\ log' = log /\ files' = files
    BY <1>3 DEF PreserveTarget, fileVars
  <2>2. /\ job' \in Job /\ job'.at = "ready" /\ job'.was = job.was
        /\ job'.safety = job.safety /\ job'.mark = job.mark /\ job'.staged = job.staged
    BY <1>1, <2>1 DEF Job, Phases
  <2>3. Visible = {} /\ Visible' = {} /\ log = NoLog
    BY <1>3, <2>1 DEF Visible, Content, FileInv, Exclusive
  <2>4. DatabaseTypeOK'
    BY <2>1, <2>2 DEF FileInv, DatabaseTypeOK, PreserveTarget, clientVars
  <2>5. Exclusive'
    BY <1>1, <2>1 DEF FileInv, Exclusive, PreserveTarget, clientVars, Unlocked
  <2>6. Untouched'
    BY <1>2, <2>2, <2>3 DEF Untouched
  <2>7. AllKept'
    BY <2>1, <2>3 DEF FileInv, NothingLost, AllKept, PreserveTarget, clientVars
  <2>8. SafetyFirst'
    BY <1>2, <2>1, <2>2, <2>3, <2>7 DEF FileInv, SafetyFirst, NoLog
  <2>9. Replaced'
    BY <1>2, <2>2 DEF Replaced, Staged
  <2>10. NothingLost' /\ NoStaleLog'
    BY <2>1, <2>7 DEF FileInv, NothingLost, AllKept, NoStaleLog
  <2> QED
    BY <2>4, <2>5, <2>6, <2>8, <2>9, <2>10 DEF FileInv
<1>4. CASE db # NoFile
  <2> DEFINE copy == Preserved(db', log')
  <2>1. /\ ReadAndClosed
        /\ files' = files \cup {copy}
        /\ job' = [job EXCEPT !.at = "ready", !.safety = copy]
    BY <1>4 DEF PreserveTarget
  <2>2. /\ db' \in Main /\ log' \in Log /\ db' # NoFile /\ ~log'.foreign
        /\ Visible' = Visible
        /\ log'.rows # {} => ~db'.sound
    BY <1>4, <2>1, ReadKeeps DEF FileInv
  <2>3. /\ copy \in Copy /\ copy # NoFile
        /\ copy.log = log'.rows /\ copy.sound = db'.sound
        /\ Holds(copy) = Visible
    BY <2>2, PreservedHolds DEF Visible
  <2> HIDE DEF copy
  <2>4. /\ job' \in Job /\ job'.at = "ready" /\ job'.was = job.was
        /\ job'.safety = copy /\ job'.mark = job.mark /\ job'.staged = job.staged
    BY <1>1, <2>1, <2>3 DEF Job, Phases
  <2>5. DatabaseTypeOK'
    BY <2>1, <2>2, <2>3, <2>4 DEF FileInv, DatabaseTypeOK, PreserveTarget, clientVars
  <2>6. Exclusive'
    BY <1>1, <2>2 DEF FileInv, Exclusive, PreserveTarget, clientVars, Unlocked
  <2>7. Untouched'
    BY <1>2, <2>2, <2>4 DEF Untouched
  <2>8. AllKept'
    BY <2>1, <2>3, AllKeptWith DEF PreserveTarget, clientVars
  <2>9. SafetyFirst'
    BY <1>2, <2>1, <2>2, <2>3, <2>4, <2>8 DEF SafetyFirst
  <2>10. Replaced'
    BY <1>2, <2>4 DEF Replaced, Staged
  <2>11. NothingLost' /\ NoStaleLog'
    BY <2>2, <2>8 DEF NothingLost, AllKept, NoStaleLog
  <2> QED
    BY <2>5, <2>6, <2>7, <2>9, <2>10, <2>11 DEF FileInv
<1> QED
  BY <1>3, <1>4

LEMMA BackupBeforeMigrateKeepsInv ==
  ASSUME FileInv, BackupBeforeMigrate
  PROVE  FileInv'
<1> DEFINE copy == [rows |-> Visible, schema |-> 1, sound |-> TRUE, log |-> {}]
<1>1. job \in Job /\ Unlocked /\ job # Idle
  BY JobAlone DEF BackupBeforeMigrate
<1>2. job.at = "locked" /\ job.kind = "migrate" /\ Visible = job.was /\ db # NoFile
  BY DEF FileInv, Untouched, BackupBeforeMigrate
<1>3. Visible \subseteq Marks
  BY DEF FileInv, DatabaseTypeOK, Visible, Content, Main, Log
<1>4. copy \in Copy
  BY <1>3 DEF Copy
<1>5. Holds(copy) = Visible /\ copy # NoFile
  BY <1>4, NullAssumption DEF Holds
<1>6. files' = files \cup {copy} /\ job' = [job EXCEPT !.at = "half", !.safety = copy]
  BY DEF BackupBeforeMigrate
<1> HIDE DEF copy
<1>7. /\ job' \in Job /\ job'.at = "half" /\ job'.kind = "migrate"
      /\ job'.was = job.was /\ job'.safety = copy
  BY <1>1, <1>2, <1>4, <1>6 DEF Job, Phases
<1>8. DatabaseTypeOK'
  BY <1>4, <1>6, <1>7 DEF FileInv, DatabaseTypeOK, BackupBeforeMigrate, clientVars
<1>9. Exclusive'
  BY <1>1 DEF FileInv, Exclusive, BackupBeforeMigrate, clientVars, Unlocked
<1>10. Visible' = Visible
  BY DEF BackupBeforeMigrate, Visible
<1>11. Untouched'
  BY <1>2, <1>5, <1>7, <1>10 DEF Untouched, BackupBeforeMigrate
<1>12. SafetyFirst'
  BY <1>2, <1>5, <1>6, <1>7 DEF SafetyFirst, BackupBeforeMigrate, Replacing
<1>13. Replaced'
  BY <1>7 DEF Replaced, Staged, Replacing
<1>14. NothingLost' /\ NoStaleLog'
  BY <1>6, <1>10 DEF FileInv, BackupBeforeMigrate, clientVars, NothingLost, NoStaleLog
<1> QED
  BY <1>8, <1>9, <1>11, <1>12, <1>13, <1>14 DEF FileInv

LEMMA StageMigratedKeepsInv ==
  ASSUME FileInv, StageMigrated
  PROVE  FileInv'
<1>1. job \in Job /\ Unlocked /\ job # Idle
  BY JobAlone DEF StageMigrated
<1>2. /\ job.at = "half" /\ job.kind = "migrate" /\ Visible = job.was
      /\ db # NoFile /\ db.sound /\ ~log.foreign /\ job.safety # NoFile
  BY DEF FileInv, Untouched, StageMigrated
<1>3. db' \in Main /\ db' # NoFile /\ log' = NoLog /\ log' \in Log /\ Visible' = Visible
  BY <1>2, ReadKeeps DEF FileInv, StageMigrated
<1>4. NextMark \in Marks /\ Visible \cup {NextMark} \subseteq Marks
  BY BoundAssumption DEF FileInv, DatabaseTypeOK, StageMigrated, NextMark, Marks, Visible, Content, Main, Log
<1>5. /\ job' \in Job /\ job'.at = "ready" /\ job'.was = job.was /\ job'.safety = job.safety
      /\ job'.mark \in job'.staged
  BY <1>1, <1>4 DEF StageMigrated, Job, Phases
<1>6. DatabaseTypeOK'
  BY <1>3, <1>4, <1>5 DEF FileInv, DatabaseTypeOK, StageMigrated, clientVars
<1>7. Exclusive'
  BY <1>1, <1>3 DEF FileInv, Exclusive, StageMigrated, clientVars, Unlocked, NoLog
<1>8. Untouched'
  BY <1>2, <1>3, <1>5 DEF Untouched
<1>9. AllKept'
  BY <1>2 DEF FileInv, SafetyFirst, NothingLost, AllKept, StageMigrated, clientVars
<1>10. SafetyFirst'
  BY <1>2, <1>3, <1>5, <1>9 DEF FileInv, SafetyFirst, StageMigrated, NoLog
<1>11. Replaced'
  BY <1>5 DEF Replaced, Staged
<1>12. NothingLost' /\ NoStaleLog'
  BY <1>3, <1>9 DEF NothingLost, AllKept, NoStaleLog, NoLog
<1> QED
  BY <1>6, <1>7, <1>8, <1>10, <1>11, <1>12 DEF FileInv

-----------------------------------------------------------------------------
\* From the rename on.  Everything is in the safety backup: a step from phase
\* to phase has only to say what the target is in the phase it comes to.

LEMMA ReplacingStep ==
  ASSUME FileInv, job.at \in Replacing,
         NEW at \in Replacing \ {"ready"},
         job' = [job EXCEPT !.at = at],
         UNCHANGED <<files, acked, conn, marks, said>>,
         db' \in Main, log' \in Log,
         log'.foreign => \E f \in files : ~f.sound /\ log'.rows \subseteq f.log,
         Replaced'
  PROVE  FileInv'
<1>1. job.at # "idle"
  BY DEF Replacing, Phases
<1>2. job \in Job /\ Unlocked /\ job # Idle
  BY <1>1, JobAlone
<1>3. /\ job' \in Job /\ job'.at = at /\ job'.was = job.was /\ job'.safety = job.safety
      /\ job'.at \notin {"idle", "locked", "half", "ready"}
  BY <1>2 DEF Job, Replacing, Phases
<1>4. DatabaseTypeOK'
  BY <1>3 DEF FileInv, DatabaseTypeOK
<1>5. db' # NoFile
  BY NullAssumption
<1>6. Exclusive'
  BY <1>2, <1>5 DEF Exclusive, FileInv, Unlocked
<1>7. Untouched'
  BY <1>3 DEF Untouched
<1>8. AllKept'
  BY DEF FileInv, SafetyFirst, AllKept
<1>9. SafetyFirst'
  BY <1>1, <1>3, <1>8 DEF FileInv, SafetyFirst
<1>10. NothingLost' /\ NoStaleLog'
  BY <1>8 DEF NothingLost, AllKept, NoStaleLog
<1> QED
  BY <1>4, <1>6, <1>7, <1>9, <1>10 DEF FileInv

\* The fields of a job that comes to another phase.
LEMMA PhaseOnly ==
  ASSUME FileInv, job.at # "idle", NEW at \in Phases, job' = [job EXCEPT !.at = at]
  PROVE  /\ job'.at = at /\ job'.staged = job.staged /\ job'.mark = job.mark
         /\ job'.safety = job.safety /\ job'.kind = job.kind
BY JobAlone DEF Job

LEMMA RenameKeepsInv ==
  ASSUME FileInv, Rename
  PROVE  FileInv'
<1>1. job \in Job /\ Unlocked /\ job.at = "ready" /\ job.at # "idle"
  BY JobAlone DEF Rename
<1>2. db' \in Main /\ db'.rows = job.staged
  BY <1>1 DEF Rename, Job, Main
<1>3. log' \in Log /\ log'.rows = log.rows /\ (log'.foreign => log.rows # {})
  BY DEF FileInv, DatabaseTypeOK, Rename, Log
<1>4. conn' = conn
  BY <1>1 DEF Unlocked, FileInv, DatabaseTypeOK, Rename, Orphaned
<1>5. /\ job'.at = "renamed" /\ job'.staged = job.staged /\ job'.mark = job.mark
      /\ job' = [job EXCEPT !.at = "renamed"]
  BY <1>1, PhaseOnly DEF Rename, Phases
<1>6. db' # NoFile
  BY <1>2, NullAssumption
<1>7. job.mark \in job.staged
  BY <1>1 DEF FileInv, Replaced, Staged, Replacing, Phases
<1>8. Replaced'
  BY <1>2, <1>5, <1>6, <1>7 DEF Replaced, Staged
<1>9. log'.foreign => \E f \in files : ~f.sound /\ log'.rows \subseteq f.log
  BY <1>1, <1>3 DEF FileInv, SafetyFirst
<1> QED
  BY <1>1, <1>2, <1>3, <1>4, <1>5, <1>8, <1>9, ReplacingStep DEF Rename, Replacing, Phases

\* A target that is there in every phase of the replacement and its undoing.
LEMMA TargetThere ==
  ASSUME FileInv, job.at \in Replacing \ {"ready"}
  PROVE  db \in Main /\ db # NoFile /\ log \in Log /\ job.mark \in job.staged
BY DEF FileInv, DatabaseTypeOK, Replaced, Staged, Replacing, Phases

LEMMA ClearSidecarsKeepsInv ==
  ASSUME FileInv, ClearSidecars
  PROVE  FileInv'
<1>1. job.at = "renamed" /\ job.at \in Replacing \ {"ready"} /\ job.at # "idle"
  BY DEF ClearSidecars, Replacing, Phases
<1>2. db \in Main /\ db # NoFile /\ job.mark \in job.staged /\ db.rows = job.staged
  BY <1>1, TargetThere DEF FileInv, Replaced, Staged
<1>3. /\ job'.at = "cleared" /\ job'.staged = job.staged /\ job'.mark = job.mark
      /\ job' = [job EXCEPT !.at = "cleared"]
  BY <1>1, PhaseOnly DEF ClearSidecars, Phases
<1>4. db' = db /\ log' = NoLog /\ log' \in Log /\ ~log'.foreign
  BY DEF ClearSidecars, Log, NoLog
<1>5. Replaced'
  BY <1>2, <1>3, <1>4 DEF Replaced, Staged
<1> QED
  BY <1>1, <1>2, <1>3, <1>4, <1>5, ReplacingStep DEF ClearSidecars, clientVars, Replacing, Phases

LEMMA VerifyKeepsInv ==
  ASSUME FileInv, Verify
  PROVE  FileInv'
<1>1. job.at = "cleared" /\ job.at \in Replacing \ {"ready"} /\ job.at # "idle"
  BY DEF Verify, Replacing, Phases
<1>2. /\ db \in Main /\ db # NoFile /\ job.mark \in job.staged /\ db.rows = job.staged
      /\ log = NoLog /\ log \in Log /\ ~log.foreign
  BY <1>1, TargetThere DEF FileInv, Replaced, Staged, NoLog
<1>3. /\ job'.at = "verified" /\ job'.staged = job.staged /\ job'.mark = job.mark
      /\ job' = [job EXCEPT !.at = "verified"]
  BY <1>1, PhaseOnly DEF Verify, Phases
<1>4. db' = db /\ log' = log
  BY DEF Verify, fileVars
<1>5. Replaced'
  BY <1>2, <1>3, <1>4 DEF Replaced, Staged
<1> QED
  BY <1>1, <1>2, <1>3, <1>4, <1>5, ReplacingStep DEF Verify, fileVars, clientVars, Replacing, Phases

LEMMA BreakAfterKeepsInv ==
  ASSUME FileInv, BreakAfter
  PROVE  FileInv'
<1>1. job.at \in Replacing \ {"ready"} /\ job.at # "idle"
  BY DEF BreakAfter, Replacing, Phases
<1>2. db \in Main /\ db # NoFile /\ log \in Log /\ job.mark \in job.staged
  BY <1>1, TargetThere
<1>3. /\ job'.at = "failing" /\ job'.staged = job.staged /\ job'.mark = job.mark
      /\ job' = [job EXCEPT !.at = "failing"]
  BY <1>1, PhaseOnly DEF BreakAfter, Phases
<1>4. db' = db /\ log' = log
  BY DEF BreakAfter, fileVars
<1>5. Replaced'
  BY <1>2, <1>3, <1>4 DEF Replaced, Staged
<1>6. log'.foreign => \E f \in files : ~f.sound /\ log'.rows \subseteq f.log
  BY <1>4 DEF FileInv, NoStaleLog
<1> QED
  BY <1>1, <1>2, <1>3, <1>4, <1>5, <1>6, ReplacingStep
     DEF BreakAfter, fileVars, clientVars, Replacing, Phases

LEMMA BeginUndoKeepsInv ==
  ASSUME FileInv, BeginUndo
  PROVE  FileInv'
<1>1. job.at \in Replacing \ {"ready"} /\ job.at # "idle"
  BY DEF BeginUndo, Replacing, Phases
<1>2. db \in Main /\ db # NoFile /\ log \in Log /\ job.mark \in job.staged
  BY <1>1, TargetThere
<1>3. /\ job'.at = "undoing" /\ job'.staged = job.staged /\ job'.mark = job.mark
      /\ job' = [job EXCEPT !.at = "undoing"]
  BY <1>1, PhaseOnly DEF BeginUndo, Phases
<1>4. db' = db /\ log' = log
  BY DEF BeginUndo, fileVars
<1>5. Replaced'
  BY <1>2, <1>3, <1>4 DEF Replaced, Staged
<1>6. log'.foreign => \E f \in files : ~f.sound /\ log'.rows \subseteq f.log
  BY <1>4 DEF FileInv, NoStaleLog
<1> QED
  BY <1>1, <1>2, <1>3, <1>4, <1>5, <1>6, ReplacingStep
     DEF BeginUndo, fileVars, clientVars, Replacing, Phases

LEMMA EmptySidecarsKeepsInv ==
  ASSUME FileInv, EmptySidecars
  PROVE  FileInv'
<1>1. job.at \in Replacing \ {"ready"} /\ job.at # "idle"
  BY DEF EmptySidecars, Replacing, Phases
<1>2. db \in Main /\ db # NoFile /\ job.mark \in job.staged
  BY <1>1, TargetThere
<1>3. /\ job'.at = "emptied" /\ job'.staged = job.staged /\ job'.mark = job.mark
      /\ job' = [job EXCEPT !.at = "emptied"]
  BY <1>1, PhaseOnly DEF EmptySidecars, Phases
<1>4. db' = db /\ log' = NoLog /\ log' \in Log /\ ~log'.foreign
  BY DEF EmptySidecars, Log, NoLog
<1>5. Replaced'
  BY <1>2, <1>3, <1>4 DEF Replaced, Staged
<1> QED
  BY <1>1, <1>2, <1>3, <1>4, <1>5, ReplacingStep DEF EmptySidecars, clientVars, Replacing, Phases

LEMMA SwapBackKeepsInv ==
  ASSUME FileInv, SwapBack
  PROVE  FileInv'
<1>1. /\ job.at = "emptied" /\ job.safety # NoFile
      /\ job.at \in Replacing \ {"ready"} /\ job.at # "idle"
  BY DEF SwapBack, Replacing, Phases
<1>2. job \in Job /\ Unlocked
  BY <1>1, JobAlone
<1>3. job.safety \in Copy
  BY <1>1, <1>2 DEF Job
<1>4. db' \in Main /\ db'.rows = job.safety.rows
  BY <1>3 DEF SwapBack, Copy, Main
<1>5. db' # NoFile
  BY <1>4, NullAssumption
<1>6. conn' = conn
  BY <1>2 DEF Unlocked, FileInv, DatabaseTypeOK, SwapBack, Orphaned
<1>7. /\ job'.at = "swapped" /\ job'.staged = job.staged /\ job'.mark = job.mark
      /\ job'.safety = job.safety /\ job' = [job EXCEPT !.at = "swapped"]
  BY <1>1, PhaseOnly DEF SwapBack, Phases
<1>8. log = NoLog
  BY <1>1 DEF FileInv, Replaced, Staged
<1>9. log' = NoLog /\ log' \in Log /\ ~log'.foreign
  BY <1>8 DEF SwapBack, Log, NoLog
<1>10. job.mark \in job.staged
  BY <1>1, TargetThere
<1>11. Replaced'
  BY <1>1, <1>4, <1>5, <1>7, <1>9, <1>10 DEF Replaced, Staged
<1> QED
  BY <1>1, <1>4, <1>6, <1>7, <1>9, <1>11, ReplacingStep DEF SwapBack, Replacing, Phases

LEMMA CopySidecarsKeepsInv ==
  ASSUME FileInv, CopySidecars
  PROVE  FileInv'
<1>1. job.at = "swapped" /\ job.at \in Replacing \ {"ready"} /\ job.at # "idle"
  BY DEF CopySidecars, Replacing, Phases
<1>2. job \in Job
  BY <1>1, JobAlone
<1>3. /\ db \in Main /\ db # NoFile /\ job.mark \in job.staged
      /\ job.safety # NoFile /\ db.rows = job.safety.rows
  BY <1>1, TargetThere DEF FileInv, Replaced, Staged
<1>4. job.safety \in Copy
  BY <1>2, <1>3 DEF Job
<1>5. /\ job'.at = "copied" /\ job'.staged = job.staged /\ job'.mark = job.mark
      /\ job'.safety = job.safety /\ job' = [job EXCEPT !.at = "copied"]
  BY <1>1, PhaseOnly DEF CopySidecars, Phases
<1>6. db' = db /\ log' \in Log /\ ~log'.foreign /\ log'.rows = job.safety.log
  BY <1>4 DEF CopySidecars, Log, Copy
<1>7. Replaced'
  BY <1>3, <1>5, <1>6 DEF Replaced, Staged
<1> QED
  BY <1>1, <1>3, <1>5, <1>6, <1>7, ReplacingStep DEF CopySidecars, clientVars, Replacing, Phases

-----------------------------------------------------------------------------
\* The ways a job ends.

\* It lets go of its lock, whatever it leaves the target as: the backups hold
\* all, or a reader finds what there was.
LEMMA EndKeepsInv ==
  ASSUME FileInv, job.at # "idle", NEW outcome \in Outcomes, Unwound(outcome),
         db' \in Main \cup {NoFile}, log' \in Log,
         db' = NoFile => log' = NoLog,
         log'.foreign => log' = log,
         AllKept \/ Visible' = Visible
  PROVE  FileInv'
<1>1. job' = Idle /\ files' = files /\ conn' = conn /\ acked' = acked /\ marks' = marks
  BY DEF Unwound, clientVars
<1>2. DatabaseTypeOK'
  BY <1>1 DEF FileInv, DatabaseTypeOK, Unwound
<1>3. Exclusive'
  BY <1>1, JobAlone DEF Exclusive, Unlocked
<1>4. AllKept => AllKept'
  BY <1>1 DEF AllKept
<1>5. SafetyFirst' /\ Untouched' /\ Replaced'
  BY <1>1, <1>4, NoJob DEF FileInv, SafetyFirst
<1>6. NothingLost'
  BY <1>1, <1>4 DEF FileInv, NothingLost, AllKept
<1>7. NoStaleLog'
  BY <1>1 DEF FileInv, NoStaleLog
<1> QED
  BY <1>2, <1>3, <1>5, <1>6, <1>7 DEF FileInv

LEMMA FinishKeepsInv ==
  ASSUME FileInv, Finish
  PROVE  FileInv'
<1>1. job.at = "verified" /\ job.at \in Replacing \ {"ready"} /\ job.at # "idle"
  BY DEF Finish, Replacing, Phases
<1>2. job \in Job /\ Unlocked
  BY <1>1, JobAlone
<1>3. /\ db \in Main /\ db # NoFile /\ db.rows = job.staged /\ job.mark \in job.staged
      /\ log = NoLog /\ ~log.foreign
  BY <1>1, TargetThere DEF FileInv, Replaced, Staged, NoLog
<1>4. job' = Idle /\ db' = db /\ log' = log /\ files' = files /\ conn' = conn /\ marks' = marks
  BY DEF Finish, fileVars
<1>5. DatabaseTypeOK'
  BY <1>2, <1>4 DEF FileInv, DatabaseTypeOK, Finish, Outcomes, Job
<1>6. Exclusive'
  BY <1>2, <1>3, <1>4 DEF Exclusive, Unlocked
<1>7. SafetyFirst' /\ Untouched' /\ Replaced'
  BY <1>3, <1>4, NoJob
<1>8. job.mark \in Visible /\ Visible' = Visible
  BY <1>3, <1>4 DEF Visible, Content
<1>9. NothingLost' /\ NoStaleLog'
  BY <1>3, <1>4, <1>8 DEF FileInv, NothingLost, NoStaleLog, Finish
<1> QED
  BY <1>5, <1>6, <1>7, <1>9 DEF FileInv

LEMMA BreakBeforeKeepsInv ==
  ASSUME FileInv, NEW outcome \in {"unchanged", "interrupted"}, BreakBefore(outcome)
  PROVE  FileInv' /\ Visible' = Visible /\ job.was = Visible
<1>1. job.at # "idle" /\ job.was = Visible
  BY DEF FileInv, Untouched, BreakBefore, Published
<1>2. outcome \in Outcomes /\ Unwound(outcome)
  BY DEF Outcomes, BreakBefore
<1>3. CASE UNCHANGED <<db, log>>
  <2>1. db' \in Main \cup {NoFile} /\ log' \in Log /\ Visible' = Visible
    BY <1>3 DEF FileInv, DatabaseTypeOK, Visible
  <2>2. db' = NoFile => log' = NoLog
    BY <1>3 DEF FileInv, Exclusive
  <2> QED
    BY <1>1, <1>2, <1>3, <2>1, <2>2, EndKeepsInv
<1>4. CASE db # NoFile /\ ReadAndClosed
  BY <1>1, <1>2, <1>4, ReadKeeps, EndKeepsInv DEF FileInv
<1> QED
  BY <1>3, <1>4 DEF BreakBefore

\* An end that leaves the file and its log where they are.
LEMMA LeftAsIs ==
  ASSUME FileInv, job.at # "idle", NEW outcome \in Outcomes, Unwound(outcome),
         UNCHANGED <<db, log>>
  PROVE  FileInv' /\ Visible' = Visible
<1>1. db' \in Main \cup {NoFile} /\ log' \in Log /\ Visible' = Visible
  BY DEF FileInv, DatabaseTypeOK, Visible
<1>2. db' = NoFile => log' = NoLog
  BY DEF FileInv, Exclusive
<1> QED
  BY <1>1, <1>2, EndKeepsInv

LEMMA RemoveKeepsInv ==
  ASSUME FileInv, Remove
  PROVE  FileInv' /\ Visible' = job.was
<1>1. job.at = "emptied" /\ job.at # "idle" /\ job.at \in Replacing
  BY DEF Remove, Replacing, Phases
<1>2. log = NoLog
  BY <1>1 DEF FileInv, Replaced, Staged
<1>3. log' = NoLog /\ db' = NoFile /\ log' \in Log
  BY <1>2 DEF Remove, Log, NoLog
<1>4. AllKept /\ job.was = {}
  BY <1>1 DEF FileInv, SafetyFirst, Remove
<1>5. Visible' = {}
  BY <1>3 DEF Visible, Content
<1>6. Unwound("rolled back") /\ "rolled back" \in Outcomes
  BY DEF Remove, Outcomes
<1> QED
  BY <1>1, <1>2, <1>3, <1>4, <1>5, <1>6, EndKeepsInv

\* The pair put back is what the safety backup holds.
LEMMA FinishUndoKeepsInv ==
  ASSUME FileInv, FinishUndo
  PROVE  FileInv' /\ Visible' = job.was
<1>1. job.at = "copied" /\ job.at # "idle"
  BY DEF FinishUndo
<1>2. /\ db # NoFile /\ job.safety # NoFile /\ db.rows = job.safety.rows
      /\ ~log.foreign /\ log.rows = job.safety.log
  BY <1>1 DEF FileInv, Replaced, Staged
<1>3. Holds(job.safety) = job.was
  BY <1>1, <1>2 DEF FileInv, SafetyFirst
<1>4. Visible = job.was
  BY <1>2, <1>3 DEF Visible, Content, Holds
<1>5. Unwound("rolled back") /\ "rolled back" \in Outcomes
  BY DEF FinishUndo, Outcomes
<1> QED
  BY <1>1, <1>4, <1>5, LeftAsIs DEF FinishUndo

-----------------------------------------------------------------------------
\* All together.

\* Every step keeps the invariant.
LEMMA FileStep ==
  ASSUME FileInv, [DatabaseNext]_databaseVars
  PROVE  FileInv'
<1>1. CASE ClientStep
  BY <1>1, ConnectKeepsInv, ConnectForeignKeepsInv, InitialiseKeepsInv, CommitKeepsInv,
     BackupKeepsInv, CloseKeepsInv, DieKeepsInv, DamageKeepsInv DEF ClientStep
<1>2. CASE PublishStep
  BY <1>2, StartKeepsInv, StageRestoreKeepsInv, PreserveTargetKeepsInv,
     BackupBeforeMigrateKeepsInv, StageMigratedKeepsInv, RenameKeepsInv,
     ClearSidecarsKeepsInv, VerifyKeepsInv, FinishKeepsInv DEF PublishStep
<1>3. CASE BreakStep
  <2>1. CASE SignalOutside
    BY <2>1, LeftAsIs DEF SignalOutside, Outcomes
  <2>2. CASE BreakUndo
    BY <2>2, LeftAsIs DEF BreakUndo, Outcomes
  <2>3. CASE Kill
    BY <2>3, LeftAsIs, IdlePhase DEF FileInv, Kill, Outcomes
  <2> QED
    BY <1>3, <2>1, <2>2, <2>3, BreakBeforeKeepsInv, BreakAfterKeepsInv, BeginUndoKeepsInv,
       EmptySidecarsKeepsInv, RemoveKeepsInv, SwapBackKeepsInv, CopySidecarsKeepsInv,
       FinishUndoKeepsInv DEF BreakStep
<1>4. CASE UNCHANGED databaseVars
  BY <1>4 DEF databaseVars, fileVars, clientVars, FileInv, DatabaseTypeOK, Exclusive, Unlocked,
     Untouched, SafetyFirst, AllKept, Replaced, Staged, NothingLost, NoStaleLog, Visible
<1> QED
  BY <1>1, <1>2, <1>3, <1>4 DEF DatabaseNext

\* FileInv holds throughout, for any clients, commits and backup files.
THEOREM FileInvariant == DatabaseSpec => []FileInv
<1>1. FileInv /\ [DatabaseNext]_databaseVars => FileInv'
  BY FileStep
<1> QED
  BY <1>1, DatabaseInitInv, PTL DEF DatabaseSpec

\* Type correctness of the database file.
THEOREM DatabaseTypeCorrect == DatabaseSpec => []DatabaseTypeOK
<1>1. FileInv => DatabaseTypeOK
  BY DEF FileInv
<1> QED
  BY <1>1, FileInvariant, PTL

\* Whatever step a restore or a migration stops at, every commit a caller was
\* told of is in the database or in a backup.
THEOREM CommitsSurvive == DatabaseSpec => []NothingLost
<1>1. FileInv => NothingLost
  BY DEF FileInv
<1> QED
  BY <1>1, FileInvariant, PTL

\* A log beside another file than its own is a damaged database's, and a
\* backup has it.
THEOREM LogsMatch == DatabaseSpec => []NoStaleLog
<1>1. FileInv => NoStaleLog
  BY DEF FileInv
<1> QED
  BY <1>1, FileInvariant, PTL

\* The steps that end a job.
LEMMA Endings ==
  ASSUME FileInv, [DatabaseNext]_databaseVars, job # Idle, job' = Idle
  PROVE  \/ Finish \/ \E outcome \in {"unchanged", "interrupted"} : BreakBefore(outcome)
         \/ SignalOutside \/ Remove \/ FinishUndo \/ BreakUndo \/ Kill
<1>1. job \in Job /\ job.at # "idle" /\ job'.at = "idle" /\ ~UNCHANGED job
  BY DEF FileInv, DatabaseTypeOK, Idle, Job, Phases
<1>2. ~ClientStep
  BY <1>1 DEF ClientStep, Connect, ConnectForeign, Initialise, Commit, Backup, Close, Die, Damage
<1>3. ~UNCHANGED databaseVars
  BY <1>1 DEF databaseVars
<1>4. PublishStep => Finish
  <2>1. \A kind \in {"restore", "migrate"} : ~Start(kind)
    BY DEF Start
  <2>2. \A f \in files : ~StageRestore(f)
    BY <1>1 DEF StageRestore, Job
  <2>3. ~PreserveTarget
    BY <1>1 DEF PreserveTarget, Job
  <2>4. ~BackupBeforeMigrate /\ ~StageMigrated
    BY <1>1 DEF BackupBeforeMigrate, StageMigrated, Job
  <2>5. ~Rename /\ ~ClearSidecars /\ ~Verify
    BY <1>1 DEF Rename, ClearSidecars, Verify, Job
  <2> QED
    BY <2>1, <2>2, <2>3, <2>4, <2>5 DEF PublishStep
<1>5. ~BreakAfter /\ ~BeginUndo /\ ~EmptySidecars /\ ~SwapBack /\ ~CopySidecars
  BY <1>1 DEF BreakAfter, BeginUndo, EmptySidecars, SwapBack, CopySidecars, Job
<1> QED
  BY <1>2, <1>3, <1>4, <1>5 DEF DatabaseNext, BreakStep

\* What a job says of the target as it ends is so.
THEOREM ReportsAreTrue == DatabaseSpec => ReportsTruthfully
<1>1. ASSUME FileInv, [DatabaseNext]_databaseVars, job # Idle, job' = Idle
      PROVE  Reported
  <2>1. CASE Finish
    <3>1. job.at = "verified" /\ said' = "done" /\ db' = db /\ log' = log
      BY <2>1 DEF Finish, fileVars
    <3>2. db # NoFile /\ db.rows = job.staged /\ log = NoLog /\ job.mark \in job.staged
      BY <1>1, <3>1 DEF FileInv, Replaced, Staged, Replacing, Phases
    <3> QED
      BY <3>1, <3>2 DEF Reported, Visible, Content, NoLog
  <2>2. CASE \E outcome \in {"unchanged", "interrupted"} : BreakBefore(outcome)
    BY <1>1, <2>2, BreakBeforeKeepsInv DEF BreakBefore, Unwound, Reported
  <2>3. CASE SignalOutside \/ BreakUndo \/ Kill
    BY <2>3 DEF SignalOutside, BreakUndo, Kill, Unwound, Reported
  <2>4. CASE Remove
    BY <1>1, <2>4, RemoveKeepsInv DEF Remove, Unwound, Reported
  <2>5. CASE FinishUndo
    BY <1>1, <2>5, FinishUndoKeepsInv DEF FinishUndo, Unwound, Reported
  <2> QED
    BY <1>1, <2>1, <2>2, <2>3, <2>4, <2>5, Endings
<1>2. FileInv /\ [DatabaseNext]_databaseVars
        => [job # Idle /\ job' = Idle => Reported]_databaseVars
  BY <1>1
<1> QED
  BY <1>2, FileInvariant, PTL DEF DatabaseSpec, ReportsTruthfully

-----------------------------------------------------------------------------
\* What a step takes out of the database is in one backup.

LEMMA StagedIsKeptAtFirst == DatabaseInit => StagedIsKept
<1> SUFFICES ASSUME DatabaseInit PROVE StagedIsKept
  OBVIOUS
<1>1. acked \subseteq {0} /\ marks = 0
  BY DEF DatabaseInit
<1>2. \A m \in acked : m <= marks
  BY <1>1
<1>3. job.at = "idle"
  BY DEF DatabaseInit, Idle
<1> QED
  BY <1>2, <1>3 DEF StagedIsKept, Staged, Replacing, Phases

\* A step from phase to phase, up to the parts about the file and its log.
LEMMA PhaseKeepsStaged ==
  ASSUME FileInv, StagedIsKept, Staged, NEW at \in Replacing,
         job'.at = at, job'.staged = job.staged, job'.mark = job.mark,
         acked' = acked, marks' = marks, files \subseteq files',
         at \in {"renamed", "failing", "undoing"} => log'.foreign \/ log'.rows = {},
         at \in {"failing", "undoing", "emptied"} => db'.rows = job.staged
  PROVE  StagedIsKept'
<1>1. Kept(job.staged \ {job.mark})
  BY DEF StagedIsKept
<1>2. Kept(job.staged \ {job.mark})'
  BY <1>1 DEF Kept
<1> QED
  BY <1>2 DEF StagedIsKept

LEMMA ClientsKeepStaged ==
  ASSUME FileInv, StagedIsKept, job = Idle, job' = Idle,
         \A m \in acked' : m <= marks'
  PROVE  StagedIsKept'
BY DEF StagedIsKept, Staged, Idle, Replacing, Phases

\* The steps before the rename.
LEMMA StartKeepsStaged ==
  ASSUME FileInv, StagedIsKept, NEW kind \in {"restore", "migrate"}, Start(kind)
  PROVE  StagedIsKept'
BY DEF StagedIsKept, Staged, Start, fileVars, clientVars, Replacing, Phases

LEMMA StageRestoreKeepsStaged ==
  ASSUME FileInv, StagedIsKept, NEW f \in files, StageRestore(f)
  PROVE  StagedIsKept'
<1>1. /\ job'.at = "half" /\ job'.mark = NextMark /\ job'.staged = Holds(f) \cup {NextMark}
      /\ files' = files /\ acked' = acked
  BY JobAlone DEF StageRestore, fileVars, clientVars, Job
<1>2. \A m \in acked : m <= marks' /\ m # NextMark
  BY DEF FileInv, DatabaseTypeOK, Marks, StagedIsKept, StageRestore, NextMark
<1>3. Kept(job.staged \ {job.mark})'
  BY <1>1 DEF Kept
<1>4. job'.mark <= marks'
  BY <1>1 DEF FileInv, DatabaseTypeOK, Marks, StageRestore, NextMark
<1> QED
  BY <1>1, <1>2, <1>3, <1>4 DEF StagedIsKept

LEMMA BackupBeforeMigrateKeepsStaged ==
  ASSUME FileInv, StagedIsKept, BackupBeforeMigrate
  PROVE  StagedIsKept'
<1>1. job'.at = "half" /\ job'.kind = "migrate"
  BY JobAlone DEF BackupBeforeMigrate, Job
<1> QED
  BY <1>1 DEF StagedIsKept, Staged, BackupBeforeMigrate, clientVars, Replacing

LEMMA StageMigratedKeepsStaged ==
  ASSUME FileInv, StagedIsKept, StageMigrated
  PROVE  StagedIsKept'
<1>1. /\ job'.at = "ready" /\ job'.mark = NextMark /\ job'.staged = Visible \cup {NextMark}
      /\ files' = files /\ acked' = acked
  BY JobAlone DEF StageMigrated, clientVars, Job
<1>2. \A m \in acked : m <= marks' /\ m # NextMark
  BY DEF FileInv, DatabaseTypeOK, Marks, StagedIsKept, StageMigrated, NextMark
<1>3. job.safety \in files /\ Holds(job.safety) = Visible
  BY DEF FileInv, Untouched, SafetyFirst, StageMigrated
<1>4. Kept(job.staged \ {job.mark})'
  BY <1>1, <1>3 DEF Kept
<1>5. job'.mark <= marks'
  BY <1>1 DEF FileInv, DatabaseTypeOK, Marks, StageMigrated, NextMark
<1> QED
  BY <1>1, <1>2, <1>4, <1>5 DEF StagedIsKept

LEMMA PreserveTargetKeepsStaged ==
  ASSUME FileInv, StagedIsKept, PreserveTarget
  PROVE  StagedIsKept'
<1>1. /\ job'.at = "ready" /\ job'.staged = job.staged /\ job'.mark = job.mark
      /\ acked' = acked /\ marks' = marks /\ files \subseteq files'
  BY JobAlone DEF PreserveTarget, fileVars, clientVars, Job
<1>2. Staged /\ "ready" \in Replacing
  BY DEF PreserveTarget, Staged, Replacing, Phases
<1> QED
  BY <1>1, <1>2, PhaseKeepsStaged

\* Those after it.
LEMMA ReplacementKeepsStaged ==
  ASSUME FileInv, StagedIsKept,
         Rename \/ ClearSidecars \/ Verify \/ BreakAfter \/ BeginUndo \/ EmptySidecars
         \/ SwapBack \/ CopySidecars
  PROVE  StagedIsKept'
<1>1. job.at \in Replacing /\ job.at # "idle" /\ Staged /\ job \in Job
  BY JobAlone DEF Rename, ClearSidecars, Verify, BreakAfter, BeginUndo, EmptySidecars,
     SwapBack, CopySidecars, Staged, Replacing, Phases
<1>2. acked' = acked /\ marks' = marks /\ files \subseteq files'
  BY DEF Rename, ClearSidecars, Verify, BreakAfter, BeginUndo, EmptySidecars,
     SwapBack, CopySidecars, fileVars, clientVars
<1>3. CASE Rename
  <2>1. log'.foreign \/ log'.rows = {}
    BY <1>3 DEF Rename, FileInv, DatabaseTypeOK, Log
  <2>2. job' = [job EXCEPT !.at = "renamed"] /\ "renamed" \in Replacing
    BY <1>3 DEF Rename, Replacing, Phases
  <2> QED
    BY <1>1, <1>2, <2>1, <2>2, PhaseOnly, PhaseKeepsStaged DEF Replacing
<1>4. CASE ClearSidecars \/ Verify \/ SwapBack \/ CopySidecars
  <2>1. PICK at \in {"cleared", "verified", "swapped", "copied"} : job' = [job EXCEPT !.at = at]
    BY <1>4 DEF ClearSidecars, Verify, SwapBack, CopySidecars
  <2>2. at \in Replacing
    BY DEF Replacing, Phases
  <2> QED
    BY <1>1, <1>2, <2>1, <2>2, PhaseOnly, PhaseKeepsStaged DEF Replacing
<1>5. CASE BreakAfter
  <2>1. job.at \in {"renamed", "cleared"} /\ db' = db /\ log' = log
    BY <1>5 DEF BreakAfter, fileVars
  <2>2. db.rows = job.staged /\ (log.foreign \/ log.rows = {})
    BY <2>1 DEF FileInv, Replaced, StagedIsKept, NoLog
  <2>3. job' = [job EXCEPT !.at = "failing"] /\ "failing" \in Replacing
    BY <1>5 DEF BreakAfter, Replacing, Phases
  <2> QED
    BY <1>1, <1>2, <2>1, <2>2, <2>3, PhaseOnly, PhaseKeepsStaged DEF Replacing
<1>6. CASE BeginUndo
  <2>1. db' = db /\ log' = log /\ db.rows = job.staged /\ (log.foreign \/ log.rows = {})
    BY <1>6 DEF BeginUndo, fileVars, StagedIsKept
  <2>2. job' = [job EXCEPT !.at = "undoing"] /\ "undoing" \in Replacing
    BY <1>6 DEF BeginUndo, Replacing, Phases
  <2> QED
    BY <1>1, <1>2, <2>1, <2>2, PhaseOnly, PhaseKeepsStaged DEF Replacing
<1>7. CASE EmptySidecars
  <2>1. db' = db /\ db.rows = job.staged
    BY <1>7 DEF EmptySidecars, StagedIsKept
  <2>2. job' = [job EXCEPT !.at = "emptied"] /\ "emptied" \in Replacing
    BY <1>7 DEF EmptySidecars, Replacing, Phases
  <2> QED
    BY <1>1, <1>2, <2>1, <2>2, PhaseOnly, PhaseKeepsStaged DEF Replacing
<1> QED
  BY <1>3, <1>4, <1>5, <1>6, <1>7

\* The end of a job.
LEMMA EndKeepsStaged ==
  ASSUME FileInv, StagedIsKept, job' = Idle, marks' = marks,
         acked' = acked \/ (Staged /\ acked' = acked \cup {job.mark})
  PROVE  StagedIsKept'
<1>1. \A m \in acked' : m <= marks'
  BY DEF StagedIsKept
<1> QED
  BY <1>1 DEF StagedIsKept, Staged, Idle, Replacing, Phases

\* No client acts on its own connection while a job goes on.
LEMMA ClientsWithoutJob ==
  ASSUME FileInv, ClientStep
  PROVE  job = Idle /\ job' = Idle
<1>1. ASSUME NEW c \in Clients, Connect(c) \/ ConnectForeign(c) \/ Initialise(c)
      PROVE  job = Idle /\ job' = Idle
  BY <1>1, IdlePhase DEF FileInv, Connect, ConnectForeign, Initialise, Admitted
<1>2. ASSUME NEW c \in Clients, Commit(c) \/ Backup(c) \/ Close(c) \/ Die(c)
      PROVE  job = Idle /\ job' = Idle
  <2>1. conn[c] # "closed"
    BY <1>2 DEF Commit, Backup, Close, Die
  <2> QED
    BY <1>2, <2>1, ConnectedMeansIdle DEF Commit, Backup, Close, Die
<1>3. Damage => job = Idle /\ job' = Idle
  BY DEF Damage
<1> QED
  BY <1>1, <1>2, <1>3 DEF ClientStep

LEMMA ClientsKeepOrder ==
  ASSUME FileInv, StagedIsKept, ClientStep
  PROVE  \A m \in acked' : m <= marks'
<1>1. marks \in Nat /\ \A m \in acked : m \in Nat /\ m <= marks
  BY DEF FileInv, DatabaseTypeOK, Marks, StagedIsKept
<1>2. ASSUME NEW c \in Clients, Commit(c) PROVE \A m \in acked' : m <= marks'
  BY <1>1, <1>2 DEF Commit, NextMark
<1>3. (acked' = acked /\ marks' = marks) \/ \E c \in Clients : Commit(c)
  BY DEF ClientStep, Connect, ConnectForeign, Initialise, Backup, Close, Die, Damage,
     clientVars
<1> QED
  BY <1>1, <1>2, <1>3

LEMMA StagedStep ==
  ASSUME FileInv, StagedIsKept, [DatabaseNext]_databaseVars
  PROVE  StagedIsKept'
<1>1. CASE ClientStep
  BY <1>1, ClientsWithoutJob, ClientsKeepOrder, ClientsKeepStaged
<1>2. CASE PublishStep
  <2>1. CASE Finish
    <3>1. Staged
      BY <2>1 DEF Finish, Staged, Replacing, Phases
    <3> QED
      BY <2>1, <3>1, EndKeepsStaged DEF Finish
  <2> QED
    BY <1>2, <2>1, StartKeepsStaged, StageRestoreKeepsStaged, PreserveTargetKeepsStaged,
       BackupBeforeMigrateKeepsStaged, StageMigratedKeepsStaged, ReplacementKeepsStaged
       DEF PublishStep
<1>3. CASE BreakStep
  <2>1. CASE \E outcome \in Outcomes : Unwound(outcome)
    BY <2>1, EndKeepsStaged DEF Unwound, clientVars
  <2> QED
    BY <1>3, <2>1, ReplacementKeepsStaged
       DEF BreakStep, BreakBefore, SignalOutside, Remove, FinishUndo, BreakUndo, Kill, Outcomes
<1>4. CASE UNCHANGED databaseVars
  BY <1>4 DEF databaseVars, fileVars, clientVars, StagedIsKept, Staged, Kept
<1> QED
  BY <1>1, <1>2, <1>3, <1>4 DEF DatabaseNext

\* The step ReplacedIsKept is about.
TakenIsKept ==
  Visible \cap acked \subseteq Visible' \/ Kept(Visible \cap acked)

LEMMA ClientsTakeNothing ==
  ASSUME FileInv, ClientStep
  PROVE  Visible \subseteq Visible'
<1>1. ASSUME NEW c \in Clients, Connect(c) \/ Backup(c) \/ Die(c)
      PROVE  Visible \subseteq Visible'
  BY <1>1 DEF Connect, Backup, Die, fileVars, Visible
<1>2. ASSUME NEW c \in Clients, ConnectForeign(c) PROVE Visible \subseteq Visible'
  BY <1>2, ReadKeeps DEF FileInv, ConnectForeign
<1>3. ASSUME NEW c \in Clients, Initialise(c) PROVE Visible \subseteq Visible'
  BY <1>3 DEF Initialise, Visible, Content
<1>4. ASSUME NEW c \in Clients, Commit(c) PROVE Visible \subseteq Visible'
  <2>1. conn[c] = "open" /\ db \in Main /\ ~log.foreign /\ db # NoFile
    BY <1>4, ConnectedMeansIdle, NullAssumption DEF Commit
  <2>2. log' = [log EXCEPT !.rows = @ \cup {NextMark}]
    BY <1>4, <2>1 DEF Commit
  <2>3. ~log'.foreign /\ log.rows \subseteq log'.rows /\ db' = db
    BY <1>4, <2>1, <2>2 DEF Commit, FileInv, DatabaseTypeOK, Log
  <2> QED
    BY <2>1, <2>3 DEF Visible, Content
<1>5. ASSUME NEW c \in Clients, Close(c) PROVE Visible \subseteq Visible'
  <2>1. db # NoFile
    BY <1>5, ConnectedMeansIdle, NullAssumption DEF Close
  <2>2. CASE UNCHANGED <<db, log>>
    BY <2>2 DEF Visible
  <2>3. CASE ReadAndClosed
    BY <2>1, <2>3, ReadKeeps DEF FileInv
  <2> QED
    BY <1>5, <2>2, <2>3 DEF Close
<1>6. CASE Damage
  <2>1. db \in Main /\ db # NoFile
    BY <1>6, FileThere DEF FileInv, Damage
  <2>2. db' \in Main /\ db'.rows = db.rows /\ db' # NoFile /\ log' = log
    BY <1>6, <2>1, NullAssumption DEF Damage, Main
  <2> QED
    BY <2>1, <2>2 DEF Visible, Content
<1> QED
  BY <1>1, <1>2, <1>3, <1>4, <1>5, <1>6 DEF ClientStep

\* What is there between the rename and the undoing is the staged copy.
LEMMA StagedCopyInOneBackup ==
  ASSUME FileInv, StagedIsKept, job.at = "emptied"
  PROVE  Kept(Visible \cap acked)
<1>1. Staged /\ db.rows = job.staged /\ db # NoFile
  BY DEF Staged, Replacing, Phases, StagedIsKept, FileInv, Replaced
<1>2. log = NoLog
  BY DEF FileInv, Replaced
<1>3. Visible \cap acked \subseteq job.staged \ {job.mark}
  BY <1>1, <1>2 DEF Visible, Content, NoLog, StagedIsKept
<1>4. Kept(job.staged \ {job.mark})
  BY <1>1 DEF StagedIsKept
<1> QED
  BY <1>3, <1>4 DEF Kept

LEMMA JobsTakeWhatIsKept ==
  ASSUME FileInv, StagedIsKept, PublishStep \/ BreakStep
  PROVE  TakenIsKept
<1>1. CASE UNCHANGED <<db, log>>
  BY <1>1 DEF TakenIsKept, Visible
<1>2. CASE db # NoFile /\ ReadAndClosed
  BY <1>2, ReadKeeps DEF FileInv, TakenIsKept
<1>3. CASE PreserveTarget
  BY <1>1, <1>2, <1>3 DEF PreserveTarget, fileVars
<1>4. CASE StageMigrated
  BY <1>2, <1>4 DEF StageMigrated, FileInv, Untouched
<1>5. CASE Rename
  <2>1. job.at \in Replacing /\ Visible = job.was /\ job.at # "idle"
    BY <1>5 DEF Rename, FileInv, Untouched, Replacing, Phases
  <2>2. Visible = {} \/ \E f \in files : Holds(f) = Visible
    BY <2>1 DEF FileInv, SafetyFirst
  <2> QED
    BY <2>2 DEF TakenIsKept, Kept
<1>6. CASE ClearSidecars \/ EmptySidecars
  <2>1. db' = db /\ log' = NoLog
    BY <1>6 DEF ClearSidecars, EmptySidecars
  <2>2. log.foreign \/ log.rows = {}
    BY <1>6 DEF StagedIsKept, ClearSidecars, EmptySidecars
  <2>3. Visible \subseteq Visible'
    BY <2>1, <2>2 DEF Visible, Content, NoLog
  <2> QED
    BY <2>3 DEF TakenIsKept
<1>7. CASE Remove \/ SwapBack
  BY <1>7, StagedCopyInOneBackup DEF Remove, SwapBack, TakenIsKept
<1>8. CASE CopySidecars
  <2>1. db' = db /\ log = NoLog /\ ~log'.foreign
    BY <1>8 DEF CopySidecars, FileInv, Replaced
  <2>2. Visible \subseteq Visible'
    BY <2>1 DEF Visible, Content, NoLog
  <2> QED
    BY <2>2 DEF TakenIsKept
<1>9. CASE \E outcome \in {"unchanged", "interrupted"} : BreakBefore(outcome)
  BY <1>1, <1>2, <1>9 DEF BreakBefore
<1> QED
  BY <1>1, <1>3, <1>4, <1>5, <1>6, <1>7, <1>8, <1>9
     DEF PublishStep, BreakStep, Start, StageRestore, BackupBeforeMigrate, Verify, Finish,
         BreakAfter, SignalOutside, BeginUndo, FinishUndo, BreakUndo, Kill, fileVars

\* What a step takes out of the database, of the commits that callers were
\* told of, is in one backup as a whole.
THEOREM ReplacedStateKept == DatabaseSpec => ReplacedIsKept
<1>1. FileInv /\ StagedIsKept /\ [DatabaseNext]_databaseVars => StagedIsKept'
  BY StagedStep
<1>2. FileInv /\ StagedIsKept /\ [DatabaseNext]_databaseVars
        => [LET told == Visible \cap acked IN told \subseteq Visible' \/ Kept(told)]_databaseVars
  BY ClientsTakeNothing, JobsTakeWhatIsKept DEF DatabaseNext, TakenIsKept
<1> QED
  BY <1>1, <1>2, StagedIsKeptAtFirst, FileInvariant, PTL DEF DatabaseSpec, ReplacedIsKept

-----------------------------------------------------------------------------
\* DatabaseFile implements DurableStore.

\* The abstract state is these four.
LEMMA StoreStutter ==
  ASSUME Settled' = Settled, Copies' = Copies, acked' = acked, said' = said
  PROVE  UNCHANGED Store!storeVars
BY DEF Store!storeVars

LEMMA CopiesGrow ==
  ASSUME files \subseteq files'
  PROVE  Copies \subseteq Copies'
BY DEF Copies

LEMMA CopiesWith ==
  ASSUME NEW copy, files' = files \cup {copy}
  PROVE  Copies' = Copies \cup {Holds(copy)}
BY DEF Copies

LEMMA StagedFromAtFirst == DatabaseInit => StagedFrom
BY DEF DatabaseInit, StagedFrom, Staged, Idle, Replacing, Phases

\* The staged copy is made once, and its origin stays.
LEMMA StagedStays ==
  ASSUME StagedFrom, Staged, files \subseteq files',
         job'.staged = job.staged, job'.mark = job.mark, job'.was = job.was
  PROVE  StagedFrom'
<1>1. PICK rows \in Copies \cup {job.was} : job.staged = rows \cup {job.mark}
  BY DEF StagedFrom
<1>2. rows \in Copies' \cup {job'.was}
  BY CopiesGrow
<1> QED
  BY <1>1, <1>2 DEF StagedFrom

LEMMA StagedFromStep ==
  ASSUME FileInv, StagedFrom, [DatabaseNext]_databaseVars
  PROVE  StagedFrom'
<1>1. CASE job' = Idle
  BY <1>1 DEF StagedFrom, Staged, Idle, Replacing, Phases
<1>2. CASE ClientStep
  BY <1>1, <1>2, ClientsWithoutJob
<1>3. ASSUME NEW kind \in {"restore", "migrate"}, Start(kind) PROVE StagedFrom'
  BY <1>3 DEF Start, StagedFrom, Staged, Replacing
<1>4. ASSUME NEW f \in files, StageRestore(f) PROVE StagedFrom'
  <2>1. /\ job'.mark = NextMark /\ job'.staged = Holds(f) \cup {NextMark}
        /\ files' = files
    BY <1>4, JobAlone DEF StageRestore, fileVars, Job
  <2>2. Holds(f) \in Copies'
    BY <2>1 DEF Copies
  <2> QED
    BY <2>1, <2>2 DEF StagedFrom
<1>5. CASE PreserveTarget
  <2>1. /\ job'.staged = job.staged /\ job'.mark = job.mark /\ job'.was = job.was
        /\ files \subseteq files'
    BY <1>5, JobAlone DEF PreserveTarget, fileVars, Job
  <2>2. Staged
    BY <1>5 DEF PreserveTarget, Staged
  <2> QED
    BY <2>1, <2>2, StagedStays
<1>6. CASE BackupBeforeMigrate
  <2>1. job'.at = "half" /\ job'.kind = "migrate"
    BY <1>6, JobAlone DEF BackupBeforeMigrate, Job
  <2> QED
    BY <2>1 DEF StagedFrom, Staged, Replacing
<1>7. CASE StageMigrated
  <2>1. /\ job'.mark = NextMark /\ job'.staged = Visible \cup {NextMark}
        /\ job'.was = job.was
    BY <1>7, JobAlone DEF StageMigrated, Job
  <2>2. Visible = job.was
    BY <1>7 DEF StageMigrated, FileInv, Untouched
  <2> QED
    BY <2>1, <2>2 DEF StagedFrom
<1>8. CASE Rename \/ ClearSidecars \/ Verify \/ BreakAfter \/ BeginUndo \/ EmptySidecars
           \/ SwapBack \/ CopySidecars
  <2>1. job \in Job /\ Staged /\ files' = files
    BY <1>8, JobAlone DEF Rename, ClearSidecars, Verify, BreakAfter, BeginUndo,
       EmptySidecars, SwapBack, CopySidecars, Staged, Replacing, Phases, fileVars
  <2>2. PICK at \in Phases : job' = [job EXCEPT !.at = at]
    BY <1>8 DEF Rename, ClearSidecars, Verify, BreakAfter, BeginUndo, EmptySidecars,
       SwapBack, CopySidecars, Phases
  <2>3. job'.staged = job.staged /\ job'.mark = job.mark /\ job'.was = job.was
    BY <2>1, <2>2 DEF Job
  <2> QED
    BY <2>1, <2>3, StagedStays
<1>9. CASE UNCHANGED databaseVars
  BY <1>9 DEF databaseVars, fileVars, StagedFrom, Staged, Copies
<1>10. CASE Finish \/ \E outcome \in Outcomes : Unwound(outcome)
  BY <1>1, <1>10 DEF Finish, Unwound
<1>11. CASE BreakStep
  BY <1>8, <1>10, <1>11 DEF BreakStep, BreakBefore, SignalOutside, Remove, FinishUndo,
     BreakUndo, Kill, Outcomes
<1> QED
  BY <1>2, <1>3, <1>4, <1>5, <1>6, <1>7, <1>8, <1>9, <1>10, <1>11
     DEF DatabaseNext, PublishStep

\* What a job that goes on does to the backups, if anything, is to add a copy
\* of what its target held.
LEMMA AddsACopy ==
  ASSUME NEW copy, files' = files \cup {copy}, Holds(copy) = Settled,
         Settled' = Settled, acked' = acked, said' = said
  PROVE  Store!StoreNext
BY CopiesWith DEF Store!StoreNext, Store!Copy

\* Between jobs a client's step is the store's, or nothing of it shows.
LEMMA ClientsImplement ==
  ASSUME FileInv, StagedIsKept, ClientStep
  PROVE  [Store!StoreNext]_Store!storeVars
<1>1. job = Idle /\ job' = Idle /\ Settled = Visible /\ Settled' = Visible'
  BY ClientsWithoutJob DEF Settled
<1>2. CASE Damage
  <2>1. db \in Main /\ db # NoFile
    BY <1>2, FileThere DEF FileInv, Damage
  <2>2. db' \in Main /\ db'.rows = db.rows /\ db' # NoFile /\ log' = log
    BY <1>2, <2>1, NullAssumption DEF Damage, Main
  <2>3. Visible' = Visible
    BY <2>1, <2>2 DEF Visible, Content
  <2> QED
    BY <1>1, <1>2, <2>3, StoreStutter DEF Damage, clientVars, Copies
<1>3. ASSUME NEW c \in Clients, Connect(c) \/ Die(c)
      PROVE  [Store!StoreNext]_Store!storeVars
  BY <1>1, <1>3, StoreStutter DEF Connect, Die, fileVars, Copies, Visible
<1>4. ASSUME NEW c \in Clients, ConnectForeign(c)
      PROVE  [Store!StoreNext]_Store!storeVars
  BY <1>1, <1>4, ReadKeeps, StoreStutter DEF FileInv, ConnectForeign, clientVars, Copies
<1>5. ASSUME NEW c \in Clients, Initialise(c)
      PROVE  [Store!StoreNext]_Store!storeVars
  <2>1. log = NoLog /\ log' = NoLog /\ db = NoFile /\ db'.rows = {}
    BY <1>5 DEF FileInv, Exclusive, Initialise
  <2>2. Visible = {} /\ Visible' = {}
    BY <2>1 DEF Visible, Content, NoLog
  <2> QED
    BY <1>1, <1>5, <2>2, StoreStutter DEF Initialise, Copies
<1>6. ASSUME NEW c \in Clients, Commit(c)
      PROVE  [Store!StoreNext]_Store!storeVars
  <2>1. conn[c] = "open" /\ ~log.foreign /\ db # NoFile
    BY <1>6, ConnectedMeansIdle, NullAssumption DEF Commit
  <2>2. log' = [log EXCEPT !.rows = @ \cup {NextMark}] /\ db' = db
    BY <1>6, <2>1 DEF Commit
  <2>3. ~log'.foreign /\ log'.rows = log.rows \cup {NextMark}
    BY <2>1, <2>2 DEF FileInv, DatabaseTypeOK, Log
  <2>4. Visible' = Visible \cup {NextMark}
    BY <2>1, <2>2, <2>3 DEF Visible, Content
  <2>5. NextMark \in Marks /\ NextMark \notin acked
    BY <1>6, BoundAssumption
       DEF FileInv, DatabaseTypeOK, StagedIsKept, Commit, NextMark, Marks
  <2>6. Store!Accept(NextMark)
    BY <1>1, <1>6, <2>4, <2>5 DEF Commit, Store!Accept, Copies
  <2> QED
    BY <2>5, <2>6 DEF Store!StoreNext
<1>7. ASSUME NEW c \in Clients, Backup(c)
      PROVE  [Store!StoreNext]_Store!storeVars
  <2> DEFINE copy == [rows |-> Visible, schema |-> 2, sound |-> TRUE, log |-> {}]
  <2>1. Holds(copy) = Visible
    BY DEF Holds
  <2>2. files' = files \cup {copy} /\ Visible' = Visible /\ acked' = acked /\ said' = said
    BY <1>7 DEF Backup, clientVars, Visible
  <2> QED
    BY <1>1, <2>1, <2>2, AddsACopy
<1>8. ASSUME NEW c \in Clients, Close(c)
      PROVE  [Store!StoreNext]_Store!storeVars
  <2>1. db # NoFile
    BY <1>8, ConnectedMeansIdle, NullAssumption DEF Close
  <2>2. Visible' = Visible
    BY <1>8, <2>1, ReadKeeps DEF FileInv, Close, Visible
  <2> QED
    BY <1>1, <1>8, <2>2, StoreStutter DEF Close, Copies
<1> QED
  BY <1>2, <1>3, <1>4, <1>5, <1>6, <1>7, <1>8 DEF ClientStep

\* A job's steps before its last.
LEMMA JobImplements ==
  ASSUME FileInv, PublishStep \/ BreakStep, job' # Idle
  PROVE  [Store!StoreNext]_Store!storeVars
<1>1. ASSUME NEW kind \in {"restore", "migrate"}, Start(kind)
      PROVE  [Store!StoreNext]_Store!storeVars
  <2>1. job = Idle /\ job'.was = Visible
    BY <1>1 DEF Start
  <2>2. Settled' = Settled
    BY <2>1 DEF Settled
  <2> QED
    BY <1>1, <2>2, StoreStutter DEF Start, fileVars, clientVars, Copies
<1>2. ASSUME job # Idle, job'.was = job.was PROVE Settled' = Settled
  BY <1>2 DEF Settled
<1>3. ASSUME NEW f \in files, StageRestore(f)
      PROVE  [Store!StoreNext]_Store!storeVars
  <2>1. job # Idle /\ job'.was = job.was
    BY <1>3, JobAlone DEF StageRestore, Job
  <2> QED
    BY <1>2, <1>3, <2>1, StoreStutter DEF StageRestore, fileVars, clientVars, Copies
<1>4. CASE PreserveTarget
  <2>1. job # Idle /\ job'.was = job.was /\ acked' = acked /\ said' = said
    BY <1>4, JobAlone DEF PreserveTarget, clientVars, Job
  <2>2. CASE db = NoFile
    BY <1>2, <1>4, <2>1, <2>2, StoreStutter DEF PreserveTarget, fileVars, Copies
  <2>3. CASE db # NoFile
    <3>1. files' = files \cup {Preserved(db', log')} /\ ReadAndClosed
      BY <1>4, <2>3 DEF PreserveTarget
    <3>2. /\ db' \in Main /\ log' \in Log /\ ~log'.foreign
          /\ Visible' = Visible
      BY <2>3, <3>1, ReadKeeps DEF FileInv
    <3>3. Holds(Preserved(db', log')) = Visible
      BY <3>2, PreservedHolds DEF Visible
    <3>4. Settled = Visible
      BY <1>4, <2>1 DEF Settled, FileInv, Untouched, PreserveTarget
    <3> QED
      BY <1>2, <2>1, <3>1, <3>3, <3>4, AddsACopy
  <2> QED
    BY <2>2, <2>3
<1>5. CASE BackupBeforeMigrate
  <2> DEFINE copy == [rows |-> Visible, schema |-> 1, sound |-> TRUE, log |-> {}]
  <2>1. job # Idle /\ job'.was = job.was /\ acked' = acked /\ said' = said
    BY <1>5, JobAlone DEF BackupBeforeMigrate, clientVars, Job
  <2>2. files' = files \cup {copy} /\ Holds(copy) = Visible
    BY <1>5 DEF BackupBeforeMigrate, Holds
  <2>3. Settled = Visible
    BY <1>5, <2>1 DEF Settled, FileInv, Untouched, BackupBeforeMigrate
  <2> QED
    BY <1>2, <2>1, <2>2, <2>3, AddsACopy
<1>6. CASE StageMigrated
  <2>1. job # Idle /\ job'.was = job.was
    BY <1>6, JobAlone DEF StageMigrated, Job
  <2> QED
    BY <1>2, <1>6, <2>1, StoreStutter DEF StageMigrated, clientVars, Copies
<1>7. CASE Rename \/ ClearSidecars \/ Verify \/ BreakAfter \/ BeginUndo \/ EmptySidecars
           \/ SwapBack \/ CopySidecars
  <2>1. job \in Job /\ job # Idle
    BY <1>7, JobAlone DEF Rename, ClearSidecars, Verify, BreakAfter, BeginUndo,
       EmptySidecars, SwapBack, CopySidecars
  <2>2. PICK at \in Phases : job' = [job EXCEPT !.at = at]
    BY <1>7 DEF Rename, ClearSidecars, Verify, BreakAfter, BeginUndo, EmptySidecars,
       SwapBack, CopySidecars, Phases
  <2>3. job'.was = job.was
    BY <2>1, <2>2 DEF Job
  <2>4. files' = files /\ acked' = acked /\ said' = said
    BY <1>7 DEF Rename, ClearSidecars, Verify, BreakAfter, BeginUndo, EmptySidecars,
       SwapBack, CopySidecars, fileVars, clientVars
  <2> QED
    BY <1>2, <2>1, <2>3, <2>4, StoreStutter DEF Copies
<1>8. ~Finish /\ \A outcome : ~Unwound(outcome)
  BY DEF Finish, Unwound
<1> QED
  BY <1>1, <1>3, <1>4, <1>5, <1>6, <1>7, <1>8
     DEF PublishStep, BreakStep, BreakBefore, SignalOutside, Remove, FinishUndo, BreakUndo,
         Kill

\* Wherever a job stops, its target is what it was, or that is in one backup
\* and the target is part of it or the whole new content.
LEMMA WhatIsThere ==
  ASSUME FileInv, StagedIsKept, StagedFrom, job.at # "idle"
  PROVE  \/ Visible = job.was
         \/ /\ Store!Covered
            /\ \/ Visible \subseteq job.was
               \/ \E m \in Marks \ acked : Visible \in Store!Successors(m)
<1>1. job \in Job /\ job # Idle /\ Settled = job.was
  BY JobAlone DEF Settled
<1>2. CASE job.at \in {"locked", "half", "ready"}
  BY <1>2 DEF FileInv, Untouched
<1>3. CASE job.at \in Replacing \ {"ready"}
  <2>1. Store!Covered
    <3>1. job.was = {} \/ \E f \in files : Holds(f) = job.was
      BY <1>3 DEF FileInv, SafetyFirst
    <3> QED
      BY <1>1, <3>1 DEF Store!Covered, Copies
  <2>2. Staged /\ job.mark \in Marks \ acked
    BY <1>1, <1>3 DEF Staged, StagedIsKept, Job
  <2>3. job.staged \in Store!Successors(job.mark)
    BY <1>1, <2>2 DEF StagedFrom, Store!Successors
  <2>4. CASE job.at \in {"renamed", "cleared", "verified", "failing", "undoing", "emptied"}
    <3>1. db # NoFile /\ db.rows = job.staged
      BY <2>4 DEF FileInv, Replaced, StagedIsKept
    <3>2. log.foreign \/ log.rows = {}
      BY <2>4 DEF FileInv, Replaced, StagedIsKept, NoLog
    <3>3. Visible = {} \/ Visible = job.staged
      BY <3>1, <3>2 DEF Visible, Content
    <3> QED
      BY <2>1, <2>2, <2>3, <3>3
  <2>5. CASE job.at \in {"swapped", "copied"}
    <3>1. db # NoFile /\ db.rows = job.safety.rows /\ Holds(job.safety) = job.was
      BY <2>5 DEF FileInv, Replaced, SafetyFirst
    <3>2. ~log.foreign /\ log.rows \subseteq job.safety.log
      BY <2>5 DEF FileInv, Replaced, NoLog
    <3>3. Visible \subseteq job.was
      BY <3>1, <3>2 DEF Visible, Content, Holds
    <3> QED
      BY <2>1, <3>3
  <2> QED
    BY <1>3, <2>4, <2>5 DEF Replacing, Phases
<1> QED
  BY <1>1, <1>2, <1>3 DEF Replacing, Job, Phases

\* The last step of a job is one step of the store.
LEMMA EndImplements ==
  ASSUME FileInv, StagedIsKept, StagedFrom, [DatabaseNext]_databaseVars,
         job # Idle, job' = Idle
  PROVE  Store!StoreNext
<1>1. job.at # "idle" /\ Settled = job.was /\ Settled' = Visible'
  BY IdlePhase DEF FileInv, Settled
<1>2. CASE Finish
  <2>1. job.at = "verified" /\ db' = db /\ log' = log /\ files' = files
    BY <1>2 DEF Finish, fileVars
  <2>2. Staged /\ job.at \in Replacing /\ job \in Job
    BY <1>1, <2>1, JobAlone DEF Staged, Replacing, Phases
  <2>3. Visible' = job.staged
    BY <2>1 DEF FileInv, Replaced, Visible, Content, NoLog
  <2>4. job.staged \in Store!Successors(job.mark) /\ job.mark \in Marks \ acked
    BY <1>1, <2>2 DEF StagedFrom, StagedIsKept, Store!Successors, Job
  <2>5. Store!Covered
    <3>1. job.was = {} \/ \E f \in files : Holds(f) = job.was
      BY <2>2, <1>1 DEF FileInv, SafetyFirst
    <3> QED
      BY <1>1, <3>1 DEF Store!Covered, Copies
  <2>6. Store!Replace(job.mark)
    BY <1>1, <1>2, <2>1, <2>3, <2>4, <2>5 DEF Finish, Store!Replace, Copies
  <2> QED
    BY <2>4, <2>6 DEF Store!StoreNext
<1>3. CASE BreakBefore("unchanged") \/ Remove \/ FinishUndo
  <2>1. Visible' = job.was
    BY <1>3, BreakBeforeKeepsInv, RemoveKeepsInv, FinishUndoKeepsInv
  <2>2. said' \in {"unchanged", "rolled back"} /\ files' = files /\ acked' = acked
    BY <1>3 DEF BreakBefore, Remove, FinishUndo, Unwound, clientVars
  <2>3. Store!Decline
    BY <1>1, <2>1, <2>2 DEF Store!Decline, Copies
  <2> QED
    BY <2>3 DEF Store!StoreNext
<1>4. CASE BreakBefore("interrupted")
  <2>1. Visible' = job.was
    BY <1>4, BreakBeforeKeepsInv
  <2>2. said' = "interrupted" /\ files' = files /\ acked' = acked
    BY <1>4 DEF BreakBefore, Unwound, clientVars
  <2>3. Store!CutShort
    BY <1>1, <2>1, <2>2 DEF Store!CutShort, Copies
  <2> QED
    BY <2>3 DEF Store!StoreNext
<1>5. CASE SignalOutside \/ BreakUndo \/ Kill
  <2>1. Visible' = Visible
    BY <1>5 DEF SignalOutside, BreakUndo, Kill, Visible
  <2>2. /\ said' \in {"interrupted", "rollback failed", "killed"}
        /\ files' = files /\ acked' = acked
    BY <1>5 DEF SignalOutside, BreakUndo, Kill, Unwound, clientVars
  <2>3. Store!CutShort
    BY <1>1, <2>1, <2>2, WhatIsThere DEF Store!CutShort, Copies
  <2> QED
    BY <2>3 DEF Store!StoreNext
<1> QED
  BY <1>2, <1>3, <1>4, <1>5, Endings

\* Whatever a restore or a migration does on the file system, and wherever it
\* stops, the database is the abstract store: replaced as a whole, in one
\* step, by one of its backups or by itself, or told to be as it was and so;
\* only a job cut short leaves less, and a backup has what it took.
THEOREM ImplementsStore == DatabaseSpec => ImplementsDurableStore
<1>1. DatabaseInit => Store!StoreInit
  <2> SUFFICES ASSUME DatabaseInit PROVE Store!StoreInit
    OBVIOUS
  <2>1. DatabaseTypeOK /\ job = Idle /\ log = NoLog /\ ~log.foreign /\ log.rows = {}
    BY DatabaseInitInv DEF FileInv, DatabaseInit, NoLog
  <2>2. Settled = Visible
    BY <2>1 DEF Settled
  <2>3. Visible = acked
    <3>1. CASE db = NoFile /\ acked = {}
      BY <3>1 DEF Visible, Content
    <3>2. CASE db \in [rows : {{0}}, schema : {1, 2}, sound : {TRUE}] /\ acked = {0}
      <4>1. 0 \in Marks
        BY BoundAssumption DEF Marks
      <4>2. db \in Main
        BY <3>2, <4>1 DEF Main
      <4>3. db # NoFile /\ db.rows = {0}
        BY <3>2, <4>2, NullAssumption
      <4> QED
        BY <2>1, <3>2, <4>3 DEF Visible, Content
    <3> QED
      BY <3>1, <3>2 DEF DatabaseInit
  <2>4. Copies \subseteq SUBSET Marks
    BY <2>1 DEF Copies, Holds, DatabaseTypeOK, Copy
  <2> QED
    BY <2>1, <2>2, <2>3, <2>4 DEF Store!StoreInit, DatabaseTypeOK, DatabaseInit
<1>2. FileInv /\ StagedIsKept /\ [DatabaseNext]_databaseVars => StagedIsKept'
  BY StagedStep
<1>3. FileInv /\ StagedFrom /\ [DatabaseNext]_databaseVars => StagedFrom'
  BY StagedFromStep
<1>4. FileInv /\ StagedIsKept /\ StagedFrom /\ [DatabaseNext]_databaseVars
        => [Store!StoreNext]_Store!storeVars
  <2> SUFFICES ASSUME FileInv, StagedIsKept, StagedFrom, [DatabaseNext]_databaseVars
               PROVE  [Store!StoreNext]_Store!storeVars
    OBVIOUS
  <2>1. CASE UNCHANGED databaseVars
    BY <2>1, StoreStutter DEF databaseVars, fileVars, clientVars, Settled, Copies, Visible
  <2>2. CASE ClientStep
    BY <2>2, ClientsImplement
  <2>3. CASE (PublishStep \/ BreakStep) /\ job' # Idle
    BY <2>3, JobImplements
  <2>4. CASE (PublishStep \/ BreakStep) /\ job' = Idle
    <3>1. \A kind \in {"restore", "migrate"} : ~Start(kind)
      BY <2>4 DEF Start, Idle
    <3>2. job.at # "idle" \/ Kill
      <4>1. \A f \in files : StageRestore(f) => job.at # "idle"
        BY DEF StageRestore
      <4>2. PreserveTarget \/ BackupBeforeMigrate \/ StageMigrated => job.at # "idle"
        BY DEF PreserveTarget, BackupBeforeMigrate, StageMigrated
      <4>3. Rename \/ ClearSidecars \/ Verify \/ Finish => job.at # "idle"
        BY DEF Rename, ClearSidecars, Verify, Finish
      <4>4. BreakStep => job.at # "idle" \/ Kill
        BY DEF BreakStep, BreakBefore, BreakAfter, SignalOutside, BeginUndo, EmptySidecars,
           Remove, SwapBack, CopySidecars, FinishUndo, BreakUndo
      <4> QED
        BY <2>4, <3>1, <4>1, <4>2, <4>3, <4>4 DEF PublishStep
    <3>3. job # Idle
      BY <3>2 DEF Idle, Kill
    <3> QED
      BY <2>4, <3>3, EndImplements
  <2> QED
    BY <2>1, <2>2, <2>3, <2>4 DEF DatabaseNext
<1> QED
  BY <1>1, <1>2, <1>3, <1>4, StagedIsKeptAtFirst, StagedFromAtFirst, FileInvariant, PTL
     DEF DatabaseSpec, ImplementsDurableStore, Store!StoreSpec

\* What the abstract store comes to, whoever implements it: a commit somebody
\* was told of is in the content or in a copy.
THEOREM StoreIsDurable == Store!StoreSpec => []Store!ToldIsThere
<1>1. Store!StoreInit => Store!ToldIsThere
  BY DEF Store!StoreInit, Store!ToldIsThere
<1>2. Store!ToldIsThere /\ [Store!StoreNext]_Store!storeVars => Store!ToldIsThere'
  <2> SUFFICES ASSUME Store!ToldIsThere, [Store!StoreNext]_Store!storeVars
               PROVE  Store!ToldIsThere'
    OBVIOUS
  <2>1. ASSUME Store!Covered, acked' = acked, Copies' = Copies PROVE Store!ToldIsThere'
    BY <2>1 DEF Store!Covered, Store!ToldIsThere
  <2>2. CASE UNCHANGED Store!storeVars
    BY <2>2 DEF Store!storeVars, Store!ToldIsThere
  <2>3. ASSUME NEW m \in Marks, Store!Accept(m) PROVE Store!ToldIsThere'
    BY <2>3 DEF Store!Accept, Store!ToldIsThere
  <2>4. ASSUME NEW m \in Marks, Store!Replace(m) PROVE Store!ToldIsThere'
    BY <2>4 DEF Store!Replace, Store!Successors, Store!Covered, Store!ToldIsThere
  <2>5. CASE Store!Copy
    BY <2>5 DEF Store!Copy, Store!ToldIsThere
  <2>6. CASE Store!Decline
    BY <2>6 DEF Store!Decline, Store!ToldIsThere
  <2>7. CASE Store!CutShort
    BY <2>1, <2>7 DEF Store!CutShort, Store!ToldIsThere
  <2> QED
    BY <2>2, <2>3, <2>4, <2>5, <2>6, <2>7 DEF Store!StoreNext
<1> QED
  BY <1>1, <1>2, PTL DEF Store!StoreSpec

=============================================================================

------------------------------ MODULE MCArchive ------------------------------
(***************************************************************************)
(* TLC instances of Archive.                                               *)
(***************************************************************************)
EXTENDS Archive, TLC, SequencesExt

\* Agents with a cursor from the start, and messages, are interchangeable
\* among themselves.
ArchiveSymmetry ==
  Permutations(Veterans) \cup Permutations(Agents \ Veterans) \cup Permutations(Messages)

\* A later start: the tasks have been created, one after the other, and the
\* second depends on the first.
ReadyInit ==
  LET order == SetToSeq(Tasks)
      first == IF Len(order) > 1 THEN {<<order[2], order[1]>>} ELSE {}
  IN
  /\ agentStatus = [a \in Agents |-> IF a \in Veterans THEN "active" ELSE "absent"]
  /\ head = Len(order) + Cardinality(first)
  /\ mail = {} /\ sends = {}
  /\ cursor = [a \in Agents |-> 0]
  /\ joined = [a \in Agents |-> 0]
  /\ heard = [a \in Agents |-> {}]
  /\ covered = [a \in Agents |-> {}]
  /\ skipped = [a \in Agents |-> {}]
  /\ tasks = {[id |-> order[n], born |-> n, done |-> FALSE, edition |-> 0] : n \in DOMAIN order}
  /\ deps = first /\ files = {} /\ run = Idle

ReadyArchiveSpec == ReadyInit /\ [][ArchiveNext]_archiveVars
=============================================================================

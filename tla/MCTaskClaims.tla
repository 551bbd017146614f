---------------------------- MODULE MCTaskClaims ----------------------------
(***************************************************************************)
(* TLC instances of TaskClaims.                                            *)
(***************************************************************************)
EXTENDS TaskClaims, TLC

\* Agents, sessions and tasks are only compared for equality.
Symmetry == Permutations(Agents) \cup Permutations(Sessions) \cup Permutations(Tasks)

\* A later start, reached from Init by agent add, session start, task create
\* and evidence add: every session is running and every task waits, so that a
\* larger instance spends its states on claims.
ReadyInit ==
  /\ agentStatus = [a \in Agents |-> "active"]
  /\ owner \in [Sessions -> Agents]
  /\ sessionStatus = [s \in Sessions |-> "active"]
  /\ silence = [s \in Sessions |-> 0]
  /\ status = [t \in Tasks |-> "todo"]
  /\ revision = [t \in Tasks |-> 1]
  /\ assignees = [t \in Tasks |-> {}]
  /\ evidenced = Tasks
  /\ claims = {}
  /\ \E a \in Agents : newest = Row(a, NoSession)

ReadySpec == ReadyInit /\ [][Next]_vars
=============================================================================

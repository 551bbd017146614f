------------------------- MODULE TaskClaims_proofs --------------------------
(***************************************************************************)
(* Theorems of TaskClaims, for any agents, sessions and tasks, any lease   *)
(* and any bounds, and that it implements FencedLease.                     *)
(***************************************************************************)
EXTENDS TaskClaims, TLAPS

\* A session just seen leaves every silence in range.
LEMMA SeenType ==
  ASSUME TypeOK, NEW s
  PROVE  Seen(s) \in [Sessions -> 0 .. MaxSilence]
  BY TimeAssumption DEF TypeOK, Seen

\* With room for it, the next revision is in range.
LEMMA BumpedType ==
  ASSUME TypeOK, NEW T \in SUBSET Tasks, Room(T, 1)
  PROVE  Bumped(T) \in [Tasks -> 0 .. MaxRevision]
  BY BoundAssumption DEF TypeOK, Bumped, Room

\* The tasks claimed by the sessions of D are tasks.
LEMMA ClaimedByType ==
  ASSUME NEW D
  PROVE  ClaimedBy(D) \in SUBSET Tasks
  BY DEF ClaimedBy

\* An audit row is well formed.
LEMMA AuditedType ==
  ASSUME TypeOK, NEW a \in Agents \cup {NoAgent}, NEW s \in MaybeSession, Audited(a, s)
  PROVE  /\ silence' \in [Sessions -> 0 .. MaxSilence]
         /\ newest' \in [actor : Agents \cup {NoAgent}, session : MaybeSession]
  BY SeenType DEF Audited, Row

\* What reaping leaves of the sessions is well formed.
LEMMA ReapType ==
  ASSUME TypeOK, NEW D, NEW a \in Agents, NEW s \in MaybeSession, Reap(D, a, s)
  PROVE  /\ agentStatus' \in [Agents -> {"absent", "active", "inactive"}]
         /\ owner' \in [Sessions -> Agents \cup {NoAgent}]
         /\ sessionStatus' \in [Sessions -> {"absent", "active", "ended"}]
         /\ silence' \in [Sessions -> 0 .. MaxSilence]
         /\ newest' \in [actor : Agents \cup {NoAgent}, session : MaybeSession]
<1>1. silence' \in [Sessions -> 0 .. MaxSilence]
  BY SeenType, TimeAssumption DEF Reap
<1>2. newest' \in [actor : Agents \cup {NoAgent}, session : MaybeSession]
  BY DEF Reap, Row
<1>3. QED
  BY <1>1, <1>2 DEF Reap, TypeOK

\* Blocking the tasks of the sessions of D leaves the tasks well formed.
LEMMA BlockClaimedType ==
  ASSUME TypeOK, NEW D, BlockClaimed(D)
  PROVE  /\ status' \in [Tasks -> Statuses \cup {"absent"}]
         /\ revision' \in [Tasks -> 0 .. MaxRevision]
         /\ assignees' \in [Tasks -> SUBSET Agents]
         /\ evidenced' \subseteq Tasks
         /\ claims' \subseteq ClaimRow
<1>1. revision' \in [Tasks -> 0 .. MaxRevision]
  BY BumpedType, ClaimedByType DEF BlockClaimed
<1>2. QED
  BY <1>1 DEF BlockClaimed, TypeOK, Statuses

\* Every step keeps the types.
LEMMA TypeKept ==
  ASSUME TypeOK, [Next]_vars
  PROVE  TypeOK'
<1> USE DEF TypeOK
<1>1. ASSUME NEW a \in Agents, NEW by \in Agents, NEW s \in MaybeSession, AddAgent(a, by, s)
      PROVE  TypeOK'
  BY <1>1, AuditedType DEF AddAgent, taskVars
<1>2. ASSUME NEW a \in Agents, NEW new \in {"active", "inactive"}, NEW by \in Agents,
             NEW s \in MaybeSession, UpdateAgent(a, new, by, s)
      PROVE  TypeOK'
  BY <1>2, AuditedType DEF UpdateAgent, taskVars
<1>3. ASSUME NEW a \in Agents, NEW s \in Sessions, StartSession(a, s)
      PROVE  TypeOK'
  BY <1>3, AuditedType DEF StartSession, taskVars, MaybeSession
<1>4. ASSUME NEW s \in Sessions, Heartbeat(s)
      PROVE  TypeOK'
  BY <1>4, AuditedType DEF Heartbeat, taskVars, agentVars, MaybeSession
<1>5. ASSUME NEW s \in Sessions, EndSession(s)
      PROVE  TypeOK'
  BY <1>5, AuditedType DEF EndSession, taskVars, MaybeSession
<1>6. ASSUME NEW a \in Agents, NEW s \in MaybeSession, NEW x \in Sessions,
             NEW forced \in BOOLEAN, NEW n \in StaleThresholds, Recover(a, s, x, forced, n)
      PROVE  TypeOK'
  BY <1>6, ReapType, BlockClaimedType DEF Recover
<1>7. ASSUME NEW a \in Agents, NEW s \in MaybeSession, NEW n \in StaleThresholds,
             NEW limit \in SweepLimits, Sweep(a, s, n, limit)
      PROVE  TypeOK'
  <2>1. PICK D \in SUBSET Candidates(s, n) : Reap(D, a, s) /\ BlockClaimed(D)
    BY <1>7 DEF Sweep
  <2>2. QED
    BY <2>1, ReapType, BlockClaimedType
<1>8. ASSUME NEW a \in Agents, NEW s \in MaybeSession, NEW t \in Tasks,
             NEW who \in SUBSET Agents, CreateTask(a, s, t, who)
      PROVE  TypeOK'
  BY <1>8, AuditedType, BoundAssumption DEF CreateTask, agentVars, Room, Statuses
<1>9. ASSUME NEW a \in Agents, NEW s \in MaybeSession, NEW t \in Tasks, NEW r \in Revisions,
             UpdateTask(a, s, t, r)
      PROVE  TypeOK'
  BY <1>9, AuditedType, BumpedType DEF UpdateTask, agentVars
<1>10. ASSUME NEW a \in Agents, NEW s \in MaybeSession, NEW t \in Tasks, NEW r \in Revisions,
              NEW add \in SUBSET Agents, NEW remove \in SUBSET Agents,
              AssignTask(a, s, t, r, add, remove)
       PROVE  TypeOK'
  BY <1>10, AuditedType, BumpedType DEF AssignTask, agentVars
<1>11. ASSUME NEW a \in Agents, NEW s \in MaybeSession, NEW t \in Tasks, AddEvidence(a, s, t)
       PROVE  TypeOK'
  BY <1>11, AuditedType DEF AddEvidence, agentVars
<1>12. ASSUME NEW a \in Agents, NEW s \in MaybeSession, NEW t \in Tasks, NEW r \in Revisions,
              NEW new \in Statuses, SetStatus(a, s, t, r, new)
       PROVE  TypeOK'
  BY <1>12, AuditedType, BumpedType DEF SetStatus, agentVars
<1>13. ASSUME NEW a \in Agents, NEW s \in Sessions, NEW t \in Tasks, NEW r \in Revisions,
              ClaimFree(a, s, t, r)
       PROVE  TypeOK'
  <2>1. claims' \subseteq ClaimRow
    BY <1>13 DEF ClaimFree, ClaimRow, NewClaim
  <2>2. QED
    BY <1>13, <2>1, AuditedType, BumpedType
       DEF ClaimFree, agentVars, MaybeSession, Statuses
<1>14. ASSUME NEW a \in Agents, NEW s \in Sessions, NEW t \in Tasks, NEW r \in Revisions,
              ClaimExpired(a, s, t, r)
       PROVE  TypeOK'
  <2>1. PICK x \in Sessions :
          /\ Room(ClaimedBy({x}), 1) /\ Room({t}, 2)
          /\ Reap({x}, a, s)
          /\ status' = [u \in Tasks |->
               IF u \in ClaimedBy({x}) \ {t} THEN "blocked" ELSE status[u]]
          /\ revision' = [Bumped(ClaimedBy({x})) EXCEPT ![t] = @ + 1]
          /\ claims' = {c \in claims : c.session # x} \cup {NewClaim(a, s, t)}
    BY <1>14 DEF ClaimExpired
  <2>2. claims' \subseteq ClaimRow
    BY <2>1 DEF ClaimRow, NewClaim
  <2>3. revision' \in [Tasks -> 0 .. MaxRevision]
    <3>1. Bumped(ClaimedBy({x})) \in [Tasks -> 0 .. MaxRevision]
      BY <2>1, BumpedType, ClaimedByType
    <3>2. Bumped(ClaimedBy({x}))[t] + 1 \in 0 .. MaxRevision
      BY <2>1, <3>1, BoundAssumption DEF Bumped, Room
    <3>3. QED
      BY <2>1, <3>1, <3>2
  <2>4. status' \in [Tasks -> Statuses \cup {"absent"}]
    BY <2>1 DEF Statuses
  <2>5. assignees' \in [Tasks -> SUBSET Agents] /\ evidenced' = evidenced
    BY <1>14 DEF ClaimExpired
  <2>6. s \in MaybeSession
    BY DEF MaybeSession
  <2>7. /\ agentStatus' \in [Agents -> {"absent", "active", "inactive"}]
        /\ owner' \in [Sessions -> Agents \cup {NoAgent}]
        /\ sessionStatus' \in [Sessions -> {"absent", "active", "ended"}]
        /\ silence' \in [Sessions -> 0 .. MaxSilence]
        /\ newest' \in [actor : Agents \cup {NoAgent}, session : MaybeSession]
    BY <2>1, <2>6, ReapType
  <2>8. QED
    BY <2>2, <2>3, <2>4, <2>5, <2>7
<1>15. CASE Tick
  BY <1>15, TimeAssumption DEF Tick, agentVars, taskVars
<1>16. CASE UNCHANGED vars
  BY <1>16 DEF vars, agentVars, taskVars
<1>17. QED
  <2>1. CASE AgentStep
    BY <2>1, <1>1, <1>2 DEF AgentStep
  <2>2. CASE SessionStep
    BY <2>2, <1>3, <1>4, <1>5 DEF SessionStep
  <2>3. CASE ReapStep
    BY <2>3, <1>6, <1>7 DEF ReapStep
  <2>4. CASE TaskStep
    BY <2>4, <1>8, <1>9, <1>10, <1>11, <1>12 DEF TaskStep
  <2>5. CASE ClaimStep
    BY <2>5, <1>13, <1>14 DEF ClaimStep, ClaimTask
  <2>6. QED
    BY <2>1, <2>2, <2>3, <2>4, <2>5, <1>15, <1>16 DEF Next

\* Every variable keeps its type: the columns hold the values the schema
\* allows, and no revision leaves its range.
THEOREM TypeCorrect == Spec => []TypeOK
<1>1. Init => TypeOK
  BY TimeAssumption, BoundAssumption DEF Init, TypeOK, MaybeSession
<1>2. TypeOK /\ [Next]_vars => TypeOK'
  BY TypeKept
<1>3. QED
  BY <1>1, <1>2, PTL DEF Spec

-----------------------------------------------------------------------------
\* The steps' effect on the invariant, one lemma for what several share.

\* A claim row's fields are of the sets they are drawn from.
LEMMA ClaimFields ==
  ASSUME TypeOK, NEW c \in claims
  PROVE  c.task \in Tasks /\ c.agent \in Agents /\ c.session \in Sessions
  BY DEF TypeOK, ClaimRow

\* An audit row written for an accountable actor keeps the log's two parts of
\* the invariant, as long as no session is taken away or changes its owner.
LEMMA AuditRowKept ==
  ASSUME NullAssumption, NEW a, NEW s \in MaybeSession,
         s # NoSession => owner'[s] = a /\ sessionStatus'[s] # "absent",
         newest' = Row(a, s)
  PROVE  AuditNamesOwnSession' /\ AuditNamesStartedSession'
  BY DEF AuditNamesOwnSession, AuditNamesStartedSession, Row

\* The same for a mutation that only reads the sessions.
LEMMA AccountableRowKept ==
  ASSUME NullAssumption, NEW a, NEW s \in MaybeSession,
         Accountable(a, s), Audited(a, s), UNCHANGED agentVars
  PROVE  AuditNamesOwnSession' /\ AuditNamesStartedSession'
  BY AuditRowKept DEF Accountable, Audited, ActiveSession, ActiveSessions, agentVars

\* What reaping the sessions of D keeps of the invariant, whatever becomes of
\* the tasks they claimed.
LEMMA ReapKept ==
  ASSUME ClaimInv, NEW D \in SUBSET Sessions, NEW a \in Agents, NEW s \in MaybeSession,
         Reap(D, a, s)
  PROVE  /\ \A x \in Sessions : sessionStatus'[x] = (IF x \in D THEN "ended" ELSE sessionStatus[x])
         /\ ActiveSessionsHaveActiveAgents'
         /\ AuditNamesOwnSession'
         /\ AuditNamesStartedSession'
<1>1. \A x \in Sessions : sessionStatus'[x] = (IF x \in D THEN "ended" ELSE sessionStatus[x])
  BY DEF Reap
<1>2. ActiveSessionsHaveActiveAgents'
  BY <1>1 DEF Reap, ClaimInv, CoordinationInvariants, ActiveSessionsHaveActiveAgents,
              ActiveSessions, ActiveActor
<1>3. s # NoSession => owner'[s] = a /\ sessionStatus'[s] # "absent"
  BY <1>1 DEF Reap, Accountable, ActiveSession, ActiveSessions
<1>4. QED
  BY <1>1, <1>2, <1>3, AuditRowKept, NullAssumption DEF Reap

\* Reaping the sessions of D and blocking what they claimed keeps everything.
LEMMA RecoveryKept ==
  ASSUME ClaimInv, NEW D \in SUBSET Sessions, NEW a \in Agents, NEW s \in MaybeSession,
         Reap(D, a, s), BlockClaimed(D)
  PROVE  /\ CoordinationInvariants'
         /\ OneClaimPerTask'
         /\ ClaimantIsAssigned'
         /\ AuditNamesOwnSession'
         /\ AuditNamesStartedSession'
<1> USE DEF ClaimInv, CoordinationInvariants
<1>1. TypeOK
  OBVIOUS
<1>2. \A c \in claims : c \in claims' <=> c.session \notin D
  BY DEF BlockClaimed
<1>3. claims' \subseteq claims
  BY DEF BlockClaimed
<1>4. \A t \in Tasks : status'[t] = (IF t \in ClaimedBy(D) THEN "blocked" ELSE status[t])
  BY DEF BlockClaimed
<1>5. ClaimsAreLive'
  <2>1. ASSUME NEW c \in claims'
        PROVE  /\ status'[c.task] = "in_progress"
               /\ sessionStatus'[c.session] = "active"
               /\ owner'[c.session] = c.agent
               /\ agentStatus'[c.agent] = "active"
    <3>1. c \in claims /\ c.session \notin D
      BY <1>2, <1>3
    <3>2. c.task \in Tasks /\ c.session \in Sessions
      BY <3>1, ClaimFields
    <3>3. c.task \notin ClaimedBy(D)
      BY <3>1, <3>2 DEF OneClaimPerTask, ClaimedBy, ClaimsOn
    <3>4. QED
      BY <3>1, <3>2, <3>3, <1>4, ReapKept DEF ClaimsAreLive, Reap
  <2>2. QED
    BY <2>1 DEF ClaimsAreLive
<1>6. WorkIsClaimed'
  <2>1. ASSUME NEW t \in Tasks, status'[t] = "in_progress"
        PROVE  ClaimsOn(t)' # {}
    <3>1. status[t] = "in_progress" /\ t \notin ClaimedBy(D)
      BY <2>1, <1>4
    <3>2. PICK c \in claims : c.task = t
      BY <3>1 DEF WorkIsClaimed, ClaimsOn
    <3>3. c.session \notin D
      BY <3>1, <3>2 DEF ClaimedBy, ClaimsOn
    <3>4. QED
      BY <3>2, <3>3, <1>2 DEF ClaimsOn
  <2>2. QED
    BY <2>1 DEF WorkIsClaimed
<1>7. DoneHasEvidence'
  BY <1>4 DEF DoneHasEvidence, BlockClaimed
<1>8. OneClaimPerTask' /\ ClaimantIsAssigned'
  BY <1>3 DEF OneClaimPerTask, ClaimantIsAssigned, BlockClaimed
<1>9. QED
  BY <1>5, <1>6, <1>7, <1>8, ReapKept

\* An operation that leaves the claims, their tasks' states and every session
\* alone keeps what the invariant says of them.
LEMMA ClaimsLeftAlone ==
  ASSUME ClaimInv, UNCHANGED <<agentVars, status, claims>>,
         evidenced \subseteq evidenced',
         \A c \in claims : c.agent \in assignees'[c.task]
  PROVE  CoordinationInvariants' /\ OneClaimPerTask' /\ ClaimantIsAssigned'
<1> USE DEF ClaimInv, CoordinationInvariants, agentVars
<1>1. ClaimsAreLive' /\ OneClaimPerTask' /\ ClaimantIsAssigned'
  BY DEF ClaimsAreLive, OneClaimPerTask, ClaimantIsAssigned
<1>2. WorkIsClaimed'
  BY DEF WorkIsClaimed, ClaimsOn
<1>3. DoneHasEvidence'
  BY DEF DoneHasEvidence
<1>4. ActiveSessionsHaveActiveAgents'
  BY DEF ActiveSessionsHaveActiveAgents, ActiveSessions, ActiveActor
<1>5. QED
  BY <1>1, <1>2, <1>3, <1>4

\* Every step keeps the inductive invariant.
LEMMA InvariantKept ==
  ASSUME ClaimInv, TypeOK', [Next]_vars
  PROVE  ClaimInv'
<1> USE NullAssumption DEF ClaimInv
<1>1. ASSUME NEW a \in Agents, NEW by \in Agents, NEW s \in MaybeSession, AddAgent(a, by, s)
      PROVE  ClaimInv'
  <2>1. CoordinationInvariants'
    BY <1>1 DEF AddAgent, TypeOK, CoordinationInvariants, ClaimsAreLive, WorkIsClaimed, ClaimsOn,
       DoneHasEvidence, ActiveSessionsHaveActiveAgents, ActiveSessions, ActiveActor, taskVars
  <2>2. OneClaimPerTask' /\ ClaimantIsAssigned'
    BY <1>1 DEF AddAgent, OneClaimPerTask, ClaimantIsAssigned, taskVars
  <2>3. AuditNamesOwnSession' /\ AuditNamesStartedSession'
    BY <1>1, AuditRowKept DEF AddAgent, Audited, ActiveSession, ActiveSessions
  <2>4. QED
    BY <2>1, <2>2, <2>3
<1>2. ASSUME NEW a \in Agents, NEW new \in {"active", "inactive"}, NEW by \in Agents,
             NEW s \in MaybeSession, UpdateAgent(a, new, by, s)
      PROVE  ClaimInv'
  <2>1. \A x \in ActiveSessions : agentStatus'[owner[x]] = "active"
    BY <1>2 DEF UpdateAgent, TypeOK, CoordinationInvariants, ActiveSessionsHaveActiveAgents,
                ActiveActor
  <2>2. ClaimsAreLive'
    BY <1>2, <2>1, ClaimFields
       DEF UpdateAgent, CoordinationInvariants, ClaimsAreLive, ActiveSessions, taskVars
  <2>3. CoordinationInvariants'
    BY <1>2, <2>1, <2>2 DEF UpdateAgent, CoordinationInvariants, WorkIsClaimed, ClaimsOn,
       DoneHasEvidence, ActiveSessionsHaveActiveAgents, ActiveSessions, ActiveActor, taskVars
  <2>4. OneClaimPerTask' /\ ClaimantIsAssigned'
    BY <1>2 DEF UpdateAgent, OneClaimPerTask, ClaimantIsAssigned, taskVars
  <2>5. AuditNamesOwnSession' /\ AuditNamesStartedSession'
    BY <1>2, AuditRowKept DEF UpdateAgent, Audited, Accountable, ActiveSession, ActiveSessions
  <2>6. QED
    BY <2>3, <2>4, <2>5
<1>3. ASSUME NEW a \in Agents, NEW s \in Sessions, StartSession(a, s)
      PROVE  ClaimInv'
  <2>1. ClaimsAreLive'
    BY <1>3, ClaimFields DEF StartSession, TypeOK, CoordinationInvariants, ClaimsAreLive, taskVars
  <2>2. ActiveSessionsHaveActiveAgents'
    BY <1>3 DEF StartSession, TypeOK, CoordinationInvariants, ActiveSessionsHaveActiveAgents,
                ActiveSessions, ActiveActor
  <2>3. CoordinationInvariants'
    BY <1>3, <2>1, <2>2 DEF StartSession, CoordinationInvariants, WorkIsClaimed, ClaimsOn,
                            DoneHasEvidence, taskVars
  <2>4. OneClaimPerTask' /\ ClaimantIsAssigned'
    BY <1>3 DEF StartSession, OneClaimPerTask, ClaimantIsAssigned, taskVars
  <2>5. AuditNamesOwnSession' /\ AuditNamesStartedSession'
    BY <1>3, AuditRowKept DEF StartSession, Audited, TypeOK, MaybeSession
  <2>6. QED
    BY <2>3, <2>4, <2>5
<1>4. ASSUME NEW s \in Sessions, Heartbeat(s)
      PROVE  ClaimInv'
  <2>1. AuditNamesOwnSession' /\ AuditNamesStartedSession'
    BY <1>4, AuditRowKept DEF Heartbeat, Audited, ActiveSessions, agentVars, MaybeSession
  <2>2. CoordinationInvariants' /\ OneClaimPerTask' /\ ClaimantIsAssigned'
    BY <1>4, ClaimsLeftAlone DEF Heartbeat, taskVars, ClaimantIsAssigned
  <2>3. QED
    BY <2>1, <2>2
<1>5. ASSUME NEW s \in Sessions, EndSession(s)
      PROVE  ClaimInv'
  <2>1. \A c \in claims : c.session # s
    BY <1>5, ClaimFields DEF EndSession, ClaimedBy, ClaimsOn
  <2>2. ClaimsAreLive'
    BY <1>5, <2>1, ClaimFields
       DEF EndSession, TypeOK, CoordinationInvariants, ClaimsAreLive, taskVars
  <2>3. ActiveSessionsHaveActiveAgents'
    BY <1>5 DEF EndSession, TypeOK, CoordinationInvariants, ActiveSessionsHaveActiveAgents,
                ActiveSessions, ActiveActor
  <2>4. CoordinationInvariants'
    BY <1>5, <2>2, <2>3 DEF EndSession, CoordinationInvariants, WorkIsClaimed, ClaimsOn,
                            DoneHasEvidence, taskVars
  <2>5. OneClaimPerTask' /\ ClaimantIsAssigned'
    BY <1>5 DEF EndSession, OneClaimPerTask, ClaimantIsAssigned, taskVars
  <2>6. AuditNamesOwnSession' /\ AuditNamesStartedSession'
    BY <1>5, AuditRowKept DEF EndSession, Audited, TypeOK, MaybeSession
  <2>7. QED
    BY <2>4, <2>5, <2>6
<1>6. ASSUME NEW a \in Agents, NEW s \in MaybeSession, NEW x \in Sessions,
             NEW forced \in BOOLEAN, NEW n \in StaleThresholds, Recover(a, s, x, forced, n)
      PROVE  ClaimInv'
  BY <1>6, RecoveryKept DEF Recover
<1>7. ASSUME NEW a \in Agents, NEW s \in MaybeSession, NEW n \in StaleThresholds,
             NEW limit \in SweepLimits, Sweep(a, s, n, limit)
      PROVE  ClaimInv'
  <2>1. PICK D \in SUBSET Candidates(s, n) : Reap(D, a, s) /\ BlockClaimed(D)
    BY <1>7 DEF Sweep
  <2>2. D \in SUBSET Sessions
    BY DEF Candidates, ActiveSessions
  <2>3. QED
    BY <2>1, <2>2, RecoveryKept
<1>8. ASSUME NEW a \in Agents, NEW s \in MaybeSession, NEW t \in Tasks,
             NEW who \in SUBSET Agents, CreateTask(a, s, t, who)
      PROVE  ClaimInv'
  <2>1. \A c \in claims : c.task # t
    BY <1>8 DEF CreateTask, CoordinationInvariants, ClaimsAreLive
  <2>2. ClaimsAreLive' /\ OneClaimPerTask' /\ ClaimantIsAssigned'
    BY <1>8, <2>1, ClaimFields DEF CreateTask, TypeOK, CoordinationInvariants, ClaimsAreLive,
       OneClaimPerTask, ClaimantIsAssigned, agentVars
  <2>3. CoordinationInvariants'
    BY <1>8, <2>2 DEF CreateTask, TypeOK, CoordinationInvariants, WorkIsClaimed, ClaimsOn,
       DoneHasEvidence, ActiveSessionsHaveActiveAgents, ActiveSessions, ActiveActor, agentVars
  <2>4. AuditNamesOwnSession' /\ AuditNamesStartedSession'
    BY <1>8, AccountableRowKept DEF CreateTask
  <2>5. QED
    BY <2>2, <2>3, <2>4
<1>9. ASSUME NEW a \in Agents, NEW s \in MaybeSession, NEW t \in Tasks, NEW r \in Revisions,
             UpdateTask(a, s, t, r)
      PROVE  ClaimInv'
  <2>1. AuditNamesOwnSession' /\ AuditNamesStartedSession'
    BY <1>9, AccountableRowKept DEF UpdateTask
  <2>2. CoordinationInvariants' /\ OneClaimPerTask' /\ ClaimantIsAssigned'
    BY <1>9, ClaimsLeftAlone DEF UpdateTask, ClaimantIsAssigned
  <2>3. QED
    BY <2>1, <2>2
<1>10. ASSUME NEW a \in Agents, NEW s \in MaybeSession, NEW t \in Tasks, NEW r \in Revisions,
              NEW add \in SUBSET Agents, NEW remove \in SUBSET Agents,
              AssignTask(a, s, t, r, add, remove)
       PROVE  ClaimInv'
  <2>1. AuditNamesOwnSession' /\ AuditNamesStartedSession'
    BY <1>10, AccountableRowKept DEF AssignTask
  <2>2. \A c \in claims : c.agent \in assignees'[c.task]
    BY <1>10, ClaimFields
       DEF AssignTask, TypeOK, ClaimantIsAssigned, KeepsClaimOwner, ClaimsOn
  <2>3. CoordinationInvariants' /\ OneClaimPerTask' /\ ClaimantIsAssigned'
    BY <1>10, <2>2, ClaimsLeftAlone DEF AssignTask
  <2>4. QED
    BY <2>1, <2>3
<1>11. ASSUME NEW a \in Agents, NEW s \in MaybeSession, NEW t \in Tasks, AddEvidence(a, s, t)
       PROVE  ClaimInv'
  <2>1. AuditNamesOwnSession' /\ AuditNamesStartedSession'
    BY <1>11, AccountableRowKept DEF AddEvidence
  <2>2. CoordinationInvariants' /\ OneClaimPerTask' /\ ClaimantIsAssigned'
    BY <1>11, ClaimsLeftAlone DEF AddEvidence, ClaimantIsAssigned
  <2>3. QED
    BY <2>1, <2>2
<1>12. ASSUME NEW a \in Agents, NEW s \in MaybeSession, NEW t \in Tasks, NEW r \in Revisions,
              NEW new \in Statuses, SetStatus(a, s, t, r, new)
       PROVE  ClaimInv'
  <2>1. AuditNamesOwnSession' /\ AuditNamesStartedSession'
    BY <1>12, AccountableRowKept DEF SetStatus
  <2>2. claims' = {c \in claims : c.task # t}
    BY <1>12 DEF SetStatus, CoordinationInvariants, ClaimsAreLive, ClaimsOn
  <2>3. \A u \in Tasks : status'[u] = (IF u = t THEN new ELSE status[u])
    BY <1>12 DEF SetStatus, TypeOK
  <2>4. ClaimsAreLive'
    BY <1>12, <2>2, <2>3, ClaimFields
       DEF SetStatus, CoordinationInvariants, ClaimsAreLive, agentVars
  <2>5. WorkIsClaimed'
    BY <1>12, <2>2, <2>3 DEF SetStatus, CoordinationInvariants, WorkIsClaimed, ClaimsOn
  <2>6. DoneHasEvidence' /\ ActiveSessionsHaveActiveAgents'
    BY <1>12, <2>3 DEF SetStatus, CoordinationInvariants, DoneHasEvidence,
       ActiveSessionsHaveActiveAgents, ActiveSessions, ActiveActor, agentVars
  <2>7. OneClaimPerTask' /\ ClaimantIsAssigned'
    BY <1>12, <2>2 DEF SetStatus, OneClaimPerTask, ClaimantIsAssigned
  <2>8. QED
    BY <2>1, <2>4, <2>5, <2>6, <2>7 DEF CoordinationInvariants
<1>13. ASSUME NEW a \in Agents, NEW s \in Sessions, NEW t \in Tasks, NEW r \in Revisions,
              ClaimFree(a, s, t, r)
       PROVE  ClaimInv'
  <2> DEFINE new == NewClaim(a, s, t)
  <2>1. claims' = claims \cup {new} /\ new.task = t /\ new.agent = a /\ new.session = s
    BY <1>13 DEF ClaimFree, NewClaim
  <2>2. \A c \in claims : c.task # t
    BY <1>13 DEF ClaimFree, ClaimsOn
  <2> HIDE DEF new
  <2>3. \A u \in Tasks : /\ status'[u] = (IF u = t THEN "in_progress" ELSE status[u])
                         /\ assignees'[u] = (IF u = t THEN assignees[u] \cup {a} ELSE assignees[u])
    <3>1. /\ status' = [status EXCEPT ![t] = "in_progress"]
          /\ assignees' = [assignees EXCEPT ![t] = @ \cup {a}]
      BY <1>13 DEF ClaimFree
    <3>2. DOMAIN status = Tasks /\ DOMAIN assignees = Tasks
      BY DEF TypeOK
    <3> HIDE DEF ClaimInv
    <3>3. QED
      BY <3>1, <3>2
  <2>4. ClaimsAreLive'
    BY <1>13, <2>1, <2>2, <2>3, ClaimFields
       DEF ClaimFree, CoordinationInvariants, ClaimsAreLive, ActiveSession, ActiveSessions,
           agentVars
  <2>5. WorkIsClaimed'
    <3>1. WorkIsClaimed
      BY DEF CoordinationInvariants
    <3>2. ASSUME NEW u \in Tasks, status'[u] = "in_progress"
          PROVE  ClaimsOn(u)' # {}
      <4>1. CASE u = t
        BY <2>1, <4>1 DEF ClaimsOn
      <4>2. CASE u # t
        <5>1. status[u] = "in_progress"
          BY <2>3, <3>2, <4>2
        <5>2. QED
          BY <2>1, <3>1, <5>1 DEF WorkIsClaimed, ClaimsOn
      <4>3. QED
        BY <4>1, <4>2
    <3>3. QED
      BY <3>2 DEF WorkIsClaimed
  <2>6. DoneHasEvidence' /\ ActiveSessionsHaveActiveAgents'
    BY <1>13, <2>3 DEF ClaimFree, CoordinationInvariants, DoneHasEvidence,
       ActiveSessionsHaveActiveAgents, ActiveSessions, ActiveActor, agentVars
  <2>7. OneClaimPerTask' /\ ClaimantIsAssigned'
    BY <2>1, <2>2, <2>3, ClaimFields DEF OneClaimPerTask, ClaimantIsAssigned
  <2>8. AuditNamesOwnSession' /\ AuditNamesStartedSession'
    BY <1>13, AuditRowKept
       DEF ClaimFree, ActiveSession, ActiveSessions, Audited, agentVars, MaybeSession
  <2>9. QED
    BY <2>4, <2>5, <2>6, <2>7, <2>8 DEF CoordinationInvariants
<1>14. ASSUME NEW a \in Agents, NEW s \in Sessions, NEW t \in Tasks, NEW r \in Revisions,
              ClaimExpired(a, s, t, r)
       PROVE  ClaimInv'
  <2> DEFINE new == NewClaim(a, s, t)
  <2>1. PICK x \in Sessions :
          /\ t \in ClaimedBy({x})
          /\ Reap({x}, a, s)
          /\ status' = [u \in Tasks |->
               IF u \in ClaimedBy({x}) \ {t} THEN "blocked" ELSE status[u]]
          /\ claims' = {c \in claims : c.session # x} \cup {new}
    BY <1>14 DEF ClaimExpired
  <2>2. new.task = t /\ new.agent = a /\ new.session = s
    BY DEF NewClaim
  <2> HIDE DEF new
  <2>3. \A c \in claims : c.task \in ClaimedBy({x}) <=> c.session = x
    BY ClaimFields DEF ClaimedBy, ClaimsOn, OneClaimPerTask
  <2>4. s # x /\ sessionStatus'[s] = "active" /\ owner'[s] = a /\ agentStatus'[a] = "active"
    BY <1>14, <2>1, ReapKept
       DEF ClaimExpired, Reap, ActiveSession, ActiveSessions, MaybeSession
  <2>5. ASSUME NEW c \in claims, c.session # x
        PROVE  /\ status'[c.task] = "in_progress"
               /\ sessionStatus'[c.session] = "active"
               /\ owner'[c.session] = c.agent
               /\ agentStatus'[c.agent] = "active"
    <3>1. c.task \in Tasks /\ c.session \in Sessions
      BY ClaimFields
    <3>2. QED
      BY <2>1, <2>3, <2>5, <3>1 DEF Reap, CoordinationInvariants, ClaimsAreLive
  <2>6. status'[t] = "in_progress"
    BY <1>14, <2>1 DEF ClaimExpired
  <2>7. ClaimsAreLive'
    BY <2>1, <2>2, <2>4, <2>5, <2>6 DEF ClaimsAreLive
  <2>8. WorkIsClaimed'
    <3>1. ASSUME NEW u \in Tasks, u # t, status'[u] = "in_progress"
          PROVE  ClaimsOn(u)' # {}
      <4>1. status[u] = "in_progress" /\ u \notin ClaimedBy({x})
        BY <2>1, <3>1
      <4>2. PICK c \in claims : c.task = u
        BY <4>1 DEF CoordinationInvariants, WorkIsClaimed, ClaimsOn
      <4>3. c \in claims'
        BY <2>1, <2>3, <4>1, <4>2
      <4>4. QED
        BY <4>2, <4>3 DEF ClaimsOn
    <3>2. ClaimsOn(t)' # {}
      BY <2>1, <2>2 DEF ClaimsOn
    <3>3. QED
      BY <3>1, <3>2 DEF WorkIsClaimed
  <2>9. DoneHasEvidence'
    BY <1>14, <2>1 DEF ClaimExpired, CoordinationInvariants, DoneHasEvidence
  <2>10. OneClaimPerTask'
    BY <2>1, <2>2, <2>3 DEF OneClaimPerTask
  <2>11. ClaimantIsAssigned'
    BY <1>14, <2>1, <2>2, ClaimFields DEF ClaimExpired, TypeOK, ClaimantIsAssigned
  <2>12. s \in MaybeSession
    BY DEF MaybeSession
  <2>13. QED
    BY <2>1, <2>7, <2>8, <2>9, <2>10, <2>11, <2>12, ReapKept DEF CoordinationInvariants
<1>15. CASE Tick
  <2>1. CoordinationInvariants' /\ OneClaimPerTask' /\ ClaimantIsAssigned'
    BY <1>15, ClaimsLeftAlone DEF Tick, taskVars, ClaimantIsAssigned
  <2>2. AuditNamesOwnSession' /\ AuditNamesStartedSession'
    BY <1>15 DEF Tick, agentVars, AuditNamesOwnSession, AuditNamesStartedSession
  <2>3. QED
    BY <2>1, <2>2
<1>16. CASE UNCHANGED vars
  <2>1. CoordinationInvariants' /\ OneClaimPerTask' /\ ClaimantIsAssigned'
    BY <1>16, ClaimsLeftAlone DEF vars, taskVars, ClaimantIsAssigned
  <2>2. AuditNamesOwnSession' /\ AuditNamesStartedSession'
    BY <1>16 DEF vars, agentVars, AuditNamesOwnSession, AuditNamesStartedSession
  <2>3. QED
    BY <2>1, <2>2
<1>17. QED
  <2>1. CASE AgentStep
    BY <2>1, <1>1, <1>2 DEF AgentStep
  <2>2. CASE SessionStep
    BY <2>2, <1>3, <1>4, <1>5 DEF SessionStep
  <2>3. CASE ReapStep
    BY <2>3, <1>6, <1>7 DEF ReapStep
  <2>4. CASE TaskStep
    BY <2>4, <1>8, <1>9, <1>10, <1>11, <1>12 DEF TaskStep
  <2>5. CASE ClaimStep
    BY <2>5, <1>13, <1>14 DEF ClaimStep, ClaimTask
  <2>6. QED
    BY <2>1, <2>2, <2>3, <2>4, <2>5, <1>15, <1>16 DEF Next

\* An empty database has the invariant.
LEMMA InitialInvariant ==
  ASSUME Init
  PROVE  ClaimInv
<1>1. TypeOK
  BY TimeAssumption, BoundAssumption DEF Init, TypeOK, MaybeSession
<1>2. CoordinationInvariants
  BY DEF Init, CoordinationInvariants, ClaimsAreLive, WorkIsClaimed, DoneHasEvidence,
         ActiveSessionsHaveActiveAgents, ActiveSessions
<1>3. QED
  BY <1>1, <1>2 DEF Init, ClaimInv, OneClaimPerTask, ClaimantIsAssigned,
                    AuditNamesOwnSession, AuditNamesStartedSession

\* The inductive invariant holds of every reachable state: claims are live and
\* exclusive, work in progress is claimed, the holder is an assignee, and the
\* audit log pairs actors with their own sessions.
THEOREM ClaimInvariant == Spec => []ClaimInv
<1>1. Init => ClaimInv
  BY InitialInvariant
<1>2. ClaimInv /\ TypeOK' /\ [Next]_vars => ClaimInv'
  BY InvariantKept
<1>3. QED
  BY <1>1, <1>2, TypeCorrect, PTL DEF Spec

\* What check_coordination_invariants looks for never appears.
THEOREM CoordinationSafe == Spec => []CoordinationInvariants
  BY ClaimInvariant, PTL DEF ClaimInv

\* The holder of a task is always one of its assignees.
THEOREM ClaimantAssigned == Spec => []ClaimantIsAssigned
  BY ClaimInvariant, PTL DEF ClaimInv

\* The newest audit row never pairs an actor with another agent's session.
THEOREM AuditSafe == Spec => []AuditNamesOwnSession
  BY ClaimInvariant, PTL DEF ClaimInv

-----------------------------------------------------------------------------
\* What a step may never do.

\* A task's row, its assignees and its claim are as they were.
LEMMA TasksLeftAlone ==
  ASSUME UNCHANGED <<status, revision, assignees, claims>>, NEW t
  PROVE  SameTask(t)
  BY DEF SameTask, ClaimsOn

\* Blocking what the sessions of D claimed moves every task it changes on.
LEMMA BlockingAdvances ==
  ASSUME ClaimInv, NEW D, BlockClaimed(D), NEW t \in Tasks
  PROVE  Advances(t) \/ SameTask(t)
<1>1. CASE t \in ClaimedBy(D)
  BY <1>1, BoundAssumption DEF BlockClaimed, Bumped, Advances, ClaimInv, TypeOK
<1>2. CASE t \notin ClaimedBy(D)
  <2>1. ClaimsOn(t)' = ClaimsOn(t)
    BY <1>2 DEF BlockClaimed, ClaimsOn, ClaimedBy
  <2>2. QED
    BY <1>2, <2>1 DEF BlockClaimed, Bumped, SameTask
<1>3. QED
  BY <1>1, <1>2

\* A write of the one task t at its next revision, that leaves the others'
\* status, assignees and claims alone, moves on what it changes.
LEMMA WriteAdvances ==
  ASSUME TypeOK, NEW t \in Tasks, revision' = Bumped({t}),
         \A u \in Tasks \ {t} : /\ status'[u] = status[u]
                                /\ assignees'[u] = assignees[u]
                                /\ ClaimsOn(u)' = ClaimsOn(u)
  PROVE  \A u \in Tasks : Advances(u) \/ SameTask(u)
  BY DEF TypeOK, Bumped, Advances, SameTask

\* No step creates a revision without a row.
LEMMA AbsentKept ==
  ASSUME ClaimInv, AbsentAtZero, [Next]_vars
  PROVE  AbsentAtZero'
<1> SUFFICES ASSUME NEW u \in Tasks, status'[u] = "absent"
             PROVE  status[u] = "absent" /\ revision'[u] = revision[u]
  BY DEF AbsentAtZero
<1>1. TypeOK
  BY DEF ClaimInv
<1>2. CASE AgentStep
  BY <1>2 DEF AgentStep, AddAgent, UpdateAgent, taskVars
<1>3. CASE SessionStep
  BY <1>3 DEF SessionStep, StartSession, Heartbeat, EndSession, taskVars
<1>4. CASE ReapStep
  <2>1. PICK D : BlockClaimed(D)
    BY <1>4 DEF ReapStep, Recover, Sweep
  <2>2. QED
    BY <2>1 DEF BlockClaimed, Bumped
<1>5. CASE TaskStep
  <2>1. PICK t \in Tasks, new \in Statuses :
          /\ status' = status \/ status' = [status EXCEPT ![t] = new]
          /\ \/ revision' = [revision EXCEPT ![t] = 1] /\ status' = [status EXCEPT ![t] = new]
             \/ revision' = revision
             \/ revision' = Bumped({t}) /\ status[t] # "absent"
    BY <1>5 DEF TaskStep, CreateTask, AddEvidence, UpdateTask, AssignTask, SetStatus,
                AtRevision, Statuses
  <2>2. CASE u = t
    <3>1. new # "absent"
      BY DEF Statuses
    <3>2. status' # [status EXCEPT ![t] = new]
      BY <2>2, <3>1, <1>1 DEF TypeOK
    <3>3. QED
      BY <2>1, <2>2, <3>2
  <2>3. CASE u # t
    BY <2>1, <2>3, <1>1 DEF TypeOK, Bumped
  <2>4. QED
    BY <2>2, <2>3
<1>6. CASE ClaimStep
  <2>1. PICK a \in Agents, s \in Sessions, t \in Tasks, r \in Revisions :
          ClaimFree(a, s, t, r) \/ ClaimExpired(a, s, t, r)
    BY <1>6 DEF ClaimStep, ClaimTask
  <2>2. CASE ClaimFree(a, s, t, r)
    BY <2>2, <1>1 DEF ClaimFree, TypeOK, Bumped
  <2>3. CASE ClaimExpired(a, s, t, r)
    <3>1. PICK x \in Sessions :
            /\ status' = [q \in Tasks |->
                 IF q \in ClaimedBy({x}) \ {t} THEN "blocked" ELSE status[q]]
            /\ revision' = [Bumped(ClaimedBy({x})) EXCEPT ![t] = @ + 1]
      BY <2>3 DEF ClaimExpired
    <3>2. status[t] = "in_progress"
      BY <2>3 DEF ClaimExpired
    <3>3. u # t /\ u \notin ClaimedBy({x}) /\ status[u] = "absent"
      BY <3>1, <3>2
    <3>4. QED
      BY <3>1, <3>3 DEF Bumped
  <2>4. QED
    BY <2>1, <2>2, <2>3
<1>7. CASE Tick
  BY <1>7 DEF Tick, taskVars
<1>8. CASE UNCHANGED vars
  BY <1>8 DEF vars, taskVars
<1>9. QED
  BY <1>2, <1>3, <1>4, <1>5, <1>6, <1>7, <1>8 DEF Next

\* A task that no row was created for is at revision 0.
THEOREM AbsentRows == Spec => []AbsentAtZero
<1>1. Init => AbsentAtZero
  BY DEF Init, AbsentAtZero
<1>2. ClaimInv /\ AbsentAtZero /\ [Next]_vars => AbsentAtZero'
  BY AbsentKept
<1>3. QED
  BY <1>1, <1>2, ClaimInvariant, PTL DEF Spec

\* Every step moves on each task it changes.
LEMMA StepAdvances ==
  ASSUME ClaimInv, AbsentAtZero, Next
  PROVE  \A u \in Tasks : Advances(u) \/ SameTask(u)
<1>1. TypeOK
  BY DEF ClaimInv
<1>2. CASE AgentStep
  BY <1>2, TasksLeftAlone DEF AgentStep, AddAgent, UpdateAgent, taskVars
<1>3. CASE SessionStep
  BY <1>3, TasksLeftAlone DEF SessionStep, StartSession, Heartbeat, EndSession, taskVars
<1>4. CASE ReapStep
  BY <1>4, BlockingAdvances DEF ReapStep, Recover, Sweep
<1>5. CASE TaskStep
  <2>1. PICK a \in Agents, s \in MaybeSession, t \in Tasks :
          \/ \E who \in SUBSET Agents : CreateTask(a, s, t, who)
          \/ AddEvidence(a, s, t)
          \/ \E r \in Revisions :
               \/ UpdateTask(a, s, t, r)
               \/ \E add, remove \in SUBSET Agents : AssignTask(a, s, t, r, add, remove)
               \/ \E new \in Statuses : SetStatus(a, s, t, r, new)
    BY <1>5 DEF TaskStep
  <2>2. ASSUME NEW who \in SUBSET Agents, CreateTask(a, s, t, who)
        PROVE  \A u \in Tasks : Advances(u) \/ SameTask(u)
    <3>1. \A u \in Tasks \ {t} : SameTask(u)
      BY <2>2, <1>1 DEF CreateTask, SameTask, ClaimsOn, TypeOK
    <3>2. Advances(t)
      BY <2>2, <1>1 DEF CreateTask, AbsentAtZero, Advances, TypeOK
    <3>3. QED
      BY <3>1, <3>2
  <2>3. CASE AddEvidence(a, s, t)
    BY <2>3, TasksLeftAlone DEF AddEvidence
  <2>4. ASSUME NEW r \in Revisions, UpdateTask(a, s, t, r)
        PROVE  \A u \in Tasks : Advances(u) \/ SameTask(u)
    BY <2>4, <1>1, WriteAdvances DEF UpdateTask, ClaimsOn
  <2>5. ASSUME NEW r \in Revisions, NEW add \in SUBSET Agents, NEW remove \in SUBSET Agents,
               AssignTask(a, s, t, r, add, remove)
        PROVE  \A u \in Tasks : Advances(u) \/ SameTask(u)
    BY <2>5, <1>1, WriteAdvances DEF AssignTask, ClaimsOn
  <2>6. ASSUME NEW r \in Revisions, NEW new \in Statuses, SetStatus(a, s, t, r, new)
        PROVE  \A u \in Tasks : Advances(u) \/ SameTask(u)
    BY <2>6, <1>1, WriteAdvances DEF SetStatus, ClaimsOn
  <2>7. QED
    BY <2>1, <2>2, <2>3, <2>4, <2>5, <2>6
<1>6. CASE ClaimStep
  <2>1. PICK a \in Agents, s \in Sessions, t \in Tasks, r \in Revisions :
          ClaimFree(a, s, t, r) \/ ClaimExpired(a, s, t, r)
    BY <1>6 DEF ClaimStep, ClaimTask
  <2>2. CASE ClaimFree(a, s, t, r)
    BY <2>2, <1>1, WriteAdvances DEF ClaimFree, ClaimsOn, NewClaim
  <2>3. CASE ClaimExpired(a, s, t, r)
    <3>1. PICK x \in Sessions :
            /\ status' = [u \in Tasks |->
                 IF u \in ClaimedBy({x}) \ {t} THEN "blocked" ELSE status[u]]
            /\ revision' = [Bumped(ClaimedBy({x})) EXCEPT ![t] = @ + 1]
            /\ claims' = {c \in claims : c.session # x} \cup {NewClaim(a, s, t)}
      BY <2>3 DEF ClaimExpired
    <3>2. assignees' = [assignees EXCEPT ![t] = @ \cup {a}]
      BY <2>3 DEF ClaimExpired
    <3>3. ASSUME NEW u \in Tasks, u = t \/ u \in ClaimedBy({x})
          PROVE  Advances(u)
      <4> DEFINE next == Bumped(ClaimedBy({x}))
      <4>1. next \in [Tasks -> Nat] /\ next[u] >= revision[u]
            /\ (u \in ClaimedBy({x}) => next[u] > revision[u])
        BY <1>1, BoundAssumption DEF Bumped, TypeOK
      <4>2. revision' = [next EXCEPT ![t] = @ + 1]
        BY <3>1
      <4> HIDE DEF next
      <4>3. QED
        <5>1. revision[u] \in Nat
          BY <1>1, BoundAssumption DEF TypeOK
        <5>2. CASE u = t
          BY <4>1, <4>2, <5>1, <5>2 DEF Advances
        <5>3. CASE u # t
          BY <3>3, <4>1, <4>2, <5>1, <5>3 DEF Advances
        <5>4. QED
          BY <5>2, <5>3
    <3>4. ASSUME NEW u \in Tasks, u # t, u \notin ClaimedBy({x})
          PROVE  SameTask(u)
      <4>1. ClaimsOn(u)' = ClaimsOn(u)
        BY <3>1, <3>4 DEF ClaimsOn, ClaimedBy, NewClaim
      <4>2. QED
        BY <3>1, <3>2, <3>4, <4>1, <1>1 DEF SameTask, Bumped, TypeOK
    <3>5. QED
      BY <3>3, <3>4
  <2>4. QED
    BY <2>1, <2>2, <2>3
<1>7. CASE Tick
  BY <1>7, TasksLeftAlone DEF Tick, taskVars
<1>8. QED
  BY <1>2, <1>3, <1>4, <1>5, <1>6, <1>7 DEF Next

\* No committed transaction changes a task's status, assignees or holder
\* without taking it to a higher revision.
THEOREM RevisionsStand == Spec => RevisionStandsForTask
<1>1. ClaimInv /\ AbsentAtZero /\ [Next]_vars
        => [\A t \in Tasks : Advances(t) \/ SameTask(t)]_vars
  BY StepAdvances
<1>2. QED
  BY <1>1, ClaimInvariant, AbsentRows, PTL DEF Spec, RevisionStandsForTask

\* No step leaves a row without a revision.
LEMMA PresentKept ==
  ASSUME ClaimInv, ClaimInv', AbsentAtZero, RowsHaveRevision, [Next]_vars
  PROVE  RowsHaveRevision'
<1> SUFFICES ASSUME NEW t \in Tasks, status'[t] # "absent"
             PROVE  revision'[t] > 0
  BY DEF RowsHaveRevision
<1>1. revision[t] \in Nat /\ revision'[t] \in Nat
  BY BoundAssumption DEF ClaimInv, TypeOK
<1>2. CASE UNCHANGED vars
  BY <1>2 DEF RowsHaveRevision, vars, taskVars
<1>3. CASE Next
  <2>1. Advances(t) \/ SameTask(t)
    BY <1>3, StepAdvances
  <2>2. QED
    BY <1>1, <2>1 DEF Advances, SameTask, RowsHaveRevision
<1>4. QED
  BY <1>2, <1>3

\* A task that a row was created for is at revision 1 or above.
THEOREM PresentRows == Spec => []RowsHaveRevision
<1>1. Init => RowsHaveRevision
  BY DEF Init, RowsHaveRevision
<1>2. ClaimInv /\ ClaimInv' /\ AbsentAtZero /\ RowsHaveRevision /\ [Next]_vars => RowsHaveRevision'
  BY PresentKept
<1>3. QED
  BY <1>1, <1>2, ClaimInvariant, AbsentRows, PTL DEF Spec

\* The claims of the sessions of D are the claims of the tasks D claims.
LEMMA ClaimsOfClaimed ==
  ASSUME ClaimInv, NEW D, NEW c \in claims
  PROVE  c.task \in ClaimedBy(D) <=> c.session \in D
  BY ClaimFields DEF ClaimInv, ClaimedBy, ClaimsOn, OneClaimPerTask

\* No step changes a claimed task but the holder's own, or one that ends the
\* holder's session.
THEOREM OnlyHolderChanges == Spec => OnlyHolderChangesTask
<1>1. ClaimInv /\ [Next]_vars => [\A c \in claims : ChangedByHolder(c)]_vars
  <2> SUFFICES ASSUME ClaimInv, Next, NEW c \in claims, revision'[c.task] # revision[c.task]
               PROVE  \/ newest' = Row(c.agent, c.session)
                      \/ sessionStatus'[c.session] = "ended"
    BY DEF ChangedByHolder
  <2>1. TypeOK
    BY DEF ClaimInv
  <2>2. c.task \in Tasks /\ c.session \in Sessions /\ status[c.task] = "in_progress"
    BY <2>1, ClaimFields DEF ClaimInv, CoordinationInvariants, ClaimsAreLive
  <2>3. CASE AgentStep
    BY <2>3 DEF AgentStep, AddAgent, UpdateAgent, taskVars
  <2>4. CASE SessionStep
    BY <2>4 DEF SessionStep, StartSession, Heartbeat, EndSession, taskVars
  <2>5. CASE ReapStep
    <3>1. PICK a, s, D : Reap(D, a, s) /\ BlockClaimed(D)
      BY <2>5 DEF ReapStep, Recover, Sweep
    <3>2. c.session \in D
      BY <3>1, <2>2, ClaimsOfClaimed DEF BlockClaimed, Bumped
    <3>3. QED
      BY <3>1, <3>2, <2>2 DEF Reap
  <2>6. CASE TaskStep
    <3>1. PICK a \in Agents, s \in MaybeSession, t \in Tasks :
            \/ \E who \in SUBSET Agents : CreateTask(a, s, t, who)
            \/ AddEvidence(a, s, t)
            \/ \E r \in Revisions :
                 \/ UpdateTask(a, s, t, r)
                 \/ \E add, remove \in SUBSET Agents : AssignTask(a, s, t, r, add, remove)
                 \/ \E new \in Statuses : SetStatus(a, s, t, r, new)
      BY <2>6 DEF TaskStep
    <3>2. c.task = t
      BY <3>1, <2>1, <2>2
         DEF CreateTask, AddEvidence, UpdateTask, AssignTask, SetStatus, Bumped, TypeOK
    <3>3. OwnsClaimIfAny(t, a, s) /\ newest' = Row(a, s)
      BY <3>1, <3>2, <2>2
         DEF CreateTask, AddEvidence, UpdateTask, AssignTask, SetStatus, Audited
    <3>4. QED
      BY <3>2, <3>3 DEF OwnsClaimIfAny, ClaimsOn
  <2>7. CASE ClaimStep
    <3>1. PICK a \in Agents, s \in Sessions, t \in Tasks, r \in Revisions :
            ClaimFree(a, s, t, r) \/ ClaimExpired(a, s, t, r)
      BY <2>7 DEF ClaimStep, ClaimTask
    <3>2. ClaimExpired(a, s, t, r)
      BY <3>1, <2>2 DEF ClaimFree, ClaimsOn, Bumped
    <3>3. PICK x \in Sessions :
            /\ t \in ClaimedBy({x})
            /\ Reap({x}, a, s)
            /\ revision' = [Bumped(ClaimedBy({x})) EXCEPT ![t] = @ + 1]
      BY <3>2 DEF ClaimExpired
    <3>4. c.task \in ClaimedBy({x})
      BY <3>3, <2>2 DEF Bumped
    <3>5. c.session = x
      BY <3>4, ClaimsOfClaimed
    <3>6. QED
      BY <3>3, <3>5 DEF Reap
  <2>8. CASE Tick
    BY <2>8 DEF Tick, taskVars
  <2>9. QED
    BY <2>3, <2>4, <2>5, <2>6, <2>7, <2>8 DEF Next
<1>2. QED
  BY <1>1, ClaimInvariant, PTL DEF Spec, OnlyHolderChangesTask

\* A task passes from one session straight to another only from a session that
\* has been silent for the lease, and that ends in the same step.
THEOREM TakeoverWaits == Spec => TakeoverOnlyAfterLease
<1>1. ClaimInv /\ [Next]_vars
        => [\A c \in claims : \A d \in claims' : PassedOn(c, d) => Displaced(c)]_vars
  <2> SUFFICES ASSUME ClaimInv, Next, NEW c \in claims, NEW d \in claims',
                      c.task = d.task, c.session # d.session
               PROVE  Displaced(c)
    BY DEF PassedOn
  <2>1. d \notin claims
    BY DEF ClaimInv, OneClaimPerTask
  <2>2. ClaimStep
    <3>1. CASE AgentStep
      BY <3>1, <2>1 DEF AgentStep, AddAgent, UpdateAgent, taskVars
    <3>2. CASE SessionStep
      BY <3>2, <2>1 DEF SessionStep, StartSession, Heartbeat, EndSession, taskVars
    <3>3. CASE ReapStep
      <4>1. \A D : BlockClaimed(D) => claims' \subseteq claims
        BY DEF BlockClaimed
      <4>2. claims' \subseteq claims
        BY <3>3, <4>1 DEF ReapStep, Recover, Sweep
      <4>3. QED
        BY <2>1, <4>2
    <3>4. CASE TaskStep
      BY <3>4, <2>1 DEF TaskStep, CreateTask, AddEvidence, UpdateTask, AssignTask, SetStatus
    <3>5. CASE Tick
      BY <3>5, <2>1 DEF Tick, taskVars
    <3>6. QED
      BY <3>1, <3>2, <3>3, <3>4, <3>5 DEF Next
  <2>3. PICK a \in Agents, s \in Sessions, t \in Tasks, r \in Revisions :
          ClaimFree(a, s, t, r) \/ ClaimExpired(a, s, t, r)
    BY <2>2 DEF ClaimStep, ClaimTask
  <2>4. d = NewClaim(a, s, t)
    <3>1. CASE ClaimFree(a, s, t, r)
      BY <3>1, <2>1 DEF ClaimFree
    <3>2. CASE ClaimExpired(a, s, t, r)
      <4>1. PICK x \in Sessions :
              claims' = {q \in claims : q.session # x} \cup {NewClaim(a, s, t)}
        BY <3>2 DEF ClaimExpired
      <4>2. QED
        BY <4>1, <2>1
    <3>3. QED
      BY <3>1, <3>2, <2>3
  <2>5. c.task = t
    BY <2>4 DEF NewClaim
  <2>6. ClaimExpired(a, s, t, r)
    BY <2>3, <2>5 DEF ClaimFree, ClaimsOn
  <2>7. PICK x \in Sessions : t \in ClaimedBy({x}) /\ LeaseExpired(x) /\ Reap({x}, a, s)
    BY <2>6 DEF ClaimExpired
  <2>8. c.session = x
    BY <2>5, <2>7, ClaimsOfClaimed
  <2>9. QED
    BY <2>7, <2>8 DEF LeaseExpired, Reap, Displaced
<1>2. QED
  BY <1>1, ClaimInvariant, PTL DEF Spec, TakeoverOnlyAfterLease

-----------------------------------------------------------------------------
\* TaskClaims implements FencedLease: every committed transaction is one step
\* of the abstract lease, or none.

Ended == {s \in Sessions : sessionStatus[s] = "ended"}

\* With one row for each task, the holder of a task is the session of its row,
\* and nobody where there is no row.
LEMMA HolderInRows ==
  ASSUME NEW rows, \A c, d \in rows : c.task = d.task => c = d
  PROVE  /\ \A c \in rows : HolderIn(rows, c.task) = c.session
         /\ \A t : (\A c \in rows : c.task # t) => HolderIn(rows, t) = NoSession
  BY DEF HolderIn

\* The holder of a task depends on the task's own rows only.
LEMMA HolderOfOwnRows ==
  ASSUME NEW rows, \A c, d \in rows : c.task = d.task => c = d,
         NEW next, \A c, d \in next : c.task = d.task => c = d,
         NEW u, {c \in next : c.task = u} = {c \in rows : c.task = u}
  PROVE  HolderIn(next, u) = HolderIn(rows, u)
<1>1. CASE \E c \in rows : c.task = u
  <2>1. PICK c \in rows : c.task = u
    BY <1>1
  <2>2. c \in next
    BY <2>1
  <2>3. QED
    BY <2>1, <2>2, HolderInRows
<1>2. CASE \A c \in rows : c.task # u
  <2>1. \A c \in next : c.task # u
    BY <1>2
  <2>2. QED
    BY <1>2, <2>1, HolderInRows
<1>3. QED
  BY <1>1, <1>2

\* The abstract state is its two variables.
LEMMA AbstractStutter ==
  ASSUME UNCHANGED claims, Ended' = Ended
  PROVE  UNCHANGED Fenced!leaseVars
  BY DEF Fenced!leaseVars, Ended

\* Whoever holds a task has an active session.
LEMMA HolderIsLive ==
  ASSUME ClaimInv, NEW c \in claims
  PROVE  c.task \in Tasks /\ c.session \in Sessions /\ c.session \notin Ended
  BY ClaimFields DEF ClaimInv, CoordinationInvariants, ClaimsAreLive, Ended

\* Reaping the sessions of D and taking all their claims away fences D.
LEMMA ReapFences ==
  ASSUME ClaimInv, ClaimInv', NEW D \in SUBSET ActiveSessions,
         claims' = {c \in claims : c.session \notin D},
         Ended' = Ended \cup D
  PROVE  Fenced!Fence(D)
<1>1. D \cap Ended = {}
  BY DEF ActiveSessions, Ended
<1>2. ASSUME NEW t \in Tasks
      PROVE  HolderIn(claims', t) = IF HolderIn(claims, t) \in D
                                      THEN NoSession ELSE HolderIn(claims, t)
  <2>1. NoSession \notin D
    BY NullAssumption DEF ActiveSessions
  <2>2. CASE \E c \in claims : c.task = t
    <3>1. PICK c \in claims : c.task = t
      BY <2>2
    <3>2. HolderIn(claims, t) = c.session
      BY <3>1, HolderInRows DEF ClaimInv, OneClaimPerTask
    <3>3. CASE c.session \in D
      <4>1. \A d \in claims' : d.task # t
        BY <3>1, <3>3 DEF ClaimInv, OneClaimPerTask
      <4>2. HolderIn(claims', t) = NoSession
        BY <4>1, HolderInRows DEF ClaimInv, OneClaimPerTask
      <4>3. QED
        BY <3>2, <3>3, <4>2
    <3>4. CASE c.session \notin D
      <4>1. c \in claims'
        BY <3>1, <3>4
      <4>2. HolderIn(claims', t) = c.session
        BY <3>1, <4>1, HolderInRows DEF ClaimInv, OneClaimPerTask
      <4>3. QED
        BY <3>2, <3>4, <4>2
    <3>5. QED
      BY <3>3, <3>4
  <2>3. CASE \A c \in claims : c.task # t
    <3>1. HolderIn(claims, t) = NoSession /\ HolderIn(claims', t) = NoSession
      BY <2>3, HolderInRows DEF ClaimInv, OneClaimPerTask
    <3>2. QED
      BY <2>1, <3>1
  <2>4. QED
    BY <2>2, <2>3
<1>3. QED
  BY <1>1, <1>2 DEF Fenced!Fence, Ended

\* Every step of the claims is a step of the abstract lease, or leaves it be.
LEMMA StepImplements ==
  ASSUME ClaimInv, ClaimInv', Next
  PROVE  [Fenced!LeaseNext]_Fenced!leaseVars
<1> USE DEF Ended
<1>1. TypeOK /\ NoSession \notin Sessions
  BY NullAssumption DEF ClaimInv
<1>2. ASSUME NEW D \in SUBSET ActiveSessions, Fenced!Fence(D)
      PROVE  Fenced!LeaseNext
  BY <1>2 DEF Fenced!LeaseNext, ActiveSessions
<1>3. CASE AgentStep
  BY <1>3, AbstractStutter DEF AgentStep, AddAgent, UpdateAgent, taskVars
<1>4. CASE SessionStep
  <2>1. ASSUME NEW a \in Agents, NEW s \in Sessions, StartSession(a, s)
        PROVE  UNCHANGED Fenced!leaseVars
    BY <2>1, <1>1, AbstractStutter DEF StartSession, taskVars, TypeOK
  <2>2. ASSUME NEW s \in Sessions, Heartbeat(s)
        PROVE  UNCHANGED Fenced!leaseVars
    BY <2>2, AbstractStutter DEF Heartbeat, taskVars, agentVars
  <2>3. ASSUME NEW s \in Sessions, EndSession(s)
        PROVE  Fenced!LeaseNext
    <3>1. \A c \in claims : c.session # s
      BY <2>3, HolderIsLive DEF EndSession, ClaimedBy, ClaimsOn
    <3>2. claims' = {c \in claims : c.session \notin {s}}
      BY <2>3, <3>1 DEF EndSession, taskVars
    <3>3. Ended' = Ended \cup {s} /\ {s} \in SUBSET ActiveSessions
      BY <2>3, <1>1 DEF EndSession, TypeOK
    <3>4. QED
      BY <3>2, <3>3, <1>2, ReapFences
  <2>4. QED
    BY <1>4, <2>1, <2>2, <2>3 DEF SessionStep
<1>5. CASE ReapStep
  <2>1. PICK D \in SUBSET ActiveSessions : (\E a, s : Reap(D, a, s)) /\ BlockClaimed(D)
    <3>1. PICK a \in Agents, s \in MaybeSession, n \in StaleThresholds :
            \/ \E x \in Sessions, forced \in BOOLEAN : Recover(a, s, x, forced, n)
            \/ \E limit \in SweepLimits : Sweep(a, s, n, limit)
      BY <1>5 DEF ReapStep
    <3>2. ASSUME NEW x \in Sessions, NEW forced \in BOOLEAN, Recover(a, s, x, forced, n)
          PROVE  {x} \in SUBSET ActiveSessions /\ Reap({x}, a, s) /\ BlockClaimed({x})
      BY <3>2 DEF Recover
    <3>3. ASSUME NEW limit \in SweepLimits, Sweep(a, s, n, limit)
          PROVE  \E D \in SUBSET ActiveSessions : Reap(D, a, s) /\ BlockClaimed(D)
      BY <3>3 DEF Sweep, Candidates
    <3>4. QED
      BY <3>1, <3>2, <3>3
  <2>2. claims' = {c \in claims : c.session \notin D}
    BY <2>1 DEF BlockClaimed
  <2>3. Ended' = Ended \cup D
    BY <2>1, <1>1 DEF Reap, ActiveSessions
  <2>4. QED
    BY <2>2, <2>3, <1>2, ReapFences
<1>6. CASE TaskStep
  <2>1. UNCHANGED sessionStatus
    BY <1>6 DEF TaskStep, CreateTask, AddEvidence, UpdateTask, AssignTask, SetStatus, agentVars
  <2>2. CASE UNCHANGED claims
    BY <2>1, <2>2, AbstractStutter
  <2>3. CASE claims' # claims
    <3>1. PICK t \in Tasks : ClaimsOn(t) # {} /\ claims' = claims \ ClaimsOn(t)
      BY <1>6, <2>3
         DEF TaskStep, CreateTask, AddEvidence, UpdateTask, AssignTask, SetStatus
    <3>2. PICK c \in claims : c.task = t
      BY <3>1 DEF ClaimsOn
    <3>3. HolderIn(claims, t) = c.session /\ c.session # NoSession
      BY <3>2, <1>1, HolderInRows, HolderIsLive DEF ClaimInv, OneClaimPerTask
    <3>4. HolderIn(claims', t) = NoSession
      <4>1. \A d \in claims' : d.task # t
        BY <3>1 DEF ClaimsOn
      <4>2. QED
        BY <4>1, HolderInRows DEF ClaimInv, OneClaimPerTask
    <3>5. ASSUME NEW u \in Tasks, u # t
          PROVE  HolderIn(claims', u) = HolderIn(claims, u)
      <4>1. {d \in claims' : d.task = u} = {d \in claims : d.task = u}
        BY <3>1, <3>5 DEF ClaimsOn
      <4>2. QED
        BY <4>1, HolderOfOwnRows DEF ClaimInv, OneClaimPerTask
    <3>6. Fenced!Release(t)
      BY <2>1, <3>3, <3>4, <3>5 DEF Fenced!Release
    <3>7. QED
      BY <3>6 DEF Fenced!LeaseNext
  <2>4. QED
    BY <2>2, <2>3
<1>7. CASE ClaimStep
  <2>1. PICK a \in Agents, s \in Sessions, t \in Tasks, r \in Revisions :
          ClaimFree(a, s, t, r) \/ ClaimExpired(a, s, t, r)
    BY <1>7 DEF ClaimStep, ClaimTask
  <2> DEFINE new == NewClaim(a, s, t)
  <2>2. new.task = t /\ new.session = s
    BY DEF NewClaim
  <2>3. s \notin Ended
    BY <2>1 DEF ClaimFree, ClaimExpired, ActiveSession, ActiveSessions
  <2>4. new \in claims'
    BY <2>1 DEF ClaimFree, ClaimExpired
  <2> HIDE DEF new
  <2>5. HolderIn(claims', t) = s
    BY <2>2, <2>4, HolderInRows DEF ClaimInv, OneClaimPerTask
  <2>6. CASE ClaimFree(a, s, t, r)
    <3>1. claims' = claims \cup {new} /\ UNCHANGED sessionStatus
      BY <2>6 DEF ClaimFree, agentVars, new
    <3>2. HolderIn(claims, t) = NoSession
      <4>1. \A c \in claims : c.task # t
        BY <2>6 DEF ClaimFree, ClaimsOn
      <4>2. QED
        BY <4>1, HolderInRows DEF ClaimInv, OneClaimPerTask
    <3>3. ASSUME NEW u \in Tasks, u # t
          PROVE  HolderIn(claims', u) = HolderIn(claims, u)
      <4>1. {d \in claims' : d.task = u} = {d \in claims : d.task = u}
        BY <3>1, <3>3, <2>2
      <4>2. QED
        BY <4>1, HolderOfOwnRows DEF ClaimInv, OneClaimPerTask
    <3>4. Fenced!Acquire(s, t)
      BY <2>3, <2>5, <3>1, <3>2, <3>3 DEF Fenced!Acquire
    <3>5. QED
      BY <3>4 DEF Fenced!LeaseNext
  <2>7. CASE ClaimExpired(a, s, t, r)
    <3>1. PICK x \in Sessions :
            /\ t \in ClaimedBy({x})
            /\ Reap({x}, a, s)
            /\ claims' = {c \in claims : c.session # x} \cup {new}
      BY <2>7 DEF ClaimExpired, new
    <3>2. s # x /\ Ended' = Ended \cup {x}
      BY <3>1, <1>1 DEF Reap, TypeOK
    <3>3. PICK c \in claims : c.task = t /\ c.session = x
      BY <3>1 DEF ClaimedBy, ClaimsOn
    <3>4. HolderIn(claims, t) = x /\ x \notin Ended
      BY <3>3, HolderInRows, HolderIsLive DEF ClaimInv, OneClaimPerTask
    <3>5. ASSUME NEW u \in Tasks, u # t
          PROVE  HolderIn(claims', u) = IF HolderIn(claims, u) = x
                                          THEN NoSession ELSE HolderIn(claims, u)
      <4>1. CASE HolderIn(claims, u) = x
        <5>1. PICK d \in claims : d.task = u /\ d.session = x
          BY <4>1, <1>1, HolderInRows DEF ClaimInv, OneClaimPerTask
        <5>2. \A e \in claims' : e.task # u
          BY <3>1, <3>5, <5>1, <2>2 DEF ClaimInv, OneClaimPerTask
        <5>3. HolderIn(claims', u) = NoSession
          BY <5>2, HolderInRows DEF ClaimInv, OneClaimPerTask
        <5>4. QED
          BY <4>1, <5>3
      <4>2. CASE HolderIn(claims, u) # x
        <5>1. \A d \in claims : d.task = u => d.session # x
          BY <4>2, HolderInRows DEF ClaimInv, OneClaimPerTask
        <5>2. {d \in claims' : d.task = u} = {d \in claims : d.task = u}
          BY <3>1, <3>5, <5>1, <2>2
        <5>3. HolderIn(claims', u) = HolderIn(claims, u)
          BY <5>2, HolderOfOwnRows DEF ClaimInv, OneClaimPerTask
        <5>4. QED
          BY <4>2, <5>3
      <4>3. QED
        BY <4>1, <4>2
    <3>6. Fenced!TakeOver(s, x, t)
      BY <2>3, <2>5, <3>2, <3>4, <3>5 DEF Fenced!TakeOver
    <3>7. QED
      BY <3>6 DEF Fenced!LeaseNext
  <2>8. QED
    BY <2>1, <2>6, <2>7
<1>8. CASE Tick
  BY <1>8, AbstractStutter DEF Tick, agentVars, taskVars
<1>9. QED
  BY <1>3, <1>4, <1>5, <1>6, <1>7, <1>8 DEF Next

\* Whatever the clients do, tasks are handed around as the abstract lease
\* allows: one holder each, taken only when free or from a session fenced in
\* the same transaction, and never by a session that was fenced.
THEOREM ImplementsLease == Spec => ImplementsFencedLease
<1>1. Init => Fenced!LeaseInit
  <2> SUFFICES ASSUME Init PROVE Fenced!LeaseInit
    OBVIOUS
  <2>1. \A t : HolderIn(claims, t) = NoSession
    BY HolderInRows DEF Init
  <2>2. QED
    BY <2>1 DEF Init, Fenced!LeaseInit
<1>2. ClaimInv /\ ClaimInv' /\ [Next]_vars => [Fenced!LeaseNext]_Fenced!leaseVars
  <2>1. UNCHANGED vars => UNCHANGED Fenced!leaseVars
    BY AbstractStutter DEF vars, agentVars, taskVars, Ended
  <2>2. QED
    BY <2>1, StepImplements
<1>3. QED
  BY <1>1, <1>2, ClaimInvariant, PTL DEF Spec, ImplementsFencedLease, Fenced!LeaseSpec
=============================================================================

------------------------ MODULE ClaimClients_proofs -------------------------
(***************************************************************************)
(* Theorems of ClaimClients: a client that names the revision it read      *)
(* overwrites nothing unseen, and a request sent again is not applied      *)
(* again.                                                                  *)
(***************************************************************************)
EXTENDS ClaimClients, TaskClaims_proofs

\* What the proofs know of the core: its invariants.
CoreInv == ClaimInv /\ AbsentAtZero /\ RowsHaveRevision

\* What a followed client knows: its revision is not in the future, and while
\* it is the present one the task is as it was shown and nothing was applied.
KnowsTask(q) ==
  /\ revision[q.task] >= q.rev
  /\ revision[q.task] = q.rev => Shown(q.task) = q.shown /\ q.applied = 0

ClientInv == CallOK /\ AppliedOnce /\ \A s \in Followed : KnowsTask(call[s])

\* What a client that had no answer to its claim of a free task relies on: the
\* task moved on once, and as long as it did not again the claim's row is there.
ClaimStands(s, q) ==
  q.kind = "claim" /\ q.applied = 1 /\ q.shown.status # "in_progress" =>
    /\ q.after <= revision[q.task]
    /\ revision[q.task] = q.after => IsReplay(owner[s], s, q.task, q.rev)

ReplayInv == \A s \in Followed : ClaimStands(s, call[s])

\* A request is a record of its parts.
LEMMA RequestParts ==
  ASSUME CallOK, NEW s \in Followed
  PROVE  /\ s \in Clients /\ s \in Sessions
         /\ call[s] \in Requests
         /\ call[s].task \in Tasks /\ call[s].rev \in Revisions
         /\ call[s].applied \in Nat
  BY ClientsAssumption DEF CallOK, Followed, Requests

\* A write commits only at the revision it names, as a step of the core, and
\* takes the task past it.
LEMMA WriteMoves ==
  ASSUME CoreInv, CallOK, NEW s \in Followed, Write(s, call[s])
  PROVE  /\ Next
         /\ revision[call[s].task] = call[s].rev
         /\ revision'[call[s].task] > call[s].rev
<1>1. PICK t \in Tasks, r \in Revisions : t = call[s].task /\ r = call[s].rev
  BY RequestParts
<1>2. TypeOK /\ r \in Nat /\ s \in Sessions
  BY RequestParts DEF CoreInv, ClaimInv, Revisions
<1>3. ASSUME UpdateTask(owner[s], s, t, r)
      PROVE  Next /\ revision[t] = r /\ revision'[t] > r
  <2>1. owner[s] \in Agents
    BY <1>2, <1>3, NullAssumption DEF UpdateTask, Accountable, ActiveSession, CoreInv, ClaimInv,
       CoordinationInvariants, ActiveSessionsHaveActiveAgents
  <2>2. Next
    BY <1>2, <1>3, <2>1 DEF Next, TaskStep, MaybeSession
  <2>3. QED
    BY <1>2, <1>3, <2>2 DEF UpdateTask, AtRevision, Bumped
<1>4. ASSUME ClaimTask(owner[s], s, t, r)
      PROVE  Next /\ revision[t] = r /\ revision'[t] > r
  <2>1. owner[s] \in Agents
    BY <1>2, <1>4 DEF ClaimTask, ClaimFree, ClaimExpired, ActiveSession, CoreInv, ClaimInv,
       CoordinationInvariants, ActiveSessionsHaveActiveAgents
  <2>2. Next
    BY <1>2, <1>4, <2>1 DEF Next, ClaimStep
  <2>3. revision[t] = r
    BY <1>4 DEF ClaimTask, ClaimFree, ClaimExpired, AtRevision
  <2>4. CASE ClaimFree(owner[s], s, t, r)
    BY <2>2, <2>3, <2>4, <1>2 DEF ClaimFree, Bumped
  <2>5. CASE ClaimExpired(owner[s], s, t, r)
    <3>1. PICK x \in Sessions : revision' = [Bumped(ClaimedBy({x})) EXCEPT ![t] = @ + 1]
      BY <2>5 DEF ClaimExpired
    <3> DEFINE next == Bumped(ClaimedBy({x}))
    <3>2. next \in [Tasks -> Nat] /\ next[t] >= r
      BY <1>2, <2>3, BoundAssumption DEF Bumped, TypeOK
    <3>3. revision' = [next EXCEPT ![t] = @ + 1]
      BY <3>1
    <3> HIDE DEF next
    <3>4. revision'[t] = next[t] + 1
      BY <3>2, <3>3
    <3>5. next[t] \in Nat
      BY <3>2
    <3>6. QED
      BY <2>2, <2>3, <3>2, <3>4, <3>5, <1>2
  <2>6. QED
    BY <1>4, <2>4, <2>5 DEF ClaimTask
<1>5. QED
  BY <1>1, <1>3, <1>4 DEF Write

\* What a client knows of its task survives every step of the core.
LEMMA KnowledgeKept ==
  ASSUME CoreInv, CoreInv', Next, NEW q \in Requests, KnowsTask(q)
  PROVE  /\ revision'[q.task] >= q.rev
         /\ revision'[q.task] = q.rev => Shown(q.task)' = q.shown /\ q.applied = 0
<1>1. q.task \in Tasks /\ q.rev \in Nat
  BY DEF Requests, Revisions
<1>2. revision[q.task] \in Nat /\ revision'[q.task] \in Nat
  BY <1>1, BoundAssumption DEF CoreInv, ClaimInv, TypeOK
<1>3. CASE Advances(q.task)
  BY <1>1, <1>2, <1>3 DEF KnowsTask, Advances
<1>4. CASE SameTask(q.task)
  <2>1. Shown(q.task)' = Shown(q.task)
    BY <1>4 DEF SameTask, Shown
  <2>2. QED
    BY <1>4, <2>1 DEF KnowsTask, SameTask
<1>5. QED
  BY <1>1, <1>3, <1>4, StepAdvances DEF CoreInv

\* The core keeps its invariants, whoever takes the step.
LEMMA CoreKept ==
  ASSUME CoreInv, [Next]_vars
  PROVE  CoreInv'
<1>1. TypeOK'
  BY TypeKept DEF CoreInv, ClaimInv
<1>2. ClaimInv'
  BY <1>1, InvariantKept DEF CoreInv
<1>3. QED
  BY <1>2, AbsentKept, PresentKept DEF CoreInv

\* A client's step is a step of the core, or none.
LEMMA ClientStep ==
  ASSUME CoreInv, CallOK, [ClientsNext]_clientVars
  PROVE  [Next]_vars
<1>1. ASSUME NEW s \in Clients, Submit(s)
      PROVE  Next
  BY <1>1, WriteMoves DEF Submit, Followed
<1>2. QED
  BY <1>1 DEF ClientsNext, Look, Done, clientVars

\* What the clients know stays true.
LEMMA ClientKept ==
  ASSUME CoreInv, CoreInv', ClientInv, [ClientsNext]_clientVars
  PROVE  ClientInv'
<1> USE DEF ClientInv
<1>1. ASSUME NEW s \in Clients, NEW t \in Tasks, NEW kind \in Kinds, Look(s, t, kind)
      PROVE  ClientInv'
  <2> DEFINE q == [kind |-> kind, task |-> t, rev |-> revision[t], shown |-> Shown(t),
                   applied |-> 0, after |-> 0]
  <2>1. q \in Requests
    <3>1. Shown(t) \in Showns
      BY <1>1 DEF Look, Shown, Showns, ClaimsOn, CoreInv, ClaimInv, TypeOK
    <3>2. revision[t] \in Revisions
      BY <1>1, BoundAssumption DEF Look, Revisions, CoreInv, RowsHaveRevision, ClaimInv, TypeOK
    <3>3. QED
      BY <3>1, <3>2 DEF Requests
  <2>2. call' = [call EXCEPT ![s] = q] /\ UNCHANGED vars
    BY <1>1 DEF Look
  <2>3. revision[t] \in Nat
    BY BoundAssumption DEF CoreInv, ClaimInv, TypeOK
  <2>4. q.task = t /\ q.rev = revision[t] /\ q.shown = Shown(t) /\ q.applied = 0
    OBVIOUS
  <2> HIDE DEF q
  <2>5. CallOK'
    BY <2>1, <2>2 DEF CallOK
  <2>6. call'[s] = q /\ \A u \in Clients \ {s} : call'[u] = call[u]
    BY <2>2 DEF CallOK
  <2>7. \A u : Shown(u)' = Shown(u)
    BY <2>2 DEF Shown, ClaimsOn, vars, taskVars
  <2>8. revision' = revision
    BY <2>2 DEF vars, taskVars
  <2>9. AppliedOnce'
    BY <2>4, <2>6 DEF AppliedOnce, Followed
  <2>10. \A u \in Followed' : KnowsTask(call[u])'
    BY <2>3, <2>4, <2>6, <2>7, <2>8 DEF KnowsTask, Followed
  <2>11. QED
    BY <2>5, <2>9, <2>10
<1>2. ASSUME NEW s \in Clients, Submit(s)
      PROVE  ClientInv'
  <2>1. s \in Followed /\ Write(s, call[s])
    BY <1>2 DEF Submit, Followed
  <2>2. Next /\ revision[call[s].task] = call[s].rev /\ revision'[call[s].task] > call[s].rev
    BY <2>1, WriteMoves
  <2>3. call[s] \in Requests /\ call[s].applied = 0
    BY <2>1, <2>2, RequestParts DEF KnowsTask
  <2>4. revision'[call[s].task] \in Nat
    BY <2>1, RequestParts, BoundAssumption DEF CoreInv, ClaimInv, TypeOK
  <2> DEFINE q == [call[s] EXCEPT !.applied = 1, !.after = revision'[call[s].task]]
  <2>5. call' = [call EXCEPT ![s] = q]
    BY <1>2, <2>3 DEF Submit
  <2>6. q \in Requests /\ q.task = call[s].task /\ q.rev = call[s].rev /\ q.applied = 1
    BY <2>3, <2>4 DEF Requests
  <2> HIDE DEF q
  <2>7. CallOK'
    BY <2>5, <2>6 DEF CallOK
  <2>8. call'[s] = q /\ \A u \in Clients \ {s} : call'[u] = call[u]
    BY <2>5, <1>2 DEF CallOK
  <2>9. AppliedOnce'
    BY <2>6, <2>8 DEF AppliedOnce, Followed
  <2>10. KnowsTask(call[s])'
    <3>1. call[s].rev \in Nat
      BY <2>1, RequestParts DEF Revisions
    <3>2. QED
      BY <2>2, <2>4, <2>6, <2>8, <3>1 DEF KnowsTask
  <2>11. ASSUME NEW u \in Followed', u # s
         PROVE  KnowsTask(call[u])'
    <3>1. u \in Followed /\ call'[u] = call[u]
      BY <2>8, <2>11 DEF Followed
    <3>2. PICK q0 \in Requests : q0 = call[u]
      BY <3>1, RequestParts
    <3>3. KnowsTask(q0)
      BY <3>1, <3>2
    <3>4. KnowsTask(q0)'
      BY <2>2, <3>3, KnowledgeKept DEF KnowsTask
    <3>5. QED
      BY <3>1, <3>2, <3>4
  <2>12. QED
    BY <2>7, <2>9, <2>10, <2>11
<1>3. ASSUME NEW s \in Clients, Done(s)
      PROVE  ClientInv'
  <2>1. call' = [call EXCEPT ![s] = Idle] /\ UNCHANGED vars
    BY <1>3 DEF Done
  <2>2. CallOK'
    BY <2>1 DEF CallOK
  <2>3. \A u \in Followed' : u \in Followed /\ call'[u] = call[u]
    BY <2>1 DEF Followed, CallOK
  <2>4. (\A u : Shown(u)' = Shown(u)) /\ revision' = revision
    BY <2>1 DEF Shown, ClaimsOn, vars, taskVars
  <2>5. AppliedOnce'
    BY <2>3 DEF AppliedOnce
  <2>6. \A u \in Followed' : KnowsTask(call[u])'
    BY <2>3, <2>4 DEF KnowsTask
  <2>7. QED
    BY <2>2, <2>5, <2>6
<1>4. CASE Next /\ UNCHANGED call
  <2>1. CallOK' /\ AppliedOnce' /\ Followed' = Followed
    BY <1>4 DEF CallOK, AppliedOnce, Followed
  <2>2. ASSUME NEW u \in Followed
        PROVE  KnowsTask(call[u])'
    <3>1. PICK q \in Requests : q = call[u]
      BY RequestParts
    <3>2. KnowsTask(q)
      BY <3>1
    <3>3. KnowsTask(q)'
      BY <1>4, <3>2, KnowledgeKept DEF KnowsTask
    <3>4. QED
      BY <1>4, <3>1, <3>3
  <2>3. QED
    BY <2>1, <2>2
<1>5. CASE UNCHANGED clientVars
  <2>1. UNCHANGED <<revision, call>> /\ \A u : Shown(u)' = Shown(u)
    BY <1>5 DEF clientVars, vars, taskVars, Shown, ClaimsOn
  <2>2. QED
    BY <2>1 DEF CallOK, AppliedOnce, Followed, KnowsTask
<1>6. QED
  BY <1>1, <1>2, <1>3, <1>4, <1>5 DEF ClientsNext

\* The invariants of the core and of its clients hold together.
THEOREM ClientsInvariant == ClientsSpec => [](CoreInv /\ ClientInv)
<1>1. ClientsInit => CoreInv /\ ClientInv
  <2> SUFFICES ASSUME ClientsInit PROVE CoreInv /\ ClientInv
    OBVIOUS
  <2>1. CoreInv
    BY InitialInvariant DEF ClientsInit, CoreInv, Init, AbsentAtZero, RowsHaveRevision
  <2>2. ClientInv
    BY DEF ClientsInit, ClientInv, CallOK, AppliedOnce, Followed
  <2>3. QED
    BY <2>1, <2>2
<1>2. CoreInv /\ ClientInv /\ [ClientsNext]_clientVars => (CoreInv /\ ClientInv)'
  <2>1. CoreInv /\ ClientInv /\ [ClientsNext]_clientVars => CoreInv'
    BY ClientStep, CoreKept DEF ClientInv
  <2>2. QED
    BY <2>1, ClientKept
<1>3. QED
  BY <1>1, <1>2, PTL DEF ClientsSpec

\* Whatever the followed clients do, the core sees only its own steps.
THEOREM ClientsRefineClaims == ClientsSpec => Spec
<1>1. ClientsInit => Init
  BY DEF ClientsInit
<1>2. CoreInv /\ ClientInv /\ [ClientsNext]_clientVars => [Next]_vars
  BY ClientStep DEF ClientInv
<1>3. QED
  BY <1>1, <1>2, ClientsInvariant, PTL DEF ClientsSpec, Spec

\* However often a request is sent, it is applied once.
THEOREM RequestsApplyOnce == ClientsSpec => []AppliedOnce
  BY ClientsInvariant, PTL DEF ClientInv

\* A request commits only against the task exactly as its client was shown it.
THEOREM UpdatesAreNotLost == ClientsSpec => NoLostUpdate
<1>1. CoreInv /\ ClientInv /\ [ClientsNext]_clientVars
        => [\A s \in Followed : Overwrites(s) => Shown(call[s].task) = call[s].shown]_clientVars
  <2> SUFFICES ASSUME CoreInv, ClientInv, ClientsNext, NEW s \in Followed, Overwrites(s)
               PROVE  Shown(call[s].task) = call[s].shown
    OBVIOUS
  <2>1. CallOK /\ call[s].applied \in Nat /\ s \in Clients
    BY RequestParts DEF ClientInv
  <2>2. call' # call
    BY <2>1 DEF Overwrites
  <2>3. PICK u \in Clients : (\E t \in Tasks, kind \in Kinds : Look(u, t, kind)) \/ Submit(u) \/ Done(u)
    BY <2>2 DEF ClientsNext
  <2>4. \A v \in Clients \ {u} : call'[v] = call[v]
    BY <2>1, <2>3 DEF Look, Submit, Done, CallOK
  <2>5. u = s
    BY <2>1, <2>4 DEF Overwrites
  <2>6. Submit(s)
    BY <2>1, <2>3, <2>5 DEF Look, Done, Overwrites, Followed, CallOK
  <2>7. revision[call[s].task] = call[s].rev
    BY <2>1, <2>6, WriteMoves DEF Submit
  <2>8. QED
    BY <2>7 DEF ClientInv, KnowsTask
<1>2. QED
  BY <1>1, ClientsInvariant, PTL DEF ClientsSpec, NoLostUpdate

-----------------------------------------------------------------------------
\* A claim sent again.

\* A claim of a task that was free commits as a free claim: its row is there and
\* the task is one revision on.
LEMMA FreeClaimStands ==
  ASSUME CoreInv, CoreInv', ClientInv, NEW s \in Followed, Submit(s)
  PROVE  ClaimStands(s, call[s])'
<1>1. Write(s, call[s]) /\ CallOK /\ s \in Clients /\ s \in Sessions
  BY RequestParts DEF Submit, ClientInv
<1>2. call[s] \in Requests /\ call[s].task \in Tasks /\ call[s].rev \in Nat
  BY <1>1, RequestParts DEF Revisions
<1>3. Next /\ revision[call[s].task] = call[s].rev
  BY <1>1, WriteMoves
<1>4. Shown(call[s].task) = call[s].shown
  BY <1>3 DEF ClientInv, KnowsTask
<1>5. /\ call'[s] = [call[s] EXCEPT !.applied = call[s].applied + 1,
                                   !.after = revision'[call[s].task]]
  BY <1>1 DEF Submit, CallOK
<1>6. PICK q : /\ q = call'[s] /\ q.kind = call[s].kind /\ q.task = call[s].task
               /\ q.rev = call[s].rev /\ q.shown = call[s].shown
               /\ q.after = revision'[call[s].task]
  BY <1>2, <1>5 DEF Requests
<1>7. SUFFICES ASSUME call[s].kind = "claim", call[s].shown.status # "in_progress"
               PROVE  /\ q.after <= revision'[q.task]
                      /\ IsReplay(owner[s], s, q.task, q.rev)'
  BY <1>6 DEF ClaimStands
<1>8. status[call[s].task] # "in_progress"
  BY <1>4, <1>7 DEF Shown
<1>9. ClaimFree(owner[s], s, call[s].task, call[s].rev)
  BY <1>1, <1>7, <1>8 DEF Write, ClaimTask, ClaimExpired
<1>10. TypeOK /\ TypeOK'
  BY DEF CoreInv, ClaimInv
<1>11. revision'[call[s].task] = call[s].rev + 1 /\ status'[call[s].task] = "in_progress"
  BY <1>2, <1>3, <1>9, <1>10 DEF ClaimFree, Bumped, TypeOK
<1>12. NewClaim(owner[s], s, call[s].task) \in claims' /\ owner' = owner
  BY <1>9 DEF ClaimFree, Audited, agentVars
<1>13. ActiveSession(s, owner[s])'
  BY <1>1, <1>12 DEF CoreInv, ClaimInv, CoordinationInvariants, ClaimsAreLive, NewClaim,
     ActiveSession, ActiveSessions
<1>14. q.after <= revision'[q.task]
  BY <1>2, <1>6, <1>11
<1>15. QED
  BY <1>6, <1>11, <1>12, <1>13, <1>14 DEF IsReplay, NewClaim

\* What a claim left behind stands through every step of the core that does not
\* move the task on: its row keeps its session active and its own.
LEMMA ClaimStandsOn ==
  ASSUME CoreInv, CoreInv', Next, NEW s \in Sessions, NEW q \in Requests, ClaimStands(s, q)
  PROVE  ClaimStands(s, q)'
<1>1. q.task \in Tasks /\ q.after \in Nat
  BY DEF Requests
<1>2. revision[q.task] \in Nat /\ revision'[q.task] \in Nat
  BY <1>1, BoundAssumption DEF CoreInv, ClaimInv, TypeOK
<1>3. SUFFICES ASSUME q.kind = "claim", q.applied = 1, q.shown.status # "in_progress"
               PROVE  /\ q.after <= revision'[q.task]
                      /\ revision'[q.task] = q.after => IsReplay(owner[s], s, q.task, q.rev)'
  BY DEF ClaimStands
<1>4. /\ q.after <= revision[q.task]
      /\ revision[q.task] = q.after => IsReplay(owner[s], s, q.task, q.rev)
  BY <1>3 DEF ClaimStands
<1>5. CASE Advances(q.task)
  BY <1>1, <1>2, <1>4, <1>5 DEF Advances
<1>6. CASE SameTask(q.task)
  <2>1. revision'[q.task] = revision[q.task] /\ status'[q.task] = status[q.task]
    BY <1>6 DEF SameTask
  <2>2. SUFFICES ASSUME IsReplay(owner[s], s, q.task, q.rev)
                 PROVE  IsReplay(owner[s], s, q.task, q.rev)'
    BY <1>4, <2>1
  <2>3. NewClaim(owner[s], s, q.task) \in claims'
    BY <1>6, <2>2 DEF IsReplay, SameTask, ClaimsOn, NewClaim
  <2>4. ActiveSession(s, owner[s])' /\ owner'[s] = owner[s]
    BY <2>3 DEF CoreInv, ClaimInv, CoordinationInvariants, ClaimsAreLive, NewClaim,
       ActiveSession, ActiveSessions
  <2>5. QED
    BY <2>1, <2>2, <2>3, <2>4 DEF IsReplay, NewClaim
<1>7. QED
  BY <1>1, <1>5, <1>6, StepAdvances DEF CoreInv

\* Nothing the core and the clients do takes away what a claim left behind.
LEMMA ReplayKept ==
  ASSUME CoreInv, CoreInv', ClientInv, ClientInv', ReplayInv, [ClientsNext]_clientVars
  PROVE  ReplayInv'
<1> SUFFICES ASSUME NEW s \in Followed'
             PROVE  ClaimStands(s, call[s])'
  BY DEF ReplayInv
<1>1. s \in Clients /\ s \in Sessions
  BY ClientsAssumption DEF Followed
<1>2. ASSUME s \in Followed, call'[s] = call[s], [Next]_vars
      PROVE  ClaimStands(s, call[s])'
  <2>1. PICK q \in Requests : q = call[s]
    BY <1>2, RequestParts DEF ClientInv
  <2>2. ClaimStands(s, q)
    BY <1>2, <2>1 DEF ReplayInv
  <2>3. CASE Next
    BY <1>1, <1>2, <2>1, <2>2, <2>3, ClaimStandsOn
  <2>4. CASE UNCHANGED vars
    BY <1>2, <2>1, <2>2, <2>4 DEF ClaimStands, IsReplay, ActiveSession, ActiveSessions,
       NewClaim, vars, agentVars, taskVars
  <2>5. QED
    BY <1>2, <2>3, <2>4
<1>3. ASSUME s \notin Followed \/ call'[s] # call[s]
      PROVE  ClaimStands(s, call[s])'
  <2>1. PICK u \in Clients : (\E t \in Tasks, kind \in Kinds : Look(u, t, kind)) \/ Submit(u) \/ Done(u)
    BY <1>1, <1>3 DEF ClientsNext, clientVars, Followed
  <2>2. u = s
    BY <1>1, <1>3, <2>1 DEF Look, Submit, Done, Followed, ClientInv, CallOK
  <2>3. CASE \E t \in Tasks, kind \in Kinds : Look(s, t, kind)
    <3>1. call'[s].applied = 0
      BY <1>1, <2>3 DEF Look, ClientInv, CallOK
    <3>2. QED
      BY <3>1 DEF ClaimStands
  <2>4. CASE Submit(s)
    BY <1>1, <2>4, FreeClaimStands DEF Submit, Followed
  <2>5. CASE Done(s)
    BY <1>1, <2>5 DEF Done, Followed, ClientInv, CallOK
  <2>6. QED
    BY <2>1, <2>2, <2>3, <2>4, <2>5
<1>4. [Next]_vars
  BY ClientStep DEF ClientInv
<1>5. QED
  BY <1>2, <1>3, <1>4

\* _tasks_claim.py's idempotent replay: whoever gets no answer to the claim of a
\* free task, however often it was sent and whatever else was done meanwhile, may
\* send it again and is told it holds the task, until the task moves on.
THEOREM ClaimsReplay == ClientsSpec => []PlainClaimReplays
<1>1. ClientsInit => ReplayInv
  BY DEF ClientsInit, ReplayInv, Followed
<1>2. CoreInv /\ ClientInv /\ (CoreInv /\ ClientInv)' /\ ReplayInv /\ [ClientsNext]_clientVars
        => ReplayInv'
  BY ReplayKept
<1>3. ReplayInv => PlainClaimReplays
  BY DEF ReplayInv, ClaimStands, PlainClaimReplays, Unanswered
<1>4. QED
  BY <1>1, <1>2, <1>3, ClientsInvariant, PTL DEF ClientsSpec
=============================================================================

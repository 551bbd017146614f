----------------------------- MODULE TaskClaims -----------------------------
(***************************************************************************)
(* The core of the coordination database: agents, their sessions, tasks    *)
(* and the exclusive claims sessions hold on tasks.                        *)
(*                                                                         *)
(* Every mutation of the program is one BEGIN IMMEDIATE transaction that   *)
(* reads, decides, writes and appends its audit row before the commit, and *)
(* rolls everything back when any of its checks fails.  Committed          *)
(* mutations are therefore serial: each is one action below, and an        *)
(* operation that fails is no step at all.  What interleaves is the        *)
(* clients: between a client's read and its write any number of other      *)
(* clients' transactions may commit.                                       *)
(*                                                                         *)
(* Time is kept as silence[s], the whole seconds between the stored        *)
(* last_seen_at of session s and now.  All that any mutation asks of       *)
(* last_seen_at is whether it is at or before now - N, that is, whether    *)
(* silence[s] >= N.  It is not tracked for sessions that are not active,   *)
(* whose last_seen_at no mutation reads.                                   *)
(***************************************************************************)
EXTENDS Naturals, FiniteSets

CONSTANTS
  Agents,           \* agent identifiers
  Sessions,         \* session identifiers (an identifier is used once)
  Tasks,            \* task identifiers
  NoAgent,          \* "no owner": the session does not exist
  NoSession,        \* the caller passed no --session
  Lease,            \* SESSION_LEASE_SECONDS
  StaleThresholds,  \* the --stale-after-seconds values callers pass
  SweepLimits,      \* the --limit values callers pass to session sweep
  MaxSilence,       \* bound: silence saturates here
  MaxRevision       \* bound: no write takes a task past this revision

ASSUME NullAssumption == NoAgent \notin Agents /\ NoSession \notin Sessions

ASSUME TimeAssumption ==
  /\ Lease \in Nat /\ MaxSilence \in Nat /\ Lease <= MaxSilence
  /\ StaleThresholds \subseteq 1 .. MaxSilence

ASSUME BoundAssumption == MaxRevision \in Nat /\ SweepLimits \subseteq Nat \ {0}

VARIABLES
  agentStatus,    \* agents.status, or "absent" when there is no row
  owner,          \* agent_sessions.agent_id
  sessionStatus,  \* agent_sessions.status, or "absent"
  silence,        \* whole seconds since agent_sessions.last_seen_at
  status,         \* tasks.status, or "absent"
  revision,       \* tasks.revision, 0 when there is no row
  assignees,      \* task_assignees
  evidenced,      \* the tasks with at least one task_evidence row
  claims,         \* the rows of task_claims
  newest          \* actor and session of the newest audit_log row

agentVars == <<agentStatus, owner, sessionStatus>>
taskVars == <<status, revision, assignees, evidenced, claims>>
vars == <<agentVars, silence, taskVars, newest>>

-----------------------------------------------------------------------------
\* The tables' contents.

Statuses == {"todo", "in_progress", "review", "blocked", "done"}

Claimable == {"todo", "review", "blocked"}

\* STATUS_TRANSITIONS
Transitions ==
  [todo |-> {"in_progress", "blocked"},
   in_progress |-> {"todo", "review", "blocked"},
   review |-> {"in_progress", "blocked", "done"},
   blocked |-> {"todo", "in_progress"},
   done |-> {}]

ClaimRow == [task : Tasks, agent : Agents, session : Sessions]

MaybeSession == Sessions \cup {NoSession}

Registered == {a \in Agents : agentStatus[a] # "absent"}

ActiveSessions == {s \in Sessions : sessionStatus[s] = "active"}

ClaimsOn(t) == {c \in claims : c.task = t}

\* Mutant of ClaimedBy: one row is fetched where there may be several.
ClaimedByFetchOne(D) ==
  LET T == {t \in Tasks : \E c \in ClaimsOn(t) : c.session \in D}
  IN  IF T = {} THEN {} ELSE {CHOOSE t \in T : TRUE}

\* The tasks claimed by a session of the set D.
ClaimedBy(D) == {t \in Tasks : \E c \in ClaimsOn(t) : c.session \in D}

TypeOK ==
  /\ agentStatus \in [Agents -> {"absent", "active", "inactive"}]
  /\ owner \in [Sessions -> Agents \cup {NoAgent}]
  /\ sessionStatus \in [Sessions -> {"absent", "active", "ended"}]
  /\ silence \in [Sessions -> 0 .. MaxSilence]
  /\ status \in [Tasks -> Statuses \cup {"absent"}]
  /\ revision \in [Tasks -> 0 .. MaxRevision]
  /\ assignees \in [Tasks -> SUBSET Agents]
  /\ evidenced \subseteq Tasks
  /\ claims \subseteq ClaimRow
  /\ newest \in [actor : Agents \cup {NoAgent}, session : MaybeSession]

Init ==
  /\ agentStatus = [a \in Agents |-> "absent"]
  /\ owner = [s \in Sessions |-> NoAgent]
  /\ sessionStatus = [s \in Sessions |-> "absent"]
  /\ silence = [s \in Sessions |-> 0]
  /\ status = [t \in Tasks |-> "absent"]
  /\ revision = [t \in Tasks |-> 0]
  /\ assignees = [t \in Tasks |-> {}]
  /\ evidenced = {}
  /\ claims = {}
  /\ newest = [actor |-> NoAgent, session |-> NoSession]

-----------------------------------------------------------------------------
\* Checks and effects the operations share.

ActiveActor(a) == agentStatus[a] = "active"

\* Mutant of ActiveSession: the session's owner is not compared.
ActiveSessionOfAnyone(s, a) == s \in ActiveSessions /\ agentStatus[a] = "active"

\* require_active_session
ActiveSession(s, a) ==
  /\ s \in ActiveSessions
  /\ owner[s] = a
  /\ agentStatus[a] = "active"

\* The session is optional for most mutations, and checked when it is given.
Accountable(a, s) ==
  /\ ActiveActor(a)
  /\ s # NoSession => ActiveSession(s, a)

\* audit(): the audit row names the actor and the session, and a named
\* session has just been seen.
Row(a, s) == [actor |-> a, session |-> s]

Seen(s) == [x \in Sessions |-> IF x = s THEN 0 ELSE silence[x]]

Audited(a, s) == newest' = Row(a, s) /\ silence' = Seen(s)

\* Mutant of AtRevision: the UPDATE has lost its WHERE revision = ?.
AtAnyRevision(t, r) == status[t] # "absent"

\* The optimistic check every task write makes, twice: the row it read and
\* the WHERE clause of its UPDATE.
AtRevision(t, r) == status[t] # "absent" /\ revision[t] = r

\* Room left under the model's bound for k more writes of every task of T.
Room(T, k) == \A t \in T : revision[t] + k <= MaxRevision

\* Mutant of OwnsClaimIfAny: any session of the holder's agent will do.
OwnsClaimAsAgent(t, a, s) == \A c \in ClaimsOn(t) : c.agent = a

\* require_claim_ownership
OwnsClaimIfAny(t, a, s) == \A c \in ClaimsOn(t) : c.agent = a /\ c.session = s

\* Mutant of KeepsClaimOwner: the check is dropped.
KeepsNobody(t, remove) == TRUE

\* task assign never removes the agent that holds the task.
KeepsClaimOwner(t, remove) == \A c \in ClaimsOn(t) : c.agent \notin remove

\* Mutant of Bumped: the UPDATE does not set the next revision.
NotBumped(T) == revision

Bumped(T) == [t \in Tasks |-> IF t \in T THEN revision[t] + 1 ELSE revision[t]]

-----------------------------------------------------------------------------
\* Agents.

\* agent add: with no --actor the new agent is its own accountable actor.
AddAgent(a, by, s) ==
  /\ agentStatus[a] = "absent"
  /\ by # a => ActiveActor(by)
  /\ s # NoSession => ActiveSession(s, by)
  /\ agentStatus' = [agentStatus EXCEPT ![a] = "active"]
  /\ Audited(by, s)
  /\ UNCHANGED <<owner, sessionStatus, taskVars>>

\* agent update: new is the agent's status afterwards, its present one when
\* only the profile is edited.  The audit row is written before the UPDATE,
\* so an agent may deactivate itself.
UpdateAgent(a, new, by, s) ==
  /\ agentStatus[a] # "absent"
  /\ new = "inactive" => \A x \in ActiveSessions : owner[x] # a
  /\ Accountable(by, s)
  /\ agentStatus' = [agentStatus EXCEPT ![a] = new]
  /\ Audited(by, s)
  /\ UNCHANGED <<owner, sessionStatus, taskVars>>

-----------------------------------------------------------------------------
\* Sessions.

StartSession(a, s) ==
  /\ ActiveActor(a)
  /\ sessionStatus[s] = "absent"
  /\ owner' = [owner EXCEPT ![s] = a]
  /\ sessionStatus' = [sessionStatus EXCEPT ![s] = "active"]
  /\ Audited(a, s)
  /\ UNCHANGED <<agentStatus, taskVars>>

\* session heartbeat.  The audited writes of the entities this module leaves
\* out (messages, reviews, decisions, ...) do the same to these tables.
Heartbeat(s) ==
  /\ s \in ActiveSessions
  /\ Accountable(owner[s], s)
  /\ Audited(owner[s], s)
  /\ UNCHANGED <<agentVars, taskVars>>

EndSession(s) ==
  /\ s \in ActiveSessions
  /\ ClaimedBy({s}) = {}
  /\ Accountable(owner[s], s)
  /\ sessionStatus' = [sessionStatus EXCEPT ![s] = "ended"]
  /\ Audited(owner[s], s)
  /\ UNCHANGED <<agentStatus, owner, taskVars>>

\* Mutant of Reap: the claims go, the sessions stay active.
ReapAlive(D, a, s) ==
  /\ Accountable(a, s)
  /\ s \notin D
  /\ Audited(a, s)
  /\ UNCHANGED agentVars

\* recover_session_claims, for every session of D in one transaction: each
\* task they claim goes to blocked at its next revision, the claims are
\* deleted and the sessions end.  The operator's own session s is checked by
\* every audit row this writes, so it cannot be in D.
Reap(D, a, s) ==
  /\ Accountable(a, s)
  /\ s \notin D
  /\ sessionStatus' = [x \in Sessions |-> IF x \in D THEN "ended" ELSE sessionStatus[x]]
  /\ silence' = [x \in Sessions |-> IF x \in D THEN 0 ELSE Seen(s)[x]]
  /\ newest' = Row(a, s)
  /\ UNCHANGED <<agentStatus, owner>>

\* What the tasks become when nothing else happens to them in the transaction.
BlockClaimed(D) ==
  /\ \A t \in ClaimedBy(D) : status[t] = "in_progress"
  /\ Room(ClaimedBy(D), 1)
  /\ status' = [t \in Tasks |-> IF t \in ClaimedBy(D) THEN "blocked" ELSE status[t]]
  /\ revision' = Bumped(ClaimedBy(D))
  /\ claims' = {c \in claims : c.session \notin D}
  /\ UNCHANGED <<assignees, evidenced>>

\* session recover of x.  The cutoff is computed before the writer lock is
\* granted, from an earlier now: whatever the wait, x is silent for n at least.
Recover(a, s, x, forced, n) ==
  /\ x \in ActiveSessions
  /\ forced \/ silence[x] >= n
  /\ Reap({x}, a, s)
  /\ BlockClaimed({x})

\* Mutant of Candidates: a session with claims is taken to be at work.
IdleCandidates(s, n) == {x \in ActiveSessions \ {s} : silence[x] >= n /\ ClaimedBy({x}) = {}}

\* The sessions a sweep may reap: silent for n, never the operator's own.
Candidates(s, n) == {x \in ActiveSessions \ {s} : silence[x] >= n}

\* session sweep: the oldest candidates, as many as the limit lets through.
Sweep(a, s, n, limit) ==
  \E D \in SUBSET Candidates(s, n) :
    /\ D # {}
    /\ Cardinality(D) <= limit
    /\ Cardinality(D) = limit \/ D = Candidates(s, n)
    /\ \A x \in D, y \in Candidates(s, n) \ D : silence[x] >= silence[y]
    /\ Reap(D, a, s)
    /\ BlockClaimed(D)

-----------------------------------------------------------------------------
\* Tasks.

CreateTask(a, s, t, who) ==
  /\ Accountable(a, s)
  /\ status[t] = "absent"
  /\ who \subseteq Registered
  /\ Room({t}, 1)
  /\ status' = [status EXCEPT ![t] = "todo"]
  /\ revision' = [revision EXCEPT ![t] = 1]
  /\ assignees' = [assignees EXCEPT ![t] = who]
  /\ Audited(a, s)
  /\ UNCHANGED <<agentVars, evidenced, claims>>

\* task update: the content columns are not modelled, only that the row moves
\* to its next revision.
UpdateTask(a, s, t, r) ==
  /\ Accountable(a, s)
  /\ AtRevision(t, r)
  /\ OwnsClaimIfAny(t, a, s)
  /\ Room({t}, 1)
  /\ revision' = Bumped({t})
  /\ Audited(a, s)
  /\ UNCHANGED <<agentVars, status, assignees, evidenced, claims>>

\* task assign: the claim owner cannot be removed, nobody absent can be, and
\* the set must change.
AssignTask(a, s, t, r, add, remove) ==
  /\ add \cap remove = {}
  /\ Accountable(a, s)
  /\ AtRevision(t, r)
  /\ OwnsClaimIfAny(t, a, s)
  /\ add \subseteq Registered
  /\ KeepsClaimOwner(t, remove)
  /\ remove \subseteq assignees[t]
  /\ ~ (add \subseteq assignees[t] /\ remove = {})
  /\ Room({t}, 1)
  /\ assignees' = [assignees EXCEPT ![t] = (@ \cup add) \ remove]
  /\ revision' = Bumped({t})
  /\ Audited(a, s)
  /\ UNCHANGED <<agentVars, status, evidenced, claims>>

AddEvidence(a, s, t) ==
  /\ Accountable(a, s)
  /\ status[t] # "absent"
  /\ evidenced' = evidenced \cup {t}
  /\ Audited(a, s)
  /\ UNCHANGED <<agentVars, status, revision, assignees, claims>>

\* task status and task release (the same handler: release only adds that the
\* task must be in progress).  Leaving in_progress is the holder's alone and
\* drops the claim; a trigger refuses done without evidence.
SetStatus(a, s, t, r, new) ==
  /\ Accountable(a, s)
  /\ AtRevision(t, r)
  /\ new # "in_progress"
  /\ new \in Transitions[status[t]]
  /\ status[t] = "in_progress" =>
       ClaimsOn(t) # {} /\ OwnsClaimIfAny(t, a, s)
  /\ new = "done" => t \in evidenced
  /\ Room({t}, 1)
  /\ status' = [status EXCEPT ![t] = new]
  /\ revision' = Bumped({t})
  /\ claims' = IF status[t] = "in_progress" THEN claims \ ClaimsOn(t) ELSE claims
  /\ Audited(a, s)
  /\ UNCHANGED <<agentVars, assignees, evidenced>>

-----------------------------------------------------------------------------
\* Claims.

\* Mutant of NewClaim: the row is inserted without its session.
ClaimOfAgentAlone(a, s, t) == [task |-> t, agent |-> a, session |-> NoSession]

NewClaim(a, s, t) == [task |-> t, agent |-> a, session |-> s]

\* task claim of a task nobody works on.
ClaimFree(a, s, t, r) ==
  /\ ActiveSession(s, a)
  /\ AtRevision(t, r)
  /\ status[t] \in Claimable
  /\ ClaimsOn(t) = {}
  /\ Room({t}, 1)
  /\ claims' = claims \cup {NewClaim(a, s, t)}
  /\ status' = [status EXCEPT ![t] = "in_progress"]
  /\ revision' = Bumped({t})
  /\ assignees' = [assignees EXCEPT ![t] = @ \cup {a}]
  /\ Audited(a, s)
  /\ UNCHANGED <<agentVars, evidenced>>

\* Mutant of LeaseExpired: off by a second.
LeaseExpiredEarly(s) == silence[s] + 1 >= Lease

\* A holder is displaced once its last_seen_at is at or before now - Lease,
\* both read inside the transaction.
LeaseExpired(s) == silence[s] >= Lease

\* task claim of a task whose holder x has been silent for a lease: x is
\* reaped, with everything else it held, and the task goes straight from
\* blocked to the claimant, two revisions up.
ClaimExpired(a, s, t, r) ==
  /\ ActiveSession(s, a)
  /\ AtRevision(t, r)
  /\ status[t] = "in_progress"
  /\ \E x \in Sessions :
       /\ t \in ClaimedBy({x})
       /\ LeaseExpired(x)
       /\ \A u \in ClaimedBy({x}) : status[u] = "in_progress"
       /\ Room(ClaimedBy({x}), 1) /\ Room({t}, 2)
       /\ Reap({x}, a, s)
       /\ status' = [u \in Tasks |->
            IF u \in ClaimedBy({x}) \ {t} THEN "blocked" ELSE status[u]]
       /\ revision' = [Bumped(ClaimedBy({x})) EXCEPT ![t] = @ + 1]
       /\ claims' = {c \in claims : c.session # x} \cup {NewClaim(a, s, t)}
  /\ assignees' = [assignees EXCEPT ![t] = @ \cup {a}]
  /\ UNCHANGED evidenced

\* Mutant of IsReplay: the task is expected to be still at the revision named.
IsReplayBeforeCommit(a, s, t, r) ==
  /\ ActiveSession(s, a)
  /\ revision[t] = r
  /\ status[t] = "in_progress"
  /\ NewClaim(a, s, t) \in claims

\* A claim is answered as a replay, with no write at all, when the task is
\* already this session's at the revision its claim would have produced.
IsReplay(a, s, t, r) ==
  /\ ActiveSession(s, a)
  /\ revision[t] = r + 1
  /\ status[t] = "in_progress"
  /\ NewClaim(a, s, t) \in claims

ClaimTask(a, s, t, r) == ClaimFree(a, s, t, r) \/ ClaimExpired(a, s, t, r)

-----------------------------------------------------------------------------
\* One second passes: every active session has been silent for one more.
Tick ==
  /\ silence' = [s \in Sessions |->
       IF s \in ActiveSessions /\ silence[s] < MaxSilence
         THEN silence[s] + 1 ELSE silence[s]]
  /\ UNCHANGED <<agentVars, taskVars, newest>>

Revisions == 1 .. MaxRevision

AgentStep ==
  \E a, by \in Agents, s \in MaybeSession :
    \/ AddAgent(a, by, s)
    \/ \E new \in {"active", "inactive"} : UpdateAgent(a, new, by, s)

SessionStep ==
  \/ \E a \in Agents, s \in Sessions : StartSession(a, s)
  \/ \E s \in Sessions : Heartbeat(s)
  \/ \E s \in Sessions : EndSession(s)

ReapStep ==
  \E a \in Agents, s \in MaybeSession, n \in StaleThresholds :
    \/ \E x \in Sessions, forced \in BOOLEAN : Recover(a, s, x, forced, n)
    \/ \E limit \in SweepLimits : Sweep(a, s, n, limit)

TaskStep ==
  \E a \in Agents, s \in MaybeSession, t \in Tasks :
    \/ \E who \in SUBSET Agents : CreateTask(a, s, t, who)
    \/ AddEvidence(a, s, t)
    \/ \E r \in Revisions :
         \/ UpdateTask(a, s, t, r)
         \/ \E add, remove \in SUBSET Agents : AssignTask(a, s, t, r, add, remove)
         \/ \E new \in Statuses : SetStatus(a, s, t, r, new)

ClaimStep ==
  \E a \in Agents, s \in Sessions, t \in Tasks, r \in Revisions : ClaimTask(a, s, t, r)

Next == AgentStep \/ SessionStep \/ ReapStep \/ TaskStep \/ ClaimStep \/ Tick

Spec == Init /\ [][Next]_vars

\* Time passes, and somebody runs session sweep again and again.  A sweep is
\* the operator's scheduled job; any registered agent may run it.
SweepStep ==
  \E a \in Agents, n \in StaleThresholds, limit \in SweepLimits : Sweep(a, NoSession, n, limit)

FairSpec == Spec /\ WF_vars(Tick) /\ WF_vars(SweepStep)

-----------------------------------------------------------------------------
\* Invariants.

\* A claim is of a task in progress, by an active session of an active agent,
\* and is recorded under that session's agent.
ClaimsAreLive ==
  \A c \in claims :
    /\ status[c.task] = "in_progress"
    /\ sessionStatus[c.session] = "active"
    /\ owner[c.session] = c.agent
    /\ agentStatus[c.agent] = "active"

WorkIsClaimed == \A t \in Tasks : status[t] = "in_progress" => ClaimsOn(t) # {}

DoneHasEvidence == \A t \in Tasks : status[t] = "done" => t \in evidenced

ActiveSessionsHaveActiveAgents ==
  \A s \in ActiveSessions : owner[s] \in Agents /\ ActiveActor(owner[s])

\* What check_coordination_invariants, run by doctor, backup, restore and
\* migrate, looks for in the whole database.
CoordinationInvariants ==
  /\ ClaimsAreLive
  /\ WorkIsClaimed
  /\ DoneHasEvidence
  /\ ActiveSessionsHaveActiveAgents

\* Whoever holds a task is listed among its assignees, whatever assign and
\* claim do to the list in between.
ClaimantIsAssigned == \A c \in claims : c.agent \in assignees[c.task]

\* The audit log never pairs an actor with somebody else's session.
AuditNamesOwnSession ==
  newest.session # NoSession => owner[newest.session] = newest.actor

\* The inductive invariant behind the properties: beside them, task_claims is
\* keyed by the task, and the audit log names no session before it is started.
OneClaimPerTask == \A c, d \in claims : c.task = d.task => c = d

AuditNamesStartedSession ==
  newest.session # NoSession => sessionStatus[newest.session] # "absent"

\* Create starts a task at 1; before, it has no revision.
AbsentAtZero == \A t \in Tasks : status[t] = "absent" => revision[t] = 0

RowsHaveRevision == \A t \in Tasks : status[t] # "absent" => revision[t] > 0

ClaimInv ==
  /\ TypeOK
  /\ CoordinationInvariants
  /\ OneClaimPerTask
  /\ ClaimantIsAssigned
  /\ AuditNamesOwnSession
  /\ AuditNamesStartedSession

-----------------------------------------------------------------------------
\* Action properties.

\* A task's revision stands for its status, its assignees and its holder: any
\* committed change of one of them takes the task to a higher revision.  So a
\* write that names the revision its caller read overwrites nothing the
\* caller has not seen.
Advances(t) == revision'[t] > revision[t]

SameTask(t) ==
  /\ revision'[t] = revision[t]
  /\ status'[t] = status[t]
  /\ assignees'[t] = assignees[t]
  /\ ClaimsOn(t)' = ClaimsOn(t)

RevisionStandsForTask == [][\A t \in Tasks : Advances(t) \/ SameTask(t)]_vars

\* A claimed task is changed by its holder alone, or in the transaction that
\* ends the holder's session: the audit row of the change says which.
ChangedByHolder(c) ==
  revision'[c.task] # revision[c.task] =>
    \/ newest' = Row(c.agent, c.session)
    \/ sessionStatus'[c.session] = "ended"

OnlyHolderChangesTask == [][\A c \in claims : ChangedByHolder(c)]_vars

\* A task passes straight from one session to another only when the first has
\* been silent for a whole lease, and it ends there and then.
PassedOn(c, d) == c.task = d.task /\ c.session # d.session

Displaced(c) == silence[c.session] >= Lease /\ sessionStatus'[c.session] = "ended"

TakeoverOnlyAfterLease ==
  [][\A c \in claims : \A d \in claims' : PassedOn(c, d) => Displaced(c)]_vars

\* Claims implement a fenced lease: sessions hold tasks, and an ended session
\* is fenced.
HolderIn(rows, t) ==
  IF \E c \in rows : c.task = t
    THEN (CHOOSE c \in rows : c.task = t).session
    ELSE NoSession

Fenced ==
  INSTANCE FencedLease WITH
    Resources <- Tasks, Holders <- Sessions, Nobody <- NoSession,
    holder <- [t \in Tasks |-> HolderIn(claims, t)],
    fenced <- {s \in Sessions : sessionStatus[s] = "ended"}

ImplementsFencedLease == Fenced!LeaseSpec

-----------------------------------------------------------------------------
\* Liveness.

\* No session keeps a task by staying silent: whoever holds a task is heard
\* from again, or stops holding it.  (A task at the revision bound cannot be
\* taken away in the model, so it is left out.)
SilentHolderLosesTask ==
  \A t \in Tasks, s \in Sessions :
    (t \in ClaimedBy({s}) /\ Room(ClaimedBy({s}), 1))
      ~> (t \notin ClaimedBy({s}) \/ silence[s] = 0)
=============================================================================

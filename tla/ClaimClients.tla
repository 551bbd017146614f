---------------------------- MODULE ClaimClients ----------------------------
(***************************************************************************)
(* The clients of TaskClaims.  A client reads a task, and later sends a    *)
(* write that names the revision it read.  The reply may be lost, so the   *)
(* client may send the same request again.  Between any two of its steps   *)
(* other clients commit what they like.                                    *)
(***************************************************************************)
EXTENDS TaskClaims

CONSTANTS
  Clients,  \* the sessions whose client is followed
  Kinds,    \* the requests it sends, of "claim" and "update"
  Idle      \* no request

ASSUME ClientsAssumption ==
  /\ Clients \subseteq Sessions
  /\ Kinds \subseteq {"claim", "update"}

VARIABLE
  call  \* the request a client is at, with what it read before sending it

clientVars == <<vars, call>>

\* What task show returns of a task, besides its content columns.
Shown(t) == [status |-> status[t], assignees |-> assignees[t], holder |-> ClaimsOn(t)]

ClientsInit == Init /\ call = [s \in Clients |-> Idle]

\* Every call is idle or a request for a task at a revision it once had.
Showns == [status : Statuses, assignees : SUBSET Agents, holder : SUBSET ClaimRow]

Requests ==
  [kind : Kinds, task : Tasks, rev : Revisions, shown : Showns, applied : Nat, after : Nat]

CallOK == call \in [Clients -> {Idle} \cup Requests]

\* The client reads the task and decides on a request.
Look(s, t, kind) ==
  /\ call[s] = Idle
  /\ s \in ActiveSessions
  /\ status[t] # "absent"
  /\ call' = [call EXCEPT ![s] =
       [kind |-> kind, task |-> t, rev |-> revision[t], shown |-> Shown(t),
        applied |-> 0, after |-> 0]]
  /\ UNCHANGED vars

Write(s, q) ==
  \/ q.kind = "claim" /\ ClaimTask(owner[s], s, q.task, q.rev)
  \/ q.kind = "update" /\ UpdateTask(owner[s], s, q.task, q.rev)

\* The request commits, for the first time or again.  Whether the reply
\* arrives is up to what the client does next: Done, or Submit once more.
Submit(s) ==
  /\ call[s] # Idle
  /\ Write(s, call[s])
  /\ call' = [call EXCEPT ![s] =
       [call[s] EXCEPT !.applied = call[s].applied + 1, !.after = revision'[call[s].task]]]

\* The client has an answer, or gives up.
Done(s) ==
  /\ call[s] # Idle
  /\ call' = [call EXCEPT ![s] = Idle]
  /\ UNCHANGED vars

ClientsNext ==
  \/ \E s \in Clients, t \in Tasks, kind \in Kinds : Look(s, t, kind)
  \/ \E s \in Clients : Submit(s) \/ Done(s)
  \/ Next /\ UNCHANGED call

ClientsSpec == ClientsInit /\ [][ClientsNext]_clientVars

-----------------------------------------------------------------------------
\* The clients in the middle of a request.
Followed == {s \in Clients : call[s] # Idle}

\* A request commits only against the very task its client was shown: status,
\* assignees and holder are still those.  Nothing committed in between is
\* overwritten unseen.
Overwrites(s) == call'[s] # Idle /\ call'[s].applied > call[s].applied

NoLostUpdate ==
  [][\A s \in Followed : Overwrites(s) => Shown(call[s].task) = call[s].shown]_clientVars

\* However often it is sent, a request is applied once.
AppliedOnce == \A s \in Followed : call[s].applied <= 1

\* As long as nothing has happened to the task since a claim of a free task
\* committed, sending the claim again is answered as a replay.
Unanswered(s) ==
  call[s].kind = "claim" /\ call[s].applied = 1
    /\ revision[call[s].task] = call[s].after

PlainClaimReplays ==
  \A s \in Followed :
    (Unanswered(s) /\ call[s].shown.status # "in_progress") =>
      IsReplay(owner[s], s, call[s].task, call[s].rev)
=============================================================================

---------------------------- MODULE FencedLease -----------------------------
(***************************************************************************)
(* What task claims promise, without agents, revisions or clocks: every    *)
(* resource has at most one holder, a holder loses a resource only by      *)
(* releasing it or by being fenced, and whoever is fenced never holds      *)
(* anything again.  Fencing somebody and handing one of its resources to   *)
(* another holder may be one step, so that no third party gets in between. *)
(***************************************************************************)
CONSTANTS
  Resources,
  Holders,
  Nobody  \* not a holder

VARIABLES holder, fenced

leaseVars == <<holder, fenced>>

LeaseInit ==
  /\ holder = [r \in Resources |-> Nobody]
  /\ fenced = {}

Acquire(h, r) ==
  /\ h \notin fenced
  /\ holder[r] = Nobody
  /\ holder' = [holder EXCEPT ![r] = h]
  /\ UNCHANGED fenced

Release(r) ==
  /\ holder[r] # Nobody
  /\ holder' = [holder EXCEPT ![r] = Nobody]
  /\ UNCHANGED fenced

Fence(D) ==
  /\ D \cap fenced = {}
  /\ fenced' = fenced \cup D
  /\ holder' = [r \in Resources |-> IF holder[r] \in D THEN Nobody ELSE holder[r]]

TakeOver(h, x, r) ==
  /\ h \notin fenced /\ h # x
  /\ x \notin fenced
  /\ holder[r] = x
  /\ fenced' = fenced \cup {x}
  /\ holder' = [q \in Resources |->
       IF q = r THEN h ELSE IF holder[q] = x THEN Nobody ELSE holder[q]]

LeaseNext ==
  \/ \E h \in Holders, r \in Resources : Acquire(h, r)
  \/ \E r \in Resources : Release(r)
  \/ \E D \in SUBSET Holders : Fence(D)
  \/ \E h, x \in Holders, r \in Resources : TakeOver(h, x, r)

LeaseSpec == LeaseInit /\ [][LeaseNext]_leaseVars
=============================================================================

--------------------------- MODULE MCClaimClients ---------------------------
(***************************************************************************)
(* TLC instances of ClaimClients, from the later start of MCTaskClaims.    *)
(***************************************************************************)
EXTENDS ClaimClients, MCTaskClaims

\* The followed client's session is not interchangeable with the others.
ClientSymmetry == Permutations(Agents) \cup Permutations(Sessions \ Clients)

ReadyClientsSpec ==
  ReadyInit /\ call = [s \in Clients |-> Idle] /\ [][ClientsNext]_clientVars
=============================================================================

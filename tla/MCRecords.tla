------------------------------ MODULE MCRecords ------------------------------
(***************************************************************************)
(* TLC's instance of Records.                                              *)
(***************************************************************************)
EXTENDS Records, TLC

RecordsSymmetry ==
  Permutations(Artifacts) \cup Permutations(Statuses) \cup Permutations(Texts)
=============================================================================

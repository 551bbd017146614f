--------------------------- MODULE MCDatabaseFile ---------------------------
(***************************************************************************)
(* TLC instances of DatabaseFile.                                          *)
(***************************************************************************)
EXTENDS DatabaseFile, TLC

ClientSymmetry == Permutations(Clients)
=============================================================================

-------------------------- MODULE MCArgusdService --------------------------
(* Instances of ArgusdService for TLC. *)
EXTENDS ArgusdService, TLC

ClientSymmetry == Permutations(Clients)
=============================================================================

-------------------------- MODULE MC_HelperServer --------------------------
(* Instance of HelperServer for TLC: the constants are in the .cfg files.  *)
EXTENDS HelperServer, TLC

Symmetry == Permutations(Client)
=============================================================================

------------------------------ MODULE MC_Vault ------------------------------
(* Instance of Vault for TLC: the constants are in the .cfg files.         *)
EXTENDS Vault, TLC

Symmetry == Permutations(Profile) \cup Permutations(Server) \cup Permutations(Password)
=============================================================================

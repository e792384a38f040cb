----------------------------- MODULE MC_Storage -----------------------------
(* Storage on two entries and two machines. *)
EXTENDS Storage, TLC

StorageSymmetry == Permutations(Id) \cup Permutations(Host)
=============================================================================

------------------------------- MODULE MC_Peers -------------------------------
(* Peers on a few clients and fewer addresses than clients. *)
EXTENDS Peers, TLC

KeySymmetry == Permutations(Key)
=============================================================================

-------------------------------- MODULE MC_App --------------------------------
(* Instances of App for TLC. *)
EXTENDS App
=============================================================================

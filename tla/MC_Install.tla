------------------------------ MODULE MC_Install ------------------------------
(* Instances of ExitServer, that is of Install and Traffic, for TLC. *)
EXTENDS ExitServer
=============================================================================

---------------------------- MODULE MC_WinHelper ----------------------------
(* Instance of WinHelper for TLC: the constants are in the .cfg files.     *)
EXTENDS WinHelper
=============================================================================

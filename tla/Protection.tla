------------------------------ MODULE Protection ------------------------------
(***************************************************************************)
(* What the helper promises about the network of the machine, without      *)
(* threads, locks or files: there is a tunnel, or all traffic is blocked,  *)
(* or neither.  A tunnel with the kill switch becomes a block when the     *)
(* process dies, provided its record can be read, and only the user (a new *)
(* attempt, a disconnect, the stop of the service) lifts a block.          *)
(* HelperServer on macOS implements this.                                  *)
(***************************************************************************)
EXTENDS Naturals

CONSTANTS Kinds, NoConn   \* kinds of connections; no connection

VARIABLES
    tunnel,    \* NoConn, or the number and kind of the connection
    blocked,   \* nothing passes
    attempts,  \* Ups so far; the latest one has this number
    readable   \* the record of the tunnel is not half written

vars == <<tunnel, blocked, attempts, readable>>

Init == tunnel = NoConn /\ blocked = FALSE /\ attempts = 0 /\ readable = TRUE

Attempt == attempts' = attempts + 1 /\ UNCHANGED <<tunnel, blocked, readable>>

\* The record is being written again, or was written or removed.
Rewrite == readable' = ~readable /\ UNCHANGED <<tunnel, blocked, attempts>>

\* The latest attempt succeeds, from a machine with neither tunnel nor block.
Connect(kind) ==
    /\ tunnel = NoConn /\ ~blocked
    /\ tunnel' = [id |-> attempts, kind |-> kind] /\ readable' = TRUE
    /\ UNCHANGED <<blocked, attempts>>

Disconnect == tunnel' = NoConn /\ blocked' = FALSE /\ readable' = TRUE /\ UNCHANGED attempts

Die ==
    /\ tunnel' = NoConn /\ UNCHANGED <<attempts, readable>>
    /\ blocked' = (readable /\ (blocked \/ tunnel.kind = "kill"))

Next == Attempt \/ Rewrite \/ (\E kind \in Kinds : Connect(kind)) \/ Disconnect \/ Die

Spec == Init /\ [][Next]_vars
=============================================================================

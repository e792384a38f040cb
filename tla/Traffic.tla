------------------------------- MODULE Traffic -------------------------------
(***************************************************************************)
(* Traffic of one client: the interface counts from zero after every       *)
(* restart, refresh_traffic reads it now and then and accumulates a total, *)
(* and the state file keeps the total with the counter it was read from.   *)
(* One direction; rx and tx are counted alike.                             *)
(***************************************************************************)
EXTENDS Naturals

CONSTANT MaxSent   \* bound: units of traffic

ASSUME TrafficAssumption == MaxSent \in Nat

VARIABLES
    sent,      \* what really went through since the client was created
    counter,   \* the peer's counter in the interface
    total, raw,\* Client.traffic and Client.raw of the app
    disk,      \* the same two in state.json
    slipped    \* history: a restart lost what nobody had read, or went unnoticed

tvars == <<sent, counter, total, raw, disk, slipped>>

TrafficTypeOK ==
    /\ sent \in 0..MaxSent /\ counter \in Nat /\ total \in Nat /\ raw \in Nat
    /\ disk \in [total : Nat, raw : Nat] /\ slipped \in BOOLEAN

TrafficInit ==
    /\ sent = 0 /\ counter = 0 /\ total = 0 /\ raw = 0
    /\ disk = [total |-> 0, raw |-> 0] /\ slipped = FALSE

\* Mutated form of Delta: a counter that stands still counts as restarted.
MDelta(prev) == IF counter =< prev THEN counter ELSE counter - prev

\* accumulate: a counter that went backwards means a restart.
Delta(prev) == IF counter < prev THEN counter ELSE counter - prev

\* A counter that catches up with the one read last hides its restart.
Flow ==
    /\ sent < MaxSent /\ sent' = sent + 1 /\ counter' = counter + 1
    /\ slipped' = (slipped \/ counter' \in {raw, disk.raw})
    /\ UNCHANGED <<total, raw, disk>>

InterfaceRestarts ==
    /\ counter' = 0
    /\ slipped' = (slipped \/ total # sent \/ disk.total # sent)
    /\ UNCHANGED <<sent, total, raw, disk>>

\* Mutated form of Refresh: the save comes before the counter is stored.
MRefresh ==
    /\ total' = total + Delta(raw) /\ raw' = counter
    /\ disk' \in {disk, [total |-> total', raw |-> raw]}
    /\ UNCHANGED <<sent, counter, slipped>>

\* The app goes on with the new numbers whether they could be saved or not.
Refresh ==
    /\ total' = total + Delta(raw) /\ raw' = counter
    /\ disk' \in {disk, [total |-> total', raw |-> counter]}
    /\ UNCHANGED <<sent, counter, slipped>>

AppRestarts ==
    /\ total' = disk.total /\ raw' = disk.raw
    /\ UNCHANGED <<sent, counter, disk, slipped>>

TrafficNext == Flow \/ InterfaceRestarts \/ Refresh \/ AppRestarts

TrafficSpec == TrafficInit /\ [][TrafficNext]_tvars

---------------------------------------------------------------------------
(* Properties *)

\* However restarts of the interface, refreshes, failed saves and restarts of the app
\* alternate, no byte is counted twice (ops.rs:447).
NeverMore == total + Delta(raw) =< sent /\ disk.total + Delta(disk.raw) =< sent

\* Nothing is missed either: the next refresh brings the total to what went through,
\* unless an interface restarted with unread traffic or caught up with the counter
\* read before its restart.
CaughtUp == ~slipped => total + Delta(raw) = sent

\* A refresh, also one after a save that failed, shows what went through, or less
\* after such a restart, and never more.
TotalsRight == NeverMore /\ CaughtUp
=============================================================================

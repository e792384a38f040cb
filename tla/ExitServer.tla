----------------------------- MODULE ExitServer -----------------------------
(***************************************************************************)
(* Install and Traffic together: one client of the exit server, whose      *)
(* counters live in the interface the installation starts and restarts.    *)
(* A client belongs to the server key it was issued under; create_clients  *)
(* and refresh_traffic need the same mutex as an installation.             *)
(***************************************************************************)
EXTENDS Install, Traffic

VARIABLE client   \* Client: the place and the server key it was issued for

NoClient == [place |-> "native", key |-> 0]

evars == <<vars, tvars, client>>

ExitInit == Init /\ TrafficInit /\ client = NoClient

\* The peer exists only in an interface that runs with the client's key.
Serves == client.key # 0 /\ runs[client.place] = client.key

\* detect_any finds AmneziaWG: what a refresh and an issue start from.
Detected(p) ==
    /\ p \notin torn
    /\ IF p = "native" THEN conf[p] # 0 ELSE Listed

\* create_clients: add_peer needs the interface to be up.
IssueClient(p) ==
    /\ pc = "idle" /\ client = NoClient
    /\ Detected(p) /\ runs[p] # 0 /\ record[p] = conf[p]
    /\ client' = [place |-> p, key |-> conf[p]]
    /\ UNCHANGED <<vars, tvars>>

\* The interface of the client's place was started anew: another key, or a reboot.
Restarted == runs'[client.place] # runs[client.place] \/ Reboot

\* A step of the installation or of the server.
ServerStep ==
    /\ Next /\ client' = client
    /\ IF client # NoClient /\ Restarted THEN InterfaceRestarts ELSE UNCHANGED tvars

\* A peer that the interface does not show is left as it is.
RefreshTraffic ==
    /\ pc = "idle" /\ client # NoClient /\ Detected(client.place) /\ Serves
    /\ Refresh /\ UNCHANGED <<vars, client>>

ClientTraffic == Serves /\ Flow /\ UNCHANGED <<vars, client>>

\* The app starts again; an operation that ran has failed.
AppAgain == pc = "idle" /\ AppRestarts /\ UNCHANGED <<vars, client>>

ExitNext ==
    \/ ServerStep \/ RefreshTraffic \/ ClientTraffic \/ AppAgain
    \/ \E p \in Places : IssueClient(p)

ExitSpec == ExitInit /\ [][ExitNext]_evars
=============================================================================

-------------------------------- MODULE Panel --------------------------------
(***************************************************************************)
(* The web panel: every endpoint loads the whole state file, works over SSH*)
(* on its own copy and writes the copy back.  The endpoints run in a pool  *)
(* of threads; load and save are atomic, nothing between them is, so a slow*)
(* request writes back what others have changed since.  One proxy, which   *)
(* stays the same machine; what an endpoint does on the exits is in Peers  *)
(* and Install, here it succeeds or fails, and finds AmneziaWG on a port.  *)
(***************************************************************************)
EXTENDS Naturals, FiniteSets

CONSTANTS
    Request,      \* threads of the pool
    Server, Proxy, \* ids of servers, one of them the proxy of all cascades
    Port, CascadeId, Key, \* ports of the proxy, ids of cascades, keys of clients
    Address, Listen, \* addresses of exits; ports AmneziaWG may listen on
    NoAwg,        \* an exit that is not scanned, or has no AmneziaWG
    MaxRequests   \* bound: requests in all

ASSUME PanelAssumption ==
    Proxy \in Server /\ NoAwg \notin Listen /\ Address # {} /\ MaxRequests \in Nat

Exit   == Server \ {Proxy}
Target == [host : Address, listen : Listen \cup {NoAwg}]

VARIABLES
    saved,   \* state.json
    script,  \* the routes of cascade-rules.sh on the proxy
    rules,   \* those in its chains
    req,     \* each request: its step, its copy of the state, what it still has to do
    agreed,  \* history: the last apply ran alone and was saved
    applied, \* history: where the exits in use were in the last such apply
    begun    \* how many requests there were

panelVars == <<saved, script, rules, req, agreed, applied, begun>>

Cascade == [id : CascadeId, exit : Exit, port : Port, mode : {"managed", "external"}]
Client  == [key : Key, cascade : CascadeId]
State   == [servers : SUBSET Server, cascades : SUBSET Cascade, clients : SUBSET Client,
            at : [Exit -> Target]]
Route   == [port : Port, to : Target]
Points  == {"idle", "scan", "prepare", "link", "peer", "put", "restart", "save", "store"}

\* A request: its step, the step after the next save, its copy; exits or cascades still
\* to do, the exit at hand, and the cascades in the making.
Req == [at : Points, then : Points, s : State, todo : SUBSET (Exit \cup CascadeId),
        exit : Server, new : SUBSET Cascade, alone : BOOLEAN]

PanelTypeOK ==
    /\ saved \in State /\ script \subseteq Route /\ rules \subseteq Route
    /\ req \in [Request -> Req] /\ agreed \in BOOLEAN /\ applied \in [Exit -> Target]
    /\ begun \in 0..MaxRequests

Nowhere == [e \in Exit |-> [host |-> CHOOSE h \in Address : TRUE, listen |-> NoAwg]]

Empty == [servers |-> {}, cascades |-> {}, clients |-> {}, at |-> Nowhere]
Idle  == [at |-> "idle", then |-> "idle", s |-> Empty, todo |-> {}, exit |-> Proxy,
          new |-> {}, alone |-> FALSE]

\* The user has added servers; nothing is built on them yet.
PanelInit ==
    /\ \E listed \in SUBSET Server : saved = [Empty EXCEPT !.servers = listed]
    /\ script = {} /\ rules = {} /\ req = [r \in Request |-> Idle]
    /\ agreed = TRUE /\ applied = Nowhere /\ begun = 0

---------------------------------------------------------------------------
(* Reading a copy of the state.                                            *)

Managed(cs) == {c \in cs : c.mode = "managed"}
Ids(cs)     == {c.id : c \in cs}

\* The routes of managed cascades to exits that are at "at".
RoutesTo(cs, at) == {[port |-> c.port, to |-> at[c.exit]] : c \in Managed(cs)}

\* _managed_routes: address and port of the exits are those in the copy.
Routes(s) == RoutesTo(s.cascades, s.at)

AllScanned(s) == \A c \in Managed(s.cascades) : s.at[c.exit].listen # NoAwg

\* Where the exits of a copy are that cascades lead to.
InUseAt(s) == [e \in Exit |-> IF \E c \in Managed(s.cascades) : c.exit = e
                             THEN s.at[e] ELSE Nowhere[e]]

\* The exit is at an address, or AmneziaWG was found there on a port, or not at all.
WithHost(s, x, h) == [s EXCEPT !.at = [e \in Exit |->
                         IF e = x THEN [host |-> h, listen |-> NoAwg] ELSE @[e]]]
WithAwg(s, x, l)  == [s EXCEPT !.at = [e \in Exit |->
                         IF e = x THEN [host |-> @[e].host, listen |-> l] ELSE @[e]]]

WithClient(s, k, i) == [s EXCEPT !.clients = @ \cup {[key |-> k, cascade |-> i]}]

\* uuid4 and a new key pair: in no copy and in no request.
InUse      == {saved} \cup {req[r].s : r \in Request}
FreshIds   == CascadeId \ UNION ({Ids(s.cascades) : s \in InUse}
                                 \cup {Ids(req[r].new) \cup req[r].todo : r \in Request})
FreshKeys  == Key \ UNION {{c.key : c \in s.clients} : s \in InUse}
FreshNames == Server \ UNION {s.servers : s \in InUse}

Active == {r \in Request : req[r].at # "idle"}

---------------------------------------------------------------------------
(* Requests.                                                               *)

\* A request loads the state and changes its copy; who overlaps is not alone.
Begin(r, at, s, todo) ==
    /\ req[r].at = "idle" /\ begun < MaxRequests /\ begun' = begun + 1
    /\ req' = [q \in Request |->
                  IF q = r THEN [Idle EXCEPT !.at = at, !.s = s, !.todo = todo,
                                             !.alone = (Active = {})]
                  ELSE [req[q] EXCEPT !.alone = FALSE]]
    /\ UNCHANGED <<saved, script, rules, agreed, applied>>

\* Answered, with or without an error; what was not saved is forgotten.
Answer(r) == req' = [req EXCEPT ![r] = Idle]

Go(r, at) == req' = [req EXCEPT ![r].at = at]

\* storage.save, then on with the request.
SaveThen(r, then) == req' = [req EXCEPT ![r].at = "save", ![r].then = then]

\* upsert_server: a server of a new id, or other data of a known one; with another
\* address its scan is forgotten.
UpsertServer(r) ==
    \/ \E x \in FreshNames, h \in Address :
          Begin(r, "save", [WithHost(saved, x, h) EXCEPT !.servers = @ \cup {x}], {})
    \/ Begin(r, "save", saved, {})
    \/ \E x \in saved.servers \ {Proxy}, h \in Address : saved.at[x].host # h
          /\ Begin(r, "save", WithHost(saved, x, h), {})

\* scan_server: of the proxy nothing is kept that a property looks at.
ScanServer(r) ==
    \E x \in saved.servers, l \in Listen \cup {NoAwg} :
        Begin(r, "save", WithAwg(saved, x, l), {})

\* refresh_traffic changes the totals of its copy, and saves the rest as it was.
RefreshTraffic(r) == Begin(r, "save", saved, {})

\* delete_server: no cascade uses it.
RemoveServer(r, x) ==
    /\ x \in saved.servers
    /\ \A c \in saved.cascades : x \notin {Proxy, c.exit}
    /\ Begin(r, "save", [saved EXCEPT !.servers = @ \ {x}], {})

\* adopt_cascade: a forward of another tool, between two listed servers.
Adopt(r, x, p) ==
    /\ {Proxy, x} \subseteq saved.servers
    /\ \E i \in FreshIds :
          LET c == [id |-> i, exit |-> x, port |-> p, mode |-> "external"] IN
          Begin(r, "save", [saved EXCEPT !.cascades = @ \cup {c}], {})

\* delete_cascade takes the clients along; only a managed one is on the proxy.
DeleteCascade(r, c) ==
    /\ c \in saved.cascades
    /\ Begin(r, IF c.mode = "managed" THEN "put" ELSE "save",
             [saved EXCEPT !.cascades = @ \ {c},
                          !.clients = {k \in @ : k.cascade # c.id}], {})

\* delete_client: the peer is removed first; this may fail.
DeleteClient(r, k) ==
    /\ k \in saved.clients
    /\ Begin(r, "save", [saved EXCEPT !.clients = @ \ {k}], {})

\* The work on a server failed, the save did, or the panel was stopped.
Fails(r) ==
    /\ req[r].at \notin {"idle", "put", "restart"} /\ Answer(r)
    /\ UNCHANGED <<saved, script, rules, agreed, applied, begun>>

---------------------------------------------------------------------------
(* create_clients: one cascade after the other, each saved.                *)

CreateClients(r, ids) == ids # {} /\ Begin(r, "peer", saved, ids)

\* The page may name a cascade that is gone: 404.  AmneziaWG is detected on the exit.
AddPeer(r, i) ==
    /\ req[r].at = "peer" /\ i \in req[r].todo
    /\ IF i \notin Ids(req[r].s.cascades) THEN Answer(r)
       ELSE \E c \in req[r].s.cascades, l \in Listen, k \in FreshKeys :
            /\ c.id = i
            /\ req' = [req EXCEPT ![r].s = WithClient(WithAwg(@, c.exit, l), k, i),
                                  ![r].todo = @ \ {i}, ![r].at = "save",
                                  ![r].then = IF req[r].todo = {i} THEN "idle" ELSE "peer"]
    /\ UNCHANGED <<saved, script, rules, agreed, applied, begun>>

---------------------------------------------------------------------------
(* create_cascades: scan the proxy, prepare every exit, test the link.     *)

CreateCascades(r, exits) == exits # {} /\ Begin(r, "scan", saved, exits)

ScanProxy(r) ==
    /\ req[r].at = "scan"
    /\ IF Proxy \in req[r].s.servers THEN SaveThen(r, "prepare") ELSE Answer(r)
    /\ UNCHANGED <<saved, script, rules, agreed, applied, begun>>

\* One exit after the other: detect or install.
Prepare(r, x, l) ==
    /\ req[r].at = "prepare" /\ x \in req[r].todo
    /\ IF x \notin req[r].s.servers THEN Answer(r)
       ELSE req' = [req EXCEPT ![r].at = "save", ![r].then = "link", ![r].exit = x,
                               ![r].s = WithAwg(@, x, l)]
    /\ UNCHANGED <<saved, script, rules, agreed, applied, begun>>

\* Ports of the cascades there are, and of those in the making.
Taken(r) == {c.port : c \in req[r].s.cascades \cup req[r].new}

Linked(r) == \E c \in Managed(req[r].s.cascades) : c.exit = req[r].exit

\* At most one cascade, on a port of its own; an exit that had one is skipped, even if
\* its AmneziaWG was found elsewhere.
NewCascades(r) ==
    IF Linked(r) THEN {{}}
    ELSE {{[id |-> i, exit |-> req[r].exit, port |-> p, mode |-> "managed"]} :
             i \in FreshIds, p \in Port \ Taken(r)}

\* check_link passed.  A request to the API may name the exit again.
Accept(r) ==
    /\ req[r].at = "link"
    /\ \E new \in NewCascades(r) :
          \E rest \in {req[r].todo, req[r].todo \ {req[r].exit}} :
              req' = [req EXCEPT ![r].todo = rest, ![r].new = @ \cup new,
                                 ![r].at = "prepare"]
    /\ UNCHANGED <<saved, script, rules, agreed, applied, begun>>

\* All exits are done: the new cascades join the copy; apply and save are the last.
Join(r) ==
    /\ req[r].at = "prepare" /\ req[r].todo = {}
    /\ IF req[r].new = {} THEN Answer(r)
       ELSE req' = [req EXCEPT ![r].s.cascades = @ \cup req[r].new, ![r].at = "put",
                               ![r].then = "idle"]
    /\ UNCHANGED <<saved, script, rules, agreed, applied, begun>>

---------------------------------------------------------------------------
(* _apply_proxy: script and unit, then the service; chains are refilled    *)
(* from the script that is there by then.                                  *)

\* Mutated form of PutScript: the routes come from the file, not from the copy.
MPutScript(r) ==
    /\ req[r].at = "put" /\ Go(r, "restart")
    /\ script' = Routes(saved) /\ agreed' = FALSE
    /\ UNCHANGED <<saved, rules, applied, begun>>

PutScript(r) ==
    /\ req[r].at = "put" /\ AllScanned(req[r].s) /\ Go(r, "restart")
    /\ script' = Routes(req[r].s) /\ agreed' = FALSE
    /\ UNCHANGED <<saved, rules, applied, begun>>

\* _managed_routes stumbles on an exit that is not scanned.
NotScanned(r) ==
    /\ req[r].at = "put" /\ ~AllScanned(req[r].s) /\ Answer(r)
    /\ UNCHANGED <<saved, script, rules, agreed, applied, begun>>

RestartService(r) ==
    /\ req[r].at = "restart" /\ Go(r, "store") /\ rules' = script
    /\ UNCHANGED <<saved, script, agreed, applied, begun>>

\* Before or after the command took effect.
ApplyFails(r) ==
    /\ req[r].at \in {"put", "restart"} /\ Answer(r)
    /\ IF req[r].at = "put"
       THEN /\ AllScanned(req[r].s) /\ script' \in {script, Routes(req[r].s)}
            /\ UNCHANGED rules
       ELSE rules' \in {rules, script} /\ UNCHANGED script
    /\ agreed' = FALSE /\ UNCHANGED <<saved, applied, begun>>

\* An apply that nobody overlapped is saved.
Agree(r) == IF req[r].at = "store" /\ req[r].alone
            THEN agreed' = TRUE /\ applied' = InUseAt(req[r].s)
            ELSE UNCHANGED <<agreed, applied>>

\* Mutated form of Save: the lists that other requests changed are kept.
MSave(r) ==
    /\ req[r].at \in {"save", "store"}
    /\ saved' = [req[r].s EXCEPT !.clients = @ \cup saved.clients]
    /\ Agree(r)
    /\ IF req[r].then = "idle" THEN Answer(r) ELSE Go(r, req[r].then)
    /\ UNCHANGED <<script, rules, begun>>

\* storage.save: the whole copy takes the place of the file.
Save(r) ==
    /\ req[r].at \in {"save", "store"} /\ saved' = req[r].s
    /\ Agree(r)
    /\ IF req[r].then = "idle" THEN Answer(r) ELSE Go(r, req[r].then)
    /\ UNCHANGED <<script, rules, begun>>

\* The proxy boots: the service runs the script.
Reboot == rules' = script /\ UNCHANGED <<saved, script, req, agreed, applied, begun>>

---------------------------------------------------------------------------
Start(r) ==
    \/ UpsertServer(r) \/ ScanServer(r) \/ RefreshTraffic(r)
    \/ \E x \in Server : RemoveServer(r, x)
    \/ \E x \in Exit, p \in Port : Adopt(r, x, p)
    \/ \E c \in saved.cascades : DeleteCascade(r, c)
    \/ \E k \in saved.clients : DeleteClient(r, k)
    \/ \E ids \in SUBSET CascadeId : CreateClients(r, ids)
    \/ \E exits \in SUBSET Exit : CreateCascades(r, exits)

Work(r) ==
    \/ \E i \in CascadeId : AddPeer(r, i)
    \/ ScanProxy(r) \/ Accept(r) \/ Join(r) \/ \E x \in Exit, l \in Listen : Prepare(r, x, l)
    \/ PutScript(r) \/ NotScanned(r) \/ RestartService(r) \/ ApplyFails(r) \/ Save(r) \/ Fails(r)

PanelNext == Reboot \/ \E r \in Request : Start(r) \/ Work(r)

PanelSpec == PanelInit /\ [][PanelNext]_panelVars

---------------------------------------------------------------------------
(* Properties *)

\* Whatever requests write over each other, the file never has a cascade without its
\* servers, a client without its cascade, or two managed cascades on one port: the page
\* loads (main.py:113), and no forward shadows another.
FileIsConsistent ==
    /\ \A c \in saved.cascades : {Proxy, c.exit} \subseteq saved.servers
    /\ \A k \in saved.clients : k.cascade \in Ids(saved.cascades)
    /\ \A c, d \in saved.cascades : c.id = d.id => c = d
    /\ \A c, d \in Managed(saved.cascades) : c.port = d.port => c = d

\* Whatever overlapping requests left on the proxy, one apply that runs alone and is
\* saved puts it right: the proxy forwards what the file lists, to where the exits were
\* then, and goes on doing so until the next apply, whoever saves in between
\* (main.py:94-97).
AloneAgrees == agreed => rules = script /\ script = RoutesTo(saved.cascades, applied)

---------------------------------------------------------------------------
(* What documents and the page say and the code does not keep.             *)

\* "The cascades move to the new address" when an exit is given one (index.html:323):
\* once the exit is scanned there, their forwards lead to it.
CascadesMove ==
    agreed /\ Active = {} =>
        \A c \in Managed(saved.cascades) : saved.at[c.exit].listen # NoAwg =>
            \E r \in rules : r.port = c.port /\ r.to.host = saved.at[c.exit].host

\* Deleting a cascade takes away only its own rule (README.md:42): a copy from before
\* another cascade was created takes that one along.
OnlyItsRule ==
    [][\A r \in Request : req[r].at = "restart" /\ req'[r].at = "store" =>
          Cardinality(rules \ rules') =< 1]_panelVars

\* A port never meets one that is in use (README.md:23): two copies give out the same.
PortsInUse ==
    \A q, r \in Request : q # r /\ req[q].at = "put" /\ req[r].at = "put" =>
        \A c \in req[q].new, d \in req[r].new : c.port # d.port
=============================================================================

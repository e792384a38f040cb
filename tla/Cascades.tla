------------------------------- MODULE Cascades -------------------------------
(***************************************************************************)
(* The forwards of one proxy: creating, adopting and deleting cascades, as *)
(* the management operations do it step by step, against what really runs  *)
(* on the proxy.  The state in memory, the saved state, the script of the  *)
(* boot service and the live chains must come to agree, although any       *)
(* command can fail before or after it took effect, the app can die, the   *)
(* proxy can reboot and other tools add forwards of their own.             *)
(*                                                                         *)
(* One operation runs at a time (Manage::state).  A route leads from a port*)
(* of the proxy to the address of an exit and the port its AmneziaWG was   *)
(* last seen on.  Both change without an apply: an exit is given another   *)
(* address, scanned again or prepared for another cascade.  The proxy stays*)
(* the same machine, and an exit has one AmneziaWG.                        *)
(***************************************************************************)
EXTENDS Naturals, FiniteSets

CONSTANTS
    Id,           \* ids of cascades; an id is free again when no state lists it
    Exit, Port,   \* exit servers; UDP ports of the proxy
    Host, Listen, \* addresses; ports AmneziaWG may listen on
    Home,         \* where each exit is when there is no cascade yet
    Foreign,      \* forwards other tools may set up
    NoPort,       \* the user leaves the port to the app
    NoAwg,        \* an exit that is not scanned, or has no AmneziaWG
    MaxFailures,  \* bound: failures and deaths of the app
    MaxMoves      \* bound: exits that are given another address or lose their AmneziaWG

Target == [host : Host, listen : Listen \cup {NoAwg}]
Route  == [port : Port, to : Target]
ASSUME RoutesAssumption == Foreign \subseteq Route /\ NoPort \notin Port
ASSUME TargetsAssumption == Home \in [Exit -> Target] /\ NoAwg \notin Listen
ASSUME FailuresAssumption == MaxFailures \in Nat /\ MaxMoves \in Nat

Mode    == {"managed", "external", "direct"}
Cascade == [id : Id, exit : Exit, port : Port \cup {NoPort}, mode : Mode]
Scan    == [ours : SUBSET Route, theirs : SUBSET Route]
State   == [cascades : SUBSET Cascade, scan : Scan, at : [Exit -> Target]]

VARIABLES
    mem, saved,     \* the working state; state.json
    script,         \* the routes of the boot service's script
    rules, foreign, \* the live chains of the app; the forwards of other tools
    op, step,       \* the operation and its next step
    todo, port,     \* create: exits to prepare, the port asked for
    new,            \* create: cascades accepted so far
    begun,          \* history: ports, not written since, whose removal was begun
    unsettled,      \* history: an apply was cut short since the last complete one
    applied,        \* history: where the exits were at the last complete apply
    failures, moves

proxy   == <<script, rules, foreign>>
request == <<todo, port, new>>
history == <<begun, unsettled, applied>>
vars == <<mem, saved, proxy, op, step, request, history, failures, moves>>

Applying == {"routes", "script", "service", "rescan", "save"}

TypeOK ==
    /\ mem \in State /\ saved \in State
    /\ script \subseteq Route /\ rules \subseteq Route /\ foreign \subseteq Foreign
    /\ op \in {"none", "create", "delete"}
    /\ step \in {"none", "scan", "prepare", "store"} \cup Applying
    /\ todo \subseteq Exit /\ port \in Port \cup {NoPort} /\ new \subseteq Cascade
    /\ begun \subseteq Port /\ unsettled \in BOOLEAN /\ applied \in [Exit -> Target]
    /\ failures \in 0..MaxFailures /\ moves \in 0..MaxMoves
    /\ \A s \in {mem, saved} : \A c, d \in s.cascades : c.id = d.id => c = d

\* The servers have been added, scanned or not yet.
Empty == [cascades |-> {}, scan |-> [ours |-> {}, theirs |-> {}], at |-> Home]

Init ==
    /\ mem = Empty /\ saved = Empty /\ script = {} /\ rules = {} /\ foreign = {}
    /\ op = "none" /\ step = "none" /\ todo = {} /\ port = NoPort /\ new = {}
    /\ begun = {} /\ unsettled = FALSE /\ applied = Home
    /\ failures = 0 /\ moves = 0

---------------------------------------------------------------------------
(* Reading the state.                                                      *)

Managed(cs) == {c \in cs : c.mode = "managed"}
Ids(cs)     == {c.id : c \in cs}

Ports(rs)   == {r.port : r \in rs}

\* The routes of the managed cascades of the proxy to exits that are at "at".
RoutesTo(cs, at) == {[port |-> c.port, to |-> at[c.exit]] : c \in Managed(cs)}

\* managed_routes: addresses and ports are those in the state at that moment.
Routes(s) == RoutesTo(s.cascades, s.at)

AllScanned(s) == \A c \in Managed(s.cascades) : s.at[c.exit].listen # NoAwg

\* set_awg: AmneziaWG was found on that port, or not at all.
WithAwg(s, e, l) == [s EXCEPT !.at[e].listen = l]

OneMove == moves < MaxMoves /\ moves' = moves + 1

\* AmneziaWG is found where it was, for the first time, or elsewhere.
Found(e, l) == IF mem.at[e].listen \in {NoAwg, l} THEN UNCHANGED moves ELSE OneMove

\* Mutated form of Taken: ports given out in the same request are not counted.
MTaken == {c.port : c \in mem.cascades}

Taken == {c.port : c \in mem.cascades \cup new}

\* port_conflict finds nothing.
FreePorts == Port \ (Taken \cup Ports(mem.scan.theirs))

PortsAsked == IF port = NoPort THEN Port ELSE {port}

SeenNow == [ours |-> rules, theirs |-> foreign]

FreshIds == Id \ Ids(mem.cascades \cup saved.cascades \cup new)

OneFailure == failures < MaxFailures /\ failures' = failures + 1
Over == op' = "none" /\ step' = "none" /\ todo' = {} /\ port' = NoPort /\ new' = {}

\* What changed in memory is saved, or the save fails.
Saving ==
    \/ saved' = mem' /\ UNCHANGED failures
    \/ UNCHANGED saved /\ OneFailure

---------------------------------------------------------------------------
(* Create: scan the proxy, prepare every exit, then apply and save.        *)

CreateRequest(exits, p) ==
    /\ op = "none" /\ exits # {} /\ (p # NoPort => Cardinality(exits) = 1)
    /\ op' = "create" /\ step' = "scan" /\ todo' = exits /\ port' = p
    /\ UNCHANGED <<mem, saved, proxy, new, history, failures, moves>>

ScanProxy ==
    /\ step = "scan" /\ step' = "prepare"
    /\ mem' = [mem EXCEPT !.scan = SeenNow] /\ saved' = mem'
    /\ UNCHANGED <<proxy, op, request, history, failures, moves>>

\* prepare_exit found AmneziaWG on port l or installed it there; the exit is saved
\* before the port of the proxy is chosen.
Prepared(e, l) ==
    /\ step = "prepare" /\ e \in todo /\ todo' = todo \ {e}
    /\ mem' = WithAwg(mem, e, l) /\ saved' = mem' /\ Found(e, l)
    /\ UNCHANGED <<proxy, op, step, port, history, failures>>

\* The exit may have been found on another port: nothing is applied for that.
AlreadyThere(e, l) ==
    /\ \E c \in Managed(mem.cascades) : c.exit = e
    /\ Prepared(e, l) /\ UNCHANGED new

\* The port is free and probes pass both ways.
Accept(e, l, i, p) ==
    /\ \A c \in Managed(mem.cascades) : c.exit # e
    /\ p \in FreePorts \cap PortsAsked /\ i \in FreshIds
    /\ Prepared(e, l)
    /\ new' = new \cup {[id |-> i, exit |-> e, port |-> p, mode |-> "managed"]}

NothingNew ==
    /\ step = "prepare" /\ todo = {} /\ new = {} /\ Over
    /\ UNCHANGED <<mem, saved, proxy, history, failures, moves>>

Extend ==
    /\ step = "prepare" /\ todo = {} /\ new # {} /\ step' = "routes"
    /\ mem' = [mem EXCEPT !.cascades = @ \cup new] /\ new' = {}
    /\ UNCHANGED <<saved, proxy, op, todo, port, history, failures, moves>>

\* No exit that is left can get a port, or the port asked for is busy.
NoneFree == step = "prepare" /\ (FreshIds = {} \/ FreePorts \cap PortsAsked = {})

\* A busy port, a failed probe, a failed command or save.  What was prepared stays.
CreateFails ==
    /\ step \in {"scan", "prepare"} /\ Over
    /\ OneFailure \/ (NoneFree /\ UNCHANGED failures)
    /\ \/ UNCHANGED <<mem, moves>>
       \/ step = "scan" /\ mem' = [mem EXCEPT !.scan = SeenNow] /\ UNCHANGED moves
       \/ step = "prepare"
          /\ \E e \in todo, l \in Listen : mem' = WithAwg(mem, e, l) /\ Found(e, l)
    /\ saved' \in {saved, mem'}
    /\ UNCHANGED <<proxy, history>>

---------------------------------------------------------------------------
(* apply_proxy                                                             *)

\* Every exit a route leads to must be scanned.
ReadRoutes ==
    /\ step = "routes" /\ step' = "script" /\ AllScanned(mem)
    /\ UNCHANGED <<mem, saved, proxy, op, request, history, failures, moves>>

\* Mutated form of Written: the script has only the routes that are new.
MWritten ==
    /\ script' = RoutesTo(mem.cascades \ saved.cascades, mem.at)
    /\ begun' = (begun \cup (Ports(rules) \ Ports(Routes(saved)))) \ Ports(script')

\* The script lists what the operation is to leave; what an interrupted one left
\* running and nobody saved goes with it.
Written ==
    /\ script' = Routes(mem)
    /\ begun' = (begun \cup (Ports(rules) \ Ports(Routes(saved)))) \ Ports(script')

PutScript ==
    /\ step = "script" /\ step' = "service" /\ Written
    /\ UNCHANGED <<mem, saved, rules, foreign, op, request, unsettled, applied, failures,
                   moves>>

\* Mutated form of RestartService: the chains are not flushed before they are filled.
MRestartService ==
    /\ step = "service" /\ step' = "rescan" /\ rules' = rules \cup script
    /\ UNCHANGED <<mem, saved, script, foreign, op, request, history, failures, moves>>

\* The script flushes the chains of the app and fills them again.
RestartService ==
    /\ step = "service" /\ step' = "rescan" /\ rules' = script
    /\ UNCHANGED <<mem, saved, script, foreign, op, request, history, failures, moves>>

\* Mutated form of Rescan: the scan from before the change is kept.
MRescan ==
    /\ step = "rescan" /\ step' = "save"
    /\ UNCHANGED <<mem, saved, proxy, op, request, history, failures, moves>>

Rescan ==
    /\ step = "rescan" /\ step' = "save" /\ mem' = [mem EXCEPT !.scan = SeenNow]
    /\ UNCHANGED <<saved, proxy, op, request, history, failures, moves>>

\* The exits no managed cascade leads to are left out.
AppliedNow ==
    [e \in Exit |-> IF \E c \in Managed(mem.cascades) : c.exit = e
                   THEN mem.at[e] ELSE Home[e]]

Save ==
    /\ step \in {"save", "store"} /\ saved' = mem /\ Over
    /\ unsettled' = (unsettled /\ step = "store")
    /\ applied' = IF step = "save" THEN AppliedNow ELSE applied
    /\ UNCHANGED <<mem, proxy, begun, failures, moves>>

\* A failed delete loads the saved state again, if that can be read.
Rollback == IF op = "delete" THEN mem' \in {saved, mem} ELSE UNCHANGED mem

\* A command of apply_proxy fails, before or after it took effect on the proxy, or
\* the save does.
ApplyFails ==
    /\ step \in Applying \cup {"store"} /\ Over
    /\ \/ OneFailure
       \/ step = "routes" /\ ~AllScanned(mem) /\ UNCHANGED failures
    /\ \/ UNCHANGED <<script, begun>>
       \/ step = "script" /\ Written
    /\ rules' \in IF step = "service" THEN {rules, script} ELSE {rules}
    /\ Rollback /\ unsettled' = (unsettled \/ step # "store")
    /\ UNCHANGED <<saved, foreign, applied, moves>>

---------------------------------------------------------------------------
(* Delete, adopt, direct connections, scans.                               *)

DeleteCascade(c) ==
    /\ op = "none" /\ c \in mem.cascades
    /\ op' = "delete" /\ begun' = begun \cup Ports(RoutesTo({c}, mem.at))
    /\ mem' = [mem EXCEPT !.cascades = @ \ {c}]
    /\ step' = IF c.mode = "managed" THEN "routes" ELSE "store"
    /\ UNCHANGED <<saved, proxy, request, unsettled, applied, failures, moves>>

\* The list changes in memory whether or not it can be saved.
Listed(c, at) ==
    /\ op = "none" /\ c.id \in FreshIds
    /\ mem' = [mem EXCEPT !.cascades = @ \cup {c}, !.at = at]
    /\ Saving /\ UNCHANGED <<proxy, op, step, request, history>>

\* adopt_cascade: a forward of another tool to an exit, as the last scans saw them.
Adopt(i, e, r) ==
    /\ r \in mem.scan.theirs /\ r.to = mem.at[e] /\ r.to.listen # NoAwg
    /\ Listed([id |-> i, exit |-> e, port |-> r.port, mode |-> "external"], mem.at)
    /\ UNCHANGED moves

CreateDirect(i, e, l) ==
    /\ \A c \in mem.cascades : ~(c.mode = "direct" /\ c.exit = e)
    /\ Listed([id |-> i, exit |-> e, port |-> NoPort, mode |-> "direct"],
              WithAwg(mem, e, l).at)
    /\ Found(e, l)

\* What an operation learns of the servers, with no apply after it.
Learnt(state) ==
    /\ op = "none" /\ mem' = state
    /\ Saving /\ UNCHANGED <<proxy, op, step, request, history>>

\* scan_server on the proxy, or on an exit: AmneziaWG may have come, gone or moved.
ScanServer ==
    \/ Learnt([mem EXCEPT !.scan = SeenNow]) /\ UNCHANGED moves
    \/ \E e \in Exit, l \in Listen \cup {NoAwg} : Learnt(WithAwg(mem, e, l)) /\ Found(e, l)

\* A client is created on an exit, where AmneziaWG is detected first; also a direct
\* connection that is there already.
DetectExit(e, l) ==
    /\ \E c \in mem.cascades : c.exit = e
    /\ Learnt(WithAwg(mem, e, l)) /\ Found(e, l)

\* save_server: with another address the exit is not scanned any more.
SaveServer(e, h) ==
    /\ h # mem.at[e].host /\ OneMove
    /\ Learnt([mem EXCEPT !.at[e] = [host |-> h, listen |-> NoAwg]])

---------------------------------------------------------------------------
(* Around the operations.                                                  *)

AppRestart ==
    /\ OneFailure /\ mem' = saved /\ Over
    /\ unsettled' = (unsettled \/ step \in Applying)
    /\ UNCHANGED <<saved, proxy, begun, applied, moves>>

Reboot ==
    /\ rules # script /\ rules' = script
    /\ UNCHANGED <<mem, saved, script, foreign, op, step, request, history, failures,
                   moves>>

ForeignForward(r) ==
    /\ foreign' \in {foreign \cup {r}, foreign \ {r}}
    /\ UNCHANGED <<mem, saved, script, rules, op, step, request, history, failures,
                   moves>>

Create ==
    \/ \E exits \in SUBSET Exit, p \in Port \cup {NoPort} : CreateRequest(exits, p)
    \/ ScanProxy \/ NothingNew \/ Extend \/ CreateFails
    \/ \E e \in Exit, l \in Listen :
          AlreadyThere(e, l) \/ \E i \in Id, p \in Port : Accept(e, l, i, p)

Apply == ReadRoutes \/ PutScript \/ RestartService \/ Rescan \/ Save \/ ApplyFails

Next ==
    \/ Create \/ Apply \/ ScanServer
    \/ \E c \in mem.cascades : DeleteCascade(c)
    \/ \E e \in Exit : \/ \E i \in Id, r \in Foreign : Adopt(i, e, r)
                       \/ \E i \in Id, l \in Listen : CreateDirect(i, e, l)
                       \/ \E l \in Listen : DetectExit(e, l)
                       \/ \E h \in Host : SaveServer(e, h)
    \/ AppRestart \/ Reboot \/ \E r \in Foreign : ForeignForward(r)

Spec == Init /\ [][Next]_vars

---------------------------------------------------------------------------
(* Properties *)

\* managed_status: a rule of the app forwards the port to the address of the exit.
ShownApplied(c) ==
    \E r \in mem.scan.ours : r.port = c.port /\ r.to.host = mem.at[c.exit].host

\* Between operations the proxy forwards exactly the managed cascades, live and after
\* a reboot, to where their exits were at the last complete apply, and the saved state
\* lists the same ones, unless an apply was cut short; one complete apply repairs it.
ForwardsMatch ==
    op = "none" /\ ~unsettled =>
        /\ rules = RoutesTo(mem.cascades, applied) /\ script = rules
        /\ Managed(saved.cascades) = Managed(mem.cascades)

\* Then every managed cascade is shown as applied (or in conflict), never as missing,
\* unless its exit was given another address since.
StatusTrue ==
    op = "none" /\ ~unsettled =>
        \A c \in Managed(mem.cascades) : mem.at[c.exit].host = applied[c.exit].host =>
            ShownApplied(c)

\* Two managed cascades never share a port of the proxy, also when one request creates
\* several and when an earlier request failed halfway.
PortsDistinct ==
    \A c, d \in Managed(mem.cascades) : c.port = d.port => c = d

\* No operation, failure or reboot takes away the forward of a saved cascade that
\* nobody asked to delete, and that was not a leftover when the script was written.
ForwardsKept ==
    [][Ports(Routes(saved)) \cap (Ports(rules) \ Ports(rules')) \subseteq begun]_vars

---------------------------------------------------------------------------
(* What comments and documents say and the code does not keep.             *)

\* "A failure halfway keeps what was already done" (ops.rs:2-3): what runs on the proxy
\* is in the saved state.
WorkIsKept == op = "none" => Ports(rules) \subseteq Ports(Routes(saved))

\* "applied" is shown as "работает" (Manage.svelte:29): the forward then leads to the
\* port on which the exit has its AmneziaWG, as far as the state tells.
AppliedWorks ==
    op = "none" /\ ~unsettled =>
        \A c \in Managed(mem.cascades) : ShownApplied(c) /\ mem.at[c.exit].listen # NoAwg =>
            [port |-> c.port, to |-> mem.at[c.exit]] \in rules
=============================================================================

------------------------------ MODULE WinHelper ------------------------------
(***************************************************************************)
(* What the Windows helper does to the network, command by command: up and *)
(* down, set_net with applyPlan behind it, the block of the kill switch,   *)
(* the state file and restore_block.  The mutex of HelperServer makes these*)
(* one thread; the process may die between any two commands, and with it   *)
(* go the Wintun adapter and the filters, which belong to a dynamic WFP    *)
(* session of the process.                                                 *)
(*                                                                         *)
(* A destination stands for a network; the server's own address, which no  *)
(* plan routes into the tunnel, is not one of them.                        *)
(***************************************************************************)
EXTENDS Naturals

CONSTANTS
    Dest,         \* networks traffic goes to
    Known, Late,  \* of a split list: addresses known at Up, resolved later
    MaxUps, MaxDeaths  \* bounds: Ups; deaths of the process and reboots

Net == Known \cup Late

ASSUME WinDestAssumption == Known \subseteq Dest /\ Late \subseteq Dest
ASSUME WinLimitsAssumption == MaxUps \in Nat /\ MaxDeaths \in Nat

VARIABLES
    wfp,       \* filters of the WFP session: none, awgBlock's, the tunnel's
    device,    \* no device, one without, one with netState.firewall
    routes,    \* destinations the adapter has a route for
    active,    \* Helper.active is Some
    opts,      \* the options of the latest Up
    listed,    \* Active.listed
    target,    \* the list set_net is applying
    blocked,   \* Helper.blocked is Some
    file,      \* the state file: none, "kill switch" of this boot or before, torn
    pc,        \* the command to run next
    owed,      \* history: traffic was protected when the process died
    slips,     \* history: why the state file does not tell the truth
    gap, torn, \* history: the kill switch, the routes of a batch were not set
    ups, deaths

network == <<wfp, device, routes>>
history == <<owed, slips, gap, torn>>
limits  == <<ups, deaths>>
vars == <<network, active, opts, listed, target, blocked, file, pc, history, limits>>

Options == [mode : {"all", "only", "except"}, kill : BOOLEAN]
Points  == {"idle", "device", "addresses", "routes", "dns", "clear", "filter",
            "settled", "file", "remove", "exit", "dead"}
Slips   == {"replaced", "write failed", "torn", "kept", "cut short", "block failed"}

TypeOK ==
    /\ wfp \in {"open", "block", "tunnel"} /\ device \in {"none", "plain", "firewall"}
    /\ routes \subseteq Dest /\ active \in BOOLEAN /\ opts \in Options
    /\ listed \subseteq Net /\ target \subseteq Net /\ blocked \in BOOLEAN
    /\ file \in {"none", "kill", "old", "torn"} /\ pc \in Points
    /\ owed \in BOOLEAN /\ slips \subseteq Slips /\ gap \in BOOLEAN /\ torn \in BOOLEAN
    /\ ups \in 0..MaxUps /\ deaths \in 0..MaxDeaths

Init ==
    /\ wfp = "open" /\ device = "none" /\ routes = {} /\ active = FALSE
    /\ opts = [mode |-> "all", kill |-> FALSE] /\ listed = {} /\ target = {}
    /\ blocked = FALSE /\ file = "none" /\ pc = "idle"
    /\ owed = FALSE /\ slips = {} /\ gap = FALSE /\ torn = FALSE
    /\ ups = 0 /\ deaths = 0

\* plan: the kill switch is only for a tunnel that takes everything.
KillSwitch == opts.kill /\ opts.mode = "all"

PlanRoutes(l) ==
    IF opts.mode = "all" THEN Dest
    ELSE IF opts.mode = "only" THEN l ELSE Dest \ l

Protecting == blocked \/ (active /\ KillSwitch)

---------------------------------------------------------------------------
(* up: stop_tunnel, Device::up, set_net.                                   *)

\* Mutated form of StopTunnel: awgTurnOff closes the device without netDown.
MStopTunnel(lift) ==
    /\ device' = "none" /\ routes' = {} /\ active' = FALSE /\ listed' = {}
    /\ torn' = FALSE /\ wfp' = IF lift THEN "open" ELSE wfp

\* stop_tunnel: the adapter goes with its routes, netDown lifts the kill switch;
\* a caller that lifts the block goes on to awgUnblock.
StopTunnel(lift) ==
    /\ device' = "none" /\ routes' = {} /\ active' = FALSE /\ listed' = {}
    /\ torn' = FALSE
    /\ wfp' = IF device = "firewall" \/ lift THEN "open" ELSE wfp

\* tunnel_config succeeded.  The state file still tells of the connection that ends.
Up(o) ==
    /\ pc = "idle" /\ ups < MaxUps /\ ups' = ups + 1 /\ pc' = "device"
    /\ StopTunnel(FALSE) /\ opts' = o
    /\ target' = IF o.mode = "all" THEN {} ELSE Known
    /\ slips' = IF active /\ KillSwitch THEN slips \cup {"replaced"} ELSE slips
    /\ UNCHANGED <<blocked, file, owed, gap, deaths>>

\* The user cancelled before Device::up, or it failed.
NoDevice ==
    /\ pc = "device" /\ pc' = "idle"
    /\ UNCHANGED <<network, active, opts, listed, target, blocked, file, history, limits>>

OpenDevice ==
    /\ pc = "device" /\ pc' = "addresses" /\ device' = "plain"
    /\ UNCHANGED <<wfp, routes, active, opts, listed, target, blocked, file, history,
                   limits>>

SetAddresses ==
    /\ pc = "addresses" /\ pc' = "routes"
    /\ UNCHANGED <<network, active, opts, listed, target, blocked, file, history, limits>>

SetRoutes ==
    /\ pc = "routes" /\ pc' = "dns" /\ routes' = PlanRoutes(target)
    /\ UNCHANGED <<wfp, device, active, opts, listed, target, blocked, file, history,
                   limits>>

SetDns ==
    /\ pc = "dns"
    /\ pc' = IF KillSwitch /\ device = "plain" THEN "clear" ELSE "settled"
    /\ UNCHANGED <<network, active, opts, listed, target, blocked, file, history, limits>>

\* DisableFirewall, then EnableFirewall.
ClearFilters ==
    /\ pc = "clear" /\ pc' = "filter" /\ wfp' = "open"
    /\ UNCHANGED <<device, routes, active, opts, listed, target, blocked, file, history,
                   limits>>

SetFilters ==
    /\ pc = "filter" /\ pc' = "settled" /\ wfp' = "tunnel" /\ device' = "firewall"
    /\ gap' = FALSE
    /\ UNCHANGED <<routes, active, opts, listed, target, blocked, file, owed, slips, torn,
                   limits>>

\* set_net failed.  An Up drops the device it made; a batch of resolved addresses
\* leaves the connection as it is, with the routes r.
SetNetFails(r) ==
    /\ pc \in {"addresses", "routes", "dns", "filter"} /\ pc' = "idle"
    /\ device' = (IF active THEN device ELSE "none")
    /\ routes' = (IF active THEN r ELSE {})
    /\ torn' = (active /\ (torn \/ pc # "addresses"))
    /\ gap' = (gap \/ pc = "filter")
    /\ UNCHANGED <<wfp, active, opts, listed, target, blocked, file, owed, slips, limits>>

\* SetRoutes deletes the old routes and adds the new ones; either may stop halfway.
NetFails ==
    IF pc = "routes" /\ active
    THEN \E r \in SUBSET (routes \cup PlanRoutes(target)) : SetNetFails(r)
    ELSE SetNetFails(routes)

---------------------------------------------------------------------------
(* up: the block, the state file, Helper.active.                           *)

\* Mutated form of LiftBlock: the block is lifted whatever replaced it.
MLiftBlock ==
    /\ pc = "settled" /\ ~active /\ pc' = "file"
    /\ blocked' = FALSE /\ wfp' = IF blocked THEN "open" ELSE wfp
    /\ gap' = FALSE
    /\ UNCHANGED <<device, routes, active, opts, listed, target, file, owed, slips, torn,
                   limits>>

\* The tunnel's filters have replaced the block; without a kill switch it is lifted.
LiftBlock ==
    /\ pc = "settled" /\ ~active /\ pc' = "file"
    /\ blocked' = FALSE /\ wfp' = IF blocked /\ ~KillSwitch THEN "open" ELSE wfp
    /\ gap' = FALSE
    /\ UNCHANGED <<device, routes, active, opts, listed, target, file, owed, slips, torn,
                   limits>>

\* fs::write or remove_file; a failure is logged or ignored.
FileAfterUp ==
    \/ file' = (IF KillSwitch THEN "kill" ELSE "none") /\ slips' = {}
    \/ /\ file' = file
       /\ slips' = slips \cup {IF KillSwitch THEN "write failed" ELSE "kept"}

Connect ==
    /\ pc = "file" /\ pc' = "idle" /\ FileAfterUp
    /\ active' = TRUE /\ listed' = target
    /\ UNCHANGED <<network, opts, target, blocked, owed, gap, torn, limits>>

---------------------------------------------------------------------------
(* down, the stop of the service, and batches of the resolver.             *)

Down ==
    /\ pc = "idle" /\ pc' \in {"remove", "exit"} /\ StopTunnel(blocked)
    /\ blocked' = FALSE /\ gap' = FALSE
    /\ UNCHANGED <<opts, target, file, owed, slips, limits>>

\* After the handler of a stop has run down, the process exits.
RemoveFile ==
    /\ pc \in {"remove", "exit"} /\ pc' = IF pc = "exit" THEN "dead" ELSE "idle"
    /\ \/ file' = "none" /\ slips' = {}
       \/ file' = file /\ slips' = slips \cup {"kept"}
    /\ owed' = FALSE
    /\ UNCHANGED <<network, active, opts, listed, target, blocked, gap, torn, limits>>

\* Mutated form of ApplyResolved: a.listed is assigned before set_net.
MApplyResolved(nets) ==
    /\ pc = "idle" /\ active /\ opts.mode # "all"
    /\ ~(nets \subseteq listed) /\ target' = listed \cup nets /\ pc' = "addresses"
    /\ listed' = target'
    /\ UNCHANGED <<network, active, opts, blocked, file, history, limits>>

\* Only addresses not seen before lead to a new plan.
ApplyResolved(nets) ==
    /\ pc = "idle" /\ active /\ opts.mode # "all"
    /\ ~(nets \subseteq listed) /\ target' = listed \cup nets /\ pc' = "addresses"
    /\ UNCHANGED <<network, active, opts, listed, blocked, file, history, limits>>

Applied ==
    /\ pc = "settled" /\ active /\ pc' = "idle"
    /\ listed' = target /\ torn' = FALSE
    /\ UNCHANGED <<network, active, opts, target, blocked, file, owed, slips, gap, limits>>

---------------------------------------------------------------------------
(* The process dies; the service manager starts it again.                  *)

ProcessGone ==
    /\ wfp' = "open" /\ device' = "none" /\ routes' = {} /\ active' = FALSE
    /\ listed' = {} /\ blocked' = FALSE /\ pc' = "dead"
    /\ gap' = FALSE /\ torn' = FALSE
    /\ deaths < MaxDeaths /\ deaths' = deaths + 1 /\ UNCHANGED <<opts, target, ups>>

\* Between a change and the file that tells of it.
CutShort == IF pc \in {"file", "remove", "exit"} THEN {"cut short"} ELSE {}

Crash ==
    /\ pc # "dead" /\ ProcessGone /\ owed' = Protecting
    /\ \/ file' = file /\ slips' = slips \cup CutShort
       \/ /\ pc = "file" /\ KillSwitch
          /\ file' = "torn" /\ slips' = slips \cup {"torn"}

\* The machine restarts without a shutdown: nothing is owed to the user any more.
PowerLoss ==
    /\ ProcessGone /\ owed' = FALSE /\ slips' = slips
    /\ file' = IF file = "kill" THEN "old" ELSE file

\* Mutated form of RestoreBlock: the file goes once it has been read.
MRestoreBlock ==
    /\ \/ file = "kill" /\ blocked' = TRUE /\ wfp' = "block" /\ slips' = slips
       \/ file = "kill" /\ UNCHANGED <<blocked, wfp>> /\ slips' = slips \cup {"block failed"}
       \/ file # "kill" /\ UNCHANGED <<blocked, wfp>> /\ slips' = {}
    /\ file' = "none"

\* A file of this boot blocks, if block() works; any other is removed.
RestoreBlock ==
    \/ /\ file = "kill" /\ file' = file
       /\ \/ blocked' = TRUE /\ wfp' = "block" /\ slips' = slips
          \/ UNCHANGED <<blocked, wfp>> /\ slips' = slips \cup {"block failed"}
    \/ file # "kill" /\ file' = "none" /\ slips' = {} /\ UNCHANGED <<blocked, wfp>>

Start ==
    /\ pc = "dead" /\ pc' = "idle" /\ RestoreBlock
    /\ UNCHANGED <<device, routes, active, opts, listed, target, owed, gap, torn, limits>>

---------------------------------------------------------------------------
Configure ==
    \/ NoDevice \/ OpenDevice \/ SetAddresses \/ SetRoutes \/ SetDns
    \/ ClearFilters \/ SetFilters \/ NetFails \/ LiftBlock \/ Connect

Next ==
    \/ \E o \in Options : Up(o)
    \/ Configure \/ Down \/ RemoveFile
    \/ \E nets \in SUBSET Late : ApplyResolved(nets)
    \/ Applied \/ Crash \/ PowerLoss \/ Start

Spec == Init /\ [][Next]_vars

---------------------------------------------------------------------------
(* Properties *)

\* What status(&h) says of the kill switch is so: a connection that has it is
\* guarded by the tunnel's filters, and "blocked" blocks, except while an Up changes
\* the filters and after an EnableFirewall that failed.
StatusTrue ==
    /\ active /\ KillSwitch => wfp = "tunnel"
    /\ blocked /\ ~gap /\ pc # "filter" => wfp \in {"block", "tunnel"}

\* Whatever failed on the way, a helper at rest with neither connection nor block
\* leaves no filters, no adapter and no routes behind, and one whose connection has
\* no kill switch no filters.
NothingLeft ==
    pc = "idle" /\ ~blocked /\ ~(active /\ KillSwitch) =>
        wfp = "open" /\ (~active => device = "none" /\ routes = {})

\* The adapter's routes are the plan for the addresses the helper believes it
\* applied, unless a batch stopped halfway (windows.rs:198-203).
RoutesMatch == active /\ pc = "idle" /\ ~torn => routes = PlanRoutes(listed)

\* A start blocks exactly what was protected when the process died, unless the file
\* could not be written, removed or read in time, or block() failed.
StartKeepsProtection ==
    [][Start /\ slips \cup slips' = {} => (blocked' <=> owed)]_vars

---------------------------------------------------------------------------
(* What a comment says and the code does not keep.                         *)

\* A crash block stays until the new tunnel is up (windows.rs:151).
NoGap == blocked => wfp # "open"
=============================================================================

------------------------------ MODULE MacHelper ------------------------------
(***************************************************************************)
(* What the macOS helper does to the network, command by command: up with  *)
(* configure, down with undo, the start after a crash, follow_gateway and  *)
(* refresh_split, and the two things that must agree with the system: the  *)
(* NetState record in memory and the state file.  The mutex of HelperServer*)
(* makes these one thread; the process may die between any two commands.   *)
(*                                                                         *)
(* Addresses, tunnel routes and the routes of mode Only live and die with  *)
(* the interface and are not modelled.                                     *)
(***************************************************************************)
EXTENDS Naturals, FiniteSets

CONSTANTS
    Service,     \* hardware network services
    Known, Late, \* networks of a split list: addresses known at Up, resolved later
    Gateway,     \* physical gateways
    NoGateway,
    Batch,       \* refreshed routes after which the state file is rewritten (128)
    Faults,      \* kinds of commands that may fail in this run
    MaxUps, MaxCrashes, MaxMoves  \* bounds: Ups, deaths, changes of the gateway

Net == Known \cup Late
FaultKinds == {"up", "write", "save", "undo", "route"}

ASSUME NamesAssumption == Known \cap Late = {} /\ NoGateway \notin Gateway
ASSUME FileAssumption == {"no file", "torn"} \cap (Gateway \cup {NoGateway}) = {}
ASSUME FaultsAssumption == Faults \subseteq FaultKinds
ASSUME LimitsAssumption ==
    Batch \in Nat \ {0} /\ MaxUps \in Nat /\ MaxCrashes \in Nat /\ MaxMoves \in Nat

VARIABLES
    gateway,   \* the physical default gateway now
    epRoute,   \* gateway of the host route to the server
    bypass,    \* gateway of the route around the tunnel, for each network
    dns,       \* DNS servers of each service: the user's own or the tunnel's
    pf,        \* our anchor blocks all other traffic
    pfTokens,  \* references that keep the packet filter enabled, named by their Up
    helper,    \* Helper: nothing, an active connection, a block left by a crash
    net,       \* the NetState in charge
    opts,      \* split mode and kill switch of the connection
    pc, after, \* the command to run next; where undo returns to
    unsaved,   \* changes: refreshed routes since the state file was written
    file,      \* STATE_FILE
    wanted,    \* history: the last request of the user
    excuse,    \* history: what happened that the code makes no provision for
    ups, crashes, moves

system == <<gateway, epRoute, bypass, dns, pf, pfTokens>>
limits == <<ups, crashes, moves>>
vars == <<system, helper, net, opts, pc, after, unsaved, file, wanted, excuse, limits>>

Via     == Gateway \cup {NoGateway}
Options == {[mode |-> m, kill |-> k] : m \in {"all", "only", "except"}, k \in BOOLEAN}

NetState == [ep : Via, dns : [Service -> {"unset", "own", "vpn"}],
             bypass : SUBSET Net, kill : BOOLEAN, token : 0..MaxUps]
Unchanged == [ep |-> NoGateway, dns |-> [s \in Service |-> "unset"],
              bypass |-> {}, kill |-> FALSE, token |-> 0]
NoFile == [Unchanged EXCEPT !.ep = "no file"]
Torn   == [Unchanged EXCEPT !.ep = "torn"]

UpSteps   == {"bypass", "kill", "enable", "dns", "write"}
UndoSteps == {"undo pf", "undo bypass", "undo dns", "undo route", "undo file"}
Excuses   == {"crash in up", "crash in down", "crash in save", "crash in refresh",
              "undo failed", "write failed", "save failed", "follow failed"}

TypeOK ==
    /\ gateway \in Via /\ epRoute \in Via /\ bypass \in [Net -> Via]
    /\ dns \in [Service -> {"own", "vpn"}] /\ pf \in BOOLEAN /\ pfTokens \subseteq 1..MaxUps
    /\ helper \in {"none", "active", "blocked"} /\ net \in NetState /\ opts \in Options
    /\ pc \in {"idle", "device", "route", "save"} \cup UpSteps \cup UndoSteps
    /\ after \in {"idle", "failed", "device", "keep", "start"}
    /\ unsaved \in 0..Batch /\ file \in NetState \cup {NoFile, Torn}
    /\ wanted \in {"up", "down"} /\ excuse \subseteq Excuses
    /\ ups \in 0..MaxUps /\ crashes \in 0..MaxCrashes /\ moves \in 0..MaxMoves

Init ==
    /\ gateway \in Gateway /\ epRoute = NoGateway /\ bypass = [n \in Net |-> NoGateway]
    /\ dns = [s \in Service |-> "own"] /\ pf = FALSE /\ pfTokens = {}
    /\ helper = "none" /\ net = Unchanged /\ opts = [mode |-> "all", kill |-> FALSE]
    /\ pc = "idle" /\ after = "idle" /\ unsaved = 0 /\ file = NoFile
    /\ wanted = "down" /\ excuse = {} /\ ups = 0 /\ crashes = 0 /\ moves = 0

Excused(e) == excuse' = excuse \cup {e}
Mended == excuse' = excuse \ {"follow failed"}

---------------------------------------------------------------------------
(* Requests.  down takes the connection or the block out of Helper first.  *)

Up(o) ==
    /\ pc = "idle" /\ ups < MaxUps /\ ups' = ups + 1
    /\ opts' = o /\ wanted' = "up" /\ helper' = "none"
    /\ pc' = IF helper = "none" THEN "device" ELSE "undo pf"
    /\ after' = "device"
    /\ UNCHANGED <<system, net, unsaved, file, excuse, crashes, moves>>

Down ==
    /\ pc = "idle" /\ wanted' = "down" /\ helper' = "none"
    /\ pc' = IF helper = "none" THEN "idle" ELSE "undo pf"
    /\ after' = "idle"
    /\ UNCHANGED <<system, net, opts, unsaved, file, excuse, limits>>

---------------------------------------------------------------------------
(* up: Device::up, configure, the state file.                              *)

CreateDevice ==
    /\ pc = "device" /\ pc' = "route" /\ net' = Unchanged /\ Mended
    /\ UNCHANGED <<system, helper, opts, after, unsaved, file, wanted, limits>>

DeviceFails ==
    /\ pc = "device" /\ "up" \in Faults /\ pc' = "idle"
    /\ UNCHANGED <<system, helper, net, opts, after, unsaved, file, wanted, excuse, limits>>

\* The part of configure that comes after the routes, for these options.
AfterRoutes == IF opts.mode = "except" THEN "bypass" ELSE
               IF opts.mode = "only"   THEN "write"  ELSE
               IF opts.kill            THEN "kill"   ELSE "dns"

AddEndpointRoute ==
    /\ pc = "route" /\ gateway # NoGateway
    /\ epRoute' = gateway /\ net' = [net EXCEPT !.ep = gateway]
    /\ pc' = AfterRoutes
    /\ UNCHANGED <<gateway, bypass, dns, pf, pfTokens, helper, opts, after, unsaved,
                   file, wanted, excuse, limits>>

AddBypass(n) ==
    /\ pc = "bypass" /\ n \in Known \ net.bypass
    /\ bypass' = [bypass EXCEPT ![n] = net.ep]
    /\ net' = [net EXCEPT !.bypass = @ \cup {n}]
    /\ UNCHANGED <<gateway, epRoute, dns, pf, pfTokens, helper, opts, pc, after,
                   unsaved, file, wanted, excuse, limits>>

BypassDone ==
    /\ pc = "bypass" /\ Known \subseteq net.bypass /\ pc' = "dns"
    /\ UNCHANGED <<system, helper, net, opts, after, unsaved, file, wanted, excuse, limits>>

\* Mutated form of LoadRules: kill_switch is not set before pfctl -E answers.
MLoadRules ==
    /\ pc = "kill" /\ pf' = TRUE /\ pc' = "enable"
    /\ UNCHANGED <<gateway, epRoute, bypass, dns, pfTokens, helper, net, opts, after,
                   unsaved, file, wanted, excuse, limits>>

\* kill_switch_on: the rules first, then the filter itself.
LoadRules ==
    /\ pc = "kill" /\ pf' = TRUE /\ net' = [net EXCEPT !.kill = TRUE] /\ pc' = "enable"
    /\ UNCHANGED <<gateway, epRoute, bypass, dns, pfTokens, helper, opts, after,
                   unsaved, file, wanted, excuse, limits>>

EnableFilter ==
    /\ pc = "enable" /\ pc' = "dns"
    /\ pfTokens' = pfTokens \cup {ups} /\ net' = [net EXCEPT !.token = ups]
    /\ UNCHANGED <<gateway, epRoute, bypass, dns, pf, helper, opts, after, unsaved,
                   file, wanted, excuse, limits>>

SetDns(s) ==
    /\ pc = "dns" /\ net.dns[s] = "unset"
    /\ net' = [net EXCEPT !.dns[s] = dns[s]] /\ dns' = [dns EXCEPT ![s] = "vpn"]
    /\ UNCHANGED <<gateway, epRoute, bypass, pf, pfTokens, helper, opts, pc, after,
                   unsaved, file, wanted, excuse, limits>>

DnsDone ==
    /\ pc = "dns" /\ pc' = "write" /\ \A s \in Service : net.dns[s] # "unset"
    /\ UNCHANGED <<system, helper, net, opts, after, unsaved, file, wanted, excuse, limits>>

\* A command failed or progress.check() saw the cancellation.
UpFails ==
    /\ pc \in {"route"} \cup (UpSteps \ {"write"})
    /\ gateway = NoGateway \/ "up" \in Faults
    /\ pc' = "undo pf" /\ after' = "failed"
    /\ UNCHANGED <<system, helper, net, opts, unsaved, file, wanted, excuse, limits>>

WriteState ==
    /\ pc = "write" /\ file' = net /\ helper' = "active" /\ pc' = "idle"
    /\ UNCHANGED <<system, net, opts, after, unsaved, wanted, excuse, limits>>

\* fs::write(STATE_FILE)? : the device is dropped, the rest is left as it is.
WriteFails ==
    /\ pc = "write" /\ "write" \in Faults
    /\ file' \in {file, Torn} /\ net' = Unchanged /\ pc' = "idle"
    /\ Excused("write failed")
    /\ UNCHANGED <<system, helper, opts, after, unsaved, wanted, limits>>

---------------------------------------------------------------------------
(* undo(net) = restore(net), then the file.  A command that fails is logged*)
(* and the next one runs.                                                  *)

Ok(kind) == kind \notin Faults

UndoFilter ==
    /\ pc = "undo pf" /\ pc' = "undo bypass"
    /\ \E done, released \in BOOLEAN :
        /\ Ok("undo") => done /\ released
        /\ pf' = (pf /\ ~(net.kill /\ done))
        /\ pfTokens' = IF released THEN pfTokens \ {net.token} ELSE pfTokens
        /\ IF (net.kill /\ ~done) \/ (net.token \in pfTokens /\ ~released)
           THEN Excused("undo failed") ELSE UNCHANGED excuse
    /\ UNCHANGED <<gateway, epRoute, bypass, dns, helper, net, opts, after, unsaved,
                   file, wanted, limits>>

UndoBypass ==
    /\ pc = "undo bypass" /\ pc' = "undo dns"
    /\ \E kept \in SUBSET net.bypass :
        /\ Ok("undo") => kept = {}
        /\ bypass' = [n \in Net |-> IF n \in net.bypass \ kept THEN NoGateway ELSE bypass[n]]
        /\ IF kept # {} THEN Excused("undo failed") ELSE UNCHANGED excuse
    /\ UNCHANGED <<gateway, epRoute, dns, pf, pfTokens, helper, net, opts, after,
                   unsaved, file, wanted, limits>>

Backed == {s \in Service : net.dns[s] # "unset"}

\* Mutated form of UndoDns: services that were never backed up are reset too.
MUndoDns ==
    /\ pc = "undo dns" /\ pc' = "undo route" /\ dns' = net.dns
    /\ UNCHANGED <<gateway, epRoute, bypass, pf, pfTokens, helper, net, opts, after,
                   unsaved, file, wanted, excuse, limits>>

UndoDns ==
    /\ pc = "undo dns" /\ pc' = "undo route"
    /\ \E kept \in SUBSET Backed :
        /\ Ok("undo") => kept = {}
        /\ dns' = [s \in Service |-> IF s \in Backed \ kept THEN net.dns[s] ELSE dns[s]]
        /\ IF kept # {} THEN Excused("undo failed") ELSE UNCHANGED excuse
    /\ UNCHANGED <<gateway, epRoute, bypass, pf, pfTokens, helper, net, opts, after,
                   unsaved, file, wanted, limits>>

UndoRoute ==
    /\ pc = "undo route" /\ pc' = "undo file"
    /\ \/ net.ep = NoGateway /\ UNCHANGED <<epRoute, excuse>>
       \/ net.ep # NoGateway /\ epRoute' = NoGateway /\ UNCHANGED excuse
       \/ net.ep # NoGateway /\ ~Ok("undo") /\ UNCHANGED epRoute /\ Excused("undo failed")
    /\ UNCHANGED <<gateway, bypass, dns, pf, pfTokens, helper, net, opts, after,
                   unsaved, file, wanted, limits>>

\* The file goes whatever the commands said.
UndoFile ==
    /\ pc = "undo file" /\ after # "keep"
    /\ file' = NoFile /\ net' = Unchanged /\ unsaved' = 0
    /\ pc' = IF after = "device" THEN "device" ELSE "idle"
    /\ UNCHANGED <<system, helper, opts, after, wanted, excuse, limits>>

\* After restore_keep_block the file stays and the block is all that is left.
KeepBlock ==
    /\ pc = "undo file" /\ after = "keep" /\ helper' = "blocked" /\ pc' = "idle"
    /\ net' = [Unchanged EXCEPT !.kill = net.kill, !.token = net.token]
    /\ UNCHANGED <<system, opts, after, unsaved, file, wanted, excuse, limits>>

---------------------------------------------------------------------------
(* The watchers, on an active connection.                                  *)

GatewayMoves(g) ==
    /\ moves < MaxMoves /\ moves' = moves + 1 /\ g # gateway /\ gateway' = g
    /\ UNCHANGED <<epRoute, bypass, dns, pf, pfTokens, helper, net, opts, pc, after,
                   unsaved, file, wanted, excuse, ups, crashes>>

Moved == pc = "idle" /\ helper = "active" /\ gateway \notin {NoGateway, net.ep}

\* Mutated form of Follow: only the route to the server is moved.
MFollow ==
    /\ Moved
    /\ epRoute' = gateway /\ net' = [net EXCEPT !.ep = gateway] /\ pc' = "save" /\ Mended
    /\ UNCHANGED <<gateway, bypass, dns, pf, pfTokens, helper, opts, after, unsaved,
                   file, wanted, limits>>

Follow ==
    /\ Moved
    /\ epRoute' = gateway
    /\ bypass' = [n \in Net |-> IF n \in net.bypass THEN gateway ELSE bypass[n]]
    /\ net' = [net EXCEPT !.ep = gateway] /\ pc' = "save" /\ Mended
    /\ UNCHANGED <<gateway, dns, pf, pfTokens, helper, opts, after, unsaved, file,
                   wanted, limits>>

\* A route is deleted and cannot be added again: the rest keep the old gateway, and
\* so does the record.
FollowFails ==
    /\ Moved /\ "route" \in Faults
    /\ \/ epRoute' = NoGateway /\ UNCHANGED bypass
       \/ /\ epRoute' = gateway
          /\ \E done \in SUBSET net.bypass : \E bad \in net.bypass \ done :
                bypass' = [n \in Net |-> IF n \in done THEN gateway ELSE
                                         IF n = bad THEN NoGateway ELSE bypass[n]]
    /\ Excused("follow failed")
    /\ UNCHANGED <<gateway, dns, pf, pfTokens, helper, net, opts, pc, after, unsaved,
                   file, wanted, limits>>

\* refresh_split for one answer: a new address of a site goes around the tunnel.
Refresh(n) ==
    /\ pc = "idle" /\ helper = "active" /\ opts.mode = "except" /\ n \in Net \ net.bypass
    /\ bypass' = [bypass EXCEPT ![n] = net.ep]
    /\ net' = [net EXCEPT !.bypass = @ \cup {n}]
    /\ unsaved' = unsaved + 1
    /\ pc' = IF unsaved' >= Batch THEN "save" ELSE "idle"
    /\ UNCHANGED <<gateway, epRoute, dns, pf, pfTokens, helper, opts, after, file,
                   wanted, excuse, limits>>

\* The names are done, or a route command failed: the file is written once more.
Resolved ==
    /\ pc = "idle" /\ helper = "active" /\ opts.mode # "all" /\ pc' = "save"
    /\ UNCHANGED <<system, helper, net, opts, after, unsaved, file, wanted, excuse, limits>>

\* Mutated form of Save: the write is lost.
MSave ==
    /\ pc = "save" /\ pc' = "idle" /\ unsaved' = 0
    /\ UNCHANGED <<system, helper, net, opts, after, file, wanted, excuse, limits>>

Save ==
    /\ pc = "save" /\ pc' = "idle" /\ file' = net /\ unsaved' = 0
    /\ UNCHANGED <<system, helper, net, opts, after, wanted, excuse, limits>>

SaveFails ==
    /\ pc = "save" /\ "save" \in Faults /\ pc' = "idle"
    /\ file' \in {file, Torn} /\ unsaved' = 0 /\ Excused("save failed")
    /\ UNCHANGED <<system, helper, net, opts, after, wanted, limits>>

---------------------------------------------------------------------------
(* The process dies between two commands and is started again.             *)

\* What this death costs: changes that no file speaks of, or a file that speaks of
\* a block already lifted.
CrashExcuse ==
    (IF pc \in UpSteps \/ (pc \in UndoSteps /\ after = "failed")
     THEN {"crash in up"} ELSE {})
    \cup (IF pc \in UndoSteps \ {"undo pf"} /\ after \in {"idle", "device"}
          THEN {"crash in down"} ELSE {})
    \cup (IF unsaved > 0 THEN {"crash in refresh"} ELSE {})

\* Mutated forms of Recover: the start undoes the block too; it lifts the rules of
\* the block it keeps.
MRecover(f) ==
    /\ helper' = "none"
    /\ IF f \in {NoFile, Torn}
       THEN net' = Unchanged /\ pc' = "idle" /\ after' = "idle"
       ELSE net' = f /\ pc' = "undo pf" /\ after' = "start"
MRecoverFlush(f) ==
    /\ helper' = "none"
    /\ IF f \in {NoFile, Torn}
       THEN net' = Unchanged /\ pc' = "idle" /\ after' = "idle"
       ELSE net' = f /\ pc' = "undo pf" /\ after' = IF f.kill THEN "keep" ELSE "start"

\* main: what the state file says was changed.  A file that does not parse is left.
Recover(f) ==
    /\ helper' = "none"
    /\ IF f \in {NoFile, Torn}
       THEN net' = Unchanged /\ pc' = "idle" /\ after' = "idle"
       ELSE /\ net' = f
            /\ pc' = IF f.kill THEN "undo bypass" ELSE "undo pf"
            /\ after' = IF f.kill THEN "keep" ELSE "start"

Crash ==
    /\ crashes < MaxCrashes /\ crashes' = crashes + 1
    /\ \/ file' = file /\ excuse' = excuse \cup CrashExcuse
       \/ /\ pc \in {"write", "save"} /\ file' = Torn
          /\ excuse' = excuse \cup CrashExcuse \cup {"crash in save"}
    /\ Recover(file') /\ unsaved' = 0
    /\ UNCHANGED <<system, opts, wanted, ups, moves>>

---------------------------------------------------------------------------
Configure ==
    \/ CreateDevice \/ DeviceFails \/ AddEndpointRoute \/ BypassDone
    \/ \E n \in Known : AddBypass(n)
    \/ LoadRules \/ EnableFilter \/ DnsDone \/ \E s \in Service : SetDns(s)
    \/ UpFails \/ WriteState \/ WriteFails

Undo == UndoFilter \/ UndoBypass \/ UndoDns \/ UndoRoute \/ UndoFile \/ KeepBlock

Watch == Follow \/ FollowFails \/ Resolved \/ Save \/ SaveFails \/ \E n \in Net : Refresh(n)

Next ==
    \/ \E o \in Options : Up(o)
    \/ Down \/ Configure \/ Undo \/ Watch \/ Crash
    \/ \E g \in Via : GatewayMoves(g)

Spec == Init /\ [][Next]_vars

\* The helper's thread runs on; the network watcher looks every five seconds, and
\* a move of the routes that is tried for ever succeeds at some time.
Fairness == WF_vars(Configure) /\ WF_vars(Undo) /\ WF_vars(Save) /\ SF_vars(Follow)
FairSpec == Spec /\ Fairness

---------------------------------------------------------------------------
(* Properties *)

\* Record r is enough to undo every change of the system, and names the user's own
\* DNS servers.
Covers(r) ==
    /\ epRoute # NoGateway => r.ep # NoGateway
    /\ \A n \in Net : bypass[n] # NoGateway => n \in r.bypass
    /\ \A s \in Service : dns[s] = "vpn" => r.dns[s] = "own"
    /\ pf => r.kill
    /\ pfTokens \subseteq {r.token}

\* Undone, in the order of undo: the part of the record that is still to come.
Remaining ==
    LET past(step) == \/ pc = "undo file"
                      \/ pc = "undo route" /\ step \in {"pf", "bypass", "dns"}
                      \/ pc = "undo dns" /\ step \in {"pf", "bypass"}
                      \/ pc = "undo bypass" /\ step = "pf" /\ after # "keep"
    IN [ep |-> IF pc = "undo file" THEN NoGateway ELSE net.ep,
        dns |-> IF past("dns") THEN Unchanged.dns ELSE net.dns,
        bypass |-> IF past("bypass") THEN {} ELSE net.bypass,
        kill |-> IF past("pf") /\ after # "keep" THEN FALSE ELSE net.kill,
        token |-> IF past("pf") /\ after # "keep" THEN 0 ELSE net.token]

Forgets == {"crash in up", "crash in save", "crash in refresh", "undo failed",
            "write failed", "save failed"}

\* Everything the helper changed and has not undone is in the record it will undo
\* from, with the user's own DNS servers; with no record, nothing is changed
\* (macos.rs:1-2).  The exceptions are the events of Forgets.
Recorded ==
    excuse \cap Forgets = {} =>
        Covers(IF pc \in UndoSteps THEN Remaining ELSE
               IF pc = "device" \/ (pc = "idle" /\ helper = "none") THEN Unchanged
               ELSE net)

\* While connected, the state file alone is enough to undo everything after a crash,
\* unless routes were refreshed since it was written.
FileSuffices ==
    helper = "active" /\ pc = "idle" /\ unsaved = 0 /\ excuse \cap Forgets = {} =>
        Covers(file)

\* The kill switch is lifted only for the user: by a Down, by an Up, never by a
\* start after a crash or by a watcher (main.rs:261-262).
LiftedOnRequest ==
    [][pf /\ ~pf' => after \in {"idle", "device", "failed"}]_vars

\* A connection with the kill switch and a block left by a crash do block, unless
\* the process died while a Down was lifting the block.
BlockedIsBlocked ==
    /\ helper = "active" /\ opts.kill /\ opts.mode = "all" => pf
    /\ helper = "blocked" /\ "crash in down" \notin excuse => pf

\* All routes around the tunnel lie on one gateway, the recorded one, unless a move
\* failed and none was made since: the next move that succeeds, or a new connection,
\* mends whatever a failed one left.
OneGateway ==
    helper = "active" /\ "follow failed" \notin excuse =>
        epRoute = net.ep /\ \A n \in net.bypass : bypass[n] = net.ep

\* The route to the server comes back to the physical gateway (main.rs:137).
RouteFollows ==
    \A g \in Gateway :
        []<>(helper # "active" \/ gateway # g \/ epRoute = g)

---------------------------------------------------------------------------
(* What comments and documents say and the code does not keep.             *)

\* While connected and with nothing to move, the server's route leads to the gateway of
\* the moment (main.rs:137).
GatewayKept ==
    helper = "active" /\ pc = "idle" /\ gateway = net.ep => epRoute = gateway

\* The block a crash left, or a connection's, is gone once the user disconnected
\* (main.rs:263).
DisconnectUnblocks ==
    wanted = "down" /\ pc = "idle" /\ helper = "none" => ~pf

\* dns_backup holds the servers from before we changed them (macos.rs:17).
BackupIsOriginal == \A s \in Service : net.dns[s] # "vpn"

\* An Up that fails is undone: nothing it changed stays (macos.rs:1-2).
FailedUpUndone ==
    wanted = "up" /\ pc = "idle" /\ helper = "none" => Covers(Unchanged)
=============================================================================

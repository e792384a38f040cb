--------------------------------- MODULE App ---------------------------------
(***************************************************************************)
(* Who asks the helper for what, and what the user sees of it: the power   *)
(* button, "cancel" and the exits of the window, the tray and auto-connect,*)
(* all over a helper that serves one Up or Down at a time.  The window's   *)
(* script is one thread, but its calls are threads of their own: requests  *)
(* and answers overtake each other, and each handler goes on from its await*)
(* with whatever the others have made of the state in between.             *)
(***************************************************************************)
EXTENDS Naturals

CONSTANT MaxEvents   \* bound: clicks, deaths of the helper and the auto-connect

ASSUME AppAssumption == MaxEvents \in Nat \ {0}

AutoCall == 0               \* the call of auto-connect; the others are clicks
Calls    == 0..MaxEvents

VARIABLES
    call,     \* each call: who made it, what it asks for, how far it is, its answer
    running, tunnel,   \* the helper process; none, up, or blocked by the kill switch
    cached,   \* LAST_STATUS
    shown,    \* app.status of the window
    alive,    \* app.helper.running
    busy,     \* app.busy
    poll,     \* refreshStatus: how far it is, its answer, the handler that awaits it
    events    \* how many clicks and deaths there were

helper == <<running, tunnel, cached>>
window == <<shown, alive, busy, poll>>
vars   == <<call, helper, window, events>>

Tunnels == {"none", "up", "blocked"}
Status  == [t : Tunnels \cup {"unknown"}, busy : BOOLEAN]

Plain(t)   == [t |-> t, busy |-> FALSE]
Unknown    == Plain("unknown")                   \* null, an error
Busy       == [t |-> "none", busy |-> TRUE]
Unreported == Plain("none")                      \* LAST_STATUS of a new process

Makers == {"power", "cancel", "switch", "tray", "auto"}
Points == {"none", "start", "select", "sent", "wait", "held", "working", "replied",
           "refresh", "done"}

TypeOK ==
    /\ call \in [Calls -> [by : Makers, act : {"up", "down"}, at : Points,
                           answer : Status]]
    /\ running \in BOOLEAN /\ tunnel \in Tunnels /\ cached \in Status
    /\ shown \in Status /\ alive \in BOOLEAN
    /\ busy \in {"", "connecting", "disconnecting"}
    /\ poll \in [at : {"idle", "asked", "answered", "failed"}, answer : Status,
                 for : Calls]
    /\ events \in 0..MaxEvents

Call(by, act, at) == [by |-> by, act |-> act, at |-> at, answer |-> Unknown]
NoPoll == [at |-> "idle", answer |-> Unknown, for |-> AutoCall]

\* The app starts; the helper may have kept a tunnel, or a block, from before.  The
\* first helperState is answered before or after the first status.
Init ==
    /\ \E auto \in BOOLEAN :
           /\ call = [n \in Calls |-> Call("auto", "up", IF n # AutoCall THEN "none"
                                          ELSE IF auto THEN "start" ELSE "done")]
           /\ events = IF auto THEN 1 ELSE 0
    /\ running = TRUE /\ tunnel \in Tunnels /\ cached = Plain(tunnel)
    /\ shown = Unknown /\ alive \in BOOLEAN /\ busy = "" /\ poll = NoPoll

Goto(n, at) == call' = [call EXCEPT ![n].at = at]
Done(n) == call' = [call EXCEPT ![n] = Call("auto", "up", "done")]

\* The mutex of the helper is free.
Free == \A n \in Calls : call[n].at \notin {"held", "working"}

\* What the helper answers a Status.
StatusNow == IF Free THEN Plain(tunnel) ELSE cached

---------------------------------------------------------------------------
(* The user and auto-connect.                                              *)

\* A click makes the next call.
Click(by, act, at) ==
    /\ events < MaxEvents /\ events' = events + 1
    /\ call' = [call EXCEPT ![events'] = Call(by, act, at)]

Flag(act) == IF act = "up" THEN "connecting" ELSE "disconnecting"

\* The power button is disabled while busy or without a helper; "lift the block", which
\* does the same, is not.
PowerEnabled == busy = "" /\ ~shown.busy /\ alive
LiftOffered  == shown.t = "blocked"

\* toggleConnection; with a status that is not known, it connects.
Toggle ==
    LET act == IF shown.t \in {"up", "blocked"} THEN "down" ELSE "up" IN
    /\ (PowerEnabled \/ LiftOffered) /\ Click("power", act, "sent") /\ busy' = Flag(act)
    /\ UNCHANGED <<helper, shown, alive, poll>>

\* cancelConnection
Cancel ==
    /\ (busy = "connecting" \/ shown.busy) /\ busy # "disconnecting"
    /\ Click("cancel", "down", "sent") /\ busy' = "disconnecting"
    /\ UNCHANGED <<helper, shown, alive, poll>>

\* switchExit, up to its first await.
Switch ==
    /\ busy = "" /\ Click("switch", "up", "select")
    /\ UNCHANGED <<helper, window>>

\* toggle of the tray: Status is asked on the spot, the request goes to a thread.
TrayToggle ==
    /\ running /\ cached' = StatusNow
    /\ Click("tray", IF StatusNow.t # "none" \/ StatusNow.busy THEN "down" ELSE "up",
             "sent")
    /\ UNCHANGED <<running, tunnel, window>>

\* Mutated form of AutoConnect: a helper at work counts as disconnected.
MAutoConnect ==
    /\ call[AutoCall].at = "start"
    /\ Goto(AutoCall, IF running /\ StatusNow.t # "up" THEN "sent" ELSE "done")
    /\ cached' = (IF running THEN StatusNow ELSE cached)
    /\ UNCHANGED <<running, tunnel, window, events>>

\* setup: a tunnel that is up, or comes up, is not replaced.
AutoConnect ==
    /\ call[AutoCall].at = "start"
    /\ Goto(AutoCall, IF running /\ StatusNow.t # "up" /\ ~StatusNow.busy
                  THEN "sent" ELSE "done")
    /\ cached' = (IF running THEN StatusNow ELSE cached)
    /\ UNCHANGED <<running, tunnel, window, events>>

---------------------------------------------------------------------------
(* The helper, as the calls see it.                                        *)

\* An Up needs the mutex at once; a Down waits for it.
Arrive(n) ==
    /\ call[n].at = "sent"
    /\ Goto(n, IF ~running \/ (call[n].act = "up" /\ ~Free) THEN "replied"
               ELSE IF call[n].act = "up" THEN "held" ELSE "wait")
    /\ UNCHANGED <<helper, window, events>>

DownLock(n) ==
    /\ call[n].at = "wait" /\ Free /\ Goto(n, "held")
    /\ UNCHANGED <<helper, window, events>>

Begin(n) ==
    /\ call[n].at = "held" /\ Goto(n, "working") /\ cached' = Busy
    /\ UNCHANGED <<running, tunnel, window, events>>

Reply(n, t, ok) ==
    /\ tunnel' = t /\ cached' = Plain(t)
    /\ call' = [call EXCEPT ![n].at = "replied",
                            ![n].answer = IF ok THEN Plain(t) ELSE Unknown]

\* An Up that fails may have ended the tunnel before it, or not yet.
End(n) ==
    /\ call[n].at = "working"
    /\ \/ call[n].act = "down" /\ Reply(n, "none", TRUE)
       \/ call[n].act = "up" /\ Reply(n, "up", TRUE)
       \/ call[n].act = "up" /\ \E t \in {tunnel, "none"} : Reply(n, t, FALSE)
    /\ UNCHANGED <<running, window, events>>

\* Every connection to it breaks; the kill switch of a tunnel becomes a block.
HelperDies ==
    /\ running /\ events < MaxEvents /\ events' = events + 1 /\ running' = FALSE
    /\ tunnel' \in (IF tunnel = "up" THEN {"none", "blocked"} ELSE {tunnel})
    /\ call' = [n \in Calls |->
                   IF call[n].at \in {"wait", "held", "working"}
                   THEN [call[n] EXCEPT !.at = "replied"] ELSE call[n]]
    /\ UNCHANGED <<cached, window>>

HelperStarts ==
    /\ ~running /\ running' = TRUE /\ cached' = Unreported
    /\ UNCHANGED <<call, tunnel, window, events>>

---------------------------------------------------------------------------
(* The window's handlers after their awaits.                               *)

\* Mutated form of Cleared: toggleConnection's finally does not look at the flag, and
\* cancel's does.
MCleared(n) ==
    IF call[n].by = "cancel" /\ busy # "connecting" THEN busy ELSE ""

\* finally: cancel takes any flag back, the others only their own.
Cleared(n) ==
    IF call[n].by = "cancel" \/ busy = Flag(call[n].act) THEN "" ELSE busy

\* switchExit after select: only a connection is made again; select may fail.
Selected(n) ==
    /\ call[n].at = "select"
    /\ \/ shown.t = "up" /\ Goto(n, "sent") /\ busy' = "connecting"
       \/ shown.t # "up" /\ Done(n) /\ busy' = Cleared(n)
       \/ Goto(n, "replied") /\ busy' = busy
    /\ UNCHANGED <<helper, shown, alive, poll, events>>

InWindow(n) == call[n].by \in {"power", "cancel", "switch"}

\* An answer is shown; then finally.
ReturnOk(n) ==
    /\ call[n].at = "replied" /\ call[n].answer # Unknown /\ Done(n)
    /\ IF InWindow(n) THEN shown' = call[n].answer /\ busy' = Cleared(n)
       ELSE UNCHANGED <<shown, busy>>
    /\ UNCHANGED <<helper, alive, poll, events>>

\* catch: refreshStatus, which returns at once if one is under way; then finally.
ReturnError(n) ==
    /\ call[n].at = "replied" /\ call[n].answer = Unknown
    /\ IF call[n].by \in {"power", "switch"} /\ poll.at = "idle"
       THEN /\ Goto(n, "refresh") /\ busy' = busy
            /\ poll' = [at |-> "asked", answer |-> Unknown, for |-> n]
       ELSE /\ Done(n) /\ poll' = poll
            /\ busy' = IF InWindow(n) THEN Cleared(n) ELSE busy
    /\ UNCHANGED <<helper, shown, alive, events>>

\* refreshStatus, once a second and one at a time.
PollStart ==
    /\ poll.at = "idle" /\ poll' = [NoPoll EXCEPT !.at = "asked"]
    /\ UNCHANGED <<call, helper, shown, alive, busy, events>>

PollServe ==
    /\ poll.at = "asked"
    /\ poll' = [poll EXCEPT !.at = "answered",
                            !.answer = IF running THEN StatusNow ELSE Unknown]
    /\ cached' = (IF running THEN StatusNow ELSE cached)
    /\ UNCHANGED <<call, running, tunnel, shown, alive, busy, events>>

\* The handler that awaited refreshStatus goes on to its finally.
PollOver ==
    IF poll.for = AutoCall THEN UNCHANGED <<call, busy>>
    ELSE Done(poll.for) /\ busy' = Cleared(poll.for)

\* Mutated form of PollFails: no finally, an error leaves refreshingStatus set.
MPollFails ==
    /\ poll.at = "failed" /\ alive' = running /\ UNCHANGED poll
    /\ cached' = (IF running THEN StatusNow ELSE cached)
    /\ PollOver /\ UNCHANGED <<running, tunnel, shown, events>>

PollReturn ==
    /\ poll.at = "answered" /\ shown' = poll.answer
    /\ IF poll.answer = Unknown
       THEN /\ poll' = [poll EXCEPT !.at = "failed"]
            /\ UNCHANGED <<call, alive, busy>>
       ELSE poll' = NoPoll /\ alive' = TRUE /\ PollOver
    /\ UNCHANGED <<helper, events>>

\* catch: helperState, which asks for a Status once more; then finally.
PollFails ==
    /\ poll.at = "failed" /\ alive' = running /\ poll' = NoPoll
    /\ cached' = (IF running THEN StatusNow ELSE cached)
    /\ PollOver /\ UNCHANGED <<running, tunnel, shown, events>>

Serve(n) ==
    Arrive(n) \/ DownLock(n) \/ Begin(n) \/ End(n)
    \/ Selected(n) \/ ReturnOk(n) \/ ReturnError(n)

Next ==
    \/ Toggle \/ Cancel \/ Switch \/ TrayToggle \/ AutoConnect
    \/ \E n \in Calls : Serve(n)
    \/ HelperDies \/ HelperStarts \/ PollStart \/ PollServe \/ PollReturn \/ PollFails

Spec == Init /\ [][Next]_vars

\* Threads run, the timer fires, and what was asked is answered; the user need not
\* click, auto-connect and the helper need not start.
Fairness ==
    /\ \A n \in Calls : WF_vars(Serve(n))
    /\ WF_vars(PollStart) /\ WF_vars(PollServe)
    /\ WF_vars(PollReturn) /\ WF_vars(PollFails)

FairSpec == Spec /\ Fairness

---------------------------------------------------------------------------
(* Properties *)

\* Neither the tray nor auto-connect sends an Up that was decided while a tunnel was
\* up, though the status they decide from may be the cached one (tray.rs:23, lib.rs:246).
ConnectsOnlyWhenDown ==
    [][\A n \in Calls : call[n].at \in {"none", "start"} /\ call'[n].at = "sent"
                        /\ call'[n].by \in {"tray", "auto"} /\ call'[n].act = "up" =>
           tunnel # "up"]_vars

\* A flag that is shown goes away again: no order of answers leaves the buttons
\* disabled for ever.
BusyEnds == busy # "" ~> busy = ""

\* Whatever late answers were shown, the window ends up with the truth.
Truth == IF running THEN Plain(tunnel) ELSE Unknown
WindowCatchesUp == <>[](shown = Truth)

---------------------------------------------------------------------------
(* What a comment says and the code does not keep.                         *)

\* Auto-connect does not replace a tunnel that is already up (lib.rs:246): its Up may
\* come after one the user brought up since the Status.
AutoKeepsTunnel ==
    [][call[AutoCall].at = "held" /\ call'[AutoCall].at = "working" => tunnel # "up"]_vars
=============================================================================

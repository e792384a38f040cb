---------------------------- MODULE HelperServer ----------------------------
(***************************************************************************)
(* The request protocol of the privileged helper: one thread per request   *)
(* (handle), the Mutex<Helper> they share, the cancellation flag PREPARATION,*)
(* the cached LAST_STATUS, the two watcher threads, and what survives the  *)
(* death of the process.  Both platforms run this protocol; Platform       *)
(* selects the bodies of up, down and the service start where they differ. *)
(*                                                                         *)
(* A connection is its number and its kind; what it does to the network is *)
(* the subject of MacHelper.  Commands that may fail are a free choice.    *)
(***************************************************************************)
EXTENDS Naturals

CONSTANTS
    Platform,      \* "macos" or "windows"
    Client,        \* connections of the app to the socket, served concurrently
    Network,       \* the thread of watch_network
    Domains,       \* the thread of watch_domains (watch_split on Windows)
    Nobody,        \* the mutex is free
    MaxUps,        \* bound: an Up is only sent while fewer than this many began
    MaxRestarts    \* bound: deaths and stops of the process

ASSUME PlatformAssumption == Platform \in {"macos", "windows"}
ASSUME ThreadsAssumption ==
    /\ Network \notin Client /\ Domains \notin Client /\ Nobody \notin Client
    /\ Network # Domains /\ Network # Nobody /\ Domains # Nobody
ASSUME BoundsAssumption == MaxUps \in Nat /\ MaxRestarts \in Nat

VARIABLES
    lock,        \* who holds Mutex<Helper>
    active,      \* Helper.active: the connection, NoConn when there is none
    blocked,     \* Helper.blocked is Some
    asked,       \* the kind of connection the Up asked for, while it writes the file
    file,        \* the state file: none, the kind of connection it is of, or cut off
    cancelled,   \* PREPARATION.cancelled
    lastStatus,  \* LAST_STATUS
    req, pc, reply,  \* each request thread: request, control point, answer
    network,     \* watch_network: its control point
    watcher,     \* watch_domains: control point and the connection it resolves for
    routes,      \* Active.net (.listed): the connections whose answers it holds
    stopping,    \* the SIGTERM / service-stop handler runs
    restarts,    \* how often the process died or was stopped
    ups,         \* how many Ups took the mutex; the number of the latest attempt
    mark, heard  \* history of each Down: ups at its arrival; the attempt it cancelled

threads == <<req, pc, reply, mark, heard>>
core    == <<active, blocked, asked, file, routes>>
watch   == <<network, watcher>>
vars == <<lock, active, blocked, asked, file, cancelled, lastStatus, req, pc, reply,
          network, watcher, routes, stopping, restarts, ups, mark, heard>>

Kinds  == {"plain", "split", "kill"}   \* mode All; Only or Except; All with kill switch
NoConn == [id |-> 0, kind |-> "none"]
Conn   == [id : Nat, kind : Kinds \cup {"none"}]
Status == [busy : BOOLEAN, conn : Nat, blocked : BOOLEAN]

Unreported == [busy |-> FALSE, conn |-> 0, blocked |-> FALSE]
Busy       == [busy |-> TRUE, conn |-> 0, blocked |-> FALSE]

\* What status(&h) answers and stores in LAST_STATUS.
StatusNow == [busy |-> FALSE, conn |-> active.id,
              blocked |-> active = NoConn /\ blocked]

UpPoints == {"resolve", "configure", "commit", "writing", "recorded"}
WatchPoints == {"look", "looking", "resolve", "answer", "apply", "batch", "final",
                "finish", "record", "sleep"}

TypeOK ==
    /\ lock \in Client \cup {Network, Domains, Nobody}
    /\ active \in Conn /\ blocked \in BOOLEAN /\ asked \in Kinds \cup {"none"}
    /\ file \in Kinds \cup {"none", "torn"}
    /\ cancelled \in BOOLEAN /\ lastStatus \in Status
    /\ req \in [Client -> {"none", "status", "up", "down"}]
    /\ pc \in [Client -> {"idle", "status", "reading", "try", "wait", "begin",
                          "down", "succeeded", "failed", "replied"} \cup UpPoints]
    /\ reply \in [Client -> {"none", "ok", "error", "busy"}]
    /\ network \in {"sleep", "look", "write"}
    /\ watcher \in [at : WatchPoints, of : Nat] /\ routes \in SUBSET Nat
    /\ stopping \in BOOLEAN /\ restarts \in Nat /\ ups \in Nat
    /\ mark \in [Client -> Nat] /\ heard \in [Client -> Nat]

AllThreads(x) == [c \in Client |-> x]
Looking       == [at |-> "look", of |-> 0]

Init ==
    /\ lock = Nobody /\ active = NoConn /\ blocked = FALSE
    /\ asked = "none" /\ file = "none"
    /\ cancelled = FALSE /\ lastStatus = Unreported
    /\ req = AllThreads("none") /\ pc = AllThreads("idle") /\ reply = AllThreads("none")
    /\ network = "sleep" /\ watcher = Looking /\ routes = {} /\ stopping = FALSE
    /\ restarts = 0 /\ ups = 0 /\ mark = AllThreads(0) /\ heard = AllThreads(0)

Goto(c, point) == pc' = [pc EXCEPT ![c] = point]

---------------------------------------------------------------------------
(* handle: one thread per request.                                         *)

Working(c) == pc[c] \in {"begin", "down", "succeeded", "failed"} \cup UpPoints

\* The attempt a Down arriving now interrupts: an Up past preparation().start().
Interrupted == IF \E u \in Client : req[u] = "up" /\ Working(u) /\ pc[u] # "begin"
               THEN ups ELSE 0

ReceiveStatus(c) ==
    /\ pc[c] = "idle" /\ Goto(c, "status")
    /\ req' = [req EXCEPT ![c] = "status"] /\ reply' = [reply EXCEPT ![c] = "none"]
    /\ mark' = [mark EXCEPT ![c] = 0] /\ heard' = [heard EXCEPT ![c] = 0]
    /\ UNCHANGED <<lock, core, cancelled, lastStatus, watch, stopping,
                   restarts, ups>>

ReceiveUp(c) ==
    /\ pc[c] = "idle" /\ ups < MaxUps /\ Goto(c, "try")
    /\ req' = [req EXCEPT ![c] = "up"] /\ reply' = [reply EXCEPT ![c] = "none"]
    /\ mark' = [mark EXCEPT ![c] = 0] /\ heard' = [heard EXCEPT ![c] = 0]
    /\ UNCHANGED <<lock, core, cancelled, lastStatus, watch, stopping,
                   restarts, ups>>

\* Down cancels a running Up before it waits for the mutex.
ReceiveDown(c) ==
    /\ pc[c] = "idle" /\ Goto(c, "wait")
    /\ req' = [req EXCEPT ![c] = "down"] /\ reply' = [reply EXCEPT ![c] = "none"]
    /\ cancelled' = TRUE
    /\ mark' = [mark EXCEPT ![c] = ups]
    /\ heard' = [heard EXCEPT ![c] = Interrupted]
    /\ UNCHANGED <<lock, core, lastStatus, watch, stopping, restarts, ups>>

StatusLock(c) ==
    /\ pc[c] = "status" /\ lock = Nobody
    /\ lock' = c /\ Goto(c, "reading")
    /\ UNCHANGED <<core, cancelled, lastStatus, req, reply, watch,
                   stopping, restarts, ups, mark, heard>>

StatusRead(c) ==
    /\ pc[c] = "reading"
    /\ lastStatus' = StatusNow /\ lock' = Nobody
    /\ reply' = [reply EXCEPT ![c] = "ok"] /\ Goto(c, "idle")
    /\ UNCHANGED <<core, cancelled, req, watch, stopping, restarts, ups,
                   mark, heard>>

StatusCached(c) ==
    /\ pc[c] = "status" /\ lock # Nobody
    /\ reply' = [reply EXCEPT ![c] = "ok"] /\ Goto(c, "idle")
    /\ UNCHANGED <<lock, core, cancelled, lastStatus, req, watch, stopping,
                   restarts, ups, mark, heard>>

UpLock(c) ==
    /\ pc[c] = "try" /\ lock = Nobody
    /\ lock' = c /\ Goto(c, "begin") /\ ups' = ups + 1
    /\ UNCHANGED <<core, cancelled, lastStatus, req, reply, watch, stopping,
                   restarts, mark, heard>>

\* Mutated form of UpRefused: preparation().start() runs before try_lock.
MUpRefused(c) ==
    /\ pc[c] = "try" /\ lock # Nobody
    /\ reply' = [reply EXCEPT ![c] = "busy"] /\ Goto(c, "idle")
    /\ cancelled' = FALSE
    /\ UNCHANGED <<lock, core, lastStatus, req, watch, stopping,
                   restarts, ups, mark, heard>>

UpRefused(c) ==
    /\ pc[c] = "try" /\ lock # Nobody
    /\ reply' = [reply EXCEPT ![c] = "busy"] /\ Goto(c, "idle")
    /\ UNCHANGED <<lock, core, cancelled, lastStatus, req, watch, stopping,
                   restarts, ups, mark, heard>>

\* Mutated forms of DownLock: Down is refused as an Up would be; Down does not wait
\* for the mutex.
MDownTry(c) ==
    /\ pc[c] = "wait" /\ lock' = (IF lock = Nobody THEN c ELSE lock)
    /\ Goto(c, IF lock = Nobody THEN "begin" ELSE "idle")
    /\ reply' = [reply EXCEPT ![c] = IF lock = Nobody THEN @ ELSE "busy"]
    /\ UNCHANGED <<core, cancelled, lastStatus, req, watch, stopping,
                   restarts, ups, mark, heard>>
MDownLock(c) ==
    /\ pc[c] = "wait" /\ Goto(c, "begin")
    /\ UNCHANGED <<lock, core, cancelled, lastStatus, req, reply, watch,
                   stopping, restarts, ups, mark, heard>>

DownLock(c) ==
    /\ pc[c] = "wait" /\ lock = Nobody
    /\ lock' = c /\ Goto(c, "begin")
    /\ UNCHANGED <<core, cancelled, lastStatus, req, reply, watch, stopping,
                   restarts, ups, mark, heard>>

\* Mutated form of Begin: LAST_STATUS is not marked busy.
MBegin(c) ==
    /\ pc[c] = "begin"
    /\ cancelled' = (cancelled /\ req[c] # "up")
    /\ Goto(c, IF req[c] = "up" THEN "resolve" ELSE "down")
    /\ UNCHANGED <<lock, core, lastStatus, req, reply, watch, stopping,
                   restarts, ups, mark, heard>>

\* preparation().start() for an Up, then LAST_STATUS says busy.
Begin(c) ==
    /\ pc[c] = "begin"
    /\ cancelled' = (cancelled /\ req[c] # "up")
    /\ lastStatus' = Busy
    /\ Goto(c, IF req[c] = "up" THEN "resolve" ELSE "down")
    /\ UNCHANGED <<lock, core, req, reply, watch, stopping, restarts, ups,
                   mark, heard>>

\* down(&mut h): tunnel and block go away; macOS removes the file with what it undid.
DropAll ==
    /\ active' = NoConn /\ routes' = {} /\ blocked' = FALSE /\ UNCHANGED asked
    /\ file' = IF Platform = "macos" /\ active = NoConn /\ ~blocked THEN file ELSE "none"

Down(c) ==
    /\ pc[c] = "down" /\ DropAll /\ Goto(c, "succeeded")
    /\ UNCHANGED <<lock, cancelled, lastStatus, req, reply, watch, stopping,
                   restarts, ups, mark, heard>>

\* Mutated form of UpReplace: macOS replaces the tunnel without undoing anything.
MUpReplaceKeep(c) ==
    /\ pc[c] = "resolve" /\ active' = NoConn /\ routes' = {} /\ UNCHANGED <<blocked, asked, file>>
    /\ Goto(c, "configure")
    /\ UNCHANGED <<lock, cancelled, lastStatus, req, reply, watch, stopping,
                   restarts, ups, mark, heard>>

\* tunnel_config succeeded: macOS calls down, Windows only stops the tunnel.
UpReplace(c) ==
    /\ pc[c] = "resolve"
    /\ IF Platform = "macos" THEN DropAll
       ELSE active' = NoConn /\ routes' = {} /\ UNCHANGED <<blocked, asked, file>>
    /\ Goto(c, "configure")
    /\ UNCHANGED <<lock, cancelled, lastStatus, req, reply, watch, stopping,
                   restarts, ups, mark, heard>>

\* progress.check()? lets the Up go on; it is asked again before every route.
UpCheck(c) ==
    /\ pc[c] = "configure" /\ ~cancelled /\ Goto(c, "commit")
    /\ UNCHANGED <<lock, core, cancelled, lastStatus, req, reply, watch, stopping,
                   restarts, ups, mark, heard>>

\* A bad configuration, a failed command, a check that found the flag set, or on macOS
\* a state file that cannot be opened or written.  macOS undoes a configure that failed.
UpFails(c) ==
    /\ \/ pc[c] \in {"resolve", "configure", "commit"} /\ file' = file
       \/ Platform = "macos" /\ pc[c] = "writing" /\ file' = file
       \/ Platform = "macos" /\ pc[c] \in {"configure", "commit"} /\ file' = "none"
    /\ asked' = "none" /\ Goto(c, "failed")
    /\ UNCHANGED <<lock, active, routes, blocked, cancelled, lastStatus, req, reply,
                   watch, stopping, restarts, ups, mark, heard>>

\* The last check passed and the network is set.  fs::write cuts the file off first.
\* Windows has no file without the kill switch, and goes on if it cannot be opened.
UpOpens(c, kind) ==
    /\ pc[c] = "commit" /\ asked' = kind
    /\ \/ /\ Platform = "macos" \/ kind = "kill"
          /\ file' = "torn" /\ Goto(c, "writing")
       \/ /\ Platform = "windows" /\ Goto(c, "recorded")
          /\ file' = IF kind = "kill" THEN file ELSE "none"
    /\ blocked' = (blocked /\ Platform = "macos")
    /\ UNCHANGED <<lock, active, routes, cancelled, lastStatus, req, reply, watch,
                   stopping, restarts, ups, mark, heard>>

\* Windows goes on if the write fails.
UpWrites(c) ==
    /\ pc[c] = "writing" /\ Goto(c, "recorded")
    /\ \/ file' = asked
       \/ Platform = "windows" /\ file' = file
    /\ UNCHANGED <<lock, active, routes, blocked, asked, cancelled, lastStatus, req, reply,
                   watch, stopping, restarts, ups, mark, heard>>

\* Helper.active is set after the file was written.
UpConnects(c) ==
    /\ pc[c] = "recorded" /\ Goto(c, "succeeded")
    /\ active' = [id |-> ups, kind |-> asked] /\ asked' = "none"
    /\ UNCHANGED <<lock, blocked, file, routes, cancelled, lastStatus, req, reply, watch,
                   stopping, restarts, ups, mark, heard>>

\* status(&h) on both outcomes, then the answer is written; the mutex is still held.
Finish(c) ==
    /\ pc[c] \in {"succeeded", "failed"}
    /\ lastStatus' = StatusNow
    /\ reply' = [reply EXCEPT ![c] = IF pc[c] = "failed" THEN "error" ELSE "ok"]
    /\ Goto(c, "replied")
    /\ UNCHANGED <<lock, core, cancelled, req, watch, stopping, restarts,
                   ups, mark, heard>>

Release(c) ==
    /\ pc[c] = "replied" /\ lock' = Nobody /\ Goto(c, "idle")
    /\ UNCHANGED <<core, cancelled, lastStatus, req, reply, watch, stopping,
                   restarts, ups, mark, heard>>

---------------------------------------------------------------------------
(* watch_network holds the mutex while it looks at the gateway (macOS).    *)

others == <<cancelled, lastStatus, threads, stopping, restarts, ups>>

NetworkLock ==
    /\ Platform = "macos" /\ network = "sleep" /\ lock = Nobody
    /\ lock' = Network /\ network' = "look"
    /\ UNCHANGED <<others, core, watcher>>

\* No connection, the same gateway, a failed move, or a file that cannot be opened.
NetworkRelease ==
    /\ network = "look" /\ lock' = Nobody /\ network' = "sleep"
    /\ UNCHANGED <<others, core, watcher>>

\* The gateway changed and the routes follow it: the state file is written again.
NetworkOpens ==
    /\ network = "look" /\ active # NoConn
    /\ file' = "torn" /\ network' = "write"
    /\ UNCHANGED <<others, lock, active, blocked, asked, routes, watcher>>

\* Mutated form of NetworkWrites: a.net is written as if it had no kill switch.
MNetworkWrites ==
    /\ network = "write" /\ lock' = Nobody /\ network' = "sleep"
    /\ file' = "plain"
    /\ UNCHANGED <<others, active, blocked, asked, routes, watcher>>

\* The write succeeds, or its failure is ignored.
NetworkWrites ==
    /\ network = "write" /\ lock' = Nobody /\ network' = "sleep"
    /\ file' \in {active.kind, file}
    /\ UNCHANGED <<others, active, blocked, asked, routes, watcher>>

(* watch_domains: resolves the sites of a split connection without the     *)
(* mutex and takes it for every answer.                                    *)

WatchLock(from, to) ==
    /\ watcher.at = from /\ lock = Nobody
    /\ lock' = Domains /\ watcher' = [watcher EXCEPT !.at = to]
    /\ UNCHANGED <<others, core, network>>

\* The thread gives the mutex back, if it has it, and goes on there.
WatchGoes(to) ==
    /\ watcher' = [watcher EXCEPT !.at = to]
    /\ lock' = IF lock = Domains THEN Nobody ELSE lock
    /\ UNCHANGED <<others, network>>

\* Where resolving ends: macOS writes the state file once more.
AfterResolving == IF Platform = "macos" THEN "final" ELSE "sleep"

\* control.check(): the token of a connection is cancelled when it is taken down.
ControlCancelled == active.id # watcher.of

\* Mutated form of WatchSnapshot: the resolver goes to sleep again after a look.
MWatchSnapshot ==
    /\ watcher.at = "looking" /\ lock' = Nobody
    /\ watcher' = IF active.kind = "split" /\ watcher.of = 0
                  THEN [at |-> "resolve", of |-> active.id]
                  ELSE [watcher EXCEPT !.at = "look"]
    /\ UNCHANGED <<others, core, network>>

WatchSnapshot ==
    /\ watcher.at = "looking" /\ lock' = Nobody
    /\ watcher' = IF active.kind = "split"
                  THEN [at |-> "resolve", of |-> active.id]
                  ELSE [watcher EXCEPT !.at = "look"]
    /\ UNCHANGED <<others, core, network>>

\* An answer arrived and the token was still good; the mutex comes next.
WatchAnswer ==
    watcher.at = "resolve" /\ ~ControlCancelled /\ WatchGoes("answer") /\ UNCHANGED core

\* Every name is done, the token was cancelled, or resolving failed.
WatchResolved ==
    watcher.at = "resolve" /\ WatchGoes(AfterResolving) /\ UNCHANGED core

\* Mutated form of SameConnection: any connection will do.
MSameConnection == active # NoConn

\* Arc::ptr_eq under the mutex: the connection is the one asked for.
SameConnection == active # NoConn /\ active.id = watcher.of

\* The answer is added to the connection; macOS writes the file after every batch.
WatchApply ==
    /\ watcher.at = "apply" /\ SameConnection
    /\ routes' = routes \cup {watcher.of}
    /\ \/ WatchGoes("resolve") /\ UNCHANGED file
       \/ /\ Platform = "macos" /\ file' = "torn"
          /\ watcher' = [watcher EXCEPT !.at = "batch"] /\ UNCHANGED <<others, lock, network>>
    /\ UNCHANGED <<active, blocked, asked>>

\* Another connection, or a route command failed, perhaps not the first: resolving ends.
WatchGiveUp ==
    /\ watcher.at = "apply" /\ WatchGoes(AfterResolving)
    /\ \/ UNCHANGED routes
       \/ SameConnection /\ routes' = routes \cup {watcher.of}
    /\ UNCHANGED <<active, blocked, asked, file>>

\* A file that cannot be written ends resolving.
WatchBatch ==
    /\ watcher.at = "batch"
    /\ \/ file' = active.kind /\ WatchGoes("resolve")
       \/ file' = file /\ WatchGoes("final")
    /\ UNCHANGED <<active, blocked, asked, routes>>

\* The state file is written once more, for the connection resolved for.
WatchFinish ==
    /\ watcher.at = "finish"
    /\ \/ WatchGoes("sleep") /\ UNCHANGED file
       \/ /\ SameConnection /\ file' = "torn"
          /\ watcher' = [watcher EXCEPT !.at = "record"] /\ UNCHANGED <<others, lock, network>>
    /\ UNCHANGED <<active, blocked, asked, routes>>

WatchRecord ==
    /\ watcher.at = "record" /\ WatchGoes("sleep")
    /\ file' \in {active.kind, file} /\ UNCHANGED <<active, blocked, asked, routes>>

\* 600 seconds passed, or the token was cancelled.
WatchWake == watcher.at = "sleep" /\ WatchGoes("look") /\ UNCHANGED core

WatchStep ==
    \/ WatchSnapshot \/ WatchAnswer \/ WatchResolved \/ WatchApply \/ WatchGiveUp
    \/ WatchBatch \/ WatchFinish \/ WatchRecord \/ WatchWake
WatchTakes ==
    \/ WatchLock("look", "looking") \/ WatchLock("answer", "apply")
    \/ WatchLock("final", "finish")

---------------------------------------------------------------------------
(* The process dies or is stopped; launchd / the service manager restarts  *)
(* it.  Requests in flight lose their connection.                          *)

Restarted ==
    /\ restarts < MaxRestarts /\ restarts' = restarts + 1
    /\ lock' = Nobody /\ active' = NoConn /\ routes' = {} /\ asked' = "none"
    /\ cancelled' = FALSE
    /\ lastStatus' = Unreported /\ stopping' = FALSE
    /\ req' = AllThreads("none") /\ pc' = AllThreads("idle") /\ reply' = AllThreads("none")
    /\ mark' = AllThreads(0) /\ heard' = AllThreads(0)
    /\ network' = "sleep" /\ watcher' = Looking /\ UNCHANGED ups

\* main / restore_block: a state file with the kill switch keeps traffic blocked.  macOS
\* undoes what any other says and removes it, but leaves one it cannot parse; Windows
\* removes all others.  On Windows block() itself may fail, and the file stays.
Crash ==
    /\ Restarted
    /\ \/ blocked' = (file = "kill")
       \/ Platform = "windows" /\ blocked' = FALSE
    /\ file' = IF file = "kill" \/ (file = "torn" /\ Platform = "macos")
               THEN file ELSE "none"

StopSignal ==
    /\ ~stopping /\ restarts < MaxRestarts /\ stopping' = TRUE
    /\ cancelled' = (cancelled \/ Platform = "macos")
    /\ UNCHANGED <<lock, core, lastStatus, threads, watch, restarts, ups>>

StopDown ==
    /\ stopping /\ lock = Nobody
    /\ Restarted /\ blocked' = FALSE
    /\ file' = IF Platform = "macos" /\ active = NoConn /\ ~blocked THEN file ELSE "none"

---------------------------------------------------------------------------
NetworkStep == NetworkRelease \/ NetworkOpens \/ NetworkWrites

Serve(c) ==
    \/ StatusLock(c) \/ StatusRead(c) \/ StatusCached(c)
    \/ UpLock(c) \/ UpRefused(c) \/ DownLock(c) \/ Begin(c) \/ Down(c)
    \/ UpReplace(c) \/ UpCheck(c) \/ UpFails(c)
    \/ (\E kind \in Kinds : UpOpens(c, kind)) \/ UpWrites(c) \/ UpConnects(c)
    \/ Finish(c) \/ Release(c)

Next ==
    \/ \E c \in Client : ReceiveStatus(c) \/ ReceiveUp(c) \/ ReceiveDown(c) \/ Serve(c)
    \/ NetworkLock \/ NetworkStep \/ WatchTakes \/ WatchStep
    \/ Crash \/ StopSignal \/ StopDown

Spec == Init /\ [][Next]_vars

\* Threads that can run do run.  The mutex is not fair, but every holder gives it
\* back and the watchers sleep a second or more between two acquisitions, so a
\* thread parked in lock() is not overtaken for ever.
Fairness ==
    /\ \A c \in Client : WF_vars(Serve(c)) /\ SF_vars(DownLock(c))
    /\ WF_vars(NetworkStep) /\ WF_vars(WatchStep) /\ SF_vars(WatchTakes)
    /\ SF_vars(StopDown)

FairSpec == Spec /\ Fairness

---------------------------------------------------------------------------
(* Properties *)

\* The tunnel, from the moment the file speaks of it: the rest of up cannot fail.
Tunnel == IF \E c \in Client : pc[c] = "recorded"
          THEN [id |-> ups, kind |-> asked] ELSE active

\* On macOS the protocol keeps the promise of Protection: one tunnel at a time, never
\* connected over a block, and a death turns exactly a kill switch into a block, as
\* long as the file that records it can be read.
Promise == INSTANCE Protection
           WITH tunnel <- Tunnel, blocked <- blocked, attempts <- ups,
                readable <- (file # "torn")
KeepsPromise == Promise!Spec

\* "Busy" is shown only while a request thread with the mutex is inside up or
\* down; no error path leaves the cached status busy for ever (main.rs:243).
BusyOnlyWhileWorking ==
    lastStatus.busy => \E c \in Client : lock = c /\ Working(c)

\* A cached status that is not busy tells the truth about the tunnel and the
\* block, except before the first answer of a process that started blocked.
CachedStatusTrue ==
    \/ lastStatus.busy
    \/ lastStatus = StatusNow
    \/ lastStatus = Unreported /\ active = NoConn /\ blocked

\* After a Down is answered, no Up that took the mutex before the Down arrived
\* is, or becomes, connected.
DownEndsEarlierUps ==
    \A d \in Client : req[d] = "down" /\ reply[d] = "ok" =>
                          active.id = 0 \/ active.id > mark[d]

\* The flag a waiting Down raised for a running Up stays up until that Up is over:
\* no refused or later Up lowers it in between.
CancelHeard ==
    \A d \in Client : pc[d] = "wait" /\ heard[d] # 0 /\ heard[d] = ups => cancelled

\* Whatever the resolver found for one connection never enters another, and nothing
\* is routed around a connection that is not split: while it resolved or waited for
\* the mutex, the connection may have been replaced (main.rs:172).
OnlyOwnRoutes ==
    routes # {} => active.kind = "split" /\ routes = {active.id}

\* Traffic is held back: by the rules of a tunnel, also of one not yet in Helper, or by
\* the block of a crash.
Protected == Tunnel.kind = "kill" \/ blocked

\* A restart after a crash, at any moment of an Up or of the watchers, blocks traffic
\* exactly if it was held back before.  The one exception is a file that was cut off by
\* the crash or by a write that failed: then nobody blocks (main.rs:265).
CrashKeepsProtection ==
    [][Crash => (blocked' <=> Protected /\ file # "torn")]_vars

\* A Down that arrived is answered, with the tunnel down and nothing blocked,
\* unless the process is stopped first.
DownServed ==
    \A c \in Client : pc[c] = "wait" ~>
        \/ active = NoConn /\ ~blocked /\ reply[c] = "ok"
        \/ pc[c] = "idle" /\ req[c] = "none"

\* The background resolver comes to every split connection that lasts.
WatcherFollows ==
    \A n \in 1..MaxUps + 1 :
        active = [id |-> n, kind |-> "split"] ~> (watcher.of = n \/ active.id # n)

---------------------------------------------------------------------------
(* What comments and documents say and the code does not keep.             *)

\* The other half of CrashKeepsProtection alone: a restart blocks nothing that
\* was not protected before (windows.rs:125).
NoBlockFromNowhere ==
    [][Crash /\ blocked' => Protected]_vars

\* "The service is busy: wait or cancel connecting" is answered only while an
\* Up or a Down is at work (main.rs:226).
BusyAnswerMeansWork ==
    [][\A c \in Client : UpRefused(c) =>
           \E w \in Client : lock = w /\ (Working(w) \/ pc[w] = "replied")]_vars
=============================================================================

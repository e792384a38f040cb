------------------------- MODULE HelperServerProofs -------------------------
(***************************************************************************)
(* Machine-checked proofs about HelperServer, for every set of clients and *)
(* every bound.  IInv is the inductive invariant: who holds the mutex is   *)
(* where its control point says, and what the cached status, the flag, the *)
(* history of Downs and the routes of a connection say follows from that.  *)
(***************************************************************************)
EXTENDS HelperServer, TLAPS

InUp(c)    == pc[c] \in UpPoints
Changing(c) == pc[c] \in {"down", "succeeded", "failed"} \cup UpPoints
Holding(c) == Working(c) \/ pc[c] \in {"reading", "replied"}

\* The mutex belongs to the thread whose control point is inside the section.
MutexInv ==
    /\ \A c \in Client : Holding(c) <=> lock = c
    /\ watcher.at \in {"looking", "apply", "batch", "finish", "record"} <=> lock = Domains
    /\ network # "sleep" <=> lock = Network

\* Which request runs which body.
RequestInv ==
    \A c \in Client :
        /\ pc[c] \in {"status", "reading"} => req[c] = "status"
        /\ pc[c] \in {"try", "failed"} \cup UpPoints => req[c] = "up"
        /\ pc[c] \in {"wait", "down"} => req[c] = "down"
        /\ pc[c] = "begin" => req[c] \in {"up", "down"}

\* LAST_STATUS is busy exactly while up or down runs.
BusyInv ==
    /\ lastStatus.busy => \E c \in Client : lock = c /\ Changing(c)
    /\ \A c \in Client : Changing(c) => lastStatus = Busy

\* Attempts are numbered in the order they took the mutex.
OrderInv ==
    /\ active.id <= ups
    /\ active.id = 0 => active = NoConn
    /\ \A d \in Client : mark[d] <= ups /\ heard[d] <= ups
    /\ \A c \in Client : (pc[c] = "begin" /\ req[c] = "up") \/ InUp(c) =>
           /\ ups > 0
           /\ \A d \in Client : req[d] = "down" /\ reply[d] = "ok" => mark[d] < ups
    /\ \A c, d \in Client : pc[c] = "begin" /\ req[c] = "up" => heard[d] < ups
    /\ \A d \in Client : req[d] = "down" /\ pc[d] \in {"succeeded", "replied"}
           => active = NoConn

\* The connection the resolver works for was split, and an Up that is to connect has a
\* number the resolver has not seen.  The number says which Active it is (Arc::ptr_eq).
OwnInv ==
    /\ OnlyOwnRoutes
    /\ watcher.of <= ups
    /\ active # NoConn /\ active.id = watcher.of => active.kind = "split"
    /\ \A c \in Client : (pc[c] = "begin" /\ req[c] = "up") \/ InUp(c) => watcher.of < ups
    /\ \A c \in Client : pc[c] \in UpPoints \ {"resolve"} => active = NoConn

\* What every later lemma starts from.
Base == TypeOK /\ MutexInv /\ RequestInv

IInv ==
    /\ Base /\ BusyInv /\ OrderInv
    /\ CachedStatusTrue /\ DownEndsEarlierUps /\ CancelHeard /\ OwnInv

\* What an Up of macOS relies on when it connects: past down it finds neither a tunnel
\* nor a block.  Who writes the state file writes it for a connection.
ClearedInv ==
    /\ \A c \in Client : pc[c] \in UpPoints \ {"resolve"} => active = NoConn /\ ~blocked
    /\ \A c \in Client : pc[c] \in {"writing", "recorded"} => asked \in Kinds
    /\ active # NoConn => ~blocked
    /\ network = "write" \/ watcher.at \in {"batch", "record"} => active # NoConn

\* A state file of macOS that can be read says "kill switch" exactly when something is
\* protected.
SavedInv == file # "torn" => (file = "kill" <=> Protected)

\* A restart, whatever it makes of block and file, leaves well-typed state.
LEMMA RestartType ==
  ASSUME TypeOK, Restarted, blocked' \in BOOLEAN, file' \in Kinds \cup {"none", "torn"}
  PROVE  TypeOK'
<1> USE DEF Restarted, AllThreads, TypeOK
<1>1. active' \in Conn /\ lastStatus' \in Status
  BY DEF Conn, NoConn, Status, Unreported
<1>2. /\ watcher' \in [at : WatchPoints, of : Nat] /\ routes' \in SUBSET Nat
      /\ asked' \in Kinds \cup {"none"} /\ network' \in {"sleep", "look", "write"}
  BY DEF Looking, WatchPoints
<1>3. mark' \in [Client -> Nat] /\ heard' \in [Client -> Nat]
  OBVIOUS
<1>4. restarts' \in Nat /\ ups' \in Nat
  OBVIOUS
<1>5. /\ req' \in [Client -> {"none", "status", "up", "down"}]
      /\ reply' \in [Client -> {"none", "ok", "error", "busy"}]
      /\ pc' \in [Client -> {"idle", "status", "reading", "try", "wait", "begin",
                          "down", "succeeded", "failed", "replied"} \cup UpPoints]
  OBVIOUS
<1>6. /\ lock' \in Client \cup {Network, Domains, Nobody}
      /\ cancelled' \in BOOLEAN /\ stopping' \in BOOLEAN
  OBVIOUS
<1> HIDE DEF Restarted
<1>7. QED
  BY <1>1, <1>2, <1>3, <1>4, <1>5, <1>6

\* What taking everything down leaves is well typed.
LEMMA DropType ==
  ASSUME TypeOK, DropAll
  PROVE  /\ active' \in Conn /\ routes' \in SUBSET Nat /\ blocked' \in BOOLEAN
         /\ asked' = asked /\ file' \in Kinds \cup {"none", "torn"}
<1>1. file' = file \/ file' = "none"
  BY DEF DropAll
<1>2. active' = NoConn /\ routes' = {} /\ ~blocked' /\ asked' = asked
  BY DEF DropAll
<1>3. NoConn \in Conn
  BY DEF NoConn, Conn
<1>4. QED
  BY <1>1, <1>2, <1>3 DEF TypeOK, DropAll

\* Every step keeps the types.
LEMMA TypeStep == TypeOK /\ [Next]_vars => TypeOK'
<1> SUFFICES ASSUME TypeOK, [Next]_vars
             PROVE  TypeOK'
  OBVIOUS
<1> USE ThreadsAssumption
   DEF vars, threads, core, watch, others, Goto, TypeOK, Conn, Kinds, NoConn,
       Status, Unreported, UpPoints, WatchPoints
<1>1. ASSUME NEW c \in Client, ReceiveStatus(c) PROVE TypeOK'
  BY <1>1 DEF ReceiveStatus
<1>2. ASSUME NEW c \in Client, ReceiveUp(c) PROVE TypeOK'
  BY <1>2 DEF ReceiveUp
<1>3. ASSUME NEW c \in Client, ReceiveDown(c) PROVE TypeOK'
  BY <1>3 DEF ReceiveDown, Interrupted
<1>4. ASSUME NEW c \in Client, StatusLock(c) PROVE TypeOK'
  BY <1>4 DEF StatusLock
<1>5. ASSUME NEW c \in Client, StatusRead(c) PROVE TypeOK'
  BY <1>5 DEF StatusRead, StatusNow
<1>6. ASSUME NEW c \in Client, StatusCached(c) PROVE TypeOK'
  BY <1>6 DEF StatusCached
<1>7. ASSUME NEW c \in Client, UpLock(c) PROVE TypeOK'
  BY <1>7 DEF UpLock
<1>8. ASSUME NEW c \in Client, UpRefused(c) PROVE TypeOK'
  BY <1>8 DEF UpRefused
<1>9. ASSUME NEW c \in Client, DownLock(c) PROVE TypeOK'
  BY <1>9 DEF DownLock
<1>10. ASSUME NEW c \in Client, Begin(c) PROVE TypeOK'
  BY <1>10 DEF Begin, Busy
<1>11. ASSUME NEW c \in Client, Down(c) PROVE TypeOK'
  BY <1>11, DropType DEF Down
<1>12. ASSUME NEW c \in Client, UpReplace(c) PROVE TypeOK'
  <2>1. /\ active' \in Conn /\ routes' \in SUBSET Nat /\ blocked' \in BOOLEAN
        /\ asked' = asked /\ file' \in Kinds \cup {"none", "torn"}
    BY <1>12, DropType DEF UpReplace
  <2>2. QED
    BY <1>12, <2>1 DEF UpReplace
<1>13. ASSUME NEW c \in Client, UpCheck(c) PROVE TypeOK'
  BY <1>13 DEF UpCheck
<1>14. ASSUME NEW c \in Client, UpFails(c) PROVE TypeOK'
  BY <1>14 DEF UpFails
<1>15. ASSUME NEW c \in Client, NEW kind \in Kinds, UpOpens(c, kind) PROVE TypeOK'
  BY <1>15 DEF UpOpens
<1>16. ASSUME NEW c \in Client, UpWrites(c) PROVE TypeOK'
  BY <1>16 DEF UpWrites
<1>17. ASSUME NEW c \in Client, UpConnects(c) PROVE TypeOK'
  <2>1. active' \in Conn
    BY <1>17 DEF UpConnects
  <2>2. QED
    BY <1>17, <2>1 DEF UpConnects
<1>18. ASSUME NEW c \in Client, Finish(c) PROVE TypeOK'
  BY <1>18 DEF Finish, StatusNow
<1>19. ASSUME NEW c \in Client, Release(c) PROVE TypeOK'
  BY <1>19 DEF Release
<1>20. CASE NetworkLock
  BY <1>20 DEF NetworkLock
<1>21. CASE NetworkStep
  <2>1. CASE NetworkRelease
    BY <2>1 DEF NetworkRelease
  <2>2. CASE NetworkOpens
    BY <2>2 DEF NetworkOpens
  <2>3. CASE NetworkWrites
    BY <2>3 DEF NetworkWrites
  <2>4. QED
    BY <1>21, <2>1, <2>2, <2>3 DEF NetworkStep
<1>22. CASE WatchTakes
  BY <1>22 DEF WatchTakes, WatchLock
<1>23. CASE WatchStep
  <2>1. CASE WatchSnapshot
    BY <2>1 DEF WatchSnapshot
  <2>2. CASE WatchAnswer \/ WatchResolved
    BY <2>2 DEF WatchAnswer, WatchResolved, WatchGoes, AfterResolving
  <2>3. CASE WatchApply
    BY <2>3 DEF WatchApply, WatchGoes, SameConnection
  <2>4. CASE WatchGiveUp
    BY <2>4 DEF WatchGiveUp, WatchGoes, AfterResolving, SameConnection
  <2>5. CASE WatchBatch
    BY <2>5 DEF WatchBatch, WatchGoes
  <2>6. CASE WatchFinish
    BY <2>6 DEF WatchFinish, WatchGoes, SameConnection
  <2>7. CASE WatchRecord \/ WatchWake
    BY <2>7 DEF WatchRecord, WatchWake, WatchGoes
  <2>8. QED
    BY <1>23, <2>1, <2>2, <2>3, <2>4, <2>5, <2>6, <2>7 DEF WatchStep
<1>24. CASE Crash
  <2>1. Restarted /\ blocked' \in BOOLEAN /\ file' \in Kinds \cup {"none", "torn"}
    BY <1>24 DEF Crash
  <2>2. QED
    BY <2>1, RestartType
<1>25. CASE StopSignal
  BY <1>25 DEF StopSignal
<1>26. CASE StopDown
  <2>1. Restarted /\ blocked' \in BOOLEAN /\ file' \in Kinds \cup {"none", "torn"}
    BY <1>26 DEF StopDown
  <2>2. QED
    BY <2>1, RestartType
<1>27. CASE UNCHANGED vars
  BY <1>27
<1> HIDE
  DEF vars, threads, core, watch, others, Goto, TypeOK, Conn, Kinds, NoConn,
       Status, Unreported, UpPoints, WatchPoints
<1>28. QED
  BY <1>1, <1>2, <1>3, <1>4, <1>5, <1>6, <1>7, <1>8, <1>9, <1>10, <1>11, <1>12,
     <1>13, <1>14, <1>15, <1>16, <1>17, <1>18, <1>19, <1>20, <1>21, <1>22, <1>23,
     <1>24, <1>25, <1>26, <1>27
     DEF Next, Serve

\* A thread inside the section is the holder of the mutex, and nobody else is.
LEMMA MutexStep == TypeOK /\ MutexInv /\ [Next]_vars => MutexInv'
<1> SUFFICES ASSUME TypeOK, MutexInv, [Next]_vars
             PROVE  MutexInv'
  OBVIOUS
<1> USE ThreadsAssumption
   DEF vars, threads, core, watch, others, Goto, TypeOK, MutexInv, WatchPoints,
       Holding, Working, UpPoints
<1>1. ASSUME NEW c \in Client, ReceiveStatus(c) PROVE MutexInv'
  BY <1>1 DEF ReceiveStatus
<1>2. ASSUME NEW c \in Client, ReceiveUp(c) PROVE MutexInv'
  BY <1>2 DEF ReceiveUp
<1>3. ASSUME NEW c \in Client, ReceiveDown(c) PROVE MutexInv'
  BY <1>3 DEF ReceiveDown, Interrupted
<1>4. ASSUME NEW c \in Client, StatusLock(c) PROVE MutexInv'
  BY <1>4 DEF StatusLock
<1>5. ASSUME NEW c \in Client, StatusRead(c) PROVE MutexInv'
  BY <1>5 DEF StatusRead, StatusNow
<1>6. ASSUME NEW c \in Client, StatusCached(c) PROVE MutexInv'
  BY <1>6 DEF StatusCached
<1>7. ASSUME NEW c \in Client, UpLock(c) PROVE MutexInv'
  BY <1>7 DEF UpLock
<1>8. ASSUME NEW c \in Client, UpRefused(c) PROVE MutexInv'
  BY <1>8 DEF UpRefused
<1>9. ASSUME NEW c \in Client, DownLock(c) PROVE MutexInv'
  BY <1>9 DEF DownLock
<1>10. ASSUME NEW c \in Client, Begin(c) PROVE MutexInv'
  BY <1>10 DEF Begin, Busy
<1>11. ASSUME NEW c \in Client, Down(c) PROVE MutexInv'
  BY <1>11 DEF Down, DropAll
<1>12. ASSUME NEW c \in Client, UpReplace(c) PROVE MutexInv'
  BY <1>12 DEF UpReplace, DropAll
<1>13. ASSUME NEW c \in Client, UpCheck(c) PROVE MutexInv'
  BY <1>13 DEF UpCheck
<1>14. ASSUME NEW c \in Client, UpFails(c) PROVE MutexInv'
  BY <1>14 DEF UpFails
<1>15. ASSUME NEW c \in Client, NEW kind \in Kinds, UpOpens(c, kind) PROVE MutexInv'
  BY <1>15 DEF UpOpens
<1>16. ASSUME NEW c \in Client, UpWrites(c) PROVE MutexInv'
  BY <1>16 DEF UpWrites
<1>17. ASSUME NEW c \in Client, UpConnects(c) PROVE MutexInv'
  BY <1>17 DEF UpConnects
<1>18. ASSUME NEW c \in Client, Finish(c) PROVE MutexInv'
  BY <1>18 DEF Finish, StatusNow
<1>19. ASSUME NEW c \in Client, Release(c) PROVE MutexInv'
  BY <1>19 DEF Release
<1>20. CASE NetworkLock
  BY <1>20 DEF NetworkLock
<1>21. CASE NetworkStep
  BY <1>21 DEF NetworkStep, NetworkRelease, NetworkOpens, NetworkWrites
<1>22. CASE WatchTakes
  BY <1>22 DEF WatchTakes, WatchLock
<1>23. CASE WatchStep
  BY <1>23
     DEF WatchStep, WatchSnapshot, WatchAnswer, WatchResolved, WatchApply,
         WatchGiveUp, WatchBatch, WatchFinish, WatchRecord, WatchWake, WatchGoes,
         SameConnection, AfterResolving
<1>24. CASE Crash
  BY <1>24 DEF Crash, Restarted, AllThreads, Looking
<1>25. CASE StopSignal
  BY <1>25 DEF StopSignal
<1>26. CASE StopDown
  BY <1>26 DEF StopDown, Restarted, AllThreads, Looking
<1>27. CASE UNCHANGED vars
  BY <1>27
<1> HIDE
  DEF vars, threads, core, watch, others, Goto, TypeOK, MutexInv, WatchPoints,
       Holding, Working, UpPoints
<1>28. QED
  BY <1>1, <1>2, <1>3, <1>4, <1>5, <1>6, <1>7, <1>8, <1>9, <1>10, <1>11, <1>12,
     <1>13, <1>14, <1>15, <1>16, <1>17, <1>18, <1>19, <1>20, <1>21, <1>22, <1>23,
     <1>24, <1>25, <1>26, <1>27
     DEF Next, Serve

\* A thread runs the body of the request it received.
LEMMA RequestStep == TypeOK /\ RequestInv /\ [Next]_vars => RequestInv'
<1> SUFFICES ASSUME TypeOK, RequestInv, [Next]_vars
             PROVE  RequestInv'
  OBVIOUS
<1> USE ThreadsAssumption
   DEF vars, threads, core, watch, others, Goto, TypeOK, RequestInv, UpPoints
<1>1. ASSUME NEW c \in Client, ReceiveStatus(c) PROVE RequestInv'
  BY <1>1 DEF ReceiveStatus
<1>2. ASSUME NEW c \in Client, ReceiveUp(c) PROVE RequestInv'
  BY <1>2 DEF ReceiveUp
<1>3. ASSUME NEW c \in Client, ReceiveDown(c) PROVE RequestInv'
  BY <1>3 DEF ReceiveDown, Interrupted
<1>4. ASSUME NEW c \in Client, StatusLock(c) PROVE RequestInv'
  BY <1>4 DEF StatusLock
<1>5. ASSUME NEW c \in Client, StatusRead(c) PROVE RequestInv'
  BY <1>5 DEF StatusRead, StatusNow
<1>6. ASSUME NEW c \in Client, StatusCached(c) PROVE RequestInv'
  BY <1>6 DEF StatusCached
<1>7. ASSUME NEW c \in Client, UpLock(c) PROVE RequestInv'
  BY <1>7 DEF UpLock
<1>8. ASSUME NEW c \in Client, UpRefused(c) PROVE RequestInv'
  BY <1>8 DEF UpRefused
<1>9. ASSUME NEW c \in Client, DownLock(c) PROVE RequestInv'
  BY <1>9 DEF DownLock
<1>10. ASSUME NEW c \in Client, Begin(c) PROVE RequestInv'
  BY <1>10 DEF Begin, Busy
<1>11. ASSUME NEW c \in Client, Down(c) PROVE RequestInv'
  BY <1>11 DEF Down, DropAll
<1>12. ASSUME NEW c \in Client, UpReplace(c) PROVE RequestInv'
  BY <1>12 DEF UpReplace, DropAll
<1>13. ASSUME NEW c \in Client, UpCheck(c) PROVE RequestInv'
  BY <1>13 DEF UpCheck
<1>14. ASSUME NEW c \in Client, UpFails(c) PROVE RequestInv'
  BY <1>14 DEF UpFails
<1>15. ASSUME NEW c \in Client, NEW kind \in Kinds, UpOpens(c, kind)
       PROVE RequestInv'
  BY <1>15 DEF UpOpens
<1>16. ASSUME NEW c \in Client, UpWrites(c) PROVE RequestInv'
  BY <1>16 DEF UpWrites
<1>17. ASSUME NEW c \in Client, UpConnects(c) PROVE RequestInv'
  BY <1>17 DEF UpConnects
<1>18. ASSUME NEW c \in Client, Finish(c) PROVE RequestInv'
  BY <1>18 DEF Finish, StatusNow
<1>19. ASSUME NEW c \in Client, Release(c) PROVE RequestInv'
  BY <1>19 DEF Release
<1>20. CASE NetworkLock
  BY <1>20 DEF NetworkLock
<1>21. CASE NetworkStep
  BY <1>21 DEF NetworkStep, NetworkRelease, NetworkOpens, NetworkWrites
<1>22. CASE WatchTakes
  BY <1>22 DEF WatchTakes, WatchLock
<1>23. CASE WatchStep
  BY <1>23
     DEF WatchStep, WatchSnapshot, WatchAnswer, WatchResolved, WatchApply,
         WatchGiveUp, WatchBatch, WatchFinish, WatchRecord, WatchWake, WatchGoes,
         SameConnection
<1>24. CASE Crash
  BY <1>24 DEF Crash, Restarted, AllThreads, Looking
<1>25. CASE StopSignal
  BY <1>25 DEF StopSignal
<1>26. CASE StopDown
  BY <1>26 DEF StopDown, Restarted, AllThreads, Looking
<1>27. CASE UNCHANGED vars
  BY <1>27
<1> HIDE DEF vars, threads, core, watch, others, Goto, TypeOK, RequestInv, UpPoints
<1>28. QED
  BY <1>1, <1>2, <1>3, <1>4, <1>5, <1>6, <1>7, <1>8, <1>9, <1>10, <1>11, <1>12,
     <1>13, <1>14, <1>15, <1>16, <1>17, <1>18, <1>19, <1>20, <1>21, <1>22, <1>23,
     <1>24, <1>25, <1>26, <1>27
     DEF Next, Serve

\* The cached status is busy exactly while up or down runs.
LEMMA BusyStep == Base /\ BusyInv /\ [Next]_vars => BusyInv'
<1> SUFFICES ASSUME Base, BusyInv, [Next]_vars
             PROVE  BusyInv'
  OBVIOUS
<1> USE ThreadsAssumption
   DEF vars, threads, core, watch, others, Goto, Base, TypeOK, MutexInv, RequestInv,
       BusyInv, Changing, Unreported, Busy, Holding, Working, UpPoints
<1>1. ASSUME NEW c \in Client, ReceiveStatus(c) PROVE BusyInv'
  BY <1>1 DEF ReceiveStatus
<1>2. ASSUME NEW c \in Client, ReceiveUp(c) PROVE BusyInv'
  BY <1>2 DEF ReceiveUp
<1>3. ASSUME NEW c \in Client, ReceiveDown(c) PROVE BusyInv'
  BY <1>3 DEF ReceiveDown, Interrupted
<1>4. ASSUME NEW c \in Client, StatusLock(c) PROVE BusyInv'
  BY <1>4 DEF StatusLock
<1>5. ASSUME NEW c \in Client, StatusRead(c) PROVE BusyInv'
  BY <1>5 DEF StatusRead, StatusNow
<1>6. ASSUME NEW c \in Client, StatusCached(c) PROVE BusyInv'
  BY <1>6 DEF StatusCached
<1>7. ASSUME NEW c \in Client, UpLock(c) PROVE BusyInv'
  BY <1>7 DEF UpLock
<1>8. ASSUME NEW c \in Client, UpRefused(c) PROVE BusyInv'
  BY <1>8 DEF UpRefused
<1>9. ASSUME NEW c \in Client, DownLock(c) PROVE BusyInv'
  BY <1>9 DEF DownLock
<1>10. ASSUME NEW c \in Client, Begin(c) PROVE BusyInv'
  BY <1>10 DEF Begin, Busy
<1>11. ASSUME NEW c \in Client, Down(c) PROVE BusyInv'
  BY <1>11 DEF Down, DropAll
<1>12. ASSUME NEW c \in Client, UpReplace(c) PROVE BusyInv'
  BY <1>12 DEF UpReplace, DropAll
<1>13. ASSUME NEW c \in Client, UpCheck(c) PROVE BusyInv'
  BY <1>13 DEF UpCheck
<1>14. ASSUME NEW c \in Client, UpFails(c) PROVE BusyInv'
  BY <1>14 DEF UpFails
<1>15. ASSUME NEW c \in Client, NEW kind \in Kinds, UpOpens(c, kind) PROVE BusyInv'
  BY <1>15 DEF UpOpens
<1>16. ASSUME NEW c \in Client, UpWrites(c) PROVE BusyInv'
  BY <1>16 DEF UpWrites
<1>17. ASSUME NEW c \in Client, UpConnects(c) PROVE BusyInv'
  BY <1>17 DEF UpConnects
<1>18. ASSUME NEW c \in Client, Finish(c) PROVE BusyInv'
  BY <1>18 DEF Finish, StatusNow
<1>19. ASSUME NEW c \in Client, Release(c) PROVE BusyInv'
  BY <1>19 DEF Release
<1>20. CASE NetworkLock
  BY <1>20 DEF NetworkLock
<1>21. CASE NetworkStep
  BY <1>21 DEF NetworkStep, NetworkRelease, NetworkOpens, NetworkWrites
<1>22. CASE WatchTakes
  BY <1>22 DEF WatchTakes, WatchLock
<1>23. CASE WatchStep
  BY <1>23
     DEF WatchStep, WatchSnapshot, WatchAnswer, WatchResolved, WatchApply,
         WatchGiveUp, WatchBatch, WatchFinish, WatchRecord, WatchWake, WatchGoes,
         SameConnection
<1>24. CASE Crash
  BY <1>24 DEF Crash, Restarted, AllThreads, Looking
<1>25. CASE StopSignal
  BY <1>25 DEF StopSignal
<1>26. CASE StopDown
  BY <1>26 DEF StopDown, Restarted, AllThreads, Looking
<1>27. CASE UNCHANGED vars
  BY <1>27
<1> HIDE
  DEF vars, threads, core, watch, others, Goto, Base, TypeOK, MutexInv, RequestInv,
       BusyInv, Changing, Unreported, Busy, Holding, Working, UpPoints
<1>28. QED
  BY <1>1, <1>2, <1>3, <1>4, <1>5, <1>6, <1>7, <1>8, <1>9, <1>10, <1>11, <1>12,
     <1>13, <1>14, <1>15, <1>16, <1>17, <1>18, <1>19, <1>20, <1>21, <1>22, <1>23,
     <1>24, <1>25, <1>26, <1>27
     DEF Next, Serve

\* Attempts that hold the mutex are newer than every Down answered before.
LEMMA OrderStep == Base /\ OrderInv /\ [Next]_vars => OrderInv'
<1> SUFFICES ASSUME Base, OrderInv, [Next]_vars
             PROVE  OrderInv'
  OBVIOUS
<1> USE ThreadsAssumption
   DEF vars, threads, core, watch, others, Goto, Base, TypeOK, MutexInv, RequestInv,
       OrderInv, InUp, NoConn, Conn, Holding, Working, UpPoints
<1>1. ASSUME NEW c \in Client, ReceiveStatus(c) PROVE OrderInv'
  BY <1>1 DEF ReceiveStatus
<1>2. ASSUME NEW c \in Client, ReceiveUp(c) PROVE OrderInv'
  BY <1>2 DEF ReceiveUp
<1>3. ASSUME NEW c \in Client, ReceiveDown(c) PROVE OrderInv'
  BY <1>3 DEF ReceiveDown, Interrupted
<1>4. ASSUME NEW c \in Client, StatusLock(c) PROVE OrderInv'
  BY <1>4 DEF StatusLock
<1>5. ASSUME NEW c \in Client, StatusRead(c) PROVE OrderInv'
  BY <1>5 DEF StatusRead, StatusNow
<1>6. ASSUME NEW c \in Client, StatusCached(c) PROVE OrderInv'
  BY <1>6 DEF StatusCached
<1>7. ASSUME NEW c \in Client, UpLock(c) PROVE OrderInv'
  BY <1>7 DEF UpLock
<1>8. ASSUME NEW c \in Client, UpRefused(c) PROVE OrderInv'
  BY <1>8 DEF UpRefused
<1>9. ASSUME NEW c \in Client, DownLock(c) PROVE OrderInv'
  BY <1>9 DEF DownLock
<1>10. ASSUME NEW c \in Client, Begin(c) PROVE OrderInv'
  BY <1>10 DEF Begin, Busy
<1>11. ASSUME NEW c \in Client, Down(c) PROVE OrderInv'
  BY <1>11 DEF Down, DropAll
<1>12. ASSUME NEW c \in Client, UpReplace(c) PROVE OrderInv'
  BY <1>12 DEF UpReplace, DropAll
<1>13. ASSUME NEW c \in Client, UpCheck(c) PROVE OrderInv'
  BY <1>13 DEF UpCheck
<1>14. ASSUME NEW c \in Client, UpFails(c) PROVE OrderInv'
  BY <1>14 DEF UpFails
<1>15. ASSUME NEW c \in Client, NEW kind \in Kinds, UpOpens(c, kind) PROVE OrderInv'
  BY <1>15 DEF UpOpens
<1>16. ASSUME NEW c \in Client, UpWrites(c) PROVE OrderInv'
  BY <1>16 DEF UpWrites
<1>17. ASSUME NEW c \in Client, UpConnects(c) PROVE OrderInv'
  BY <1>17 DEF UpConnects
<1>18. ASSUME NEW c \in Client, Finish(c) PROVE OrderInv'
  <2>1. \A d \in Client : Holding(d) => d = c
    BY <1>18 DEF Finish
  <2>2. pc' = [pc EXCEPT ![c] = "replied"]
    BY <1>18 DEF Finish
  <2>3. \A d \in Client : pc'[d] \notin {"begin"} \cup UpPoints
    BY <2>1, <2>2
  <2>4. \A d \in Client : req[d] = "down" /\ pc'[d] \in {"succeeded", "replied"}
                           => active = NoConn
    BY <1>18, <2>1, <2>2 DEF Finish
  <2>5. QED
    BY <1>18, <2>3, <2>4 DEF Finish
<1>19. ASSUME NEW c \in Client, Release(c) PROVE OrderInv'
  BY <1>19 DEF Release
<1>20. CASE NetworkLock
  BY <1>20 DEF NetworkLock
<1>21. CASE NetworkStep
  BY <1>21 DEF NetworkStep, NetworkRelease, NetworkOpens, NetworkWrites
<1>22. CASE WatchTakes
  BY <1>22 DEF WatchTakes, WatchLock
<1>23. CASE WatchStep
  BY <1>23
     DEF WatchStep, WatchSnapshot, WatchAnswer, WatchResolved, WatchApply,
         WatchGiveUp, WatchBatch, WatchFinish, WatchRecord, WatchWake, WatchGoes,
         SameConnection
<1>24. CASE Crash
  BY <1>24 DEF Crash, Restarted, AllThreads, Looking
<1>25. CASE StopSignal
  BY <1>25 DEF StopSignal
<1>26. CASE StopDown
  BY <1>26 DEF StopDown, Restarted, AllThreads, Looking
<1>27. CASE UNCHANGED vars
  BY <1>27
<1> HIDE
  DEF vars, threads, core, watch, others, Goto, Base, TypeOK, MutexInv, RequestInv,
       OrderInv, InUp, NoConn, Conn, Holding, Working, UpPoints
<1>28. QED
  BY <1>1, <1>2, <1>3, <1>4, <1>5, <1>6, <1>7, <1>8, <1>9, <1>10, <1>11, <1>12,
     <1>13, <1>14, <1>15, <1>16, <1>17, <1>18, <1>19, <1>20, <1>21, <1>22, <1>23,
     <1>24, <1>25, <1>26, <1>27
     DEF Next, Serve

\* A cached status that is not busy stays true.
LEMMA CachedStep ==
  Base /\ BusyInv /\ CachedStatusTrue /\ [Next]_vars
  => CachedStatusTrue'
<1> SUFFICES ASSUME Base, BusyInv, CachedStatusTrue, [Next]_vars
             PROVE  CachedStatusTrue'
  OBVIOUS
<1> USE ThreadsAssumption
   DEF vars, threads, core, watch, others, Goto, Base, TypeOK, MutexInv, BusyInv,
       Changing, Unreported, Busy, CachedStatusTrue, StatusNow, NoConn, Conn, Kinds,
       Status, Holding, Working, UpPoints
<1>1. ASSUME NEW c \in Client, ReceiveStatus(c) PROVE CachedStatusTrue'
  BY <1>1 DEF ReceiveStatus
<1>2. ASSUME NEW c \in Client, ReceiveUp(c) PROVE CachedStatusTrue'
  BY <1>2 DEF ReceiveUp
<1>3. ASSUME NEW c \in Client, ReceiveDown(c) PROVE CachedStatusTrue'
  BY <1>3 DEF ReceiveDown, Interrupted
<1>4. ASSUME NEW c \in Client, StatusLock(c) PROVE CachedStatusTrue'
  BY <1>4 DEF StatusLock
<1>5. ASSUME NEW c \in Client, StatusRead(c) PROVE CachedStatusTrue'
  BY <1>5 DEF StatusRead, StatusNow
<1>6. ASSUME NEW c \in Client, StatusCached(c) PROVE CachedStatusTrue'
  BY <1>6 DEF StatusCached
<1>7. ASSUME NEW c \in Client, UpLock(c) PROVE CachedStatusTrue'
  BY <1>7 DEF UpLock
<1>8. ASSUME NEW c \in Client, UpRefused(c) PROVE CachedStatusTrue'
  BY <1>8 DEF UpRefused
<1>9. ASSUME NEW c \in Client, DownLock(c) PROVE CachedStatusTrue'
  BY <1>9 DEF DownLock
<1>10. ASSUME NEW c \in Client, Begin(c) PROVE CachedStatusTrue'
  BY <1>10 DEF Begin, Busy
<1>11. ASSUME NEW c \in Client, Down(c) PROVE CachedStatusTrue'
  BY <1>11 DEF Down, DropAll
<1>12. ASSUME NEW c \in Client, UpReplace(c) PROVE CachedStatusTrue'
  BY <1>12 DEF UpReplace, DropAll
<1>13. ASSUME NEW c \in Client, UpCheck(c) PROVE CachedStatusTrue'
  BY <1>13 DEF UpCheck
<1>14. ASSUME NEW c \in Client, UpFails(c) PROVE CachedStatusTrue'
  BY <1>14 DEF UpFails
<1>15. ASSUME NEW c \in Client, NEW kind \in Kinds, UpOpens(c, kind)
       PROVE CachedStatusTrue'
  BY <1>15 DEF UpOpens
<1>16. ASSUME NEW c \in Client, UpWrites(c) PROVE CachedStatusTrue'
  BY <1>16 DEF UpWrites
<1>17. ASSUME NEW c \in Client, UpConnects(c) PROVE CachedStatusTrue'
  BY <1>17 DEF UpConnects
<1>18. ASSUME NEW c \in Client, Finish(c) PROVE CachedStatusTrue'
  BY <1>18 DEF Finish, StatusNow
<1>19. ASSUME NEW c \in Client, Release(c) PROVE CachedStatusTrue'
  BY <1>19 DEF Release
<1>20. CASE NetworkLock
  BY <1>20 DEF NetworkLock
<1>21. CASE NetworkStep
  BY <1>21 DEF NetworkStep, NetworkRelease, NetworkOpens, NetworkWrites
<1>22. CASE WatchTakes
  BY <1>22 DEF WatchTakes, WatchLock
<1>23. CASE WatchStep
  BY <1>23
     DEF WatchStep, WatchSnapshot, WatchAnswer, WatchResolved, WatchApply,
         WatchGiveUp, WatchBatch, WatchFinish, WatchRecord, WatchWake, WatchGoes,
         SameConnection
<1>24. CASE Crash
  BY <1>24 DEF Crash, Restarted, AllThreads, Looking
<1>25. CASE StopSignal
  BY <1>25 DEF StopSignal
<1>26. CASE StopDown
  BY <1>26 DEF StopDown, Restarted, AllThreads, Looking
<1>27. CASE UNCHANGED vars
  BY <1>27
<1> HIDE
  DEF vars, threads, core, watch, others, Goto, Base, TypeOK, MutexInv, BusyInv,
       Changing, Unreported, Busy, CachedStatusTrue, StatusNow, NoConn, Conn, Kinds,
       Status, Holding, Working, UpPoints
<1>28. QED
  BY <1>1, <1>2, <1>3, <1>4, <1>5, <1>6, <1>7, <1>8, <1>9, <1>10, <1>11, <1>12,
     <1>13, <1>14, <1>15, <1>16, <1>17, <1>18, <1>19, <1>20, <1>21, <1>22, <1>23,
     <1>24, <1>25, <1>26, <1>27
     DEF Next, Serve

\* An answered Down stays the end of the attempts before it.
LEMMA EarlierStep ==
  Base /\ OrderInv /\ DownEndsEarlierUps /\ [Next]_vars
  => DownEndsEarlierUps'
<1> SUFFICES ASSUME Base, OrderInv, DownEndsEarlierUps, [Next]_vars
             PROVE  DownEndsEarlierUps'
  OBVIOUS
<1> USE ThreadsAssumption
   DEF vars, threads, core, watch, others, Goto, Base, TypeOK, MutexInv, RequestInv,
       OrderInv, DownEndsEarlierUps, InUp, NoConn, Conn, Holding, Working, UpPoints
<1>1. ASSUME NEW c \in Client, ReceiveStatus(c) PROVE DownEndsEarlierUps'
  BY <1>1 DEF ReceiveStatus
<1>2. ASSUME NEW c \in Client, ReceiveUp(c) PROVE DownEndsEarlierUps'
  BY <1>2 DEF ReceiveUp
<1>3. ASSUME NEW c \in Client, ReceiveDown(c) PROVE DownEndsEarlierUps'
  BY <1>3 DEF ReceiveDown, Interrupted
<1>4. ASSUME NEW c \in Client, StatusLock(c) PROVE DownEndsEarlierUps'
  BY <1>4 DEF StatusLock
<1>5. ASSUME NEW c \in Client, StatusRead(c) PROVE DownEndsEarlierUps'
  BY <1>5 DEF StatusRead, StatusNow
<1>6. ASSUME NEW c \in Client, StatusCached(c) PROVE DownEndsEarlierUps'
  BY <1>6 DEF StatusCached
<1>7. ASSUME NEW c \in Client, UpLock(c) PROVE DownEndsEarlierUps'
  BY <1>7 DEF UpLock
<1>8. ASSUME NEW c \in Client, UpRefused(c) PROVE DownEndsEarlierUps'
  BY <1>8 DEF UpRefused
<1>9. ASSUME NEW c \in Client, DownLock(c) PROVE DownEndsEarlierUps'
  BY <1>9 DEF DownLock
<1>10. ASSUME NEW c \in Client, Begin(c) PROVE DownEndsEarlierUps'
  BY <1>10 DEF Begin, Busy
<1>11. ASSUME NEW c \in Client, Down(c) PROVE DownEndsEarlierUps'
  BY <1>11 DEF Down, DropAll
<1>12. ASSUME NEW c \in Client, UpReplace(c) PROVE DownEndsEarlierUps'
  BY <1>12 DEF UpReplace, DropAll
<1>13. ASSUME NEW c \in Client, UpCheck(c) PROVE DownEndsEarlierUps'
  BY <1>13 DEF UpCheck
<1>14. ASSUME NEW c \in Client, UpFails(c) PROVE DownEndsEarlierUps'
  BY <1>14 DEF UpFails
<1>15. ASSUME NEW c \in Client, NEW kind \in Kinds, UpOpens(c, kind)
       PROVE DownEndsEarlierUps'
  BY <1>15 DEF UpOpens
<1>16. ASSUME NEW c \in Client, UpWrites(c) PROVE DownEndsEarlierUps'
  BY <1>16 DEF UpWrites
<1>17. ASSUME NEW c \in Client, UpConnects(c) PROVE DownEndsEarlierUps'
  BY <1>17 DEF UpConnects
<1>18. ASSUME NEW c \in Client, Finish(c) PROVE DownEndsEarlierUps'
  BY <1>18 DEF Finish, StatusNow
<1>19. ASSUME NEW c \in Client, Release(c) PROVE DownEndsEarlierUps'
  BY <1>19 DEF Release
<1>20. CASE NetworkLock
  BY <1>20 DEF NetworkLock
<1>21. CASE NetworkStep
  BY <1>21 DEF NetworkStep, NetworkRelease, NetworkOpens, NetworkWrites
<1>22. CASE WatchTakes
  BY <1>22 DEF WatchTakes, WatchLock
<1>23. CASE WatchStep
  BY <1>23
     DEF WatchStep, WatchSnapshot, WatchAnswer, WatchResolved, WatchApply,
         WatchGiveUp, WatchBatch, WatchFinish, WatchRecord, WatchWake, WatchGoes,
         SameConnection
<1>24. CASE Crash
  BY <1>24 DEF Crash, Restarted, AllThreads, Looking
<1>25. CASE StopSignal
  BY <1>25 DEF StopSignal
<1>26. CASE StopDown
  BY <1>26 DEF StopDown, Restarted, AllThreads, Looking
<1>27. CASE UNCHANGED vars
  BY <1>27
<1> HIDE
  DEF vars, threads, core, watch, others, Goto, Base, TypeOK, MutexInv, RequestInv,
       OrderInv, DownEndsEarlierUps, InUp, NoConn, Conn, Holding, Working, UpPoints
<1>28. QED
  BY <1>1, <1>2, <1>3, <1>4, <1>5, <1>6, <1>7, <1>8, <1>9, <1>10, <1>11, <1>12,
     <1>13, <1>14, <1>15, <1>16, <1>17, <1>18, <1>19, <1>20, <1>21, <1>22, <1>23,
     <1>24, <1>25, <1>26, <1>27
     DEF Next, Serve

\* The flag raised by a waiting Down is not lowered under the Up it cancels.
LEMMA HeardStep == Base /\ OrderInv /\ CancelHeard /\ [Next]_vars => CancelHeard'
<1> SUFFICES ASSUME Base, OrderInv, CancelHeard, [Next]_vars
             PROVE  CancelHeard'
  OBVIOUS
<1> USE ThreadsAssumption
   DEF vars, threads, core, watch, others, Goto, Base, TypeOK, MutexInv, RequestInv,
       OrderInv, CancelHeard, InUp, Holding, Working, UpPoints
<1>1. ASSUME NEW c \in Client, ReceiveStatus(c) PROVE CancelHeard'
  BY <1>1 DEF ReceiveStatus
<1>2. ASSUME NEW c \in Client, ReceiveUp(c) PROVE CancelHeard'
  BY <1>2 DEF ReceiveUp
<1>3. ASSUME NEW c \in Client, ReceiveDown(c) PROVE CancelHeard'
  BY <1>3 DEF ReceiveDown, Interrupted
<1>4. ASSUME NEW c \in Client, StatusLock(c) PROVE CancelHeard'
  BY <1>4 DEF StatusLock
<1>5. ASSUME NEW c \in Client, StatusRead(c) PROVE CancelHeard'
  BY <1>5 DEF StatusRead, StatusNow
<1>6. ASSUME NEW c \in Client, StatusCached(c) PROVE CancelHeard'
  BY <1>6 DEF StatusCached
<1>7. ASSUME NEW c \in Client, UpLock(c) PROVE CancelHeard'
  BY <1>7 DEF UpLock
<1>8. ASSUME NEW c \in Client, UpRefused(c) PROVE CancelHeard'
  BY <1>8 DEF UpRefused
<1>9. ASSUME NEW c \in Client, DownLock(c) PROVE CancelHeard'
  BY <1>9 DEF DownLock
<1>10. ASSUME NEW c \in Client, Begin(c) PROVE CancelHeard'
  BY <1>10 DEF Begin, Busy
<1>11. ASSUME NEW c \in Client, Down(c) PROVE CancelHeard'
  BY <1>11 DEF Down, DropAll
<1>12. ASSUME NEW c \in Client, UpReplace(c) PROVE CancelHeard'
  BY <1>12 DEF UpReplace, DropAll
<1>13. ASSUME NEW c \in Client, UpCheck(c) PROVE CancelHeard'
  BY <1>13 DEF UpCheck
<1>14. ASSUME NEW c \in Client, UpFails(c) PROVE CancelHeard'
  BY <1>14 DEF UpFails
<1>15. ASSUME NEW c \in Client, NEW kind \in Kinds, UpOpens(c, kind)
       PROVE CancelHeard'
  BY <1>15 DEF UpOpens
<1>16. ASSUME NEW c \in Client, UpWrites(c) PROVE CancelHeard'
  BY <1>16 DEF UpWrites
<1>17. ASSUME NEW c \in Client, UpConnects(c) PROVE CancelHeard'
  BY <1>17 DEF UpConnects
<1>18. ASSUME NEW c \in Client, Finish(c) PROVE CancelHeard'
  BY <1>18 DEF Finish, StatusNow
<1>19. ASSUME NEW c \in Client, Release(c) PROVE CancelHeard'
  BY <1>19 DEF Release
<1>20. CASE NetworkLock
  BY <1>20 DEF NetworkLock
<1>21. CASE NetworkStep
  BY <1>21 DEF NetworkStep, NetworkRelease, NetworkOpens, NetworkWrites
<1>22. CASE WatchTakes
  BY <1>22 DEF WatchTakes, WatchLock
<1>23. CASE WatchStep
  BY <1>23
     DEF WatchStep, WatchSnapshot, WatchAnswer, WatchResolved, WatchApply,
         WatchGiveUp, WatchBatch, WatchFinish, WatchRecord, WatchWake, WatchGoes,
         SameConnection
<1>24. CASE Crash
  BY <1>24 DEF Crash, Restarted, AllThreads, Looking
<1>25. CASE StopSignal
  BY <1>25 DEF StopSignal
<1>26. CASE StopDown
  BY <1>26 DEF StopDown, Restarted, AllThreads, Looking
<1>27. CASE UNCHANGED vars
  BY <1>27
<1> HIDE
  DEF vars, threads, core, watch, others, Goto, Base, TypeOK, MutexInv, RequestInv,
       OrderInv, CancelHeard, InUp, Holding, Working, UpPoints
<1>28. QED
  BY <1>1, <1>2, <1>3, <1>4, <1>5, <1>6, <1>7, <1>8, <1>9, <1>10, <1>11, <1>12,
     <1>13, <1>14, <1>15, <1>16, <1>17, <1>18, <1>19, <1>20, <1>21, <1>22, <1>23,
     <1>24, <1>25, <1>26, <1>27
     DEF Next, Serve

\* What the resolver adds goes into the connection it works for; a replaced connection
\* leaves no routes to the next one.
LEMMA OwnStep == Base /\ OrderInv /\ OwnInv /\ [Next]_vars => OwnInv'
<1> SUFFICES ASSUME Base, OrderInv, OwnInv, [Next]_vars
             PROVE  OwnInv'
  OBVIOUS
<1> USE ThreadsAssumption
   DEF vars, threads, core, watch, others, Goto, Base, TypeOK, MutexInv, RequestInv,
       OrderInv, OwnInv, OnlyOwnRoutes, InUp, NoConn, Conn, Holding, Working,
       UpPoints
<1>1. ASSUME NEW c \in Client, ReceiveStatus(c) PROVE OwnInv'
  BY <1>1 DEF ReceiveStatus
<1>2. ASSUME NEW c \in Client, ReceiveUp(c) PROVE OwnInv'
  BY <1>2 DEF ReceiveUp
<1>3. ASSUME NEW c \in Client, ReceiveDown(c) PROVE OwnInv'
  BY <1>3 DEF ReceiveDown, Interrupted
<1>4. ASSUME NEW c \in Client, StatusLock(c) PROVE OwnInv'
  BY <1>4 DEF StatusLock
<1>5. ASSUME NEW c \in Client, StatusRead(c) PROVE OwnInv'
  BY <1>5 DEF StatusRead, StatusNow
<1>6. ASSUME NEW c \in Client, StatusCached(c) PROVE OwnInv'
  BY <1>6 DEF StatusCached
<1>7. ASSUME NEW c \in Client, UpLock(c) PROVE OwnInv'
  BY <1>7 DEF UpLock
<1>8. ASSUME NEW c \in Client, UpRefused(c) PROVE OwnInv'
  BY <1>8 DEF UpRefused
<1>9. ASSUME NEW c \in Client, DownLock(c) PROVE OwnInv'
  BY <1>9 DEF DownLock
<1>10. ASSUME NEW c \in Client, Begin(c) PROVE OwnInv'
  BY <1>10 DEF Begin, Busy
<1>11. ASSUME NEW c \in Client, Down(c) PROVE OwnInv'
  BY <1>11 DEF Down, DropAll
<1>12. ASSUME NEW c \in Client, UpReplace(c) PROVE OwnInv'
  BY <1>12 DEF UpReplace, DropAll
<1>13. ASSUME NEW c \in Client, UpCheck(c) PROVE OwnInv'
  BY <1>13 DEF UpCheck
<1>14. ASSUME NEW c \in Client, UpFails(c) PROVE OwnInv'
  BY <1>14 DEF UpFails
<1>15. ASSUME NEW c \in Client, NEW kind \in Kinds, UpOpens(c, kind) PROVE OwnInv'
  BY <1>15 DEF UpOpens
<1>16. ASSUME NEW c \in Client, UpWrites(c) PROVE OwnInv'
  BY <1>16 DEF UpWrites
<1>17. ASSUME NEW c \in Client, UpConnects(c) PROVE OwnInv'
  BY <1>17 DEF UpConnects
<1>18. ASSUME NEW c \in Client, Finish(c) PROVE OwnInv'
  BY <1>18 DEF Finish, StatusNow
<1>19. ASSUME NEW c \in Client, Release(c) PROVE OwnInv'
  BY <1>19 DEF Release
<1>20. CASE NetworkLock
  BY <1>20 DEF NetworkLock
<1>21. CASE NetworkStep
  BY <1>21 DEF NetworkStep, NetworkRelease, NetworkOpens, NetworkWrites
<1>22. CASE WatchTakes
  BY <1>22 DEF WatchTakes, WatchLock
<1>23. CASE WatchStep
  BY <1>23
     DEF WatchStep, WatchSnapshot, WatchAnswer, WatchResolved, WatchApply,
         WatchGiveUp, WatchBatch, WatchFinish, WatchRecord, WatchWake, WatchGoes,
         SameConnection
<1>24. CASE Crash
  BY <1>24 DEF Crash, Restarted, AllThreads, Looking
<1>25. CASE StopSignal
  BY <1>25 DEF StopSignal
<1>26. CASE StopDown
  BY <1>26 DEF StopDown, Restarted, AllThreads, Looking
<1>27. CASE UNCHANGED vars
  BY <1>27
<1> HIDE
  DEF vars, threads, core, watch, others, Goto, Base, TypeOK, MutexInv, RequestInv,
       OrderInv, OwnInv, OnlyOwnRoutes, InUp, NoConn, Conn, Holding, Working,
       UpPoints
<1>28. QED
  BY <1>1, <1>2, <1>3, <1>4, <1>5, <1>6, <1>7, <1>8, <1>9, <1>10, <1>11, <1>12,
     <1>13, <1>14, <1>15, <1>16, <1>17, <1>18, <1>19, <1>20, <1>21, <1>22, <1>23,
     <1>24, <1>25, <1>26, <1>27
     DEF Next, Serve

\* Every step keeps what an Up and the writers of the state file rely on.
LEMMA ClearedStep ==
  Base /\ Platform = "macos" /\ ClearedInv /\ [Next]_vars
  => ClearedInv'
<1> SUFFICES ASSUME Base, Platform = "macos", ClearedInv, [Next]_vars
             PROVE  ClearedInv'
  OBVIOUS
<1> USE ThreadsAssumption
   DEF vars, threads, core, watch, others, Goto, Base, TypeOK, MutexInv, RequestInv,
       ClearedInv, NoConn, Kinds, Conn, Holding, Working, UpPoints, WatchPoints
<1>1. ASSUME NEW c \in Client, ReceiveStatus(c) PROVE ClearedInv'
  BY <1>1 DEF ReceiveStatus
<1>2. ASSUME NEW c \in Client, ReceiveUp(c) PROVE ClearedInv'
  BY <1>2 DEF ReceiveUp
<1>3. ASSUME NEW c \in Client, ReceiveDown(c) PROVE ClearedInv'
  BY <1>3 DEF ReceiveDown, Interrupted
<1>4. ASSUME NEW c \in Client, StatusLock(c) PROVE ClearedInv'
  BY <1>4 DEF StatusLock
<1>5. ASSUME NEW c \in Client, StatusRead(c) PROVE ClearedInv'
  BY <1>5 DEF StatusRead, StatusNow
<1>6. ASSUME NEW c \in Client, StatusCached(c) PROVE ClearedInv'
  BY <1>6 DEF StatusCached
<1>7. ASSUME NEW c \in Client, UpLock(c) PROVE ClearedInv'
  BY <1>7 DEF UpLock
<1>8. ASSUME NEW c \in Client, UpRefused(c) PROVE ClearedInv'
  BY <1>8 DEF UpRefused
<1>9. ASSUME NEW c \in Client, DownLock(c) PROVE ClearedInv'
  BY <1>9 DEF DownLock
<1>10. ASSUME NEW c \in Client, Begin(c) PROVE ClearedInv'
  BY <1>10 DEF Begin, Busy
<1>11. ASSUME NEW c \in Client, Down(c) PROVE ClearedInv'
  BY <1>11 DEF Down, DropAll
<1>12. ASSUME NEW c \in Client, UpReplace(c) PROVE ClearedInv'
  BY <1>12 DEF UpReplace, DropAll
<1>13. ASSUME NEW c \in Client, UpCheck(c) PROVE ClearedInv'
  BY <1>13 DEF UpCheck
<1>14. ASSUME NEW c \in Client, UpFails(c) PROVE ClearedInv'
  BY <1>14 DEF UpFails
<1>15. ASSUME NEW c \in Client, NEW kind \in Kinds, UpOpens(c, kind)
       PROVE ClearedInv'
  BY <1>15 DEF UpOpens
<1>16. ASSUME NEW c \in Client, UpWrites(c) PROVE ClearedInv'
  BY <1>16 DEF UpWrites
<1>17. ASSUME NEW c \in Client, UpConnects(c) PROVE ClearedInv'
  BY <1>17 DEF UpConnects
<1>18. ASSUME NEW c \in Client, Finish(c) PROVE ClearedInv'
  BY <1>18 DEF Finish, StatusNow
<1>19. ASSUME NEW c \in Client, Release(c) PROVE ClearedInv'
  BY <1>19 DEF Release
<1>20. CASE NetworkLock
  BY <1>20 DEF NetworkLock
<1>21. CASE NetworkStep
  BY <1>21 DEF NetworkStep, NetworkRelease, NetworkOpens, NetworkWrites
<1>22. CASE WatchTakes
  BY <1>22 DEF WatchTakes, WatchLock
<1>23. CASE WatchStep
  <2>1. CASE WatchSnapshot
    BY <2>1 DEF WatchSnapshot
  <2>2. CASE WatchAnswer \/ WatchResolved
    BY <2>2 DEF WatchAnswer, WatchResolved, WatchGoes, AfterResolving
  <2>3. CASE WatchApply
    BY <2>3 DEF WatchApply, WatchGoes, SameConnection
  <2>4. CASE WatchGiveUp
    BY <2>4 DEF WatchGiveUp, WatchGoes, AfterResolving, SameConnection
  <2>5. CASE WatchBatch
    BY <2>5 DEF WatchBatch, WatchGoes
  <2>6. CASE WatchFinish
    BY <2>6 DEF WatchFinish, WatchGoes, SameConnection
  <2>7. CASE WatchRecord \/ WatchWake
    BY <2>7 DEF WatchRecord, WatchWake, WatchGoes
  <2>8. QED
    BY <1>23, <2>1, <2>2, <2>3, <2>4, <2>5, <2>6, <2>7 DEF WatchStep
<1>24. CASE Crash
  BY <1>24 DEF Crash, Restarted, AllThreads, Looking
<1>25. CASE StopSignal
  BY <1>25 DEF StopSignal
<1>26. CASE StopDown
  BY <1>26 DEF StopDown, Restarted, AllThreads, Looking
<1>27. CASE UNCHANGED vars
  BY <1>27
<1> HIDE
  DEF vars, threads, core, watch, others, Goto, Base, TypeOK, MutexInv, RequestInv,
       ClearedInv, NoConn, Kinds, Conn, Holding, Working, UpPoints, WatchPoints
<1>28. QED
  BY <1>1, <1>2, <1>3, <1>4, <1>5, <1>6, <1>7, <1>8, <1>9, <1>10, <1>11, <1>12,
     <1>13, <1>14, <1>15, <1>16, <1>17, <1>18, <1>19, <1>20, <1>21, <1>22, <1>23,
     <1>24, <1>25, <1>26, <1>27
     DEF Next, Serve

\* Every step keeps the state file in agreement with what is protected.
LEMMA SavedStep ==
  Base /\ Platform = "macos" /\ ClearedInv /\ SavedInv /\ [Next]_vars
  => SavedInv'
<1> SUFFICES ASSUME Base, Platform = "macos", ClearedInv, SavedInv, [Next]_vars
             PROVE  SavedInv'
  OBVIOUS
<1> USE ThreadsAssumption
   DEF vars, threads, core, watch, others, Goto, Base, TypeOK, MutexInv, ClearedInv,
       SavedInv, Protected, Tunnel, NoConn, Conn, Kinds, Holding, Working, UpPoints
<1>1. ASSUME NEW c \in Client, ReceiveStatus(c) PROVE SavedInv'
  BY <1>1 DEF ReceiveStatus
<1>2. ASSUME NEW c \in Client, ReceiveUp(c) PROVE SavedInv'
  BY <1>2 DEF ReceiveUp
<1>3. ASSUME NEW c \in Client, ReceiveDown(c) PROVE SavedInv'
  BY <1>3 DEF ReceiveDown, Interrupted
<1>4. ASSUME NEW c \in Client, StatusLock(c) PROVE SavedInv'
  BY <1>4 DEF StatusLock
<1>5. ASSUME NEW c \in Client, StatusRead(c) PROVE SavedInv'
  BY <1>5 DEF StatusRead, StatusNow
<1>6. ASSUME NEW c \in Client, StatusCached(c) PROVE SavedInv'
  BY <1>6 DEF StatusCached
<1>7. ASSUME NEW c \in Client, UpLock(c) PROVE SavedInv'
  BY <1>7 DEF UpLock
<1>8. ASSUME NEW c \in Client, UpRefused(c) PROVE SavedInv'
  BY <1>8 DEF UpRefused
<1>9. ASSUME NEW c \in Client, DownLock(c) PROVE SavedInv'
  BY <1>9 DEF DownLock
<1>10. ASSUME NEW c \in Client, Begin(c) PROVE SavedInv'
  BY <1>10 DEF Begin, Busy
<1>11. ASSUME NEW c \in Client, Down(c) PROVE SavedInv'
  BY <1>11 DEF Down, DropAll
<1>12. ASSUME NEW c \in Client, UpReplace(c) PROVE SavedInv'
  BY <1>12 DEF UpReplace, DropAll
<1>13. ASSUME NEW c \in Client, UpCheck(c) PROVE SavedInv'
  BY <1>13 DEF UpCheck
<1>14. ASSUME NEW c \in Client, UpFails(c) PROVE SavedInv'
  BY <1>14 DEF UpFails
<1>15. ASSUME NEW c \in Client, NEW kind \in Kinds, UpOpens(c, kind) PROVE SavedInv'
  BY <1>15 DEF UpOpens
<1>16. ASSUME NEW c \in Client, UpWrites(c) PROVE SavedInv'
  BY <1>16 DEF UpWrites
<1>17. ASSUME NEW c \in Client, UpConnects(c) PROVE SavedInv'
  BY <1>17 DEF UpConnects
<1>18. ASSUME NEW c \in Client, Finish(c) PROVE SavedInv'
  BY <1>18 DEF Finish, StatusNow
<1>19. ASSUME NEW c \in Client, Release(c) PROVE SavedInv'
  BY <1>19 DEF Release
<1>20. CASE NetworkLock
  BY <1>20 DEF NetworkLock
<1>21. CASE NetworkStep
  BY <1>21 DEF NetworkStep, NetworkRelease, NetworkOpens, NetworkWrites
<1>22. CASE WatchTakes
  BY <1>22 DEF WatchTakes, WatchLock
<1>23. CASE WatchStep
  BY <1>23
     DEF WatchStep, WatchSnapshot, WatchAnswer, WatchResolved, WatchApply,
         WatchGiveUp, WatchBatch, WatchFinish, WatchRecord, WatchWake, WatchGoes,
         SameConnection
<1>24. CASE Crash
  BY <1>24 DEF Crash, Restarted, AllThreads, Looking
<1>25. CASE StopSignal
  BY <1>25 DEF StopSignal
<1>26. CASE StopDown
  BY <1>26 DEF StopDown, Restarted, AllThreads, Looking
<1>27. CASE UNCHANGED vars
  BY <1>27
<1> HIDE
  DEF vars, threads, core, watch, others, Goto, Base, TypeOK, MutexInv, ClearedInv,
       SavedInv, Protected, Tunnel, NoConn, Conn, Kinds, Holding, Working, UpPoints
<1>28. QED
  BY <1>1, <1>2, <1>3, <1>4, <1>5, <1>6, <1>7, <1>8, <1>9, <1>10, <1>11, <1>12,
     <1>13, <1>14, <1>15, <1>16, <1>17, <1>18, <1>19, <1>20, <1>21, <1>22, <1>23,
     <1>24, <1>25, <1>26, <1>27
     DEF Next, Serve

\* The inductive invariant holds of the whole protocol.
THEOREM Inductive == Spec => []IInv
<1>1. Init => IInv
  <2> SUFFICES ASSUME Init PROVE IInv
    OBVIOUS
  <2> USE ThreadsAssumption DEF Init, AllThreads, Looking, NoConn, Unreported
  <2>1. TypeOK
    BY DEF TypeOK, Conn, Status, WatchPoints
  <2>2. MutexInv /\ RequestInv
    BY DEF MutexInv, RequestInv, Holding, Working, UpPoints
  <2>3. BusyInv /\ OrderInv
    BY DEF BusyInv, OrderInv, Changing, InUp, UpPoints
  <2>4. CachedStatusTrue
    BY DEF CachedStatusTrue, StatusNow
  <2>5. DownEndsEarlierUps /\ CancelHeard /\ OwnInv
    BY DEF DownEndsEarlierUps, CancelHeard, OwnInv, OnlyOwnRoutes, InUp, UpPoints
  <2>6. QED
    BY <2>1, <2>2, <2>3, <2>4, <2>5 DEF IInv, Base
<1>2. IInv /\ [Next]_vars => IInv'
  <2> SUFFICES ASSUME IInv, [Next]_vars PROVE IInv'
    OBVIOUS
  <2> USE DEF IInv, Base
  <2>1. TypeOK' /\ MutexInv' /\ RequestInv'
    BY TypeStep, MutexStep, RequestStep
  <2>2. BusyInv' /\ OrderInv'
    BY BusyStep, OrderStep
  <2>3. CachedStatusTrue' /\ DownEndsEarlierUps'
    BY CachedStep, EarlierStep
  <2>4. CancelHeard' /\ OwnInv'
    BY HeardStep, OwnStep
  <2>5. QED
    BY <2>1, <2>2, <2>3, <2>4
<1>3. QED
  BY <1>1, <1>2, PTL DEF Spec

\* The state of the protocol keeps its types.
THEOREM Typing == Spec => []TypeOK
<1>1. IInv => TypeOK
  BY DEF IInv, Base
<1>2. QED
  BY <1>1, Inductive, PTL

\* No path through handle leaves the cached status busy after the mutex is given
\* back: the app never shows "connecting" for ever.
THEOREM BusyEnds == Spec => []BusyOnlyWhileWorking
<1>1. IInv => BusyOnlyWhileWorking
  BY DEF IInv, Base, BusyInv, BusyOnlyWhileWorking, Changing, Working
<1>2. QED
  BY <1>1, Inductive, PTL

\* What a Status poll is told while the mutex is taken is busy or true.
THEOREM CachedTruth == Spec => []CachedStatusTrue
<1>1. IInv => CachedStatusTrue
  BY DEF IInv
<1>2. QED
  BY <1>1, Inductive, PTL

\* A Down that was answered ended every Up that took the mutex before it came.
THEOREM DownIsFinal == Spec => []DownEndsEarlierUps
<1>1. IInv => DownEndsEarlierUps
  BY DEF IInv
<1>2. QED
  BY <1>1, Inductive, PTL

\* The cancellation a waiting Down asked for reaches the Up it was meant for.
THEOREM CancelIsHeard == Spec => []CancelHeard
<1>1. IInv => CancelHeard
  BY DEF IInv
<1>2. QED
  BY <1>1, Inductive, PTL

\* However long an answer takes and whatever replaces the connection meanwhile, a
\* connection holds only the routes found for it, and only a split one holds any.
THEOREM RoutesAreOwn == Spec => []OnlyOwnRoutes
<1>1. IInv => OnlyOwnRoutes
  BY DEF IInv, OwnInv
<1>2. QED
  BY <1>1, Inductive, PTL

\* On macOS a state file that can be read tells what is protected.
LEMMA SavedTruth == Platform = "macos" /\ Spec => [](ClearedInv /\ SavedInv)
<1> SUFFICES ASSUME Platform = "macos" PROVE Spec => [](ClearedInv /\ SavedInv)
  OBVIOUS
<1>1. Init => ClearedInv /\ SavedInv
  BY DEF Init, AllThreads, Looking, ClearedInv, SavedInv, Protected, Tunnel, NoConn,
         UpPoints
<1>2. IInv => Base
  BY DEF IInv
<1>3. Base /\ ClearedInv /\ SavedInv /\ [Next]_vars => ClearedInv' /\ SavedInv'
  BY ClearedStep, SavedStep
<1>4. QED
  BY <1>1, <1>2, <1>3, Inductive, PTL DEF Spec

\* On macOS a restart after a crash, also one in the middle of writing the state file,
\* blocks exactly what was protected before it, unless the file was left cut off.
THEOREM ProtectionSurvives == Platform = "macos" /\ Spec => CrashKeepsProtection
<1> SUFFICES ASSUME Platform = "macos" PROVE Spec => CrashKeepsProtection
  OBVIOUS
<1>1. SavedInv /\ Crash => (blocked' <=> Protected /\ file # "torn")
  BY DEF SavedInv, Crash
<1>2. QED
  BY <1>1, SavedTruth, PTL DEF CrashKeepsProtection

\* Every step of the protocol is a step of Protection or none.
LEMMA PromiseStep ==
  Base /\ Platform = "macos" /\ ClearedInv /\ SavedInv /\ [Next]_vars
  => [Promise!Next]_(Promise!vars)
<1> SUFFICES ASSUME Base, Platform = "macos", ClearedInv, SavedInv, [Next]_vars
             PROVE  [Promise!Next]_(Promise!vars)
  OBVIOUS
<1> USE ThreadsAssumption
   DEF vars, threads, core, watch, others, Goto, Base, TypeOK, MutexInv, Tunnel,
       Holding, Working, UpPoints, Promise!vars, Promise!Next, Promise!Rewrite
<1>1. ASSUME NEW c \in Client, ReceiveStatus(c) PROVE [Promise!Next]_(Promise!vars)
  BY <1>1 DEF ReceiveStatus
<1>2. ASSUME NEW c \in Client, ReceiveUp(c) PROVE [Promise!Next]_(Promise!vars)
  BY <1>2 DEF ReceiveUp
<1>3. ASSUME NEW c \in Client, ReceiveDown(c) PROVE [Promise!Next]_(Promise!vars)
  BY <1>3 DEF ReceiveDown, Interrupted
<1>4. ASSUME NEW c \in Client, StatusLock(c) PROVE [Promise!Next]_(Promise!vars)
  BY <1>4 DEF StatusLock
<1>5. ASSUME NEW c \in Client, StatusRead(c) PROVE [Promise!Next]_(Promise!vars)
  BY <1>5 DEF StatusRead, StatusNow
<1>6. ASSUME NEW c \in Client, StatusCached(c) PROVE [Promise!Next]_(Promise!vars)
  BY <1>6 DEF StatusCached
<1>7. ASSUME NEW c \in Client, UpLock(c) PROVE [Promise!Next]_(Promise!vars)
  BY <1>7 DEF UpLock, Promise!Attempt
<1>8. ASSUME NEW c \in Client, UpRefused(c) PROVE [Promise!Next]_(Promise!vars)
  BY <1>8 DEF UpRefused
<1>9. ASSUME NEW c \in Client, DownLock(c) PROVE [Promise!Next]_(Promise!vars)
  BY <1>9 DEF DownLock
<1>10. ASSUME NEW c \in Client, Begin(c) PROVE [Promise!Next]_(Promise!vars)
  BY <1>10 DEF Begin, Busy
<1>11. ASSUME NEW c \in Client, Down(c) PROVE [Promise!Next]_(Promise!vars)
  BY <1>11 DEF Down, DropAll, Promise!Disconnect
<1>12. ASSUME NEW c \in Client, UpReplace(c) PROVE [Promise!Next]_(Promise!vars)
  BY <1>12 DEF UpReplace, DropAll, Promise!Disconnect
<1>13. ASSUME NEW c \in Client, UpCheck(c) PROVE [Promise!Next]_(Promise!vars)
  BY <1>13 DEF UpCheck
<1>14. ASSUME NEW c \in Client, UpFails(c) PROVE [Promise!Next]_(Promise!vars)
  BY <1>14 DEF UpFails
<1>15. ASSUME NEW c \in Client, NEW kind \in Kinds, UpOpens(c, kind)
       PROVE [Promise!Next]_(Promise!vars)
  BY <1>15 DEF UpOpens
<1>16. ASSUME NEW c \in Client, UpWrites(c) PROVE [Promise!Next]_(Promise!vars)
  <2>1. Tunnel = NoConn /\ ~blocked /\ asked \in Kinds
    BY <1>16 DEF UpWrites, ClearedInv
  <2>2. Tunnel' = [id |-> ups, kind |-> asked] /\ file' = asked
    BY <1>16 DEF UpWrites
  <2>3. PICK kind \in Kinds : kind = asked
    BY <2>1
  <2>4. Promise!Connect(kind)
    BY <1>16, <2>1, <2>2, <2>3 DEF UpWrites, Promise!Connect, Kinds
  <2>5. \E k \in Kinds : Promise!Connect(k)
    BY <2>4, Zenon
  <2>6. QED
    BY <2>5, Zenon
<1>17. ASSUME NEW c \in Client, UpConnects(c) PROVE [Promise!Next]_(Promise!vars)
  BY <1>17 DEF UpConnects
<1>18. ASSUME NEW c \in Client, Finish(c) PROVE [Promise!Next]_(Promise!vars)
  BY <1>18 DEF Finish, StatusNow
<1>19. ASSUME NEW c \in Client, Release(c) PROVE [Promise!Next]_(Promise!vars)
  BY <1>19 DEF Release
<1>20. CASE NetworkLock
  BY <1>20 DEF NetworkLock
<1>21. CASE NetworkStep
  BY <1>21 DEF NetworkStep, NetworkRelease, NetworkOpens, NetworkWrites
<1>22. CASE WatchTakes
  BY <1>22 DEF WatchTakes, WatchLock
<1>23. CASE WatchStep
  BY <1>23
     DEF WatchStep, WatchSnapshot, WatchAnswer, WatchResolved, WatchApply,
         WatchGiveUp, WatchBatch, WatchFinish, WatchRecord, WatchWake, WatchGoes,
         SameConnection
<1>24. CASE Crash
  BY <1>24 DEF Crash, Restarted, AllThreads, Looking, SavedInv, Protected, Promise!Die
<1>25. CASE StopSignal
  BY <1>25 DEF StopSignal
<1>26. CASE StopDown
  BY <1>26 DEF StopDown, Restarted, AllThreads, Looking, Promise!Disconnect
<1>27. CASE UNCHANGED vars
  BY <1>27
<1> HIDE
  DEF vars, threads, core, watch, others, Goto, Base, TypeOK, MutexInv, Tunnel,
       Holding, Working, UpPoints, Promise!vars, Promise!Next, Promise!Rewrite
<1>28. QED
  BY <1>1, <1>2, <1>3, <1>4, <1>5, <1>6, <1>7, <1>8, <1>9, <1>10, <1>11, <1>12,
     <1>13, <1>14, <1>15, <1>16, <1>17, <1>18, <1>19, <1>20, <1>21, <1>22, <1>23,
     <1>24, <1>25, <1>26, <1>27
     DEF Next, Serve


\* On macOS the helper implements Protection.
THEOREM PromiseKept == Platform = "macos" /\ Spec => KeepsPromise
<1> SUFFICES ASSUME Platform = "macos" PROVE Spec => KeepsPromise
  OBVIOUS
<1>1. Init => Promise!Init
  BY DEF Init, AllThreads, Tunnel, Promise!Init
<1>2. IInv => Base
  BY DEF IInv
<1>3. Base /\ ClearedInv /\ SavedInv /\ [Next]_vars => [Promise!Next]_(Promise!vars)
  BY PromiseStep
<1>4. QED
  BY <1>1, <1>2, <1>3, Inductive, SavedTruth, PTL DEF Spec, KeepsPromise, Promise!Spec
=============================================================================

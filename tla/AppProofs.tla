------------------------------ MODULE AppProofs ------------------------------
(***************************************************************************)
(* Proofs about the app: about App, for every number of clicks and deaths, *)
(* its types, and that no status the tray or auto-connect decide from hides*)
(* a tunnel (the cached status may be old, but it is set before the mutex  *)
(* is given back, so it is old in one direction only); about Vault, that no*)
(* config and no password leaves the shared keychain item unasked, for any *)
(* number of profiles, servers and failures.  The argument there: a write  *)
(* of the item writes the whole cache, so what the cache says of a key must*)
(* be as good as what the item says (Held); an id given out for the first  *)
(* time has no secret in either, so its config is really written.          *)
(***************************************************************************)
EXTENDS App, Vault, TLAPS

\* A tunnel that is up belongs to a running helper, and the cached status says that it
\* is up or that something is under way.
NoHiddenTunnel == tunnel = "up" => running /\ (cached.t = "up" \/ cached.busy)

\* A call is inside the helper only while it runs: who waits for the mutex when the
\* process dies, or holds it, gets an error.
InHelper == {"wait", "held", "working"}
Served   == \A n \in Calls : call[n].at \in InHelper => running

\* The records of `call` and `poll`, and what TypeOK says of the rest.
CallRec == [by : Makers, act : {"up", "down"}, at : Points, answer : Status]
PollRec == [at : {"idle", "asked", "answered", "failed"}, answer : Status, for : Calls]
Flags   == {"", "connecting", "disconnecting"}

Typed ==
    /\ call \in [Calls -> CallRec] /\ poll \in PollRec /\ events \in 0..MaxEvents
    /\ running \in BOOLEAN /\ tunnel \in Tunnels /\ cached \in Status
    /\ shown \in Status /\ alive \in BOOLEAN /\ busy \in Flags

IInv == Typed /\ Served /\ NoHiddenTunnel

LEMMA TypedIsTypeOK == TypeOK <=> Typed
BY DEF TypeOK, Typed, CallRec, PollRec, Flags

LEMMA AutoIsCall == AutoCall \in Calls /\ \A e \in 0..MaxEvents : e \in Calls
BY AppAssumption DEF AutoCall, Calls

LEMMA Statuses ==
    /\ Unknown \in Status /\ Busy \in Status /\ Unreported \in Status
    /\ \A t \in Tunnels : Plain(t) \in Status /\ Plain(t).t = t /\ ~Plain(t).busy
    /\ Unreported.t = "none" /\ Busy.busy
BY DEF Unknown, Busy, Unreported, Plain, Status, Tunnels

\* What changes `call` keeps its type.
LEMMA GotoType ==
    ASSUME call \in [Calls -> CallRec], NEW n \in Calls, NEW at \in Points, Goto(n, at)
    PROVE  call' \in [Calls -> CallRec]
<1>1. [call[n] EXCEPT !.at = at] \in CallRec
      BY DEF CallRec
<1> QED
    BY <1>1 DEF Goto

LEMMA DoneType ==
    ASSUME call \in [Calls -> CallRec], NEW n \in Calls, Done(n)
    PROVE  call' \in [Calls -> CallRec]
<1>1. Call("auto", "up", "done") \in CallRec
      BY Statuses DEF Call, CallRec, Makers, Points
<1> QED
    BY <1>1 DEF Done

LEMMA ClickType ==
    ASSUME call \in [Calls -> CallRec], events \in 0..MaxEvents,
           NEW by \in Makers, NEW act \in {"up", "down"}, NEW at \in Points,
           Click(by, act, at)
    PROVE  call' \in [Calls -> CallRec] /\ events' \in 0..MaxEvents
<1>1. Call(by, act, at) \in CallRec
      BY Statuses DEF Call, CallRec
<1>2. events' \in 0..MaxEvents
      BY AppAssumption DEF Click
<1> QED
    BY <1>1, <1>2, AutoIsCall DEF Click

LEMMA StatusNowType ==
    ASSUME Typed PROVE StatusNow \in Status
BY Statuses DEF Typed, StatusNow

LEMMA PollOverType ==
    ASSUME Typed, PollOver
    PROVE  call' \in [Calls -> CallRec] /\ busy' \in Flags
<1>1. poll.for \in Calls
      BY DEF Typed, PollRec
<1>2. CASE poll.for = AutoCall
      BY <1>2 DEF PollOver, Typed
<1>3. CASE poll.for # AutoCall
      BY <1>1, <1>3, DoneType DEF PollOver, Typed, Cleared, Flags
<1> QED
    BY <1>2, <1>3

LEMMA InitTypes == Init => Typed
<1> SUFFICES ASSUME Init PROVE Typed
    OBVIOUS
<1>1. cached \in Status /\ shown \in Status /\ tunnel \in Tunnels
      BY Statuses DEF Init
<1>2. poll \in PollRec
      BY Statuses, AutoIsCall DEF Init, NoPoll, PollRec
<1>3. PICK auto \in BOOLEAN :
          /\ call = [n \in Calls |-> Call("auto", "up", IF n # AutoCall THEN "none"
                                          ELSE IF auto THEN "start" ELSE "done")]
          /\ events = IF auto THEN 1 ELSE 0
      BY DEF Init
<1>4. \A at \in Points : Call("auto", "up", at) \in CallRec
      BY Statuses DEF Call, CallRec, Makers
<1>5. call \in [Calls -> CallRec]
      BY <1>3, <1>4 DEF Points
<1>6. events \in 0..MaxEvents
      BY <1>3, AppAssumption
<1> QED
    BY <1>1, <1>2, <1>5, <1>6 DEF Init, Typed, Flags

LEMMA NextTypes == Typed /\ [Next]_vars => Typed'
<1> SUFFICES ASSUME Typed, [Next]_vars PROVE Typed'
    OBVIOUS
<1> USE DEF helper, window
<1>1. CASE Toggle
  <2> DEFINE act == IF shown.t \in {"up", "blocked"} THEN "down" ELSE "up"
  <2>1. Click("power", act, "sent")
        BY <1>1 DEF Toggle
  <2>2. call' \in [Calls -> CallRec] /\ events' \in 0..MaxEvents
        BY <2>1, ClickType DEF Typed, Makers, Points
  <2>3. busy' \in Flags
        BY <1>1 DEF Toggle, Flag, Flags
  <2> QED
      BY <1>1, <2>2, <2>3 DEF Toggle, Typed
<1>2. CASE Cancel
  <2>1. call' \in [Calls -> CallRec] /\ events' \in 0..MaxEvents
        BY <1>2, ClickType DEF Cancel, Typed, Makers, Points
  <2> QED
      BY <1>2, <2>1 DEF Cancel, Typed, Flags
<1>3. CASE Switch
  <2>1. call' \in [Calls -> CallRec] /\ events' \in 0..MaxEvents
        BY <1>3, ClickType DEF Switch, Typed, Makers, Points
  <2> QED
      BY <1>3, <2>1 DEF Switch, Typed
<1>4. CASE TrayToggle
  <2> DEFINE act == IF StatusNow.t # "none" \/ StatusNow.busy THEN "down" ELSE "up"
  <2>1. Click("tray", act, "sent")
        BY <1>4 DEF TrayToggle
  <2>2. call' \in [Calls -> CallRec] /\ events' \in 0..MaxEvents
        BY <2>1, ClickType DEF Typed, Makers, Points
  <2> QED
      BY <1>4, <2>2, StatusNowType DEF TrayToggle, Typed
<1>5. CASE AutoConnect
  <2>1. call' \in [Calls -> CallRec]
        BY <1>5, GotoType, AutoIsCall DEF AutoConnect, Typed, Points
  <2> QED
      BY <1>5, <2>1, StatusNowType DEF AutoConnect, Typed
<1>6. ASSUME NEW n \in Calls, Serve(n) PROVE Typed'
  <2>1. CASE Arrive(n)
    <3>1. call' \in [Calls -> CallRec]
          BY <2>1, GotoType DEF Arrive, Typed, Points
    <3> QED
        BY <2>1, <3>1 DEF Arrive, Typed
  <2>2. CASE DownLock(n)
    <3>1. call' \in [Calls -> CallRec]
          BY <2>2, GotoType DEF DownLock, Typed, Points
    <3> QED
        BY <2>2, <3>1 DEF DownLock, Typed
  <2>3. CASE Begin(n)
    <3>1. call' \in [Calls -> CallRec]
          BY <2>3, GotoType DEF Begin, Typed, Points
    <3> QED
        BY <2>3, <3>1, Statuses DEF Begin, Typed
  <2>4. CASE End(n)
    <3>1. PICK t \in Tunnels, ok \in BOOLEAN : Reply(n, t, ok)
          BY <2>4 DEF End, Tunnels, Typed
    <3>2. Plain(t) \in Status /\ Unknown \in Status
          BY Statuses
    <3>3. [call[n] EXCEPT !.at = "replied",
                          !.answer = IF ok THEN Plain(t) ELSE Unknown] \in CallRec
          BY <3>2 DEF Typed, CallRec, Points
    <3>4. call' \in [Calls -> CallRec]
          BY <3>1, <3>3 DEF Reply, Typed
    <3> QED
        BY <2>4, <3>1, <3>2, <3>4 DEF End, Reply, Typed
  <2>5. CASE Selected(n)
    <3>1. call' \in [Calls -> CallRec]
          BY <2>5, GotoType, DoneType DEF Selected, Typed, Points
    <3> QED
        BY <2>5, <3>1 DEF Selected, Cleared, Typed, Flags
  <2>6. CASE ReturnOk(n)
    <3>1. call' \in [Calls -> CallRec]
          BY <2>6, DoneType DEF ReturnOk, Typed
    <3>2. call[n].answer \in Status
          BY DEF Typed, CallRec
    <3> QED
        BY <2>6, <3>1, <3>2 DEF ReturnOk, Cleared, Typed, Flags
  <2>7. CASE ReturnError(n)
    <3>1. call' \in [Calls -> CallRec]
          BY <2>7, GotoType, DoneType DEF ReturnError, Typed, Points
    <3>2. poll' \in PollRec
          BY <2>7, Statuses DEF ReturnError, Typed, PollRec
    <3> QED
        BY <2>7, <3>1, <3>2 DEF ReturnError, Cleared, Typed, Flags
  <2> QED
      BY <1>6, <2>1, <2>2, <2>3, <2>4, <2>5, <2>6, <2>7 DEF Serve
<1>7. CASE HelperDies
  <2>1. \A n \in Calls : [call[n] EXCEPT !.at = "replied"] \in CallRec
        BY DEF Typed, CallRec, Points
  <2>2. call' \in [Calls -> CallRec]
        BY <1>7, <2>1 DEF HelperDies, Typed
  <2>3. events' \in 0..MaxEvents
        BY <1>7, AppAssumption DEF HelperDies, Typed
  <2> QED
      BY <1>7, <2>2, <2>3 DEF HelperDies, Typed, Tunnels
<1>8. CASE HelperStarts
      BY <1>8, Statuses DEF HelperStarts, Typed
<1>9. CASE PollStart
  <2>1. poll' \in PollRec
        BY <1>9, Statuses, AutoIsCall DEF PollStart, NoPoll, PollRec
  <2> QED
      BY <1>9, <2>1 DEF PollStart, Typed
<1>10. CASE PollServe
  <2>1. poll' \in PollRec
        BY <1>10, Statuses, StatusNowType DEF PollServe, Typed, PollRec
  <2> QED
      BY <1>10, <2>1, StatusNowType DEF PollServe, Typed
<1>11. CASE PollReturn
  <2>1. NoPoll \in PollRec
        BY Statuses, AutoIsCall DEF NoPoll, PollRec
  <2>2. shown' \in Status
        BY <1>11 DEF PollReturn, Typed, PollRec
  <2>3. CASE poll.answer = Unknown
    <3>1. poll' \in PollRec
          BY <1>11, <2>3 DEF PollReturn, Typed, PollRec
    <3> QED
        BY <1>11, <2>2, <2>3, <3>1 DEF PollReturn, Typed
  <2>4. CASE poll.answer # Unknown
        BY <1>11, <2>1, <2>2, <2>4, PollOverType DEF PollReturn, Typed
  <2> QED
      BY <2>3, <2>4
<1>12. CASE PollFails
  <2>1. NoPoll \in PollRec
        BY Statuses, AutoIsCall DEF NoPoll, PollRec
  <2> QED
      BY <1>12, <2>1, StatusNowType, PollOverType DEF PollFails, Typed
<1>13. CASE UNCHANGED vars
      BY <1>13 DEF vars, Typed
<1> QED
    BY <1>1, <1>2, <1>3, <1>4, <1>5, <1>6, <1>7, <1>8, <1>9, <1>10, <1>11, <1>12,
       <1>13 DEF Next

\* The type invariant: every status kept, shown or on its way is one of those the
\* protocol knows (Status, TunnelState), every call one of the app's.
THEOREM AppTyping == Spec => []TypeOK
<1>1. Init => Typed
      BY InitTypes
<1>2. Typed /\ [Next]_vars => Typed'
      BY NextTypes
<1>3. Typed => TypeOK
      BY TypedIsTypeOK
<1> QED
    BY <1>1, <1>2, <1>3, PTL DEF Spec

---------------------------------------------------------------------------
(* Calls and the death of the helper.                                      *)

\* What moves a call keeps Served, unless it moves it into a helper that is not there.
LEMMA GotoServed ==
    ASSUME Typed, Served, NEW n \in Calls, NEW at, Goto(n, at),
           at \in InHelper => running, running' = running
    PROVE  Served'
BY DEF Typed, Served, Goto

LEMMA DoneServed ==
    ASSUME Typed, Served, NEW n \in Calls, Done(n), running' = running
    PROVE  Served'
BY DEF Typed, Served, Done, Call, InHelper

LEMMA ClickServed ==
    ASSUME Typed, Served, NEW by, NEW act, NEW at \in {"sent", "select"},
           Click(by, act, at), running' = running
    PROVE  Served'
<1>1. call' = [call EXCEPT ![events'] = Call(by, act, at)]
      BY DEF Click
<1>2. Call(by, act, at).at \notin InHelper
      BY DEF Call, InHelper
<1> QED
    BY <1>1, <1>2 DEF Typed, Served

LEMMA PollOverServed ==
    ASSUME Typed, Served, PollOver, running' = running
    PROVE  Served'
<1>1. CASE poll.for = AutoCall
      BY <1>1 DEF PollOver, Served
<1>2. CASE poll.for # AutoCall
      BY <1>2, DoneServed DEF PollOver, Typed, PollRec
<1> QED
    BY <1>1, <1>2

LEMMA NextServed == Typed /\ Served /\ [Next]_vars => Served'
<1> SUFFICES ASSUME Typed, Served, [Next]_vars PROVE Served'
    OBVIOUS
<1> USE DEF helper, window
<1>1. CASE Toggle
      BY <1>1, ClickServed DEF Toggle
<1>2. CASE Cancel
      BY <1>2, ClickServed DEF Cancel
<1>3. CASE Switch
      BY <1>3, ClickServed DEF Switch
<1>4. CASE TrayToggle
      BY <1>4, ClickServed DEF TrayToggle
<1>5. CASE AutoConnect
      BY <1>5, GotoServed, AutoIsCall DEF AutoConnect, InHelper
<1>6. ASSUME NEW n \in Calls, Serve(n) PROVE Served'
  <2>1. CASE Arrive(n)
        BY <2>1, GotoServed DEF Arrive, InHelper
  <2>2. CASE DownLock(n)
    <3>1. running
          BY <2>2 DEF DownLock, Served, InHelper
    <3> QED
        BY <2>2, <3>1, GotoServed DEF DownLock
  <2>3. CASE Begin(n)
    <3>1. running
          BY <2>3 DEF Begin, Served, InHelper
    <3> QED
        BY <2>3, <3>1, GotoServed DEF Begin
  <2>4. CASE End(n)
    <3>1. running /\ running' = running
          BY <2>4 DEF End, Served, InHelper
    <3> QED
        BY <3>1 DEF Served
  <2>5. CASE Selected(n)
        BY <2>5, GotoServed, DoneServed DEF Selected, InHelper
  <2>6. CASE ReturnOk(n)
        BY <2>6, DoneServed DEF ReturnOk
  <2>7. CASE ReturnError(n)
        BY <2>7, GotoServed, DoneServed DEF ReturnError, InHelper
  <2> QED
      BY <1>6, <2>1, <2>2, <2>3, <2>4, <2>5, <2>6, <2>7 DEF Serve
<1>7. CASE HelperDies
  <2>1. \A n \in Calls : call'[n].at \notin InHelper
        BY <1>7 DEF HelperDies, Typed, CallRec, InHelper
  <2> QED
      BY <2>1 DEF Served
<1>8. CASE HelperStarts
      BY <1>8 DEF HelperStarts, Served
<1>9. CASE PollStart
      BY <1>9 DEF PollStart, Served
<1>10. CASE PollServe
      BY <1>10 DEF PollServe, Served
<1>11. CASE PollReturn
  <2>1. CASE poll.answer = Unknown
        BY <1>11, <2>1 DEF PollReturn, Served
  <2>2. CASE poll.answer # Unknown
        BY <1>11, <2>2, PollOverServed DEF PollReturn
  <2> QED
      BY <2>1, <2>2
<1>12. CASE PollFails
      BY <1>12, PollOverServed DEF PollFails
<1>13. CASE UNCHANGED vars
      BY <1>13 DEF vars, Served
<1> QED
    BY <1>1, <1>2, <1>3, <1>4, <1>5, <1>6, <1>7, <1>8, <1>9, <1>10, <1>11, <1>12,
       <1>13 DEF Next

---------------------------------------------------------------------------
(* The cached status.                                                      *)

\* What a decision made from StatusNow rests on.
LEMMA NoneMeansDown ==
    ASSUME Typed, NoHiddenTunnel, StatusNow.t # "up", ~StatusNow.busy
    PROVE  tunnel # "up"
<1>1. CASE Free
      BY <1>1, Statuses DEF StatusNow, Typed
<1>2. CASE ~Free
      BY <1>2 DEF StatusNow, NoHiddenTunnel
<1> QED
    BY <1>1, <1>2

\* Asking for a Status while the mutex is free renews the cached one.
LEMMA AskedIsTrue ==
    ASSUME Typed, NoHiddenTunnel, tunnel = "up"
    PROVE  StatusNow.t = "up" \/ StatusNow.busy
BY NoneMeansDown

LEMMA InitHides == Init => NoHiddenTunnel
BY Statuses DEF Init, NoHiddenTunnel

LEMMA NextHides == IInv /\ [Next]_vars => NoHiddenTunnel'
<1> SUFFICES ASSUME Typed, Served, NoHiddenTunnel, [Next]_vars
             PROVE  NoHiddenTunnel'
    BY DEF IInv
<1> USE DEF NoHiddenTunnel, helper
<1>1. CASE Toggle
      BY <1>1 DEF Toggle
<1>2. CASE Cancel
      BY <1>2 DEF Cancel
<1>3. CASE Switch
      BY <1>3 DEF Switch
<1>4. CASE TrayToggle
      BY <1>4, AskedIsTrue DEF TrayToggle
<1>5. CASE AutoConnect
      BY <1>5, AskedIsTrue DEF AutoConnect
<1>6. ASSUME NEW n \in Calls, Serve(n) PROVE NoHiddenTunnel'
  <2>1. CASE Arrive(n)
        BY <2>1 DEF Arrive
  <2>2. CASE DownLock(n)
        BY <2>2 DEF DownLock
  <2>3. CASE Begin(n)
        BY <2>3, Statuses DEF Begin
  <2>4. CASE End(n)
    <3>1. CASE tunnel' = "up"
      <4>1. \E ok \in BOOLEAN : Reply(n, "up", ok)
            BY <2>4, <3>1 DEF End, Reply
      <4>2. cached'.t = "up"
            BY <4>1, Statuses DEF Reply, Tunnels
      <4>3. running'
            BY <2>4 DEF End, Served, InHelper
      <4> QED
          BY <4>2, <4>3
    <3> QED
        BY <3>1
  <2>5. CASE Selected(n)
        BY <2>5 DEF Selected
  <2>6. CASE ReturnOk(n)
        BY <2>6 DEF ReturnOk
  <2>7. CASE ReturnError(n)
        BY <2>7 DEF ReturnError
  <2> QED
      BY <1>6, <2>1, <2>2, <2>3, <2>4, <2>5, <2>6, <2>7 DEF Serve
<1>7. CASE HelperDies
      BY <1>7 DEF HelperDies
<1>8. CASE HelperStarts
      BY <1>8 DEF HelperStarts
<1>9. CASE PollStart
      BY <1>9 DEF PollStart
<1>10. CASE PollServe
      BY <1>10, AskedIsTrue DEF PollServe
<1>11. CASE PollReturn
      BY <1>11 DEF PollReturn
<1>12. CASE PollFails
      BY <1>12, AskedIsTrue DEF PollFails
<1>13. CASE UNCHANGED vars
      BY <1>13 DEF vars
<1> QED
    BY <1>1, <1>2, <1>3, <1>4, <1>5, <1>6, <1>7, <1>8, <1>9, <1>10, <1>11, <1>12,
       <1>13 DEF Next

LEMMA Inductive ==
    /\ Init => IInv
    /\ IInv /\ [Next]_vars => IInv'
<1>1. Init => Served
      BY AutoIsCall DEF Init, Served
<1> QED
    BY <1>1, InitTypes, InitHides, NextTypes, NextServed, NextHides DEF IInv

---------------------------------------------------------------------------
(* The decisions of the tray and of auto-connect.                          *)

\* One step of ConnectsOnlyWhenDown.
DecidedDown ==
    \A n \in Calls : call[n].at \in {"none", "start"} /\ call'[n].at = "sent"
                     /\ call'[n].by \in {"tray", "auto"} /\ call'[n].act = "up" =>
        tunnel # "up"

\* A click by somebody else does not matter here.
LEMMA OtherClick ==
    ASSUME Typed, NEW by, by \notin {"tray", "auto"}, NEW act, NEW at, Click(by, act, at)
    PROVE  DecidedDown
<1>1. call' = [call EXCEPT ![events'] = Call(by, act, at)]
      BY DEF Click
<1>2. Call(by, act, at).by \notin {"tray", "auto"}
      BY DEF Call
<1> QED
    BY <1>1, <1>2 DEF Typed, DecidedDown

LEMMA DoneDecides ==
    ASSUME Typed, NEW n \in Calls, Done(n) PROVE DecidedDown
BY DEF Typed, Done, Call, DecidedDown

LEMMA GotoDecides ==
    ASSUME Typed, NEW n \in Calls, NEW at, Goto(n, at),
           call[n].at \notin {"none", "start"} \/ at # "sent"
    PROVE  DecidedDown
BY DEF Typed, Goto, DecidedDown

LEMMA PollOverDecides ==
    ASSUME Typed, PollOver PROVE DecidedDown
<1>1. CASE poll.for = AutoCall
      BY <1>1 DEF PollOver, DecidedDown
<1>2. CASE poll.for # AutoCall
      BY <1>2, DoneDecides DEF PollOver, Typed, PollRec
<1> QED
    BY <1>1, <1>2

LEMMA StepDecides == IInv /\ [Next]_vars => DecidedDown
<1> SUFFICES ASSUME Typed, NoHiddenTunnel, [Next]_vars PROVE DecidedDown
    BY DEF IInv
<1> USE DEF helper, window
<1>1. CASE Toggle
      BY <1>1, OtherClick DEF Toggle
<1>2. CASE Cancel
      BY <1>2, OtherClick DEF Cancel
<1>3. CASE Switch
      BY <1>3, OtherClick DEF Switch
<1>4. CASE TrayToggle
  <2> DEFINE act == IF StatusNow.t # "none" \/ StatusNow.busy THEN "down" ELSE "up"
  <2>1. call' = [call EXCEPT ![events'] = Call("tray", act, "sent")]
        BY <1>4 DEF TrayToggle, Click
  <2>2. Call("tray", act, "sent").act = act
        BY DEF Call
  <2>3. CASE act = "down"
        BY <2>1, <2>2, <2>3 DEF Typed, DecidedDown
  <2>4. CASE act = "up"
    <3>1. StatusNow.t # "up" /\ ~StatusNow.busy
          BY <2>4
    <3> QED
        BY <3>1, NoneMeansDown DEF DecidedDown
  <2> QED
      BY <2>3, <2>4
<1>5. CASE AutoConnect
  <2>1. CASE running /\ StatusNow.t # "up" /\ ~StatusNow.busy
        BY <2>1, NoneMeansDown DEF DecidedDown
  <2>2. CASE ~(running /\ StatusNow.t # "up" /\ ~StatusNow.busy)
        BY <1>5, <2>2, GotoDecides, AutoIsCall DEF AutoConnect
  <2> QED
      BY <2>1, <2>2
<1>6. ASSUME NEW n \in Calls, Serve(n) PROVE DecidedDown
  <2>1. CASE Arrive(n)
        BY <2>1, GotoDecides DEF Arrive
  <2>2. CASE DownLock(n)
        BY <2>2, GotoDecides DEF DownLock
  <2>3. CASE Begin(n)
        BY <2>3, GotoDecides DEF Begin
  <2>4. CASE End(n)
    <3>1. PICK t \in Tunnels, ok \in BOOLEAN : Reply(n, t, ok)
          BY <2>4 DEF End, Tunnels, Typed
    <3> QED
        BY <3>1 DEF Reply, Typed, CallRec, DecidedDown
  <2>5. CASE Selected(n)
        BY <2>5, GotoDecides, DoneDecides DEF Selected
  <2>6. CASE ReturnOk(n)
        BY <2>6, DoneDecides DEF ReturnOk
  <2>7. CASE ReturnError(n)
        BY <2>7, GotoDecides, DoneDecides DEF ReturnError
  <2> QED
      BY <1>6, <2>1, <2>2, <2>3, <2>4, <2>5, <2>6, <2>7 DEF Serve
<1>7. CASE HelperDies
      BY <1>7 DEF HelperDies, Typed, CallRec, DecidedDown
<1>8. CASE HelperStarts
      BY <1>8 DEF HelperStarts, DecidedDown
<1>9. CASE PollStart
      BY <1>9 DEF PollStart, DecidedDown
<1>10. CASE PollServe
      BY <1>10 DEF PollServe, DecidedDown
<1>11. CASE PollReturn
  <2>1. CASE poll.answer = Unknown
        BY <1>11, <2>1 DEF PollReturn, DecidedDown
  <2>2. CASE poll.answer # Unknown
        BY <1>11, <2>2, PollOverDecides DEF PollReturn
  <2> QED
      BY <2>1, <2>2
<1>12. CASE PollFails
      BY <1>12, PollOverDecides DEF PollFails
<1>13. CASE UNCHANGED vars
      BY <1>13 DEF vars, DecidedDown
<1> QED
    BY <1>1, <1>2, <1>3, <1>4, <1>5, <1>6, <1>7, <1>8, <1>9, <1>10, <1>11, <1>12,
       <1>13 DEF Next

\* Neither the tray nor auto-connect sends an Up that was decided while a tunnel was up
\* (tray.rs:23, lib.rs:246), however many clicks, deaths and answers are under way.
THEOREM DecidedWhenDown == Spec => ConnectsOnlyWhenDown
<1>1. Init => IInv
      BY Inductive
<1>2. IInv /\ [Next]_vars => IInv'
      BY Inductive
<1>3. IInv /\ [Next]_vars => DecidedDown
      BY StepDecides
<1>4. DecidedDown => [DecidedDown]_vars
      OBVIOUS
<1>5. Spec => [][DecidedDown]_vars
      BY <1>1, <1>2, <1>3, PTL DEF Spec
<1> QED
    BY <1>5 DEF ConnectsOnlyWhenDown, DecidedDown

---------------------------------------------------------------------------
(* The vault.                                                              *)

\* Both the item and, once loaded, the cache have this secret for this key.
Has(k, v) == item[k] = v /\ (cache = NotLoaded \/ cache[k] = v)

\* Which ids a change may touch.
Ids ==
    /\ file \subseteq used /\ next.listed \subseteq used
    /\ forgetting \cap next.listed = {}
    /\ step # "idle" => listed \ next.listed \subseteq removed
    /\ next.confs \subseteq next.listed /\ (step # "store" => todo = {})
    /\ step = "idle" => next = NoNext

\* Memory and disk list the same profiles, also while a change is under way.
Same == listed = file

\* Servers of the management part: one with a password is listed, one that is listed
\* no more was dropped, and nothing is deleted while a save still stores.
Members ==
    /\ \A s \in Server : passwords[s] # None => s \in servers
    /\ \A s \in unstored : passwords[s] # None
    /\ stored \ servers \subseteq dropped /\ gone \cap servers = {}
    /\ saving => gone = {} /\ ~reported
    /\ \A s \in Server : item[s] # Config /\ (cache = NotLoaded \/ cache[s] #
       Config)

\* Listed configs are there, unused ids have none, and a change stores the new ones.
Held ==
    /\ \A i \in file : Has(i, Config)
    /\ \A i \in Profile \ used : Has(i, None)
    /\ \A i \in next.listed \ file : Has(i, IF i \in todo THEN None ELSE Config)

\* The cache lacks nothing of the item that nobody asked to remove.
Asked ==
    \A k \in Key : cache # NotLoaded /\ item[k] # None /\ cache[k] = None
                   => k \in removed \cup dropped

\* The cache holds every password reported saved, and those a save already stored.
Cached ==
    \A s \in Server :
        passwords[s] # None /\ (IF saving THEN s \notin unstored ELSE reported)
        => Loaded[s] = passwords[s]

\* What OnlyAskedLeave says of one step.
Left ==
    \A k \in Key : item[k] # None /\ item'[k] = None => k \in removed \cup dropped

VaultInv == VaultTypeOK /\ Ids /\ Same /\ Members /\ Held /\ Asked /\ Cached

\* What a set or a delete does to a cache and an item of the right type.
LEMMA PutEffect ==
    ASSUME item \in Secrets, cache \in Secrets \cup {NotLoaded},
           NEW k \in Key, NEW v \in Secret, Put(k, v)
    PROVE  /\ cache' \in Secrets /\ item' \in Secrets /\ item' \in {item, cache'}
           /\ cache'[k] = v /\ \A x \in Key \ {k} : cache'[x] = Loaded[x]
           /\ Loaded[k] # v => item' = cache'
<1>1. Loaded \in Secrets
  BY DEF Loaded
<1>2. QED
  BY <1>1 DEF Put, Secrets

\* A refused one leaves the item alone, and may leave its value in the cache.
LEMMA FailEffect ==
    ASSUME item \in Secrets, cache \in Secrets \cup {NotLoaded},
           NEW k \in Key, NEW v \in Secret, PutFails(k, v)
    PROVE  /\ item' = item /\ failures < MaxFailures /\ failures' = failures + 1
           /\ \/ cache' = cache
              \/ /\ Loaded[k] # v /\ cache' \in Secrets /\ cache'[k] = v
                 /\ \A x \in Key \ {k} : cache'[x] = Loaded[x]
<1>1. Loaded \in Secrets
  BY DEF Loaded
<1>2. QED
  BY <1>1 DEF PutFails, OneFailure, Secrets

\* Neither changes what the vault has for another key.
LEMMA OthersKept ==
    ASSUME item \in Secrets, cache \in Secrets \cup {NotLoaded},
           NEW k \in Key, NEW v \in Secret, Put(k, v) \/ PutFails(k, v),
           NEW x \in Key \ {k}, NEW w, Has(x, w)
    PROVE  Has(x, w)'
<1>1. CASE Put(k, v)
  BY <1>1, PutEffect DEF Has, Loaded
<1>2. CASE PutFails(k, v)
  BY <1>2, FailEffect DEF Has, Loaded
<1>3. QED
  BY <1>1, <1>2

\* Every step keeps the types.
LEMMA TypeStep == VaultTypeOK /\ Ids /\ Same /\ Members /\ [VaultNext]_vaultVars =>
    VaultTypeOK'
<1> SUFFICES ASSUME VaultTypeOK, Ids, Same, Members, [VaultNext]_vaultVars
             PROVE VaultTypeOK'
  OBVIOUS
<1> USE KeysAssumption, SecretsAssumption, BoundAssumption, CacheAssumption,
   PutEffect, FailEffect, OthersKept DEF vaultVars, vault, profiles, change, manage,
   theirs, Listing, NoNext, VaultTypeOK, Ids, Same, Members, Key, Secret, Secrets
<1>1. ASSUME NEW new \in SUBSET Profile, Import(new) PROVE VaultTypeOK'
  BY <1>1 DEF Import, Change
<1>2. ASSUME NEW i \in Profile, Remove(i) PROVE VaultTypeOK'
  BY <1>2 DEF Remove, Change
<1>3. ASSUME NEW i \in Profile, StoreConf(i) PROVE VaultTypeOK'
  BY <1>3 DEF StoreConf, rest
<1>4. ASSUME NEW i \in Profile, ForgetConf(i) PROVE VaultTypeOK'
  BY <1>4 DEF ForgetConf, rest
<1>5. CASE Resave
  BY <1>5 DEF Resave, Change
<1>6. CASE AllStored
  BY <1>6 DEF AllStored, rest
<1>7. CASE StoreFails
  BY <1>7 DEF StoreFails, ChangeOver, rest
<1>8. CASE WriteFile
  <2>1. forgetting' \subseteq removed' \ file'
    BY <1>8 DEF WriteFile, rest
  <2>2. listed' \subseteq Profile /\ confs' \subseteq listed' /\ file' \subseteq
     Profile
    BY <1>8 DEF WriteFile
  <2>3. QED
    BY <1>8, <2>1, <2>2 DEF WriteFile, ChangeOver, rest
<1>9. CASE WriteFails
  BY <1>9 DEF WriteFails, ChangeOver, OneFailure, rest
<1>10. ASSUME NEW s \in Server, NEW p \in Password, SaveServer(s, p) PROVE VaultTypeOK'
  <2>1. passwords' \in [Server -> Password \cup {None}]
    BY <1>10 DEF SaveServer
  <2>2. \A x \in Server : passwords'[x] # None => x \in servers'
    BY <1>10 DEF SaveServer
  <2>3. unstored' \subseteq servers' /\ servers' \subseteq Server /\ gone' = {}
    BY <1>10, <2>2 DEF SaveServer, StartSave
  <2>4. QED
    BY <1>10, <2>1, <2>3 DEF SaveServer, StartSave
<1>11. ASSUME NEW s \in Server, DropServer(s) PROVE VaultTypeOK'
  <2>1. passwords' \in [Server -> Password \cup {None}] /\ servers' \subseteq Server
    BY <1>11 DEF DropServer
  <2>2. \A x \in Server : passwords'[x] # None => x \in servers'
    BY <1>11 DEF DropServer
  <2>3. unstored' \subseteq servers' /\ gone' = {} /\ dropped' \subseteq Server
    BY <1>11, <2>2 DEF DropServer, StartSave
  <2>4. QED
    BY <1>11, <2>1, <2>3 DEF DropServer, StartSave
<1>12. ASSUME NEW s \in Server, StorePassword(s) PROVE VaultTypeOK'
  BY <1>12 DEF StorePassword
<1>13. ASSUME NEW s \in Server, StorePasswordFails(s) PROVE VaultTypeOK'
  <2>1. s \in Key /\ passwords[s] \in Secret /\ PutFails(s, passwords[s])
    BY <1>13 DEF StorePasswordFails
  <2>2. item' = item /\ cache' \in Secrets \cup {NotLoaded}
    BY <2>1, FailEffect
  <2>3. failures' \in 0..MaxFailures
    BY <2>1, FailEffect
  <2>4. QED
    BY <1>13, <2>2, <2>3 DEF StorePasswordFails, SaveOver
<1>14. ASSUME NEW s \in Server, ForgetPassword(s) PROVE VaultTypeOK'
  BY <1>14 DEF ForgetPassword
<1>15. CASE WriteState
  BY <1>15 DEF WriteState, SaveOver
<1>16. CASE WriteStateFails
  <2>1. failures' \in 0..MaxFailures
    BY <1>16 DEF WriteStateFails, OneFailure
  <2>2. QED
    BY <1>16, <2>1 DEF WriteStateFails, SaveOver
<1>17. CASE Restart
  <2>1. failures' \in 0..MaxFailures
    BY <1>17 DEF Restart, OneFailure
  <2>2. passwords' \in [Server -> Password \cup {None}]
    BY <1>17 DEF Restart
  <2>3. cache' \in Secrets \cup {NotLoaded} /\ confs' \subseteq listed'
    BY <1>17 DEF Restart
  <2>4. QED
    BY <1>17, <2>1, <2>2, <2>3 DEF Restart
<1>18. CASE UNCHANGED vaultVars
  BY <1>18
<1> HIDE DEF vaultVars, vault, profiles, change, manage, theirs, Listing, NoNext,
   VaultTypeOK, Ids, Same, Members, Key, Secret, Secrets
<1>19. QED
  BY <1>1, <1>2, <1>3, <1>4, <1>5, <1>6, <1>7, <1>8, <1>9, <1>10, <1>11, <1>12,
     <1>13, <1>14, <1>15, <1>16, <1>17, <1>18
     DEF VaultNext, Profiles, Management

\* A change lists ids that were given out, and only drops profiles on request.
LEMMA IdsStep == VaultTypeOK /\ Ids /\ Same /\ [VaultNext]_vaultVars => Ids'
<1> SUFFICES ASSUME VaultTypeOK, Ids, Same, [VaultNext]_vaultVars PROVE Ids'
  OBVIOUS
<1> USE KeysAssumption, SecretsAssumption, BoundAssumption, CacheAssumption,
   PutEffect, FailEffect, OthersKept DEF vaultVars, vault, profiles, change, manage,
   theirs, Listing, NoNext, VaultTypeOK, Ids, Same
<1>1. ASSUME NEW new \in SUBSET Profile, Import(new) PROVE Ids'
  BY <1>1 DEF Import, Change
<1>2. ASSUME NEW i \in Profile, Remove(i) PROVE Ids'
  BY <1>2 DEF Remove, Change
<1>3. ASSUME NEW i \in Profile, StoreConf(i) PROVE Ids'
  BY <1>3 DEF StoreConf, rest
<1>4. ASSUME NEW i \in Profile, ForgetConf(i) PROVE Ids'
  BY <1>4 DEF ForgetConf, rest
<1>5. CASE Resave
  BY <1>5 DEF Resave, Change
<1>6. CASE AllStored
  BY <1>6 DEF AllStored, rest
<1>7. CASE StoreFails
  BY <1>7 DEF StoreFails, ChangeOver, rest
<1>8. CASE WriteFile
  BY <1>8 DEF WriteFile, ChangeOver, rest
<1>9. CASE WriteFails
  BY <1>9 DEF WriteFails, ChangeOver, OneFailure, rest
<1>10. ASSUME NEW s \in Server, NEW p \in Password, SaveServer(s, p) PROVE Ids'
  BY <1>10 DEF SaveServer, StartSave
<1>11. ASSUME NEW s \in Server, DropServer(s) PROVE Ids'
  BY <1>11 DEF DropServer, StartSave
<1>12. ASSUME NEW s \in Server, StorePassword(s) PROVE Ids'
  BY <1>12 DEF StorePassword
<1>13. ASSUME NEW s \in Server, StorePasswordFails(s) PROVE Ids'
  BY <1>13 DEF StorePasswordFails, SaveOver
<1>14. ASSUME NEW s \in Server, ForgetPassword(s) PROVE Ids'
  BY <1>14 DEF ForgetPassword
<1>15. CASE WriteState
  BY <1>15 DEF WriteState, SaveOver
<1>16. CASE WriteStateFails
  BY <1>16 DEF WriteStateFails, SaveOver, OneFailure
<1>17. CASE Restart
  BY <1>17 DEF Restart, OneFailure
<1>18. CASE UNCHANGED vaultVars
  BY <1>18
<1> HIDE DEF vaultVars, vault, profiles, change, manage, theirs, Listing, NoNext,
   VaultTypeOK, Ids, Same
<1>19. QED
  BY <1>1, <1>2, <1>3, <1>4, <1>5, <1>6, <1>7, <1>8, <1>9, <1>10, <1>11, <1>12,
     <1>13, <1>14, <1>15, <1>16, <1>17, <1>18
     DEF VaultNext, Profiles, Management

\* Memory and file list the same profiles after every step.
LEMMA SameStep == VaultTypeOK /\ Same /\ [VaultNext]_vaultVars => Same'
<1> SUFFICES ASSUME VaultTypeOK, Same, [VaultNext]_vaultVars PROVE Same'
  OBVIOUS
<1> USE KeysAssumption, SecretsAssumption, BoundAssumption, CacheAssumption,
   PutEffect, FailEffect, OthersKept DEF vaultVars, vault, profiles, change, manage,
   theirs, Listing, NoNext, VaultTypeOK, Same
<1>1. ASSUME NEW new \in SUBSET Profile, Import(new) PROVE Same'
  BY <1>1 DEF Import, Change
<1>2. ASSUME NEW i \in Profile, Remove(i) PROVE Same'
  BY <1>2 DEF Remove, Change
<1>3. ASSUME NEW i \in Profile, StoreConf(i) PROVE Same'
  BY <1>3 DEF StoreConf, rest
<1>4. ASSUME NEW i \in Profile, ForgetConf(i) PROVE Same'
  BY <1>4 DEF ForgetConf, rest
<1>5. CASE Resave
  BY <1>5 DEF Resave, Change
<1>6. CASE AllStored
  BY <1>6 DEF AllStored, rest
<1>7. CASE StoreFails
  BY <1>7 DEF StoreFails, ChangeOver, rest
<1>8. CASE WriteFile
  BY <1>8 DEF WriteFile, ChangeOver, rest
<1>9. CASE WriteFails
  BY <1>9 DEF WriteFails, ChangeOver, OneFailure, rest
<1>10. ASSUME NEW s \in Server, NEW p \in Password, SaveServer(s, p) PROVE Same'
  BY <1>10 DEF SaveServer, StartSave
<1>11. ASSUME NEW s \in Server, DropServer(s) PROVE Same'
  BY <1>11 DEF DropServer, StartSave
<1>12. ASSUME NEW s \in Server, StorePassword(s) PROVE Same'
  BY <1>12 DEF StorePassword
<1>13. ASSUME NEW s \in Server, StorePasswordFails(s) PROVE Same'
  BY <1>13 DEF StorePasswordFails, SaveOver
<1>14. ASSUME NEW s \in Server, ForgetPassword(s) PROVE Same'
  BY <1>14 DEF ForgetPassword
<1>15. CASE WriteState
  BY <1>15 DEF WriteState, SaveOver
<1>16. CASE WriteStateFails
  BY <1>16 DEF WriteStateFails, SaveOver, OneFailure
<1>17. CASE Restart
  BY <1>17 DEF Restart, OneFailure
<1>18. CASE UNCHANGED vaultVars
  BY <1>18
<1> HIDE DEF vaultVars, vault, profiles, change, manage, theirs, Listing, NoNext,
   VaultTypeOK, Same
<1>19. QED
  BY <1>1, <1>2, <1>3, <1>4, <1>5, <1>6, <1>7, <1>8, <1>9, <1>10, <1>11, <1>12,
     <1>13, <1>14, <1>15, <1>16, <1>17, <1>18
     DEF VaultNext, Profiles, Management

\* Every step keeps the books of the management part.
LEMMA MembersStep == VaultTypeOK /\ Ids /\ Members /\ [VaultNext]_vaultVars =>
    Members'
<1> SUFFICES ASSUME VaultTypeOK, Ids, Members, [VaultNext]_vaultVars PROVE Members'
  OBVIOUS
<1> USE KeysAssumption, SecretsAssumption, BoundAssumption, CacheAssumption,
   PutEffect, FailEffect, OthersKept DEF vaultVars, vault, profiles, change, manage,
   theirs, Listing, NoNext, VaultTypeOK, Ids, Members, Key, Secret, Secrets, Loaded
<1>1. ASSUME NEW new \in SUBSET Profile, Import(new) PROVE Members'
  BY <1>1 DEF Import, Change
<1>2. ASSUME NEW i \in Profile, Remove(i) PROVE Members'
  BY <1>2 DEF Remove, Change
<1>3. ASSUME NEW i \in Profile, StoreConf(i) PROVE Members'
  BY <1>3 DEF StoreConf, rest
<1>4. ASSUME NEW i \in Profile, ForgetConf(i) PROVE Members'
  BY <1>4 DEF ForgetConf, rest
<1>5. CASE Resave
  BY <1>5 DEF Resave, Change
<1>6. CASE AllStored
  BY <1>6 DEF AllStored, rest
<1>7. CASE StoreFails
  BY <1>7 DEF StoreFails, ChangeOver, rest
<1>8. CASE WriteFile
  BY <1>8 DEF WriteFile, ChangeOver, rest
<1>9. CASE WriteFails
  BY <1>9 DEF WriteFails, ChangeOver, OneFailure, rest
<1>10. ASSUME NEW s \in Server, NEW p \in Password, SaveServer(s, p) PROVE Members'
  BY <1>10 DEF SaveServer, StartSave
<1>11. ASSUME NEW s \in Server, DropServer(s) PROVE Members'
  BY <1>11 DEF DropServer, StartSave
<1>12. ASSUME NEW s \in Server, StorePassword(s) PROVE Members'
  BY <1>12 DEF StorePassword
<1>13. ASSUME NEW s \in Server, StorePasswordFails(s) PROVE Members'
  BY <1>13 DEF StorePasswordFails, SaveOver
<1>14. ASSUME NEW s \in Server, ForgetPassword(s) PROVE Members'
  BY <1>14 DEF ForgetPassword
<1>15. CASE WriteState
  BY <1>15 DEF WriteState, SaveOver
<1>16. CASE WriteStateFails
  BY <1>16 DEF WriteStateFails, SaveOver, OneFailure
<1>17. CASE Restart
  BY <1>17 DEF Restart, OneFailure
<1>18. CASE UNCHANGED vaultVars
  BY <1>18
<1> HIDE DEF vaultVars, vault, profiles, change, manage, theirs, Listing, NoNext,
   VaultTypeOK, Ids, Members, Key, Secret, Secrets, Loaded
<1>19. QED
  BY <1>1, <1>2, <1>3, <1>4, <1>5, <1>6, <1>7, <1>8, <1>9, <1>10, <1>11, <1>12,
     <1>13, <1>14, <1>15, <1>16, <1>17, <1>18
     DEF VaultNext, Profiles, Management

\* No write of one key changes what another one has.
LEMMA HeldStep == VaultTypeOK /\ Ids /\ Same /\ Members /\ Held /\ [VaultNext]_vaultVars =>
    Held'
<1> SUFFICES ASSUME VaultTypeOK, Ids, Same, Members, Held, [VaultNext]_vaultVars
             PROVE Held'
  OBVIOUS
<1> USE KeysAssumption, SecretsAssumption, BoundAssumption, CacheAssumption,
   PutEffect, FailEffect, OthersKept DEF vaultVars, vault, profiles, change, manage,
   theirs, Listing, NoNext, VaultTypeOK, Ids, Same, Members, Held, Has, Key, Secret,
   Secrets, Loaded
<1>1. ASSUME NEW new \in SUBSET Profile, Import(new) PROVE Held'
  BY <1>1 DEF Import, Change
<1>2. ASSUME NEW i \in Profile, Remove(i) PROVE Held'
  BY <1>2 DEF Remove, Change
<1>3. ASSUME NEW i \in Profile, StoreConf(i) PROVE Held'
  <2>1. i \in Key /\ Config \in Secret /\ Put(i, Config)
    BY <1>3 DEF StoreConf
  <2>2. Has(i, Config) \/ Has(i, None)
    BY <1>3 DEF StoreConf
  <2>3. Has(i, Config)'
    BY <2>1, <2>2, PutEffect
  <2>4. ASSUME NEW x \in Key \ {i}, NEW w, Has(x, w) PROVE Has(x, w)'
    BY <2>1, <2>4, OthersKept
  <2>5. QED
    BY <1>3, <2>3, <2>4 DEF StoreConf, rest
<1>4. ASSUME NEW i \in Profile, ForgetConf(i) PROVE Held'
  BY <1>4 DEF ForgetConf, rest
<1>5. CASE Resave
  BY <1>5 DEF Resave, Change
<1>6. CASE AllStored
  BY <1>6 DEF AllStored, rest
<1>7. CASE StoreFails
  <2>1. PICK i \in todo : PutFails(i, Config)
    BY <1>7 DEF StoreFails
  <2>2. i \in Key /\ Config \in Secret /\ i \in used
    BY <1>7, <2>1
  <2>3. ASSUME Has(i, Config) PROVE Has(i, Config)'
    BY <2>1, <2>2, <2>3, FailEffect
  <2>4. ASSUME NEW x \in Key \ {i}, NEW w, Has(x, w) PROVE Has(x, w)'
    BY <2>1, <2>2, <2>4, OthersKept
  <2>5. QED
    BY <1>7, <2>2, <2>3, <2>4 DEF StoreFails, ChangeOver, rest
<1>8. CASE WriteFile
  BY <1>8 DEF WriteFile, ChangeOver, rest
<1>9. CASE WriteFails
  BY <1>9 DEF WriteFails, ChangeOver, OneFailure, rest
<1>10. ASSUME NEW s \in Server, NEW p \in Password, SaveServer(s, p) PROVE Held'
  BY <1>10 DEF SaveServer, StartSave
<1>11. ASSUME NEW s \in Server, DropServer(s) PROVE Held'
  BY <1>11 DEF DropServer, StartSave
<1>12. ASSUME NEW s \in Server, StorePassword(s) PROVE Held'
  BY <1>12 DEF StorePassword
<1>13. ASSUME NEW s \in Server, StorePasswordFails(s) PROVE Held'
  BY <1>13 DEF StorePasswordFails, SaveOver
<1>14. ASSUME NEW s \in Server, ForgetPassword(s) PROVE Held'
  BY <1>14 DEF ForgetPassword
<1>15. CASE WriteState
  BY <1>15 DEF WriteState, SaveOver
<1>16. CASE WriteStateFails
  BY <1>16 DEF WriteStateFails, SaveOver, OneFailure
<1>17. CASE Restart
  BY <1>17 DEF Restart, OneFailure
<1>18. CASE UNCHANGED vaultVars
  BY <1>18
<1> HIDE DEF vaultVars, vault, profiles, change, manage, theirs, Listing, NoNext,
   VaultTypeOK, Ids, Same, Members, Held, Has, Key, Secret, Secrets, Loaded
<1>19. QED
  BY <1>1, <1>2, <1>3, <1>4, <1>5, <1>6, <1>7, <1>8, <1>9, <1>10, <1>11, <1>12,
     <1>13, <1>14, <1>15, <1>16, <1>17, <1>18
     DEF VaultNext, Profiles, Management

\* A secret the cache lacks was asked to be removed.
LEMMA AskedStep == VaultTypeOK /\ Ids /\ Members /\ Asked /\ [VaultNext]_vaultVars =>
    Asked'
<1> SUFFICES ASSUME VaultTypeOK, Ids, Members, Asked, [VaultNext]_vaultVars
             PROVE Asked'
  OBVIOUS
<1> USE KeysAssumption, SecretsAssumption, BoundAssumption, CacheAssumption,
   PutEffect, FailEffect, OthersKept DEF vaultVars, vault, profiles, change, manage,
   theirs, Listing, NoNext, VaultTypeOK, Ids, Members, Asked, Key, Secret, Secrets,
   Loaded
<1>1. ASSUME NEW new \in SUBSET Profile, Import(new) PROVE Asked'
  BY <1>1 DEF Import, Change
<1>2. ASSUME NEW i \in Profile, Remove(i) PROVE Asked'
  BY <1>2 DEF Remove, Change
<1>3. ASSUME NEW i \in Profile, StoreConf(i) PROVE Asked'
  BY <1>3 DEF StoreConf, rest
<1>4. ASSUME NEW i \in Profile, ForgetConf(i) PROVE Asked'
  BY <1>4 DEF ForgetConf, rest
<1>5. CASE Resave
  BY <1>5 DEF Resave, Change
<1>6. CASE AllStored
  BY <1>6 DEF AllStored, rest
<1>7. CASE StoreFails
  BY <1>7 DEF StoreFails, ChangeOver, rest
<1>8. CASE WriteFile
  BY <1>8 DEF WriteFile, ChangeOver, rest
<1>9. CASE WriteFails
  BY <1>9 DEF WriteFails, ChangeOver, OneFailure, rest
<1>10. ASSUME NEW s \in Server, NEW p \in Password, SaveServer(s, p) PROVE Asked'
  BY <1>10 DEF SaveServer, StartSave
<1>11. ASSUME NEW s \in Server, DropServer(s) PROVE Asked'
  BY <1>11 DEF DropServer, StartSave
<1>12. ASSUME NEW s \in Server, StorePassword(s) PROVE Asked'
  BY <1>12 DEF StorePassword
<1>13. ASSUME NEW s \in Server, StorePasswordFails(s) PROVE Asked'
  BY <1>13 DEF StorePasswordFails, SaveOver
<1>14. ASSUME NEW s \in Server, ForgetPassword(s) PROVE Asked'
  BY <1>14 DEF ForgetPassword
<1>15. CASE WriteState
  BY <1>15 DEF WriteState, SaveOver
<1>16. CASE WriteStateFails
  BY <1>16 DEF WriteStateFails, SaveOver, OneFailure
<1>17. CASE Restart
  BY <1>17 DEF Restart, OneFailure
<1>18. CASE UNCHANGED vaultVars
  BY <1>18
<1> HIDE DEF vaultVars, vault, profiles, change, manage, theirs, Listing, NoNext,
   VaultTypeOK, Ids, Members, Asked, Key, Secret, Secrets, Loaded
<1>19. QED
  BY <1>1, <1>2, <1>3, <1>4, <1>5, <1>6, <1>7, <1>8, <1>9, <1>10, <1>11, <1>12,
     <1>13, <1>14, <1>15, <1>16, <1>17, <1>18
     DEF VaultNext, Profiles, Management

\* A save stores every password before it is reported done.
LEMMA CachedStep == VaultTypeOK /\ Ids /\ Members /\ Cached /\ [VaultNext]_vaultVars =>
    Cached'
<1> SUFFICES ASSUME VaultTypeOK, Ids, Members, Cached, [VaultNext]_vaultVars
             PROVE Cached'
  OBVIOUS
<1> USE KeysAssumption, SecretsAssumption, BoundAssumption, CacheAssumption,
   PutEffect, FailEffect, OthersKept DEF vaultVars, vault, profiles, change, manage,
   theirs, Listing, NoNext, VaultTypeOK, Ids, Members, Cached, Key, Secret, Secrets,
   Loaded
<1>1. ASSUME NEW new \in SUBSET Profile, Import(new) PROVE Cached'
  BY <1>1 DEF Import, Change
<1>2. ASSUME NEW i \in Profile, Remove(i) PROVE Cached'
  BY <1>2 DEF Remove, Change
<1>3. ASSUME NEW i \in Profile, StoreConf(i) PROVE Cached'
  BY <1>3 DEF StoreConf, rest
<1>4. ASSUME NEW i \in Profile, ForgetConf(i) PROVE Cached'
  BY <1>4 DEF ForgetConf, rest
<1>5. CASE Resave
  BY <1>5 DEF Resave, Change
<1>6. CASE AllStored
  BY <1>6 DEF AllStored, rest
<1>7. CASE StoreFails
  BY <1>7 DEF StoreFails, ChangeOver, rest
<1>8. CASE WriteFile
  BY <1>8 DEF WriteFile, ChangeOver, rest
<1>9. CASE WriteFails
  BY <1>9 DEF WriteFails, ChangeOver, OneFailure, rest
<1>10. ASSUME NEW s \in Server, NEW p \in Password, SaveServer(s, p) PROVE Cached'
  BY <1>10 DEF SaveServer, StartSave
<1>11. ASSUME NEW s \in Server, DropServer(s) PROVE Cached'
  BY <1>11 DEF DropServer, StartSave
<1>12. ASSUME NEW s \in Server, StorePassword(s) PROVE Cached'
  BY <1>12 DEF StorePassword
<1>13. ASSUME NEW s \in Server, StorePasswordFails(s) PROVE Cached'
  BY <1>13 DEF StorePasswordFails, SaveOver
<1>14. ASSUME NEW s \in Server, ForgetPassword(s) PROVE Cached'
  BY <1>14 DEF ForgetPassword
<1>15. CASE WriteState
  BY <1>15 DEF WriteState, SaveOver
<1>16. CASE WriteStateFails
  BY <1>16 DEF WriteStateFails, SaveOver, OneFailure
<1>17. CASE Restart
  BY <1>17 DEF Restart, OneFailure
<1>18. CASE UNCHANGED vaultVars
  BY <1>18
<1> HIDE DEF vaultVars, vault, profiles, change, manage, theirs, Listing, NoNext,
   VaultTypeOK, Ids, Members, Cached, Key, Secret, Secrets, Loaded
<1>19. QED
  BY <1>1, <1>2, <1>3, <1>4, <1>5, <1>6, <1>7, <1>8, <1>9, <1>10, <1>11, <1>12,
     <1>13, <1>14, <1>15, <1>16, <1>17, <1>18
     DEF VaultNext, Profiles, Management

\* Only what was asked for leaves the item.
LEMMA LeaveStep == VaultTypeOK /\ Ids /\ Members /\ Asked /\ [VaultNext]_vaultVars =>
    Left
<1> SUFFICES ASSUME VaultTypeOK, Ids, Members, Asked, [VaultNext]_vaultVars
             PROVE Left
  OBVIOUS
<1> USE KeysAssumption, SecretsAssumption, BoundAssumption, CacheAssumption,
   PutEffect, FailEffect, OthersKept DEF vaultVars, vault, profiles, change, manage,
   theirs, Listing, NoNext, VaultTypeOK, Ids, Members, Asked, Left, Key, Secret,
   Secrets, Loaded
<1>1. ASSUME NEW new \in SUBSET Profile, Import(new) PROVE Left
  BY <1>1 DEF Import, Change
<1>2. ASSUME NEW i \in Profile, Remove(i) PROVE Left
  BY <1>2 DEF Remove, Change
<1>3. ASSUME NEW i \in Profile, StoreConf(i) PROVE Left
  BY <1>3 DEF StoreConf, rest
<1>4. ASSUME NEW i \in Profile, ForgetConf(i) PROVE Left
  BY <1>4 DEF ForgetConf, rest
<1>5. CASE Resave
  BY <1>5 DEF Resave, Change
<1>6. CASE AllStored
  BY <1>6 DEF AllStored, rest
<1>7. CASE StoreFails
  BY <1>7 DEF StoreFails, ChangeOver, rest
<1>8. CASE WriteFile
  BY <1>8 DEF WriteFile, ChangeOver, rest
<1>9. CASE WriteFails
  BY <1>9 DEF WriteFails, ChangeOver, OneFailure, rest
<1>10. ASSUME NEW s \in Server, NEW p \in Password, SaveServer(s, p) PROVE Left
  BY <1>10 DEF SaveServer, StartSave
<1>11. ASSUME NEW s \in Server, DropServer(s) PROVE Left
  BY <1>11 DEF DropServer, StartSave
<1>12. ASSUME NEW s \in Server, StorePassword(s) PROVE Left
  BY <1>12 DEF StorePassword
<1>13. ASSUME NEW s \in Server, StorePasswordFails(s) PROVE Left
  BY <1>13 DEF StorePasswordFails, SaveOver
<1>14. ASSUME NEW s \in Server, ForgetPassword(s) PROVE Left
  BY <1>14 DEF ForgetPassword
<1>15. CASE WriteState
  BY <1>15 DEF WriteState, SaveOver
<1>16. CASE WriteStateFails
  BY <1>16 DEF WriteStateFails, SaveOver, OneFailure
<1>17. CASE Restart
  BY <1>17 DEF Restart, OneFailure
<1>18. CASE UNCHANGED vaultVars
  BY <1>18
<1> HIDE DEF vaultVars, vault, profiles, change, manage, theirs, Listing, NoNext,
   VaultTypeOK, Ids, Members, Asked, Left, Key, Secret, Secrets, Loaded
<1>19. QED
  BY <1>1, <1>2, <1>3, <1>4, <1>5, <1>6, <1>7, <1>8, <1>9, <1>10, <1>11, <1>12,
     <1>13, <1>14, <1>15, <1>16, <1>17, <1>18
     DEF VaultNext, Profiles, Management

\* The inductive invariant holds of every reachable state.
THEOREM VaultInductive == VaultSpec => []VaultInv
<1>1. VaultInit => VaultInv
  <2> SUFFICES ASSUME VaultInit PROVE VaultInv
    OBVIOUS
  <2>1. VaultTypeOK
    <3>1. item \in Secrets /\ next \in Listing /\ failures \in 0..MaxFailures
      BY BoundAssumption DEF VaultInit, Secret, Secrets, Listing, NoNext
    <3>2. passwords \in [Server -> Password \cup {None}]
      BY DEF VaultInit
    <3>3. QED
      BY <3>1, <3>2 DEF VaultInit, VaultTypeOK, NoNext
  <2>2. Ids /\ Same
    BY DEF VaultInit, Ids, Same, NoNext
  <2>3. Members /\ Asked /\ Cached
    BY SecretsAssumption DEF VaultInit, Members, Asked, Cached, Key
  <2>4. Held
    BY DEF VaultInit, Held, Has, Key, NoNext
  <2>5. QED
    BY <2>1, <2>2, <2>3, <2>4 DEF VaultInv
<1>2. VaultInv /\ [VaultNext]_vaultVars => VaultInv'
  BY TypeStep, IdsStep, SameStep, MembersStep, HeldStep, AskedStep, CachedStep DEF
     VaultInv
<1>3. QED
  BY <1>1, <1>2, PTL DEF VaultSpec

\* Every variable of Vault keeps its type.
THEOREM VaultTyping == VaultSpec => []VaultTypeOK
<1>1. VaultInv => VaultTypeOK
  BY DEF VaultInv
<1>2. QED
  BY <1>1, VaultInductive, PTL

\* Every profile of profiles.json has its config in the keychain (Store::save).
THEOREM ListedHaveConfs == VaultSpec => []ListedHasConf
<1>1. VaultInv => ListedHasConf
  BY DEF VaultInv, Held, Has, ListedHasConf
<1>2. QED
  BY <1>1, VaultInductive, PTL

\* Only what was asked for leaves the keychain, whoever writes it (vault.rs:18).
THEOREM OnlyAskedLeave == VaultSpec => NothingOverwritten
<1>1. VaultInv /\ [VaultNext]_vaultVars =>
      [\A k \in Key : item[k] # None /\ item'[k] = None
                         => k \in removed \cup dropped]_vaultVars
  BY LeaveStep DEF VaultInv, Left
<1>2. QED
  BY <1>1, VaultInductive, PTL DEF VaultSpec, NothingOverwritten

\* Whoever writes the item writes all of the cache (persist in vault.rs).
LEMMA WholeCache ==
    VaultTypeOK /\ [VaultNext]_vaultVars => item' = item \/ item' = cache'
<1> SUFFICES ASSUME VaultTypeOK, [VaultNext]_vaultVars PROVE item' = item \/ item' = cache'
  OBVIOUS
<1> USE DEF vaultVars, vault, profiles, change, manage, theirs, Put, PutFails, OneFailure
<1>1. ASSUME NEW new \in SUBSET Profile, Import(new) PROVE item' = item
  BY <1>1 DEF Import, Change
<1>2. ASSUME NEW i \in Profile,
             Remove(i) \/ StoreConf(i) \/ ForgetConf(i)
      PROVE  item' = item \/ item' = cache'
  BY <1>2 DEF Remove, Change, StoreConf, ForgetConf
<1>3. ASSUME Resave \/ AllStored \/ StoreFails \/ WriteFile \/ WriteFails
      PROVE  item' = item
  BY <1>3 DEF Resave, Change, AllStored, StoreFails, WriteFile, WriteFails
<1>4. ASSUME NEW s \in Server, NEW p \in Password, SaveServer(s, p) PROVE item' = item
  BY <1>4 DEF SaveServer, StartSave
<1>5. ASSUME NEW s \in Server,
             DropServer(s) \/ StorePassword(s) \/ StorePasswordFails(s) \/ ForgetPassword(s)
      PROVE  item' = item \/ item' = cache'
  BY <1>5 DEF DropServer, StartSave, StorePassword, StorePasswordFails, ForgetPassword
<1>6. ASSUME WriteState \/ WriteStateFails \/ Restart \/ UNCHANGED vaultVars
      PROVE  item' = item
  BY <1>6 DEF WriteState, WriteStateFails, Restart
<1>7. QED
  BY <1>1, <1>2, <1>3, <1>4, <1>5, <1>6 DEF VaultNext, Profiles, Management

\* A password reported saved is in what the vault answers from, also after refused writes,
\* and in the item as soon as anything is written to it.
THEOREM ReportedIsKept == VaultSpec => SavedIsKept
<1>1. VaultInv => (~saving /\ reported => HasPasswords(Loaded))
  BY DEF VaultInv, Cached, HasPasswords
<1>2. VaultInv /\ VaultInv' /\ [VaultNext]_vaultVars =>
      [item' # item /\ ~saving' /\ reported' => HasPasswords(item)']_vaultVars
  <2> SUFFICES ASSUME VaultInv, VaultInv', [VaultNext]_vaultVars,
                      item' # item, ~saving', reported'
               PROVE  HasPasswords(item)'
    OBVIOUS
  <2>1. item' = cache' /\ Cached' /\ VaultTypeOK'
    BY WholeCache DEF VaultInv
  <2>2. Loaded' = item'
    BY <2>1 DEF Loaded
  <2>3. QED
    BY <2>1, <2>2 DEF Cached, HasPasswords
<1>3. QED
  BY <1>1, <1>2, VaultInductive, PTL DEF VaultSpec, SavedIsKept

\* Memory and disk list the same profiles between two changes (lib.rs:42-49).
THEOREM NoTraceOfFailure == VaultSpec => []MemoryIsFile
<1>1. VaultInv => MemoryIsFile
  BY DEF VaultInv, Same, MemoryIsFile
<1>2. QED
  BY <1>1, VaultInductive, PTL
=============================================================================

--------------------------- MODULE WinHelperProofs ---------------------------
(***************************************************************************)
(* The Windows helper, for any destinations and any number of Ups, crashes *)
(* and reboots.  The argument: netState.firewall is true exactly while the *)
(* filters are the tunnel's (Filters), which is what lets netDown decide   *)
(* from it alone; every point of up and down knows what it has left open   *)
(* (Points), so a failure there leaves nothing behind.                     *)
(***************************************************************************)
EXTENDS WinHelper, TLAPS

\* netState.firewall follows the filters, a block's filters belong to a block.
Filters ==
    /\ device = "firewall" <=> wfp = "tunnel"
    /\ wfp = "block" => blocked
    /\ blocked /\ ~gap /\ pc # "filter" => wfp \in {"block", "tunnel"}

\* A connection has a device with the filters its kill switch calls for, no block
\* and, once it has an adapter, something to take down.
Connected ==
    active => /\ ~blocked /\ (KillSwitch <=> device = "firewall")
              /\ device # "none"

\* What is open at each point of up, down and the start.
AtPoint ==
    /\ pc = "device" => device = "none" /\ routes = {} /\ ~active
    /\ pc = "idle" /\ ~active => device = "none" /\ routes = {}
    /\ pc \in {"addresses", "routes", "dns"} =>
           device = "plain" /\ (active => opts.mode # "all")
    /\ pc \in {"clear", "filter"} => KillSwitch /\ ~active /\ device = "plain"
    /\ pc \in {"settled", "file"} =>
           device # "none" /\ (KillSwitch <=> device = "firewall")
    /\ pc = "file" => ~active /\ ~blocked
    /\ pc \in {"remove", "exit", "dead"} =>
           ~active /\ ~blocked /\ device = "none" /\ routes = {}

\* Where the routes are those of the list being applied, or applied last.
Routed ==
    /\ pc \in {"dns", "clear", "filter", "settled", "file"} => routes =
       PlanRoutes(target)
    /\ active /\ pc \in {"idle", "addresses", "routes"} /\ ~torn =>
           routes = PlanRoutes(listed)

\* The state file says "kill switch" exactly while something protects, between two
\* requests; for a dead process, exactly if something did.
FileTells ==
    /\ slips = {} /\ pc \notin {"file", "remove", "exit", "dead"} =>
           (file = "kill" <=> Protecting)
    /\ slips = {} /\ pc = "dead" => (file = "kill" <=> owed)

IInv == TypeOK /\ Filters /\ Connected /\ AtPoint /\ Routed /\ FileTells

\* What StartKeepsProtection says of one step.
Kept == Start /\ slips \cup slips' = {} => (blocked' <=> owed)

LEMMA WinInitial == Init => IInv
<1> USE WinDestAssumption, WinLimitsAssumption
<1> SUFFICES ASSUME Init PROVE IInv
  OBVIOUS
<1>1. TypeOK
  <2>1. opts \in Options /\ listed \subseteq Net /\ target \subseteq Net
    BY DEF Init, Options
  <2>2. pc \in Points /\ slips \subseteq Slips
    BY DEF Init, Points
  <2>3. ups \in 0..MaxUps /\ deaths \in 0..MaxDeaths
    BY DEF Init
  <2>4. QED
    BY <2>1, <2>2, <2>3 DEF Init, TypeOK
<1>2. Filters /\ Connected /\ AtPoint
  BY DEF Init, Filters, Connected, AtPoint
<1>3. Routed /\ FileTells
  BY DEF Init, Routed, FileTells, Protecting
<1>4. QED
  BY <1>1, <1>2, <1>3 DEF IInv

LEMMA WinTypeStep == TypeOK /\ [Next]_vars => TypeOK'
<1> SUFFICES ASSUME TypeOK, [Next]_vars PROVE TypeOK'
  OBVIOUS
<1> USE WinDestAssumption, WinLimitsAssumption DEF vars, network, history, limits,
   TypeOK, Points
<1>1. ASSUME NEW o \in Options, Up(o) PROVE TypeOK'
  <2>1. ups' \in 0..MaxUps /\ deaths' \in 0..MaxDeaths
    <3> HIDE DEF Points
    <3>1. ups \in Nat /\ deaths \in Nat /\ ups =< MaxUps /\ deaths =< MaxDeaths
      BY DEF TypeOK
    <3> HIDE DEF TypeOK
    <3>2. QED
      BY <3>1, <1>1 DEF Up, StopTunnel
  <2>2. slips' \subseteq Slips
    BY <1>1 DEF Up, Slips
  <2>3. opts' \in Options /\ target' \subseteq Net
    BY <1>1 DEF Up, Net
  <2>4. QED
    BY <1>1, <2>1, <2>2, <2>3 DEF Up, StopTunnel
<1>2. CASE NoDevice
  BY <1>2 DEF NoDevice
<1>3. CASE OpenDevice
  BY <1>3 DEF OpenDevice
<1>4. CASE SetAddresses
  BY <1>4 DEF SetAddresses
<1>5. CASE SetRoutes
  <2>1. PlanRoutes(target) \subseteq Dest
    BY DEF PlanRoutes, Net
  <2>2. QED
    BY <1>5, <2>1 DEF SetRoutes
<1>6. CASE SetDns
  BY <1>6 DEF SetDns
<1>7. CASE ClearFilters
  BY <1>7 DEF ClearFilters
<1>8. CASE SetFilters
  BY <1>8 DEF SetFilters
<1>9. CASE NetFails
  <2>1. PlanRoutes(target) \subseteq Dest
    BY DEF PlanRoutes, Net
  <2>2. PICK r \in SUBSET Dest : SetNetFails(r)
    BY <1>9, <2>1 DEF NetFails
  <2>3. QED
    BY <2>2 DEF SetNetFails
<1>10. CASE LiftBlock
  BY <1>10 DEF LiftBlock
<1>11. CASE Connect
  <2>1. slips' \subseteq Slips /\ file' \in {"none", "kill", "old", "torn"}
    BY <1>11 DEF Connect, FileAfterUp, Slips
  <2>2. QED
    BY <1>11, <2>1 DEF Connect
<1>12. CASE Down
  BY <1>12 DEF Down, StopTunnel
<1>13. CASE RemoveFile
  <2>1. slips' \subseteq Slips /\ file' \in {"none", "kill", "old", "torn"}
    BY <1>13 DEF RemoveFile, Slips
  <2>2. QED
    BY <1>13, <2>1 DEF RemoveFile
<1>14. ASSUME NEW nets \in SUBSET Late, ApplyResolved(nets) PROVE TypeOK'
  <2>1. target' \subseteq Net
    BY <1>14 DEF ApplyResolved, Net
  <2>2. QED
    BY <1>14, <2>1 DEF ApplyResolved
<1>15. CASE Applied
  BY <1>15 DEF Applied
<1>16. CASE Crash
  <2>1. ups' \in 0..MaxUps /\ deaths' \in 0..MaxDeaths
    <3> HIDE DEF Points
    <3>1. ups \in Nat /\ deaths \in Nat /\ ups =< MaxUps /\ deaths =< MaxDeaths
      BY DEF TypeOK
    <3> HIDE DEF TypeOK
    <3>2. QED
      BY <3>1, <1>16 DEF Crash, ProcessGone
  <2>2. slips' \subseteq Slips
    BY <1>16 DEF Crash, CutShort, Slips
  <2>3. owed' \in BOOLEAN
    BY <1>16 DEF Crash, Protecting
  <2>4. file' \in {"none", "kill", "old", "torn"}
    BY <1>16 DEF Crash
  <2>5. QED
    BY <1>16, <2>1, <2>2, <2>3, <2>4 DEF Crash, ProcessGone
<1>17. CASE PowerLoss
  <2>1. ups' \in 0..MaxUps /\ deaths' \in 0..MaxDeaths
    <3> HIDE DEF Points
    <3>1. ups \in Nat /\ deaths \in Nat /\ ups =< MaxUps /\ deaths =< MaxDeaths
      BY DEF TypeOK
    <3> HIDE DEF TypeOK
    <3>2. QED
      BY <3>1, <1>17 DEF PowerLoss, ProcessGone
  <2>2. file' \in {"none", "kill", "old", "torn"}
    BY <1>17 DEF PowerLoss
  <2>3. QED
    BY <1>17, <2>1, <2>2 DEF PowerLoss, ProcessGone
<1>18. CASE Start
  <2>1. slips' \subseteq Slips /\ file' \in {"none", "kill", "old", "torn"}
        /\ blocked' \in BOOLEAN /\ wfp' \in {"open", "block", "tunnel"}
    BY <1>18 DEF Start, RestoreBlock, Slips
  <2>2. QED
    BY <1>18, <2>1 DEF Start
<1>19. CASE UNCHANGED vars
  <2> HIDE DEF Points
  <2>1. QED
    BY <1>19
<1> HIDE DEF vars, network, history, limits, TypeOK, Points
<1>20. QED
  BY <1>1, <1>2, <1>3, <1>4, <1>5, <1>6, <1>7, <1>8, <1>9, <1>10, <1>11, <1>12,
     <1>13, <1>14, <1>15, <1>16, <1>17, <1>18, <1>19
     DEF Next, Configure

LEMMA FiltersStep == IInv /\ [Next]_vars => Filters'
<1> SUFFICES ASSUME IInv, [Next]_vars PROVE Filters'
  OBVIOUS
<1> USE DEF vars, network, history, limits, IInv, Filters, Connected, AtPoint,
   KillSwitch, TypeOK
<1>1. ASSUME NEW o \in Options, Up(o) PROVE Filters'
  BY <1>1 DEF Up, StopTunnel
<1>2. CASE NoDevice
  BY <1>2 DEF NoDevice
<1>3. CASE OpenDevice
  BY <1>3 DEF OpenDevice
<1>4. CASE SetAddresses
  BY <1>4 DEF SetAddresses
<1>5. CASE SetRoutes
  BY <1>5 DEF SetRoutes
<1>6. CASE SetDns
  BY <1>6 DEF SetDns
<1>7. CASE ClearFilters
  BY <1>7 DEF ClearFilters
<1>8. CASE SetFilters
  BY <1>8 DEF SetFilters
<1>9. CASE NetFails
  BY <1>9 DEF NetFails, SetNetFails
<1>10. CASE LiftBlock
  BY <1>10 DEF LiftBlock
<1>11. CASE Connect
  BY <1>11 DEF Connect, FileAfterUp
<1>12. CASE Down
  BY <1>12 DEF Down, StopTunnel
<1>13. CASE RemoveFile
  BY <1>13 DEF RemoveFile
<1>14. ASSUME NEW nets \in SUBSET Late, ApplyResolved(nets) PROVE Filters'
  BY <1>14 DEF ApplyResolved
<1>15. CASE Applied
  BY <1>15 DEF Applied
<1>16. CASE Crash
  BY <1>16 DEF Crash, ProcessGone, CutShort
<1>17. CASE PowerLoss
  BY <1>17 DEF PowerLoss, ProcessGone
<1>18. CASE Start
  <2>1. pc = "dead" /\ ~blocked /\ device = "none" /\ wfp = "open"
    BY <1>18 DEF Start
  <2>2. (blocked' /\ wfp' = "block") \/ (~blocked' /\ wfp' = "open")
    BY <1>18, <2>1 DEF Start, RestoreBlock
  <2>3. QED
    BY <1>18, <2>1, <2>2 DEF Start
<1>19. CASE UNCHANGED vars
  BY <1>19
<1> HIDE DEF vars, network, history, limits, IInv, Filters, Connected, AtPoint,
   KillSwitch, TypeOK
<1>20. QED
  BY <1>1, <1>2, <1>3, <1>4, <1>5, <1>6, <1>7, <1>8, <1>9, <1>10, <1>11, <1>12,
     <1>13, <1>14, <1>15, <1>16, <1>17, <1>18, <1>19
     DEF Next, Configure

LEMMA ConnectedStep == IInv /\ [Next]_vars => Connected'
<1> SUFFICES ASSUME IInv, [Next]_vars PROVE Connected'
  OBVIOUS
<1> USE DEF vars, network, history, limits, IInv, Filters, Connected, AtPoint,
   KillSwitch, TypeOK
<1>1. ASSUME NEW o \in Options, Up(o) PROVE Connected'
  BY <1>1 DEF Up, StopTunnel
<1>2. CASE NoDevice
  BY <1>2 DEF NoDevice
<1>3. CASE OpenDevice
  BY <1>3 DEF OpenDevice
<1>4. CASE SetAddresses
  BY <1>4 DEF SetAddresses
<1>5. CASE SetRoutes
  BY <1>5 DEF SetRoutes
<1>6. CASE SetDns
  BY <1>6 DEF SetDns
<1>7. CASE ClearFilters
  BY <1>7 DEF ClearFilters
<1>8. CASE SetFilters
  BY <1>8 DEF SetFilters
<1>9. CASE NetFails
  BY <1>9 DEF NetFails, SetNetFails
<1>10. CASE LiftBlock
  BY <1>10 DEF LiftBlock
<1>11. CASE Connect
  BY <1>11 DEF Connect, FileAfterUp
<1>12. CASE Down
  BY <1>12 DEF Down, StopTunnel
<1>13. CASE RemoveFile
  BY <1>13 DEF RemoveFile
<1>14. ASSUME NEW nets \in SUBSET Late, ApplyResolved(nets) PROVE Connected'
  BY <1>14 DEF ApplyResolved
<1>15. CASE Applied
  BY <1>15 DEF Applied
<1>16. CASE Crash
  BY <1>16 DEF Crash, ProcessGone, CutShort
<1>17. CASE PowerLoss
  BY <1>17 DEF PowerLoss, ProcessGone
<1>18. CASE Start
  BY <1>18 DEF Start, RestoreBlock
<1>19. CASE UNCHANGED vars
  BY <1>19
<1> HIDE DEF vars, network, history, limits, IInv, Filters, Connected, AtPoint,
   KillSwitch, TypeOK
<1>20. QED
  BY <1>1, <1>2, <1>3, <1>4, <1>5, <1>6, <1>7, <1>8, <1>9, <1>10, <1>11, <1>12,
     <1>13, <1>14, <1>15, <1>16, <1>17, <1>18, <1>19
     DEF Next, Configure

LEMMA AtPointStep == IInv /\ [Next]_vars => AtPoint'
<1> SUFFICES ASSUME IInv, [Next]_vars PROVE AtPoint'
  OBVIOUS
<1> USE DEF vars, network, history, limits, IInv, Filters, Connected, AtPoint,
   KillSwitch, TypeOK, Options
<1>1. ASSUME NEW o \in Options, Up(o) PROVE AtPoint'
  BY <1>1 DEF Up, StopTunnel
<1>2. CASE NoDevice
  BY <1>2 DEF NoDevice
<1>3. CASE OpenDevice
  BY <1>3 DEF OpenDevice
<1>4. CASE SetAddresses
  BY <1>4 DEF SetAddresses
<1>5. CASE SetRoutes
  BY <1>5 DEF SetRoutes
<1>6. CASE SetDns
  BY <1>6 DEF SetDns
<1>7. CASE ClearFilters
  BY <1>7 DEF ClearFilters
<1>8. CASE SetFilters
  BY <1>8 DEF SetFilters
<1>9. CASE NetFails
  BY <1>9 DEF NetFails, SetNetFails
<1>10. CASE LiftBlock
  BY <1>10 DEF LiftBlock
<1>11. CASE Connect
  BY <1>11 DEF Connect, FileAfterUp
<1>12. CASE Down
  BY <1>12 DEF Down, StopTunnel
<1>13. CASE RemoveFile
  BY <1>13 DEF RemoveFile
<1>14. ASSUME NEW nets \in SUBSET Late, ApplyResolved(nets) PROVE AtPoint'
  BY <1>14 DEF ApplyResolved
<1>15. CASE Applied
  BY <1>15 DEF Applied
<1>16. CASE Crash
  BY <1>16 DEF Crash, ProcessGone, CutShort
<1>17. CASE PowerLoss
  BY <1>17 DEF PowerLoss, ProcessGone
<1>18. CASE Start
  BY <1>18 DEF Start, RestoreBlock
<1>19. CASE UNCHANGED vars
  BY <1>19
<1> HIDE DEF vars, network, history, limits, IInv, Filters, Connected, AtPoint,
   KillSwitch, TypeOK, Options
<1>20. QED
  BY <1>1, <1>2, <1>3, <1>4, <1>5, <1>6, <1>7, <1>8, <1>9, <1>10, <1>11, <1>12,
     <1>13, <1>14, <1>15, <1>16, <1>17, <1>18, <1>19
     DEF Next, Configure

LEMMA RoutedStep == IInv /\ [Next]_vars => Routed'
<1> SUFFICES ASSUME IInv, [Next]_vars PROVE Routed'
  OBVIOUS
<1> USE DEF vars, network, history, limits, IInv, Connected, AtPoint, Routed,
   PlanRoutes, KillSwitch, TypeOK, Options
<1>1. ASSUME NEW o \in Options, Up(o) PROVE Routed'
  BY <1>1 DEF Up, StopTunnel
<1>2. CASE NoDevice
  BY <1>2 DEF NoDevice
<1>3. CASE OpenDevice
  BY <1>3 DEF OpenDevice
<1>4. CASE SetAddresses
  BY <1>4 DEF SetAddresses
<1>5. CASE SetRoutes
  BY <1>5 DEF SetRoutes
<1>6. CASE SetDns
  BY <1>6 DEF SetDns
<1>7. CASE ClearFilters
  BY <1>7 DEF ClearFilters
<1>8. CASE SetFilters
  BY <1>8 DEF SetFilters
<1>9. CASE NetFails
  BY <1>9 DEF NetFails, SetNetFails
<1>10. CASE LiftBlock
  BY <1>10 DEF LiftBlock
<1>11. CASE Connect
  BY <1>11 DEF Connect, FileAfterUp
<1>12. CASE Down
  BY <1>12 DEF Down, StopTunnel
<1>13. CASE RemoveFile
  BY <1>13 DEF RemoveFile
<1>14. ASSUME NEW nets \in SUBSET Late, ApplyResolved(nets) PROVE Routed'
  BY <1>14 DEF ApplyResolved
<1>15. CASE Applied
  BY <1>15 DEF Applied
<1>16. CASE Crash
  BY <1>16 DEF Crash, ProcessGone, CutShort
<1>17. CASE PowerLoss
  BY <1>17 DEF PowerLoss, ProcessGone
<1>18. CASE Start
  BY <1>18 DEF Start, RestoreBlock
<1>19. CASE UNCHANGED vars
  BY <1>19
<1> HIDE DEF vars, network, history, limits, IInv, Connected, AtPoint, Routed,
   PlanRoutes, KillSwitch, TypeOK, Options
<1>20. QED
  BY <1>1, <1>2, <1>3, <1>4, <1>5, <1>6, <1>7, <1>8, <1>9, <1>10, <1>11, <1>12,
     <1>13, <1>14, <1>15, <1>16, <1>17, <1>18, <1>19
     DEF Next, Configure

LEMMA FileTellsStep == IInv /\ [Next]_vars => FileTells'
<1> SUFFICES ASSUME IInv, [Next]_vars PROVE FileTells'
  OBVIOUS
<1> USE DEF vars, network, history, limits, IInv, Filters, Connected, AtPoint,
   FileTells, Protecting, KillSwitch, TypeOK
<1>1. ASSUME NEW o \in Options, Up(o) PROVE FileTells'
  BY <1>1 DEF Up, StopTunnel
<1>2. CASE NoDevice
  BY <1>2 DEF NoDevice
<1>3. CASE OpenDevice
  BY <1>3 DEF OpenDevice
<1>4. CASE SetAddresses
  BY <1>4 DEF SetAddresses
<1>5. CASE SetRoutes
  BY <1>5 DEF SetRoutes
<1>6. CASE SetDns
  BY <1>6 DEF SetDns
<1>7. CASE ClearFilters
  BY <1>7 DEF ClearFilters
<1>8. CASE SetFilters
  BY <1>8 DEF SetFilters
<1>9. CASE NetFails
  BY <1>9 DEF NetFails, SetNetFails
<1>10. CASE LiftBlock
  BY <1>10 DEF LiftBlock
<1>11. CASE Connect
  BY <1>11 DEF Connect, FileAfterUp
<1>12. CASE Down
  BY <1>12 DEF Down, StopTunnel
<1>13. CASE RemoveFile
  BY <1>13 DEF RemoveFile
<1>14. ASSUME NEW nets \in SUBSET Late, ApplyResolved(nets) PROVE FileTells'
  BY <1>14 DEF ApplyResolved
<1>15. CASE Applied
  BY <1>15 DEF Applied
<1>16. CASE Crash
  BY <1>16 DEF Crash, ProcessGone, CutShort
<1>17. CASE PowerLoss
  BY <1>17 DEF PowerLoss, ProcessGone
<1>18. CASE Start
  <2>1. pc = "dead" /\ ~active /\ ~blocked /\ pc' = "idle" /\ ~active'
    BY <1>18 DEF Start
  <2>2. CASE file = "kill" /\ file' = file /\ blocked' = TRUE
    BY <2>1, <2>2
  <2>3. CASE "block failed" \in slips'
    BY <2>1, <2>3
  <2>4. CASE file' = "none" /\ UNCHANGED <<blocked, wfp>>
    BY <2>1, <2>4
  <2>5. "block failed" \in slips \cup {"block failed"}
    OBVIOUS
  <2> HIDE DEF IInv, FileTells, Filters, Connected, AtPoint, TypeOK, Protecting,
     KillSwitch
  <2>6. QED
    BY <1>18, <2>1, <2>2, <2>3, <2>4, <2>5 DEF Start, RestoreBlock
<1>19. CASE UNCHANGED vars
  BY <1>19
<1> HIDE DEF vars, network, history, limits, IInv, Filters, Connected, AtPoint,
   FileTells, Protecting, KillSwitch, TypeOK
<1>20. QED
  BY <1>1, <1>2, <1>3, <1>4, <1>5, <1>6, <1>7, <1>8, <1>9, <1>10, <1>11, <1>12,
     <1>13, <1>14, <1>15, <1>16, <1>17, <1>18, <1>19
     DEF Next, Configure

LEMMA WinStep == IInv /\ [Next]_vars => IInv'
BY WinTypeStep, FiltersStep, ConnectedStep, AtPointStep, RoutedStep, FileTellsStep
   DEF IInv

\* The type invariant of the Windows helper.
THEOREM WinTyping == Spec => []TypeOK
<1>1. Init => TypeOK
  BY WinInitial DEF IInv
<1>2. QED
  BY <1>1, WinTypeStep, PTL DEF Spec

\* The strengthened invariant holds in every behaviour.
THEOREM WinInvariant == Spec => []IInv
BY WinInitial, WinStep, PTL DEF Spec

\* The kill switch and the block the status reports are in force, but for an
\* EnableFirewall that failed (windows.rs:181-189).
THEOREM WinStatusTrue == Spec => []StatusTrue
<1>1. IInv => StatusTrue
  BY DEF IInv, Filters, Connected, StatusTrue
<1>2. QED
  BY <1>1, WinInvariant, PTL

\* No failure of up or of a batch leaves filters, an adapter or routes without an
\* owner (windows.rs:107-123).
THEOREM WinNothingLeft == Spec => []NothingLeft
<1>1. IInv => NothingLeft
  BY DEF IInv, TypeOK, Filters, Connected, AtPoint, NothingLeft
<1>2. QED
  BY <1>1, WinInvariant, PTL

\* The routes are the plan of the addresses the helper believes it applied.
THEOREM WinRoutesMatch == Spec => []RoutesMatch
<1>1. IInv => RoutesMatch
  BY DEF IInv, Routed, RoutesMatch
<1>2. QED
  BY <1>1, WinInvariant, PTL

\* A start blocks exactly what was protected, unless a file or block() failed
\* (windows.rs:125-144).
THEOREM WinProtectionKept == Spec => StartKeepsProtection
<1>1. IInv /\ [Next]_vars => [Kept]_vars
  <2> SUFFICES ASSUME IInv, Start, slips = {}, slips' = {} PROVE blocked' <=> owed
    BY DEF Kept
  <2>1. pc = "dead" /\ ~blocked /\ (file = "kill" <=> owed)
    BY DEF IInv, AtPoint, FileTells, Start
  <2>2. slips' # slips \cup {"block failed"}
    OBVIOUS
  <2>3. CASE file = "kill" /\ blocked' = TRUE
    BY <2>1, <2>3
  <2>4. CASE file # "kill" /\ blocked' = blocked
    BY <2>1, <2>4
  <2>5. QED
    BY <2>2, <2>3, <2>4 DEF Start, RestoreBlock
<1>2. QED
  BY <1>1, WinInvariant, PTL DEF Spec, StartKeepsProtection, Kept
=============================================================================

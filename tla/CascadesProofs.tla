---------------------------- MODULE CascadesProofs ----------------------------
(***************************************************************************)
(* Proxy, script, memory and file agree after every operation that was not *)
(* cut short, no two managed cascades share a port and no step takes the   *)
(* forward of a saved cascade away, for any exits, ports, addresses, moves *)
(* of the exits, forwards of other tools and any number of failures.  The  *)
(* argument: an operation writes the script from memory before it runs it  *)
(* and scans what runs before it saves (Phase), so what is settled stays so*)
(* whatever is learnt of the exits (Settled), and what runs without being  *)
(* in the script was condemned before (Condemned).                         *)
(***************************************************************************)
EXTENDS Cascades, TLAPS

Unique(cs)  == \A c, d \in cs : c.id = d.id => c = d
OnePort(cs) == \A c, d \in Managed(cs) : c.port = d.port => c = d

\* The type invariant without the ids.
Types ==
    /\ mem \in State /\ saved \in State
    /\ script \subseteq Route /\ rules \subseteq Route /\ foreign \subseteq Foreign
    /\ op \in {"none", "create", "delete"}
    /\ step \in {"none", "scan", "prepare", "store"} \cup Applying
    /\ todo \subseteq Exit /\ port \in Port \cup {NoPort} /\ new \subseteq Cascade
    /\ begun \subseteq Port /\ unsettled \in BOOLEAN /\ applied \in [Exit -> Target]
    /\ failures \in 0..MaxFailures /\ moves \in 0..MaxMoves

\* A managed cascade has a port.
Ported ==
    \A c \in Managed(mem.cascades \cup saved.cascades \cup new) : c.port \in Port

\* Cascades that are accepted but not in the list yet count like the others.
Distinct ==
    /\ Unique(mem.cascades \cup new) /\ Unique(saved.cascades)
    /\ OnePort(mem.cascades \cup new) /\ OnePort(saved.cascades)

\* How far an operation is, and what it has done by then.
Phase ==
    /\ op = "none" => step = "none"
    /\ op = "delete" => step \in Applying \cup {"store"}
    /\ op = "create" => step \in {"scan", "prepare"} \cup Applying
    /\ step \in {"service", "rescan", "save"} => script = Routes(mem)
    /\ step \in {"rescan", "save"} => rules = script
    /\ step = "save" => rules \subseteq mem.scan.ours

\* Nothing is open: outside an apply, and since the last one was complete.
Settled ==
    ~unsettled /\ step \notin Applying =>
        /\ script = RoutesTo(mem.cascades, applied) /\ rules = script
        /\ Managed(saved.cascades) = Managed(mem.cascades)
        /\ rules \subseteq mem.scan.ours /\ rules \subseteq saved.scan.ours

\* Whatever will go at the next flush was meant to go.
Condemned ==
    /\ Ports(rules) \ Ports(script) \subseteq begun
    /\ Ports(Routes(saved)) \ Ports(Routes(mem)) \subseteq begun

IInv == Types /\ Ported /\ Distinct /\ Phase /\ Settled /\ Condemned

---------------------------------------------------------------------------
(* The routes of lists of cascades.                                        *)

\* The ports of the routes are those of the managed cascades, wherever the exits are.
LEMMA PortsOfRoutes ==
    ASSUME NEW S, NEW at
    PROVE  Ports(RoutesTo(S, at)) = {c.port : c \in Managed(S)}
<1>1. ASSUME NEW c \in Managed(S) PROVE c.port \in Ports(RoutesTo(S, at))
  <2> DEFINE r == [port |-> c.port, to |-> at[c.exit]]
  <2>1. r \in RoutesTo(S, at) /\ r.port = c.port
    BY DEF RoutesTo
  <2>2. QED
    BY <2>1 DEF Ports
<1>2. ASSUME NEW p \in Ports(RoutesTo(S, at)) PROVE \E c \in Managed(S) : p = c.port
  <2>1. PICK r \in RoutesTo(S, at) : p = r.port
    BY DEF Ports
  <2>2. PICK c \in Managed(S) : r = [port |-> c.port, to |-> at[c.exit]]
    BY DEF RoutesTo
  <2>3. QED
    BY <2>1, <2>2
<1>3. QED
  BY <1>1, <1>2

\* A state that lists the same managed cascades has routes from the same ports.
LEMMA PortsManaged ==
    ASSUME NEW s, NEW t, Managed(s.cascades) = Managed(t.cascades)
    PROVE  Ports(Routes(s)) = Ports(Routes(t))
  BY PortsOfRoutes DEF Routes

\* The routes are those of the managed cascades.
LEMMA RoutesManaged ==
    ASSUME NEW S, NEW T, Managed(S) = Managed(T), NEW at
    PROVE  RoutesTo(S, at) = RoutesTo(T, at)
  BY DEF RoutesTo

\* Other cascades come and go without effect on them.
LEMMA ManagedOthers ==
    ASSUME NEW S, NEW c, c.mode # "managed"
    PROVE  Managed(S \cup {c}) = Managed(S) /\ Managed(S \ {c}) = Managed(S)
  BY DEF Managed

\* A managed cascade with a port has a route of the proxy.
LEMMA RoutesTyped ==
    ASSUME NEW S \in SUBSET Cascade, \A c \in Managed(S) : c.port \in Port,
           NEW at \in [Exit -> Target]
    PROVE  RoutesTo(S, at) \subseteq Route
  BY DEF RoutesTo, Managed, Cascade, Route

\* Where the exits are noted to be after an apply is where its routes lead.
LEMMA AppliedRoutes ==
    ASSUME mem \in State
    PROVE  /\ AppliedNow \in [Exit -> Target]
           /\ RoutesTo(mem.cascades, AppliedNow) = Routes(mem)
<1>1. AppliedNow \in [Exit -> Target]
  BY TargetsAssumption DEF AppliedNow, State
<1>2. \A c \in Managed(mem.cascades) : AppliedNow[c.exit] = mem.at[c.exit]
  BY DEF AppliedNow, Managed, State, Cascade
<1>3. QED
  BY <1>1, <1>2 DEF RoutesTo, Routes

\* What is learnt of an exit is not in the list of cascades.
LEMMA AwgFacts ==
    ASSUME NEW s \in State, NEW e \in Exit, NEW l \in Listen \cup {NoAwg}
    PROVE  /\ WithAwg(s, e, l) \in State
           /\ WithAwg(s, e, l).cascades = s.cascades /\ WithAwg(s, e, l).scan =
              s.scan
           /\ WithAwg(s, e, l).at \in [Exit -> Target]
  BY DEF WithAwg, State, Target

\* A prepared exit is all that differs, and it is saved.
LEMMA PreparedFacts ==
    ASSUME mem \in State, NEW e \in Exit, NEW l \in Listen, Prepared(e, l)
    PROVE  /\ mem' \in State /\ saved' = mem'
           /\ mem'.cascades = mem.cascades /\ mem'.scan = mem.scan
           /\ moves' \in {moves, moves + 1} /\ (moves' # moves => moves < MaxMoves)
  BY AwgFacts DEF Prepared, Found, OneMove

\* The same of an exit that is given another address.
LEMMA HostFacts ==
    ASSUME NEW s \in State, NEW e \in Exit, NEW h \in Host
    PROVE  LET t == [s EXCEPT !.at[e] = [host |-> h, listen |-> NoAwg]]
           IN  t \in State /\ t.cascades = s.cascades /\ t.scan = s.scan
  BY DEF State, Target

---------------------------------------------------------------------------
(* Operations on the list and on what is known of the servers.             *)

\* Adopting and connecting directly list one cascade that is not managed.
LEMMA Listing ==
    ASSUME mem \in State, NEW e \in Exit, NEW i \in Id,
           \/ \E r \in Foreign : Adopt(i, e, r)
           \/ \E l \in Listen : CreateDirect(i, e, l)
    PROVE  \E c \in Cascade, at \in [Exit -> Target] :
              c.mode # "managed" /\ Listed(c, at) /\ moves' \in {moves, moves + 1}
              /\ (moves' # moves => moves < MaxMoves)
<1>1. ASSUME NEW r \in Foreign, Adopt(i, e, r)
      PROVE  \E c \in Cascade, at \in [Exit -> Target] :
              c.mode # "managed" /\ Listed(c, at) /\ moves' \in {moves, moves + 1}
              /\ (moves' # moves => moves < MaxMoves)
  <2> DEFINE c == [id |-> i, exit |-> e, port |-> r.port, mode |-> "external"]
  <2>1. c \in Cascade /\ c.mode # "managed" /\ mem.at \in [Exit -> Target]
    BY RoutesAssumption DEF Cascade, Mode, Route, State
  <2>2. Listed(c, mem.at) /\ moves' = moves
    BY <1>1 DEF Adopt
  <2>3. QED
    BY <2>1, <2>2
<1>2. ASSUME NEW l \in Listen, CreateDirect(i, e, l)
      PROVE  \E c \in Cascade, at \in [Exit -> Target] :
              c.mode # "managed" /\ Listed(c, at) /\ moves' \in {moves, moves + 1}
              /\ (moves' # moves => moves < MaxMoves)
  <2> DEFINE c == [id |-> i, exit |-> e, port |-> NoPort, mode |-> "direct"]
  <2>1. c \in Cascade /\ c.mode # "managed" /\ WithAwg(mem, e, l).at \in [Exit ->
     Target]
    BY AwgFacts DEF Cascade, Mode
  <2>2. Listed(c, WithAwg(mem, e, l).at)
    BY <1>2 DEF CreateDirect
  <2>3. moves' \in {moves, moves + 1} /\ (moves' # moves => moves < MaxMoves)
    BY <1>2 DEF CreateDirect, Found, OneMove
  <2>4. QED
    BY <2>1, <2>2, <2>3
<1>3. QED
  BY <1>1, <1>2

\* What such a listing leaves as it was.
LEMMA ListedFacts ==
    ASSUME mem \in State, NEW c \in Cascade, c.mode # "managed",
           NEW at \in [Exit -> Target], Listed(c, at)
    PROVE  /\ mem' \in State /\ mem'.cascades = mem.cascades \cup {c}
           /\ mem'.scan = mem.scan /\ saved' \in {saved, mem'}
           /\ \A d \in mem.cascades \cup saved.cascades \cup new : d.id # c.id
           /\ Managed(mem'.cascades) = Managed(mem.cascades)
           /\ Ports(Routes(mem')) = Ports(Routes(mem))
           /\ failures' = failures
              \/ (failures < MaxFailures /\ failures' = failures + 1)
           /\ UNCHANGED <<script, rules, foreign, op, step, todo, port, new, begun,
                          unsettled, applied>>
<1>1. mem'.cascades = mem.cascades \cup {c} /\ mem'.scan = mem.scan /\ mem' \in
   State
  BY DEF Listed, State, Cascade
<1>2. Managed(mem'.cascades) = Managed(mem.cascades)
  BY <1>1, ManagedOthers
<1>3. Ports(Routes(mem')) = Ports(Routes(mem))
  BY <1>2, PortsManaged
<1>4. QED
  BY <1>1, <1>2, <1>3
     DEF Listed, Saving, FreshIds, Ids, Cascade, OneFailure, proxy, request, history

\* Scans, detections and edits change what is known of the servers, and no list.
LEMMA Learning ==
    ASSUME mem \in State, rules \subseteq Route, foreign \subseteq Foreign,
           \/ ScanServer
           \/ \E e \in Exit : \/ \E l \in Listen : DetectExit(e, l)
                              \/ \E h \in Host : SaveServer(e, h)
    PROVE  /\ \E s \in State : /\ Learnt(s) /\ s.cascades = mem.cascades
                               /\ s.scan.ours \in {mem.scan.ours, rules}
           /\ moves' \in {moves, moves + 1} /\ (moves' # moves => moves < MaxMoves)
<1> DEFINE Goal == /\ \E s \in State : /\ Learnt(s) /\ s.cascades = mem.cascades
                                       /\ s.scan.ours \in {mem.scan.ours, rules}
                   /\ moves' \in {moves, moves + 1}
                   /\ (moves' # moves => moves < MaxMoves)
<1>1. CASE Learnt([mem EXCEPT !.scan = SeenNow]) /\ UNCHANGED moves
  <2> DEFINE s == [mem EXCEPT !.scan = SeenNow]
  <2>1. s \in State /\ s.cascades = mem.cascades /\ s.scan.ours = rules
    BY RoutesAssumption DEF State, Scan, SeenNow
  <2>2. QED
    BY <1>1, <2>1
<1>2. ASSUME NEW e \in Exit, NEW l \in Listen \cup {NoAwg},
             Learnt(WithAwg(mem, e, l)), Found(e, l)
      PROVE  Goal
  BY <1>2, AwgFacts DEF Found, OneMove
<1>3. ASSUME NEW e \in Exit, NEW h \in Host, SaveServer(e, h)
      PROVE  Goal
  <2> DEFINE s == [mem EXCEPT !.at[e] = [host |-> h, listen |-> NoAwg]]
  <2>1. s \in State /\ s.cascades = mem.cascades /\ s.scan = mem.scan
    BY HostFacts
  <2>2. Learnt(s) /\ OneMove
    BY <1>3 DEF SaveServer
  <2> HIDE DEF s
  <2>3. QED
    BY <2>1, <2>2 DEF OneMove
<1>4. QED
  BY <1>1, <1>2, <1>3 DEF ScanServer, DetectExit

\* What such a change leaves as it was.
LEMMA LearntFacts ==
    ASSUME NEW s \in State, s.cascades = mem.cascades, Learnt(s)
    PROVE  /\ mem' = s /\ saved' \in {saved, s}
           /\ Ports(Routes(mem')) = Ports(Routes(mem))
           /\ failures' = failures
              \/ (failures < MaxFailures /\ failures' = failures + 1)
           /\ UNCHANGED <<script, rules, foreign, op, step, todo, port, new, begun,
                          unsettled, applied>>
<1>1. Ports(Routes(s)) = Ports(Routes(mem))
  BY PortsManaged
<1>2. QED
  BY <1>1 DEF Learnt, Saving, OneFailure, proxy, request, history

\* What a deletion takes from the list.
LEMMA DeleteFacts ==
    ASSUME mem \in State, NEW c \in mem.cascades, DeleteCascade(c)
    PROVE  /\ c \in Cascade /\ mem' \in State /\ mem'.cascades = mem.cascades \ {c}
           /\ mem'.scan = mem.scan /\ mem'.at = mem.at
           /\ Ports(Routes(mem)) \ Ports(Routes(mem')) \subseteq
              Ports(RoutesTo({c}, mem.at))
           /\ c.mode # "managed" => Managed(mem'.cascades) = Managed(mem.cascades)
<1>1. /\ c \in Cascade /\ mem' \in State
      /\ mem'.cascades = mem.cascades \ {c} /\ mem'.scan = mem.scan /\ mem'.at =
         mem.at
  BY DEF DeleteCascade, State
<1>2. Ports(Routes(mem)) \ Ports(Routes(mem')) \subseteq Ports(RoutesTo({c},
   mem.at))
  BY <1>1, PortsOfRoutes DEF Routes, Managed
<1>3. QED
  BY <1>1, <1>2, ManagedOthers

\* What an attempt that fails before anything is applied can leave behind.
LEMMA CreateFailsFacts ==
    ASSUME mem \in State, rules \subseteq Route, foreign \subseteq Foreign, todo
       \subseteq Exit,
           CreateFails
    PROVE  /\ mem' \in State /\ saved' \in {saved, mem'}
           /\ mem'.cascades = mem.cascades /\ mem'.scan.ours \in {mem.scan.ours,
              rules}
           /\ moves' \in {moves, moves + 1} /\ (moves' # moves => moves < MaxMoves)
           /\ Ports(Routes(mem')) = Ports(Routes(mem))
<1> DEFINE Kept == /\ mem' \in State /\ mem'.cascades = mem.cascades
                   /\ mem'.scan.ours \in {mem.scan.ours, rules}
                   /\ moves' \in {moves, moves + 1} /\ (moves' # moves => moves <
                      MaxMoves)
<1>1. ASSUME UNCHANGED <<mem, moves>> PROVE Kept
  BY <1>1
<1>2. ASSUME mem' = [mem EXCEPT !.scan = SeenNow], UNCHANGED moves PROVE Kept
  BY <1>2, RoutesAssumption DEF State, Scan, SeenNow
<1>3. ASSUME NEW e \in todo, NEW l \in Listen, mem' = WithAwg(mem, e, l), Found(e,
   l)
      PROVE  Kept
  BY <1>3, AwgFacts DEF Found, OneMove
<1>4. Kept /\ saved' \in {saved, mem'}
  BY <1>1, <1>2, <1>3 DEF CreateFails
<1> HIDE DEF Kept
<1>5. Ports(Routes(mem')) = Ports(Routes(mem))
  BY <1>4, PortsManaged DEF Kept
<1>6. QED
  BY <1>4, <1>5 DEF Kept

---------------------------------------------------------------------------
(* Every step keeps each part.                                             *)

\* No managed cascade loses its port.
LEMMA PortedStep == Types /\ Ported /\ [Next]_vars => Ported'
<1> SUFFICES ASSUME Types, Ported, [Next]_vars PROVE Ported'
  OBVIOUS
<1> USE RoutesAssumption, TargetsAssumption, FailuresAssumption DEF vars, proxy,
   request, history, Applying, Types, State, Scan, Ported, Managed
<1>1. ASSUME NEW exits \in SUBSET Exit, NEW p \in Port \cup {NoPort},
   CreateRequest(exits, p) PROVE Ported'
  BY <1>1 DEF CreateRequest
<1>2. CASE ScanProxy
  BY <1>2 DEF ScanProxy, SeenNow
<1>3. CASE NothingNew
  BY <1>3 DEF NothingNew, Over
<1>4. CASE Extend
  BY <1>4 DEF Extend
<1>5. CASE CreateFails
  BY <1>5, CreateFailsFacts DEF CreateFails, Over, OneFailure
<1>6. ASSUME NEW e \in Exit, NEW l \in Listen, AlreadyThere(e, l) PROVE Ported'
  BY <1>6, AwgFacts DEF AlreadyThere, Prepared
<1>7. ASSUME NEW e \in Exit, NEW l \in Listen, NEW i \in Id, NEW p \in Port,
   Accept(e, l, i, p) PROVE Ported'
  BY <1>7, AwgFacts DEF Accept, Prepared, FreePorts, Taken, FreshIds, Ids
<1>8. CASE ReadRoutes
  BY <1>8 DEF ReadRoutes
<1>9. CASE PutScript
  BY <1>9 DEF PutScript, Written
<1>10. CASE RestartService
  BY <1>10 DEF RestartService
<1>11. CASE Rescan
  BY <1>11 DEF Rescan, SeenNow
<1>12. CASE Save
  BY <1>12 DEF Save, Over
<1>13. CASE ApplyFails
  BY <1>13 DEF ApplyFails, Over, OneFailure, Rollback, Written
<1>14. ASSUME NEW s \in State, s.cascades = mem.cascades, s.scan.ours \in
   {mem.scan.ours, rules}, Learnt(s) PROVE Ported'
  BY <1>14, LearntFacts
<1>15. ASSUME NEW c \in mem.cascades, DeleteCascade(c) PROVE Ported'
  BY <1>15 DEF DeleteCascade
<1>16. ASSUME NEW c \in Cascade, NEW at \in [Exit -> Target], c.mode # "managed",
   Listed(c, at) PROVE Ported'
  BY <1>16, ListedFacts
<1>17. CASE AppRestart
  BY <1>17 DEF AppRestart, Over, OneFailure
<1>18. CASE Reboot
  BY <1>18 DEF Reboot
<1>19. ASSUME NEW r \in Foreign, ForeignForward(r) PROVE Ported'
  BY <1>19 DEF ForeignForward
<1>20. CASE UNCHANGED vars
  BY <1>20
<1> HIDE DEF vars, proxy, request, history, Applying, Types, State, Scan, Ported,
   Managed
<1>21. QED
  <2>1. mem \in State /\ rules \subseteq Route /\ foreign \subseteq Foreign
    BY DEF Types
  <2>2. QED
    BY <2>1, Listing, Learning, <1>1, <1>2, <1>3, <1>4, <1>5, <1>6, <1>7, <1>8,
       <1>9, <1>10, <1>11, <1>12, <1>13, <1>14, <1>15, <1>16, <1>17, <1>18, <1>19,
       <1>20
       DEF Next, Create, Apply

\* Every step keeps the types.
LEMMA TypesStep == Types /\ Ported /\ [Next]_vars => Types'
<1> SUFFICES ASSUME Types, Ported, [Next]_vars PROVE Types'
  OBVIOUS
<1> USE RoutesAssumption, TargetsAssumption, FailuresAssumption DEF vars, proxy,
   request, history, Applying, Types, Ported, State, Scan, Cascade, Mode
<1>1. ASSUME NEW exits \in SUBSET Exit, NEW p \in Port \cup {NoPort},
   CreateRequest(exits, p) PROVE Types'
  BY <1>1 DEF CreateRequest
<1>2. CASE ScanProxy
  BY <1>2 DEF ScanProxy, SeenNow
<1>3. CASE NothingNew
  BY <1>3 DEF NothingNew, Over
<1>4. CASE Extend
  BY <1>4 DEF Extend
<1>5. CASE CreateFails
  BY <1>5, CreateFailsFacts DEF CreateFails, Over, OneFailure
<1>6. ASSUME NEW e \in Exit, NEW l \in Listen, AlreadyThere(e, l) PROVE Types'
  <2>1. mem' \in State /\ saved' = mem'
    BY <1>6, PreparedFacts DEF AlreadyThere
  <2>2. moves' \in 0..MaxMoves
    BY <1>6 DEF AlreadyThere, Prepared, Found, OneMove
  <2>3. QED
    BY <1>6, <2>1, <2>2 DEF AlreadyThere, Prepared
<1>7. ASSUME NEW e \in Exit, NEW l \in Listen, NEW i \in Id, NEW p \in Port,
   Accept(e, l, i, p) PROVE Types'
  BY <1>7, AwgFacts DEF Accept, Prepared, FreePorts, Taken, FreshIds, Ids, Found,
     OneMove
<1>8. CASE ReadRoutes
  BY <1>8 DEF ReadRoutes
<1>9. CASE PutScript
  <2>1. Routes(mem) \subseteq Route
    BY RoutesTyped DEF Managed, Routes
  <2>2. QED
    BY <1>9, <2>1 DEF PutScript, Written, Ports, Route
<1>10. CASE RestartService
  BY <1>10 DEF RestartService
<1>11. CASE Rescan
  BY <1>11 DEF Rescan, SeenNow
<1>12. CASE Save
  <2>1. applied' \in [Exit -> Target]
    BY <1>12, AppliedRoutes DEF Save
  <2>2. QED
    BY <1>12, <2>1 DEF Save, Over
<1>13. CASE ApplyFails
  <2>1. Routes(mem) \subseteq Route
    BY RoutesTyped DEF Managed, Routes
  <2>2. mem' \in State /\ saved' = saved
    BY <1>13 DEF ApplyFails, Rollback
  <2>3. script' \subseteq Route /\ begun' \subseteq Port /\ rules' \subseteq Route
    BY <1>13, <2>1 DEF ApplyFails, Written, Ports, Route
  <2>4. QED
    BY <1>13, <2>2, <2>3 DEF ApplyFails, Over, OneFailure
<1>14. ASSUME NEW s \in State, s.cascades = mem.cascades, s.scan.ours \in
   {mem.scan.ours, rules}, moves' \in {moves, moves + 1}, moves' # moves => moves
   < MaxMoves, Learnt(s) PROVE Types'
  BY <1>14, LearntFacts
<1>15. ASSUME NEW c \in mem.cascades, DeleteCascade(c) PROVE Types'
  <2>1. Ports(RoutesTo({c}, mem.at)) \subseteq Port \/ c.mode # "managed"
    BY <1>15, PortsOfRoutes DEF Managed
  <2>2. Ports(RoutesTo({c}, mem.at)) \subseteq Port
    BY <2>1, PortsOfRoutes DEF Managed
  <2>3. QED
    BY <1>15, <2>2, DeleteFacts DEF DeleteCascade
<1>16. ASSUME NEW c \in Cascade, NEW at \in [Exit -> Target], c.mode # "managed",
   moves' \in {moves, moves + 1}, moves' # moves => moves < MaxMoves, Listed(c,
   at) PROVE Types'
  BY <1>16, ListedFacts
<1>17. CASE AppRestart
  BY <1>17 DEF AppRestart, Over, OneFailure
<1>18. CASE Reboot
  BY <1>18 DEF Reboot
<1>19. ASSUME NEW r \in Foreign, ForeignForward(r) PROVE Types'
  BY <1>19 DEF ForeignForward
<1>20. CASE UNCHANGED vars
  BY <1>20
<1> HIDE DEF vars, proxy, request, history, Applying, Types, Ported, State, Scan,
   Cascade, Mode
<1>21. QED
  <2>1. mem \in State /\ rules \subseteq Route /\ foreign \subseteq Foreign
    BY DEF Types
  <2>2. QED
    BY <2>1, Listing, Learning, <1>1, <1>2, <1>3, <1>4, <1>5, <1>6, <1>7, <1>8,
       <1>9, <1>10, <1>11, <1>12, <1>13, <1>14, <1>15, <1>16, <1>17, <1>18, <1>19,
       <1>20
       DEF Next, Create, Apply

\* No step gives out an id or a port twice.
LEMMA DistinctStep == Types /\ Phase /\ Distinct /\ [Next]_vars => Distinct'
<1> SUFFICES ASSUME Types, Phase, Distinct, [Next]_vars PROVE Distinct'
  OBVIOUS
<1> USE RoutesAssumption, TargetsAssumption, FailuresAssumption DEF vars, proxy,
   request, history, Applying, Types, State, Scan, Distinct, Unique, OnePort,
   Managed
<1>1. ASSUME NEW exits \in SUBSET Exit, NEW p \in Port \cup {NoPort},
   CreateRequest(exits, p) PROVE Distinct'
  BY <1>1 DEF CreateRequest
<1>2. CASE ScanProxy
  BY <1>2 DEF ScanProxy, SeenNow
<1>3. CASE NothingNew
  BY <1>3 DEF NothingNew, Over
<1>4. CASE Extend
  BY <1>4 DEF Extend
<1>5. CASE CreateFails
  BY <1>5, CreateFailsFacts DEF CreateFails, Over, OneFailure
<1>6. ASSUME NEW e \in Exit, NEW l \in Listen, AlreadyThere(e, l) PROVE Distinct'
  <2>1. mem'.cascades = mem.cascades /\ saved' = mem' /\ UNCHANGED new
    BY <1>6, PreparedFacts DEF AlreadyThere
  <2>2. QED
    BY <2>1
<1>7. ASSUME NEW e \in Exit, NEW l \in Listen, NEW i \in Id, NEW p \in Port,
   Accept(e, l, i, p) PROVE Distinct'
  BY <1>7, AwgFacts DEF Accept, Prepared, FreePorts, Taken, FreshIds, Ids
<1>8. CASE ReadRoutes
  BY <1>8 DEF ReadRoutes
<1>9. CASE PutScript
  BY <1>9 DEF PutScript, Written
<1>10. CASE RestartService
  BY <1>10 DEF RestartService
<1>11. CASE Rescan
  BY <1>11 DEF Rescan, SeenNow
<1>12. CASE Save
  BY <1>12 DEF Save, Over
<1>13. CASE ApplyFails
  BY <1>13 DEF ApplyFails, Over, OneFailure, Rollback, Written
<1>14. ASSUME NEW s \in State, s.cascades = mem.cascades, s.scan.ours \in
   {mem.scan.ours, rules}, Learnt(s) PROVE Distinct'
  BY <1>14, LearntFacts
<1>15. ASSUME NEW c \in mem.cascades, DeleteCascade(c) PROVE Distinct'
  BY <1>15 DEF DeleteCascade
<1>16. ASSUME NEW c \in Cascade, NEW at \in [Exit -> Target], c.mode # "managed",
   Listed(c, at) PROVE Distinct'
  BY <1>16, ListedFacts
<1>17. CASE AppRestart
  BY <1>17 DEF AppRestart, Over, OneFailure
<1>18. CASE Reboot
  BY <1>18 DEF Reboot
<1>19. ASSUME NEW r \in Foreign, ForeignForward(r) PROVE Distinct'
  BY <1>19 DEF ForeignForward
<1>20. CASE UNCHANGED vars
  BY <1>20
<1> HIDE DEF vars, proxy, request, history, Applying, Types, State, Scan,
   Distinct, Unique, OnePort, Managed
<1>21. QED
  <2>1. mem \in State /\ rules \subseteq Route /\ foreign \subseteq Foreign
    BY DEF Types
  <2>2. QED
    BY <2>1, Listing, Learning, <1>1, <1>2, <1>3, <1>4, <1>5, <1>6, <1>7, <1>8,
       <1>9, <1>10, <1>11, <1>12, <1>13, <1>14, <1>15, <1>16, <1>17, <1>18, <1>19,
       <1>20
       DEF Next, Create, Apply

\* An apply does its steps in order.
LEMMA PhaseStep == Types /\ Phase /\ [Next]_vars => Phase'
<1> SUFFICES ASSUME Types, Phase, [Next]_vars PROVE Phase'
  OBVIOUS
<1> USE RoutesAssumption, TargetsAssumption, FailuresAssumption DEF vars, proxy,
   request, history, Applying, Types, State, Scan, Phase
<1>1. ASSUME NEW exits \in SUBSET Exit, NEW p \in Port \cup {NoPort},
   CreateRequest(exits, p) PROVE Phase'
  BY <1>1 DEF CreateRequest
<1>2. CASE ScanProxy
  BY <1>2 DEF ScanProxy, SeenNow
<1>3. CASE NothingNew
  BY <1>3 DEF NothingNew, Over
<1>4. CASE Extend
  BY <1>4 DEF Extend
<1>5. CASE CreateFails
  BY <1>5, CreateFailsFacts DEF CreateFails, Over, OneFailure
<1>6. ASSUME NEW e \in Exit, NEW l \in Listen, AlreadyThere(e, l) PROVE Phase'
  BY <1>6, AwgFacts DEF AlreadyThere, Prepared
<1>7. ASSUME NEW e \in Exit, NEW l \in Listen, NEW i \in Id, NEW p \in Port,
   Accept(e, l, i, p) PROVE Phase'
  BY <1>7, AwgFacts DEF Accept, Prepared, FreePorts, Taken, FreshIds, Ids
<1>8. CASE ReadRoutes
  BY <1>8 DEF ReadRoutes
<1>9. CASE PutScript
  BY <1>9 DEF PutScript, Written
<1>10. CASE RestartService
  BY <1>10 DEF RestartService
<1>11. CASE Rescan
  <2>1. mem'.cascades = mem.cascades /\ mem'.at = mem.at /\ mem'.scan.ours = rules
    BY <1>11 DEF Rescan, SeenNow
  <2>2. QED
    BY <1>11, <2>1 DEF Rescan, Routes
<1>12. CASE Save
  BY <1>12 DEF Save, Over
<1>13. CASE ApplyFails
  BY <1>13 DEF ApplyFails, Over, OneFailure, Rollback, Written
<1>14. ASSUME NEW s \in State, s.cascades = mem.cascades, s.scan.ours \in
   {mem.scan.ours, rules}, Learnt(s) PROVE Phase'
  <2>1. op = "none" /\ UNCHANGED <<op, step>>
    BY <1>14, LearntFacts DEF Learnt
  <2>2. QED
    BY <2>1
<1>15. ASSUME NEW c \in mem.cascades, DeleteCascade(c) PROVE Phase'
  BY <1>15 DEF DeleteCascade
<1>16. ASSUME NEW c \in Cascade, NEW at \in [Exit -> Target], c.mode # "managed",
   Listed(c, at) PROVE Phase'
  <2>1. op = "none" /\ UNCHANGED <<op, step>>
    BY <1>16, ListedFacts DEF Listed
  <2>2. QED
    BY <2>1
<1>17. CASE AppRestart
  BY <1>17 DEF AppRestart, Over, OneFailure
<1>18. CASE Reboot
  BY <1>18 DEF Reboot
<1>19. ASSUME NEW r \in Foreign, ForeignForward(r) PROVE Phase'
  BY <1>19 DEF ForeignForward
<1>20. CASE UNCHANGED vars
  BY <1>20
<1> HIDE DEF vars, proxy, request, history, Applying, Types, State, Scan, Phase
<1>21. QED
  <2>1. mem \in State /\ rules \subseteq Route /\ foreign \subseteq Foreign
    BY DEF Types
  <2>2. QED
    BY <2>1, Listing, Learning, <1>1, <1>2, <1>3, <1>4, <1>5, <1>6, <1>7, <1>8,
       <1>9, <1>10, <1>11, <1>12, <1>13, <1>14, <1>15, <1>16, <1>17, <1>18, <1>19,
       <1>20
       DEF Next, Create, Apply

\* Nothing opens outside an apply, and a complete one closes everything.
LEMMA SettledStep == Types /\ Phase /\ Settled /\ [Next]_vars => Settled'
<1> SUFFICES ASSUME Types, Phase, Settled, [Next]_vars PROVE Settled'
  OBVIOUS
<1> USE RoutesAssumption, TargetsAssumption, FailuresAssumption DEF vars, proxy,
   request, history, Applying, Types, State, Scan, Phase, Settled
<1>1. ASSUME NEW exits \in SUBSET Exit, NEW p \in Port \cup {NoPort},
   CreateRequest(exits, p) PROVE Settled'
  BY <1>1 DEF CreateRequest
<1>2. CASE ScanProxy
  BY <1>2 DEF ScanProxy, SeenNow
<1>3. CASE NothingNew
  BY <1>3 DEF NothingNew, Over
<1>4. CASE Extend
  BY <1>4 DEF Extend
<1>5. CASE CreateFails
  <2>1. /\ mem'.cascades = mem.cascades /\ saved' \in {saved, mem'}
        /\ mem'.scan.ours \in {mem.scan.ours, rules}
    BY <1>5, CreateFailsFacts
  <2>2. step \notin Applying /\ UNCHANGED <<script, rules, unsettled, applied>>
    BY <1>5 DEF CreateFails
  <2>3. QED
    BY <2>1, <2>2
<1>6. ASSUME NEW e \in Exit, NEW l \in Listen, AlreadyThere(e, l) PROVE Settled'
  <2>1. mem'.cascades = mem.cascades /\ mem'.scan = mem.scan /\ saved' = mem'
    BY <1>6, PreparedFacts DEF AlreadyThere
  <2>2. step \notin Applying /\ UNCHANGED <<script, rules, unsettled, applied>>
    BY <1>6 DEF AlreadyThere, Prepared
  <2>3. QED
    BY <2>1, <2>2
<1>7. ASSUME NEW e \in Exit, NEW l \in Listen, NEW i \in Id, NEW p \in Port,
   Accept(e, l, i, p) PROVE Settled'
  <2>1. mem'.cascades = mem.cascades /\ mem'.scan = mem.scan /\ saved' = mem'
    BY <1>7, PreparedFacts DEF Accept
  <2>2. step \notin Applying /\ UNCHANGED <<script, rules, unsettled, applied>>
    BY <1>7 DEF Accept, Prepared
  <2>3. QED
    BY <2>1, <2>2
<1>8. CASE ReadRoutes
  BY <1>8 DEF ReadRoutes
<1>9. CASE PutScript
  BY <1>9 DEF PutScript, Written
<1>10. CASE RestartService
  BY <1>10 DEF RestartService
<1>11. CASE Rescan
  BY <1>11 DEF Rescan, SeenNow
<1>12. CASE Save
  BY <1>12, AppliedRoutes DEF Save, Over
<1>13. CASE ApplyFails
  <2>1. CASE step # "store"
    BY <1>13, <2>1 DEF ApplyFails
  <2>2. CASE step = "store"
    <3>1. mem' \in {saved, mem} /\ UNCHANGED <<saved, script, rules, unsettled,
       applied>>
      BY <1>13, <2>2 DEF ApplyFails, Rollback
    <3>2. QED
      BY <1>13, <2>2, <3>1, RoutesManaged DEF ApplyFails, Over
  <2>3. QED
    BY <2>1, <2>2
<1>14. ASSUME NEW s \in State, s.cascades = mem.cascades, s.scan.ours \in
   {mem.scan.ours, rules}, Learnt(s) PROVE Settled'
  BY <1>14, LearntFacts
<1>15. ASSUME NEW c \in mem.cascades, DeleteCascade(c) PROVE Settled'
  <2>1. /\ step \notin Applying /\ mem'.scan = mem.scan
        /\ UNCHANGED <<saved, rules, script, unsettled, applied>>
    BY <1>15, DeleteFacts DEF DeleteCascade
  <2>2. CASE c.mode = "managed"
    BY <1>15, <2>2 DEF DeleteCascade
  <2>3. CASE c.mode # "managed"
    <3>1. Managed(mem'.cascades) = Managed(mem.cascades)
      BY <1>15, <2>3, DeleteFacts
    <3>2. RoutesTo(mem'.cascades, applied) = RoutesTo(mem.cascades, applied)
      BY <3>1, RoutesManaged
    <3>3. QED
      BY <2>1, <3>1, <3>2
  <2>4. QED
    BY <2>2, <2>3
<1>16. ASSUME NEW c \in Cascade, NEW at \in [Exit -> Target], c.mode # "managed",
   Listed(c, at) PROVE Settled'
  BY <1>16, ListedFacts, RoutesManaged
<1>17. CASE AppRestart
  BY <1>17, RoutesManaged DEF AppRestart, Over
<1>18. CASE Reboot
  BY <1>18 DEF Reboot
<1>19. ASSUME NEW r \in Foreign, ForeignForward(r) PROVE Settled'
  BY <1>19 DEF ForeignForward
<1>20. CASE UNCHANGED vars
  BY <1>20
<1> HIDE DEF vars, proxy, request, history, Applying, Types, State, Scan, Phase,
   Settled
<1>21. QED
  <2>1. mem \in State /\ rules \subseteq Route /\ foreign \subseteq Foreign
    BY DEF Types
  <2>2. QED
    BY <2>1, Listing, Learning, <1>1, <1>2, <1>3, <1>4, <1>5, <1>6, <1>7, <1>8,
       <1>9, <1>10, <1>11, <1>12, <1>13, <1>14, <1>15, <1>16, <1>17, <1>18, <1>19,
       <1>20
       DEF Next, Create, Apply

\* Nothing is condemned but by a deletion, or as a leftover.
LEMMA CondemnedStep == Types /\ Phase /\ Condemned /\ [Next]_vars => Condemned'
<1> SUFFICES ASSUME Types, Phase, Condemned, [Next]_vars PROVE Condemned'
  OBVIOUS
<1> USE RoutesAssumption, TargetsAssumption, FailuresAssumption DEF vars, proxy,
   request, history, Applying, Types, State, Scan, Phase, Condemned
<1>1. ASSUME NEW exits \in SUBSET Exit, NEW p \in Port \cup {NoPort},
   CreateRequest(exits, p) PROVE Condemned'
  BY <1>1 DEF CreateRequest
<1>2. CASE ScanProxy
  <2>1. Ports(Routes(mem')) = Ports(Routes(mem))
    BY <1>2, PortsManaged DEF ScanProxy
  <2>2. QED
    BY <1>2, <2>1 DEF ScanProxy
<1>3. CASE NothingNew
  BY <1>3 DEF NothingNew, Over
<1>4. CASE Extend
  <2>1. Ports(Routes(mem)) \subseteq Ports(Routes(mem'))
    BY <1>4, PortsOfRoutes DEF Extend, Routes, Managed
  <2>2. QED
    BY <1>4, <2>1 DEF Extend
<1>5. CASE CreateFails
  <2>1. saved' \in {saved, mem'} /\ Ports(Routes(mem')) = Ports(Routes(mem))
    BY <1>5, CreateFailsFacts
  <2>2. UNCHANGED <<rules, script, begun>>
    BY <1>5 DEF CreateFails
  <2>3. QED
    BY <2>1, <2>2
<1>6. ASSUME NEW e \in Exit, NEW l \in Listen, AlreadyThere(e, l) PROVE Condemned'
  <2>1. saved' = mem' /\ UNCHANGED <<rules, script, begun>>
    BY <1>6 DEF AlreadyThere, Prepared
  <2>2. QED
    BY <2>1
<1>7. ASSUME NEW e \in Exit, NEW l \in Listen, NEW i \in Id, NEW p \in Port,
   Accept(e, l, i, p) PROVE Condemned'
  <2>1. saved' = mem' /\ UNCHANGED <<rules, script, begun>>
    BY <1>7 DEF Accept, Prepared
  <2>2. QED
    BY <2>1
<1>8. CASE ReadRoutes
  BY <1>8 DEF ReadRoutes
<1>9. CASE PutScript
  BY <1>9 DEF PutScript, Written
<1>10. CASE RestartService
  BY <1>10 DEF RestartService
<1>11. CASE Rescan
  <2>1. Ports(Routes(mem')) = Ports(Routes(mem))
    BY <1>11, PortsManaged DEF Rescan
  <2>2. QED
    BY <1>11, <2>1 DEF Rescan
<1>12. CASE Save
  BY <1>12 DEF Save, Over
<1>13. CASE ApplyFails
  BY <1>13 DEF ApplyFails, Over, OneFailure, Rollback, Written
<1>14. ASSUME NEW s \in State, s.cascades = mem.cascades, s.scan.ours \in
   {mem.scan.ours, rules}, Learnt(s) PROVE Condemned'
  BY <1>14, LearntFacts
<1>15. ASSUME NEW c \in mem.cascades, DeleteCascade(c) PROVE Condemned'
  BY <1>15, DeleteFacts DEF DeleteCascade
<1>16. ASSUME NEW c \in Cascade, NEW at \in [Exit -> Target], c.mode # "managed",
   Listed(c, at) PROVE Condemned'
  BY <1>16, ListedFacts
<1>17. CASE AppRestart
  BY <1>17 DEF AppRestart, Over, OneFailure
<1>18. CASE Reboot
  BY <1>18 DEF Reboot
<1>19. ASSUME NEW r \in Foreign, ForeignForward(r) PROVE Condemned'
  BY <1>19 DEF ForeignForward
<1>20. CASE UNCHANGED vars
  BY <1>20
<1> HIDE DEF vars, proxy, request, history, Applying, Types, State, Scan, Phase,
   Condemned
<1>21. QED
  <2>1. mem \in State /\ rules \subseteq Route /\ foreign \subseteq Foreign
    BY DEF Types
  <2>2. QED
    BY <2>1, Listing, Learning, <1>1, <1>2, <1>3, <1>4, <1>5, <1>6, <1>7, <1>8,
       <1>9, <1>10, <1>11, <1>12, <1>13, <1>14, <1>15, <1>16, <1>17, <1>18, <1>19,
       <1>20
       DEF Next, Create, Apply

---------------------------------------------------------------------------
(* The theorems.                                                           *)

\* The inductive invariant holds of every reachable state.
THEOREM Inductive == Spec => []IInv
<1>1. Init => IInv
  <2> SUFFICES ASSUME Init PROVE IInv
    OBVIOUS
  <2>1. Empty \in State /\ Managed({}) = {} /\ RoutesTo({}, Home) = {}
    BY TargetsAssumption DEF Empty, State, Scan, RoutesTo, Managed
  <2>2. /\ mem = Empty /\ saved = Empty /\ mem.cascades = {} /\ saved.cascades = {}
        /\ applied = Home
    BY DEF Init, Empty
  <2>3. Types
    <3>1. failures \in 0..MaxFailures /\ moves \in 0..MaxMoves
      BY FailuresAssumption DEF Init
    <3>2. unsettled \in BOOLEAN
      BY DEF Init
    <3>3. QED
      BY <2>1, <2>2, <3>1, <3>2, TargetsAssumption DEF Init, Types
  <2>4. Distinct /\ Ported
    BY <2>2 DEF Init, Distinct, Ported, Unique, OnePort, Managed
  <2>5. Phase /\ Settled /\ Condemned
    BY <2>1, <2>2 DEF Init, Phase, Settled, Condemned, Applying, Ports
  <2>6. QED
    BY <2>3, <2>4, <2>5 DEF IInv
<1>2. IInv /\ [Next]_vars => IInv'
  BY PortedStep, TypesStep, DistinctStep, PhaseStep, SettledStep, CondemnedStep
     DEF IInv
<1>3. QED
  BY <1>1, <1>2, PTL DEF Spec

\* The type invariant: an id is never in a list twice.
THEOREM CascadesTyping == Spec => []TypeOK
<1>1. IInv => TypeOK
  BY DEF IInv, Types, Distinct, Unique, TypeOK
<1>2. QED
  BY <1>1, Inductive, PTL

\* After complete applies the proxy forwards what the state lists, now and at a boot,
\* where the exits were then.
THEOREM ForwardsAgree == Spec => []ForwardsMatch
<1>1. IInv => ForwardsMatch
  BY DEF IInv, Phase, Settled, ForwardsMatch, Applying
<1>2. QED
  BY <1>1, Inductive, PTL

\* After complete applies no managed cascade is shown as missing, unless its exit was
\* given another address since.
THEOREM StatusIsTrue == Spec => []StatusTrue
<1>1. IInv => StatusTrue
  <2> SUFFICES ASSUME IInv, op = "none", ~unsettled, NEW c \in
     Managed(mem.cascades),
                      mem.at[c.exit].host = applied[c.exit].host
               PROVE  ShownApplied(c)
    BY DEF StatusTrue
  <2>1. rules = RoutesTo(mem.cascades, applied) /\ rules \subseteq mem.scan.ours
    BY DEF IInv, Phase, Settled, Applying
  <2> DEFINE r == [port |-> c.port, to |-> applied[c.exit]]
  <2>2. r \in mem.scan.ours
    BY <2>1 DEF RoutesTo
  <2>3. r.port = c.port /\ r.to.host = mem.at[c.exit].host
    OBVIOUS
  <2>4. QED
    BY <2>2, <2>3 DEF ShownApplied
<1>2. QED
  BY <1>1, Inductive, PTL

\* No two managed cascades share a port of the proxy.
THEOREM PortsAreDistinct == Spec => []PortsDistinct
<1>1. IInv => PortsDistinct
  BY DEF IInv, Distinct, OnePort, Managed, PortsDistinct
<1>2. QED
  BY <1>1, Inductive, PTL

\* What a flush of the chains takes away was condemned before, whatever failed.
THEOREM ForwardsAreKept == Spec => ForwardsKept
<1>1. IInv /\ [Next]_vars =>
         [Ports(Routes(saved)) \cap (Ports(rules) \ Ports(rules')) \subseteq
            begun]_vars
  <2> SUFFICES ASSUME IInv, Next
               PROVE  Ports(Routes(saved)) \cap (Ports(rules) \ Ports(rules'))
                  \subseteq begun
    OBVIOUS
  <2>1. rules' = rules \/ rules' = script
    BY DEF Next, Create, CreateRequest, ScanProxy, NothingNew, Extend, CreateFails,
       AlreadyThere, Accept, Prepared, Apply, ReadRoutes, PutScript, RestartService,
       Rescan, Save, ApplyFails, ScanServer, DeleteCascade, Adopt, CreateDirect,
       Listed, DetectExit, SaveServer, Learnt, AppRestart, Reboot, ForeignForward,
          proxy
  <2>2. QED
    BY <2>1 DEF IInv, Condemned
<1>2. QED
  BY <1>1, Inductive, PTL DEF Spec, ForwardsKept
==============================================================================

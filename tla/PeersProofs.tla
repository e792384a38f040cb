----------------------------- MODULE PeersProofs -----------------------------
(***************************************************************************)
(* The clients of one instance, for any set of them, any number of other   *)
(* tools' peers, addresses, failures and restarts.  A deletion that was    *)
(* reported done is final: a key is never issued twice (Issued), so nothing*)
(* puts it back into the file (Final); the text a removal writes back holds*)
(* no client deleted before (Fresh); and a client that left the file is on *)
(* the interface only until the pending apply_conf, or because one failed  *)
(* (Pending).  Addresses are distinct: the one given out is free in the    *)
(* file, which until it is written only loses clients (Addressed).  Listed *)
(* clients work: when a new one is listed, every command before has left   *)
(* what the list promises (Progress), and a removal takes away its own.    *)
(***************************************************************************)
EXTENDS Peers, TLAPS

\* What the control point says about the operation.
Running ==
    /\ op = "none" <=> step = "none"
    /\ op # "none" => key \in Key

\* Every client that was ever listed or is being removed has had its address, and a
\* deletion that was reported took it out of both lists.
Issued ==
    /\ \A k \in list \cup saved \cup revoked : ip[k] # 0
    /\ op = "remove" => ip[key] # 0
    /\ op = "add" /\ step # "read" => ip[key] # 0
    /\ revoked \cap (list \cup saved) = {}
    /\ op # "none" => key \notin revoked
    /\ op = "add" => key \notin list \cup saved

\* The text a removal is about to write back still holds exactly the file's clients.
Fresh == op = "remove" /\ step = "write" => text \cap Key = conf \cap Key

\* The file has no client whose deletion went past the write.
Final ==
    /\ conf \cap revoked = {}
    /\ op = "remove" /\ step \in {"apply", "table", "rows", "record"} => key
       \notin conf

\* A client on the interface and not in the file waits for apply_conf.
Pending ==
    \A k \in Key : k \in live /\ k \notin conf =>
        unapplied \/ (op = "remove" /\ step = "apply" /\ key = k)

\* Clients of the file and of the interface that were not cut off have an address, no two
\* the same, and the one being added fits into the file.
Distinct(peers) == \A p, q \in Key \ torn : p # q /\ {p, q} \subseteq peers => ip[p] # ip[q]
Addressed ==
    /\ \A k \in Key \ torn : k \in conf \cup live => ip[k] # 0
    /\ op = "add" /\ step = "read" => ip[key] = 0
    /\ Distinct(conf) /\ Distinct(live)
    /\ op = "add" /\ step = "write" => Distinct(conf \cup {key})

\* What an operation has done for its own client and read of the others.
Progress ==
    /\ op = "remove" => key \in begun
    /\ step = "rows" => rows \cap Key = table \cap Key
    /\ op = "add" /\ step \in {"apply", "table", "rows", "record"} => key \in conf
    /\ op = "add" /\ step \in {"table", "rows", "record"} => key \in live
    /\ op = "add" /\ step = "record" /\ HasTable => key \in table

IInv == TypeOK /\ Running /\ Issued /\ Fresh /\ Final /\ Pending
        /\ Addressed /\ Progress /\ ListedWorks

\* Every step keeps the types and the control point.
LEMMA TypeStep == TypeOK /\ Running /\ [Next]_vars => TypeOK' /\ Running'
<1> SUFFICES ASSUME TypeOK, Running, [Next]_vars PROVE TypeOK' /\ Running'
  OBVIOUS
<1> USE KeysAssumption, SizesAssumption DEF Peer, server, app, vars, TypeOK, Running
<1>1. ASSUME NEW k \in Key, CreateClient(k) PROVE TypeOK' /\ Running'
  BY <1>1 DEF CreateClient
<1>2. ASSUME NEW k \in Key, DeleteClient(k) PROVE TypeOK' /\ Running'
  BY <1>2 DEF DeleteClient
<1>3. CASE Succeed /\ ReadConf
  BY <1>3 DEF Succeed, ReadConf, NextStep, TableStep, Free, First
<1>4. CASE Succeed /\ WriteConf
  BY <1>4 DEF Succeed, WriteConf, NextStep, TableStep
<1>5. CASE Succeed /\ ApplyConf
  BY <1>5 DEF Succeed, ApplyConf, NextStep, TableStep
<1>6. CASE Succeed /\ ReadTable
  BY <1>6 DEF Succeed, ReadTable, NextStep, TableStep
<1>7. CASE Succeed /\ WriteTable
  BY <1>7 DEF Succeed, WriteTable, NextStep, TableStep
<1>8. CASE NoAddress
  BY <1>8 DEF NoAddress, Over
<1>9. CASE Fail
  BY <1>9 DEF Fail, OneFailure, Over
<1>10. CASE AnswerLost /\ ReadConf
  BY <1>10 DEF AnswerLost, OneFailure, Over, ReadConf, Free, First
<1>11. CASE AnswerLost /\ WriteConf
  BY <1>11 DEF AnswerLost, OneFailure, Over, WriteConf
<1>12. CASE AnswerLost /\ ApplyConf
  BY <1>12 DEF AnswerLost, OneFailure, Over, ApplyConf
<1>13. CASE AnswerLost /\ ReadTable
  BY <1>13 DEF AnswerLost, OneFailure, Over, ReadTable
<1>14. CASE AnswerLost /\ WriteTable
  BY <1>14 DEF AnswerLost, OneFailure, Over, WriteTable
<1>15. CASE TornWrite
  BY <1>15 DEF TornWrite, OneFailure, Over
<1>24. CASE TornAppend
  BY <1>24 DEF TornAppend, OneFailure, Over
<1>16. CASE Record
  BY <1>16 DEF Record, Listed, Over
<1>17. CASE RecordFails
  BY <1>17 DEF RecordFails, Listed, OneFailure, Over
<1>18. CASE AppRestart
  BY <1>18 DEF AppRestart, OneFailure, Over
<1>19. CASE InterfaceRestart
  BY <1>19 DEF InterfaceRestart
<1>20. ASSUME NEW p \in Foreign, ForeignAdds(p) PROVE TypeOK' /\ Running'
  BY <1>20 DEF ForeignAdds, Free, First
<1>21. ASSUME NEW clients \in SUBSET list, DeleteCascade(clients)
      PROVE  TypeOK' /\ Running'
  BY <1>21 DEF DeleteCascade, OneFailure
<1>22. CASE UNCHANGED vars
  BY <1>22
<1> HIDE DEF Peer, server, app, vars, TypeOK, Running
<1>23. QED
  BY <1>1, <1>2, <1>3, <1>4, <1>5, <1>6, <1>7, <1>8, <1>9, <1>10, <1>11, <1>12,
     <1>13, <1>14, <1>15, <1>16, <1>17, <1>18, <1>19, <1>20, <1>21, <1>22, <1>24
     DEF Next, Command, Succeed, AnswerLost

\* No key is issued twice.
LEMMA IssuedStep == TypeOK /\ Running /\ Issued /\ [Next]_vars => Issued'
<1> SUFFICES ASSUME TypeOK, Running, Issued, [Next]_vars PROVE Issued'
  OBVIOUS
<1> USE KeysAssumption, SizesAssumption DEF Peer, server, app, vars, TypeOK,
   Running, Issued
<1>1. ASSUME NEW k \in Key, CreateClient(k) PROVE Issued'
  BY <1>1 DEF CreateClient
<1>2. ASSUME NEW k \in Key, DeleteClient(k) PROVE Issued'
  BY <1>2 DEF DeleteClient
<1>3. CASE Succeed /\ ReadConf
  BY <1>3 DEF Succeed, ReadConf, NextStep, TableStep, Free, First
<1>4. CASE Succeed /\ WriteConf
  BY <1>4 DEF Succeed, WriteConf, NextStep, TableStep
<1>5. CASE Succeed /\ ApplyConf
  BY <1>5 DEF Succeed, ApplyConf, NextStep, TableStep
<1>6. CASE Succeed /\ ReadTable
  BY <1>6 DEF Succeed, ReadTable, NextStep, TableStep
<1>7. CASE Succeed /\ WriteTable
  BY <1>7 DEF Succeed, WriteTable, NextStep, TableStep
<1>8. CASE NoAddress
  BY <1>8 DEF NoAddress, Over
<1>9. CASE Fail
  BY <1>9 DEF Fail, OneFailure, Over
<1>10. CASE AnswerLost /\ ReadConf
  BY <1>10 DEF AnswerLost, OneFailure, Over, ReadConf, Free, First
<1>11. CASE AnswerLost /\ WriteConf
  BY <1>11 DEF AnswerLost, OneFailure, Over, WriteConf
<1>12. CASE AnswerLost /\ ApplyConf
  BY <1>12 DEF AnswerLost, OneFailure, Over, ApplyConf
<1>13. CASE AnswerLost /\ ReadTable
  BY <1>13 DEF AnswerLost, OneFailure, Over, ReadTable
<1>14. CASE AnswerLost /\ WriteTable
  BY <1>14 DEF AnswerLost, OneFailure, Over, WriteTable
<1>15. CASE TornWrite
  BY <1>15 DEF TornWrite, OneFailure, Over
<1>24. CASE TornAppend
  BY <1>24 DEF TornAppend, OneFailure, Over
<1>16. CASE Record
  BY <1>16 DEF Record, Listed, Over
<1>17. CASE RecordFails
  BY <1>17 DEF RecordFails, Listed, OneFailure, Over
<1>18. CASE AppRestart
  BY <1>18 DEF AppRestart, OneFailure, Over
<1>19. CASE InterfaceRestart
  BY <1>19 DEF InterfaceRestart
<1>20. ASSUME NEW p \in Foreign, ForeignAdds(p) PROVE Issued'
  BY <1>20 DEF ForeignAdds, Free, First
<1>21. ASSUME NEW clients \in SUBSET list, DeleteCascade(clients) PROVE Issued'
  BY <1>21 DEF DeleteCascade, OneFailure
<1>22. CASE UNCHANGED vars
  BY <1>22
<1> HIDE DEF Peer, server, app, vars, TypeOK, Running, Issued
<1>23. QED
  BY <1>1, <1>2, <1>3, <1>4, <1>5, <1>6, <1>7, <1>8, <1>9, <1>10, <1>11, <1>12,
     <1>13, <1>14, <1>15, <1>16, <1>17, <1>18, <1>19, <1>20, <1>21, <1>22, <1>24
     DEF Next, Command, Succeed, AnswerLost

\* What a removal read stays true until it writes.
LEMMA FreshStep == TypeOK /\ Running /\ Fresh /\ [Next]_vars => Fresh'
<1> SUFFICES ASSUME TypeOK, Running, Fresh, [Next]_vars PROVE Fresh'
  OBVIOUS
<1> USE KeysAssumption, SizesAssumption DEF Peer, server, app, vars, TypeOK,
   Running, Fresh
<1>1. ASSUME NEW k \in Key, CreateClient(k) PROVE Fresh'
  BY <1>1 DEF CreateClient
<1>2. ASSUME NEW k \in Key, DeleteClient(k) PROVE Fresh'
  BY <1>2 DEF DeleteClient
<1>3. CASE Succeed /\ ReadConf
  BY <1>3 DEF Succeed, ReadConf, NextStep, TableStep, Free, First
<1>4. CASE Succeed /\ WriteConf
  BY <1>4 DEF Succeed, WriteConf, NextStep, TableStep
<1>5. CASE Succeed /\ ApplyConf
  BY <1>5 DEF Succeed, ApplyConf, NextStep, TableStep
<1>6. CASE Succeed /\ ReadTable
  BY <1>6 DEF Succeed, ReadTable, NextStep, TableStep
<1>7. CASE Succeed /\ WriteTable
  BY <1>7 DEF Succeed, WriteTable, NextStep, TableStep
<1>8. CASE NoAddress
  BY <1>8 DEF NoAddress, Over
<1>9. CASE Fail
  BY <1>9 DEF Fail, OneFailure, Over
<1>10. CASE AnswerLost /\ ReadConf
  BY <1>10 DEF AnswerLost, OneFailure, Over, ReadConf, Free, First
<1>11. CASE AnswerLost /\ WriteConf
  BY <1>11 DEF AnswerLost, OneFailure, Over, WriteConf
<1>12. CASE AnswerLost /\ ApplyConf
  BY <1>12 DEF AnswerLost, OneFailure, Over, ApplyConf
<1>13. CASE AnswerLost /\ ReadTable
  BY <1>13 DEF AnswerLost, OneFailure, Over, ReadTable
<1>14. CASE AnswerLost /\ WriteTable
  BY <1>14 DEF AnswerLost, OneFailure, Over, WriteTable
<1>15. CASE TornWrite
  BY <1>15 DEF TornWrite, OneFailure, Over
<1>24. CASE TornAppend
  BY <1>24 DEF TornAppend, OneFailure, Over
<1>16. CASE Record
  BY <1>16 DEF Record, Listed, Over
<1>17. CASE RecordFails
  BY <1>17 DEF RecordFails, Listed, OneFailure, Over
<1>18. CASE AppRestart
  BY <1>18 DEF AppRestart, OneFailure, Over
<1>19. CASE InterfaceRestart
  BY <1>19 DEF InterfaceRestart
<1>20. ASSUME NEW p \in Foreign, ForeignAdds(p) PROVE Fresh'
  BY <1>20 DEF ForeignAdds, Free, First
<1>21. ASSUME NEW clients \in SUBSET list, DeleteCascade(clients) PROVE Fresh'
  BY <1>21 DEF DeleteCascade, OneFailure
<1>22. CASE UNCHANGED vars
  BY <1>22
<1> HIDE DEF Peer, server, app, vars, TypeOK, Running, Fresh
<1>23. QED
  BY <1>1, <1>2, <1>3, <1>4, <1>5, <1>6, <1>7, <1>8, <1>9, <1>10, <1>11, <1>12,
     <1>13, <1>14, <1>15, <1>16, <1>17, <1>18, <1>19, <1>20, <1>21, <1>22, <1>24
     DEF Next, Command, Succeed, AnswerLost

\* Nothing puts a deleted client back into the file.
LEMMA FinalStep == TypeOK /\ Running /\ Issued /\ Fresh /\ Final /\ [Next]_vars =>
    Final'
<1> SUFFICES ASSUME TypeOK, Running, Issued, Fresh, Final, [Next]_vars PROVE Final'
  OBVIOUS
<1> USE KeysAssumption, SizesAssumption DEF Peer, server, app, vars, TypeOK,
   Running, Issued, Fresh, Final
<1>1. ASSUME NEW k \in Key, CreateClient(k) PROVE Final'
  BY <1>1 DEF CreateClient
<1>2. ASSUME NEW k \in Key, DeleteClient(k) PROVE Final'
  BY <1>2 DEF DeleteClient
<1>3. CASE Succeed /\ ReadConf
  BY <1>3 DEF Succeed, ReadConf, NextStep, TableStep, Free, First
<1>4. CASE Succeed /\ WriteConf
  BY <1>4 DEF Succeed, WriteConf, NextStep, TableStep
<1>5. CASE Succeed /\ ApplyConf
  BY <1>5 DEF Succeed, ApplyConf, NextStep, TableStep
<1>6. CASE Succeed /\ ReadTable
  BY <1>6 DEF Succeed, ReadTable, NextStep, TableStep
<1>7. CASE Succeed /\ WriteTable
  BY <1>7 DEF Succeed, WriteTable, NextStep, TableStep
<1>8. CASE NoAddress
  BY <1>8 DEF NoAddress, Over
<1>9. CASE Fail
  BY <1>9 DEF Fail, OneFailure, Over
<1>10. CASE AnswerLost /\ ReadConf
  BY <1>10 DEF AnswerLost, OneFailure, Over, ReadConf, Free, First
<1>11. CASE AnswerLost /\ WriteConf
  BY <1>11 DEF AnswerLost, OneFailure, Over, WriteConf
<1>12. CASE AnswerLost /\ ApplyConf
  BY <1>12 DEF AnswerLost, OneFailure, Over, ApplyConf
<1>13. CASE AnswerLost /\ ReadTable
  BY <1>13 DEF AnswerLost, OneFailure, Over, ReadTable
<1>14. CASE AnswerLost /\ WriteTable
  BY <1>14 DEF AnswerLost, OneFailure, Over, WriteTable
<1>15. CASE TornWrite
  BY <1>15 DEF TornWrite, OneFailure, Over
<1>24. CASE TornAppend
  BY <1>24 DEF TornAppend, OneFailure, Over
<1>16. CASE Record
  BY <1>16 DEF Record, Listed, Over
<1>17. CASE RecordFails
  BY <1>17 DEF RecordFails, Listed, OneFailure, Over
<1>18. CASE AppRestart
  BY <1>18 DEF AppRestart, OneFailure, Over
<1>19. CASE InterfaceRestart
  BY <1>19 DEF InterfaceRestart
<1>20. ASSUME NEW p \in Foreign, ForeignAdds(p) PROVE Final'
  BY <1>20 DEF ForeignAdds, Free, First
<1>21. ASSUME NEW clients \in SUBSET list, DeleteCascade(clients) PROVE Final'
  BY <1>21 DEF DeleteCascade, OneFailure
<1>22. CASE UNCHANGED vars
  BY <1>22
<1> HIDE DEF Peer, server, app, vars, TypeOK, Running, Issued, Fresh, Final
<1>23. QED
  BY <1>1, <1>2, <1>3, <1>4, <1>5, <1>6, <1>7, <1>8, <1>9, <1>10, <1>11, <1>12,
     <1>13, <1>14, <1>15, <1>16, <1>17, <1>18, <1>19, <1>20, <1>21, <1>22, <1>24
     DEF Next, Command, Succeed, AnswerLost

\* A client leaves the interface with the next apply_conf.
LEMMA PendingStep == TypeOK /\ Running /\ Fresh /\ Pending /\ [Next]_vars =>
    Pending'
<1> SUFFICES ASSUME TypeOK, Running, Fresh, Pending, [Next]_vars PROVE Pending'
  OBVIOUS
<1> USE KeysAssumption, SizesAssumption DEF Peer, server, app, vars, TypeOK,
   Running, Fresh, Pending
<1>1. ASSUME NEW k \in Key, CreateClient(k) PROVE Pending'
  BY <1>1 DEF CreateClient
<1>2. ASSUME NEW k \in Key, DeleteClient(k) PROVE Pending'
  BY <1>2 DEF DeleteClient
<1>3. CASE Succeed /\ ReadConf
  BY <1>3 DEF Succeed, ReadConf, NextStep, TableStep, Free, First
<1>4. CASE Succeed /\ WriteConf
  BY <1>4 DEF Succeed, WriteConf, NextStep, TableStep
<1>5. CASE Succeed /\ ApplyConf
  BY <1>5 DEF Succeed, ApplyConf, NextStep, TableStep
<1>6. CASE Succeed /\ ReadTable
  BY <1>6 DEF Succeed, ReadTable, NextStep, TableStep
<1>7. CASE Succeed /\ WriteTable
  BY <1>7 DEF Succeed, WriteTable, NextStep, TableStep
<1>8. CASE NoAddress
  BY <1>8 DEF NoAddress, Over
<1>9. CASE Fail
  BY <1>9 DEF Fail, OneFailure, Over
<1>10. CASE AnswerLost /\ ReadConf
  BY <1>10 DEF AnswerLost, OneFailure, Over, ReadConf, Free, First
<1>11. CASE AnswerLost /\ WriteConf
  BY <1>11 DEF AnswerLost, OneFailure, Over, WriteConf
<1>12. CASE AnswerLost /\ ApplyConf
  BY <1>12 DEF AnswerLost, OneFailure, Over, ApplyConf
<1>13. CASE AnswerLost /\ ReadTable
  BY <1>13 DEF AnswerLost, OneFailure, Over, ReadTable
<1>14. CASE AnswerLost /\ WriteTable
  BY <1>14 DEF AnswerLost, OneFailure, Over, WriteTable
<1>15. CASE TornWrite
  BY <1>15 DEF TornWrite, OneFailure, Over
<1>24. CASE TornAppend
  BY <1>24 DEF TornAppend, OneFailure, Over
<1>16. CASE Record
  BY <1>16 DEF Record, Listed, Over
<1>17. CASE RecordFails
  BY <1>17 DEF RecordFails, Listed, OneFailure, Over
<1>18. CASE AppRestart
  BY <1>18 DEF AppRestart, OneFailure, Over
<1>19. CASE InterfaceRestart
  BY <1>19 DEF InterfaceRestart
<1>20. ASSUME NEW p \in Foreign, ForeignAdds(p) PROVE Pending'
  BY <1>20 DEF ForeignAdds, Free, First
<1>21. ASSUME NEW clients \in SUBSET list, DeleteCascade(clients) PROVE Pending'
  BY <1>21 DEF DeleteCascade, OneFailure
<1>22. CASE UNCHANGED vars
  BY <1>22
<1> HIDE DEF Peer, server, app, vars, TypeOK, Running, Fresh, Pending
<1>23. QED
  BY <1>1, <1>2, <1>3, <1>4, <1>5, <1>6, <1>7, <1>8, <1>9, <1>10, <1>11, <1>12,
     <1>13, <1>14, <1>15, <1>16, <1>17, <1>18, <1>19, <1>20, <1>21, <1>22, <1>24
     DEF Next, Command, Succeed, AnswerLost

\* Addresses are looked up in the file before they are given out.
LEMMA AddressedStep == TypeOK /\ Running /\ Issued /\ Fresh /\ Addressed /\ [Next]_vars =>
    Addressed'
<1> SUFFICES ASSUME TypeOK, Running, Issued, Fresh, Addressed, [Next]_vars PROVE
   Addressed'
  OBVIOUS
<1> USE KeysAssumption, SizesAssumption DEF Peer, server, app, vars, TypeOK,
   Running, Issued, Fresh, Addressed, Distinct
<1>1. ASSUME NEW k \in Key, CreateClient(k) PROVE Addressed'
  BY <1>1 DEF CreateClient
<1>2. ASSUME NEW k \in Key, DeleteClient(k) PROVE Addressed'
  BY <1>2 DEF DeleteClient
<1>3. CASE Succeed /\ ReadConf
  BY <1>3 DEF Succeed, ReadConf, Free, First, NextStep, TableStep
<1>4. CASE Succeed /\ WriteConf
  BY <1>4 DEF Succeed, WriteConf, NextStep, TableStep
<1>5. CASE Succeed /\ ApplyConf
  BY <1>5 DEF Succeed, ApplyConf, NextStep, TableStep
<1>6. CASE Succeed /\ ReadTable
  BY <1>6 DEF Succeed, ReadTable, NextStep, TableStep
<1>7. CASE Succeed /\ WriteTable
  BY <1>7 DEF Succeed, WriteTable, NextStep, TableStep
<1>8. CASE NoAddress
  BY <1>8 DEF NoAddress, Over
<1>9. CASE Fail
  BY <1>9 DEF Fail, OneFailure, Over
<1>10. CASE AnswerLost /\ ReadConf
  BY <1>10 DEF AnswerLost, OneFailure, Over, ReadConf, Free, First
<1>11. CASE AnswerLost /\ WriteConf
  BY <1>11 DEF AnswerLost, OneFailure, Over, WriteConf
<1>12. CASE AnswerLost /\ ApplyConf
  BY <1>12 DEF AnswerLost, OneFailure, Over, ApplyConf
<1>13. CASE AnswerLost /\ ReadTable
  BY <1>13 DEF AnswerLost, OneFailure, Over, ReadTable
<1>14. CASE AnswerLost /\ WriteTable
  BY <1>14 DEF AnswerLost, OneFailure, Over, WriteTable
<1>15. CASE TornWrite
  BY <1>15 DEF TornWrite, OneFailure, Over
<1>24. CASE TornAppend
  BY <1>24 DEF TornAppend, OneFailure, Over
<1>16. CASE Record
  BY <1>16 DEF Record, Listed, Over
<1>17. CASE RecordFails
  BY <1>17 DEF RecordFails, Listed, OneFailure, Over
<1>18. CASE AppRestart
  BY <1>18 DEF AppRestart, OneFailure, Over
<1>19. CASE InterfaceRestart
  BY <1>19 DEF InterfaceRestart
<1>20. ASSUME NEW p \in Foreign, ForeignAdds(p) PROVE Addressed'
  BY <1>20 DEF ForeignAdds, Free, First
<1>21. ASSUME NEW clients \in SUBSET list, DeleteCascade(clients) PROVE Addressed'
  BY <1>21 DEF DeleteCascade, OneFailure
<1>22. CASE UNCHANGED vars
  BY <1>22
<1> HIDE DEF Peer, server, app, vars, TypeOK, Running, Issued, Fresh, Addressed,
   Distinct
<1>23. QED
  BY <1>1, <1>2, <1>3, <1>4, <1>5, <1>6, <1>7, <1>8, <1>9, <1>10, <1>11, <1>12,
     <1>13, <1>14, <1>15, <1>16, <1>17, <1>18, <1>19, <1>20, <1>21, <1>22, <1>24
     DEF Next, Command, Succeed, AnswerLost

\* Each command leaves what the next one counts on.
LEMMA ProgressStep == TypeOK /\ Running /\ Progress /\ [Next]_vars => Progress'
<1> SUFFICES ASSUME TypeOK, Running, Progress, [Next]_vars PROVE Progress'
  OBVIOUS
<1> USE KeysAssumption, SizesAssumption DEF Peer, server, app, vars, TypeOK,
   Running, Progress
<1>1. ASSUME NEW k \in Key, CreateClient(k) PROVE Progress'
  BY <1>1 DEF CreateClient
<1>2. ASSUME NEW k \in Key, DeleteClient(k) PROVE Progress'
  BY <1>2 DEF DeleteClient
<1>3. CASE Succeed /\ ReadConf
  BY <1>3 DEF Succeed, ReadConf, Free, First, NextStep, TableStep
<1>4. CASE Succeed /\ WriteConf
  BY <1>4 DEF Succeed, WriteConf, NextStep, TableStep
<1>5. CASE Succeed /\ ApplyConf
  BY <1>5 DEF Succeed, ApplyConf, NextStep, TableStep
<1>6. CASE Succeed /\ ReadTable
  BY <1>6 DEF Succeed, ReadTable, NextStep, TableStep
<1>7. CASE Succeed /\ WriteTable
  BY <1>7 DEF Succeed, WriteTable, NextStep, TableStep
<1>8. CASE NoAddress
  BY <1>8 DEF NoAddress, Over
<1>9. CASE Fail
  BY <1>9 DEF Fail, OneFailure, Over
<1>10. CASE AnswerLost /\ ReadConf
  BY <1>10 DEF AnswerLost, OneFailure, Over, ReadConf, Free, First
<1>11. CASE AnswerLost /\ WriteConf
  BY <1>11 DEF AnswerLost, OneFailure, Over, WriteConf
<1>12. CASE AnswerLost /\ ApplyConf
  BY <1>12 DEF AnswerLost, OneFailure, Over, ApplyConf
<1>13. CASE AnswerLost /\ ReadTable
  BY <1>13 DEF AnswerLost, OneFailure, Over, ReadTable
<1>14. CASE AnswerLost /\ WriteTable
  BY <1>14 DEF AnswerLost, OneFailure, Over, WriteTable
<1>15. CASE TornWrite
  BY <1>15 DEF TornWrite, OneFailure, Over
<1>24. CASE TornAppend
  BY <1>24 DEF TornAppend, OneFailure, Over
<1>16. CASE Record
  BY <1>16 DEF Record, Listed, Over
<1>17. CASE RecordFails
  BY <1>17 DEF RecordFails, Listed, OneFailure, Over
<1>18. CASE AppRestart
  BY <1>18 DEF AppRestart, OneFailure, Over
<1>19. CASE InterfaceRestart
  BY <1>19 DEF InterfaceRestart
<1>20. ASSUME NEW p \in Foreign, ForeignAdds(p) PROVE Progress'
  BY <1>20 DEF ForeignAdds, Free, First
<1>21. ASSUME NEW clients \in SUBSET list, DeleteCascade(clients) PROVE Progress'
  BY <1>21 DEF DeleteCascade, OneFailure
<1>22. CASE UNCHANGED vars
  BY <1>22
<1> HIDE DEF Peer, server, app, vars, TypeOK, Running, Progress
<1>23. QED
  BY <1>1, <1>2, <1>3, <1>4, <1>5, <1>6, <1>7, <1>8, <1>9, <1>10, <1>11, <1>12,
     <1>13, <1>14, <1>15, <1>16, <1>17, <1>18, <1>19, <1>20, <1>21, <1>22, <1>24
     DEF Next, Command, Succeed, AnswerLost

\* No operation on another client takes a peer away.
LEMMA WorksStep == TypeOK /\ Running /\ Fresh /\ Progress /\ ListedWorks /\ [Next]_vars =>
    ListedWorks'
<1> SUFFICES ASSUME TypeOK, Running, Fresh, Progress, ListedWorks, [Next]_vars
   PROVE ListedWorks'
  OBVIOUS
<1> USE KeysAssumption, SizesAssumption DEF Peer, server, app, vars, TypeOK,
   Running, Fresh, Progress, ListedWorks
<1>1. ASSUME NEW k \in Key, CreateClient(k) PROVE ListedWorks'
  BY <1>1 DEF CreateClient
<1>2. ASSUME NEW k \in Key, DeleteClient(k) PROVE ListedWorks'
  BY <1>2 DEF DeleteClient
<1>3. CASE Succeed /\ ReadConf
  BY <1>3 DEF Succeed, ReadConf, Free, First, NextStep, TableStep
<1>4. CASE Succeed /\ WriteConf
  BY <1>4 DEF Succeed, WriteConf, NextStep, TableStep
<1>5. CASE Succeed /\ ApplyConf
  BY <1>5 DEF Succeed, ApplyConf, NextStep, TableStep
<1>6. CASE Succeed /\ ReadTable
  BY <1>6 DEF Succeed, ReadTable, NextStep, TableStep
<1>7. CASE Succeed /\ WriteTable
  BY <1>7 DEF Succeed, WriteTable, NextStep, TableStep
<1>8. CASE NoAddress
  BY <1>8 DEF NoAddress, Over
<1>9. CASE Fail
  BY <1>9 DEF Fail, OneFailure, Over
<1>10. CASE AnswerLost /\ ReadConf
  BY <1>10 DEF AnswerLost, OneFailure, Over, ReadConf, Free, First
<1>11. CASE AnswerLost /\ WriteConf
  BY <1>11 DEF AnswerLost, OneFailure, Over, WriteConf
<1>12. CASE AnswerLost /\ ApplyConf
  BY <1>12 DEF AnswerLost, OneFailure, Over, ApplyConf
<1>13. CASE AnswerLost /\ ReadTable
  BY <1>13 DEF AnswerLost, OneFailure, Over, ReadTable
<1>14. CASE AnswerLost /\ WriteTable
  BY <1>14 DEF AnswerLost, OneFailure, Over, WriteTable
<1>15. CASE TornWrite
  BY <1>15 DEF TornWrite, OneFailure, Over
<1>24. CASE TornAppend
  BY <1>24 DEF TornAppend, OneFailure, Over
<1>16. CASE Record
  BY <1>16 DEF Record, Listed, Over
<1>17. CASE RecordFails
  BY <1>17 DEF RecordFails, Listed, OneFailure, Over
<1>18. CASE AppRestart
  BY <1>18 DEF AppRestart, OneFailure, Over
<1>19. CASE InterfaceRestart
  BY <1>19 DEF InterfaceRestart
<1>20. ASSUME NEW p \in Foreign, ForeignAdds(p) PROVE ListedWorks'
  BY <1>20 DEF ForeignAdds, Free, First
<1>21. ASSUME NEW clients \in SUBSET list, DeleteCascade(clients) PROVE ListedWorks'
  BY <1>21 DEF DeleteCascade, OneFailure
<1>22. CASE UNCHANGED vars
  BY <1>22
<1> HIDE DEF Peer, server, app, vars, TypeOK, Running, Fresh, Progress, ListedWorks
<1>23. QED
  BY <1>1, <1>2, <1>3, <1>4, <1>5, <1>6, <1>7, <1>8, <1>9, <1>10, <1>11, <1>12,
     <1>13, <1>14, <1>15, <1>16, <1>17, <1>18, <1>19, <1>20, <1>21, <1>22, <1>24
     DEF Next, Command, Succeed, AnswerLost

\* The inductive invariant holds of every reachable state.
THEOREM Inductive == Spec => []IInv
<1>1. Init => IInv
  <2> SUFFICES ASSUME Init PROVE IInv
    OBVIOUS
  <2> USE KeysAssumption, SizesAssumption DEF Init, Peer
  <2>1. TypeOK
    <3>1. ip \in [Peer -> 0..Hosts] /\ failures \in 0..MaxFailures
      OBVIOUS
    <3>2. QED
      BY <3>1, Zenon DEF TypeOK
  <2>2. Running /\ Issued /\ Fresh
    BY DEF Running, Issued, Fresh
  <2>3. Final /\ Pending
    BY DEF Final, Pending
  <2>4. Addressed /\ Progress /\ ListedWorks
    BY DEF Addressed, Distinct, Progress, ListedWorks
  <2>5. QED
    BY <2>1, <2>2, <2>3, <2>4 DEF IInv
<1>2. IInv /\ [Next]_vars => IInv'
  BY TypeStep, IssuedStep, FreshStep, FinalStep, PendingStep,
     AddressedStep, ProgressStep, WorksStep DEF IInv
<1>3. QED
  BY <1>1, <1>2, PTL DEF Spec

\* Every variable stays in its type: a peer gets an address of the subnet or none.
THEOREM Typing == Spec => []TypeOK
<1>1. IInv => TypeOK
  BY DEF IInv
<1>2. QED
  BY <1>1, Inductive, PTL

\* A deletion reported done is final in the file, and on the interface unless an
\* apply_conf failed.
THEOREM RevocationIsFinal == Spec => []RevokedIsGone
<1>1. IInv => RevokedIsGone
  <2> SUFFICES ASSUME IInv, NEW k \in revoked
               PROVE  k \notin conf /\ (k \in live => unapplied)
    BY DEF RevokedIsGone
  <2>1. k \in Key /\ k \notin conf
    BY DEF IInv, TypeOK, Final
  <2>2. ~(op = "remove" /\ key = k)
    BY DEF IInv, Issued
  <2>3. QED
    BY <2>1, <2>2 DEF IInv, Pending
<1>2. QED
  BY <1>1, Inductive, PTL
\* A client the user was given a config for stays in the file, on the interface and in
\* the user list, whatever operations on other clients fail (ops.rs, foreign.rs:300).
THEOREM ListedClientsWork == Spec => []ListedWorks
<1>1. IInv => ListedWorks
  BY DEF IInv
<1>2. QED
  BY <1>1, Inductive, PTL

\* No two clients of the app share an address, in the file or on the interface.
THEOREM AddressesAreDistinct == Spec => []DistinctAddresses
<1>1. IInv => DistinctAddresses
  BY DEF IInv, Addressed, Distinct, DistinctAddresses
<1>2. QED
  BY <1>1, Inductive, PTL
==============================================================================

---------------------------- MODULE StorageProofs ----------------------------
(***************************************************************************)
(* The two places where state is saved: the app's list of servers with its *)
(* secrets (module Storage) and the web panel's state.json (module Panel). *)
(*                                                                         *)
(* What the app reported saved is loaded again, and no entry of the file   *)
(* loses its secret, for any set of entries, machines and passwords and any*)
(* number of failures.  The argument: while a save runs, every password is *)
(* in the keychain or still to be stored (Stored), what it will forget is  *)
(* listed nowhere any more (Unlisted), and a secret without an entry in the*)
(* file is about to get one, about to be forgotten or excused (Forgotten). *)
(*                                                                         *)
(* The panel's file stays consistent although any number of threads write  *)
(* old copies over each other, and an apply that ran alone stays right.    *)
(* The argument: not the file alone but every copy is consistent, and what *)
(* a request is about to add to its copy shares nothing with it (Apart);   *)
(* once the proxy agrees with the file, every copy that can be saved       *)
(* without an apply lists the same routes (Agreed).                        *)
(***************************************************************************)
EXTENDS Storage, Panel, TLAPS

\* The type invariant without the backups, which have lemmas of their own.
Types ==
    /\ hosts \in Hosts /\ file \in Hosts /\ snapshot \in Hosts /\ exists \in BOOLEAN
    /\ passwords \in [Id -> Password \cup {None}]
    /\ keychain \in [Id -> Password \cup {None}]
    /\ step \in Steps /\ todo \subseteq Id /\ gone \subseteq Id
    /\ used \subseteq Id /\ filed \subseteq Id /\ excused \subseteq Id
    /\ reported \in BOOLEAN /\ failures \in 0..MaxFailures

\* Only an entry that is listed has a password; success is reported between saves.
Owned ==
    /\ \A i \in Id : passwords[i] # None => hosts[i] # Absent
    /\ reported => step = "idle"

\* Every password is stored before the file is renamed.
Stored ==
    /\ \A i \in Id :
          \/ step \in {"idle", "start"}
          \/ step = "secrets" /\ i \in todo
          \/ passwords[i] # None => keychain[i] = passwords[i]
    /\ step \in {"idle", "start", "backup", "rename", "forget"} => todo = {}
    /\ \A i \in todo : passwords[i] # None
    /\ reported => \A i \in Id : passwords[i] # None => keychain[i] = passwords[i]

\* What the save will forget is neither in memory nor, by then, in the file.
Unlisted ==
    /\ gone \cap Listed(hosts) = {}
    /\ step = "forget" \/ reported => file = hosts
    /\ gone # {} => step \in {"secrets", "backup", "rename", "forget"}

\* Entries of the file that were saved with a password are in the keychain.
Filed == filed \subseteq Listed(file) /\ \A i \in filed : keychain[i] # None

\* Whose secret may be in the keychain, by step.
Forgotten ==
    /\ \A i \in Id \ excused : keychain[i] # None =>
           \/ file[i] # Absent
           \/ step \in {"secrets", "backup", "rename"} /\ passwords[i] # None
           \/ step = "forget" /\ i \in gone
    /\ step \in {"secrets", "backup", "rename"} =>
           Listed(file) \ Listed(hosts) \subseteq gone \cup excused

\* The backups, and the newest of them once it is written.
Copies ==
    /\ backups \in Seq([hosts : Hosts, filed : SUBSET Id])
    /\ Len(backups) <= MaxBackups + failures
    /\ step = "rename" /\ exists =>
           Len(backups) > 0 /\ backups[Len(backups)].hosts = file

IInv == Types /\ Owned /\ Stored /\ Unlisted /\ Filed /\ Forgotten /\ Copies

\* Trimming keeps the newest backup, and MaxBackups of them at most.
LEMMA TrimmedKeeps ==
    ASSUME NEW S, NEW s \in Seq(S), Len(s) > 0
    PROVE  /\ Trimmed(s) \in Seq(S) /\ Len(Trimmed(s)) <= MaxBackups
           /\ Len(Trimmed(s)) > 0 /\ Trimmed(s)[Len(Trimmed(s))] = s[Len(s)]
<1>1. CASE Len(s) > MaxBackups
  <2>1. Trimmed(s) = SubSeq(s, Len(s) - MaxBackups + 1, Len(s))
    BY <1>1 DEF Trimmed
  <2>2. QED
    BY <1>1, <2>1, SizesAssumption
<1>2. CASE ~(Len(s) > MaxBackups)
  BY <1>2, SizesAssumption DEF Trimmed
<1>3. QED
  BY <1>1, <1>2

\* What Backup appends is a backup of the file.
LEMMA KeptIsCopy ==
    ASSUME Types, backups \in Seq([hosts : Hosts, filed : SUBSET Id])
    PROVE  /\ Kept \in Seq([hosts : Hosts, filed : SUBSET Id])
           /\ Len(Kept) = Len(backups) + 1
           /\ Kept[Len(Kept)].hosts = file
  BY DEF Kept, Types


\* Every step keeps the types.
LEMMA TypesStep == Types /\ [Next]_vars => Types'
<1> SUFFICES ASSUME Types, [Next]_vars PROVE Types'
  OBVIOUS
<1> USE ValuesAssumption, SizesAssumption DEF vars, mem, disk, saving, quiet,
   Hosts, Steps, Listed, Types
<1>1. ASSUME NEW i \in Id, NEW h \in Host, NEW p \in Password \cup {None},
   AddServer(i, h, p) PROVE Types'
  BY <1>1 DEF AddServer, Edit, Typed
<1>2. ASSUME NEW i \in Id, NEW h \in Host, NEW p \in Password \cup {None},
   ChangeServer(i, h, p) PROVE Types'
  BY <1>2 DEF ChangeServer, Edit, Typed
<1>3. ASSUME NEW i \in Id, DeleteServer(i) PROVE Types'
  BY <1>3 DEF DeleteServer, Edit
<1>4. CASE StartSave
  BY <1>4 DEF StartSave
<1>5. CASE StartUnread
  BY <1>5 DEF StartUnread, OneFailure
<1>6. CASE WriteTmp
  BY <1>6 DEF WriteTmp
<1>7. CASE Backup
  BY <1>7 DEF Backup
<1>8. CASE Rename
  BY <1>8 DEF Rename
<1>9. CASE Done
  BY <1>9 DEF Done, Publish
<1>10. CASE SaveFails
  BY <1>10 DEF SaveFails, Publish, OneFailure, Stranded
<1>11. ASSUME NEW i \in Id, StoreSecret(i) PROVE Types'
  BY <1>11 DEF StoreSecret
<1>12. ASSUME NEW i \in Id, Forget(i) PROVE Types'
  BY <1>12 DEF Forget
<1>13. ASSUME NEW i \in Id, ForgetFails(i) PROVE Types'
  BY <1>13 DEF ForgetFails, OneFailure
<1>14. CASE Restart
  BY <1>14 DEF Restart, Load, OneFailure, Stranded
<1>15. CASE UNCHANGED vars
  BY <1>15
<1> HIDE DEF vars, mem, disk, saving, quiet, Hosts, Steps, Listed, Types
<1>16. QED
  BY <1>1, <1>2, <1>3, <1>4, <1>5, <1>6, <1>7, <1>8, <1>9, <1>10, <1>11, <1>12,
     <1>13, <1>14, <1>15
     DEF Next, Operation

\* No step gives a password to an entry that is not there.
LEMMA OwnedStep == Types /\ Owned /\ [Next]_vars => Owned'
<1> SUFFICES ASSUME Types, Owned, [Next]_vars PROVE Owned'
  OBVIOUS
<1> USE ValuesAssumption, SizesAssumption DEF vars, mem, disk, saving, quiet,
   Hosts, Steps, Listed, Types, Owned
<1>1. ASSUME NEW i \in Id, NEW h \in Host, NEW p \in Password \cup {None},
   AddServer(i, h, p) PROVE Owned'
  BY <1>1 DEF AddServer, Edit, Typed
<1>2. ASSUME NEW i \in Id, NEW h \in Host, NEW p \in Password \cup {None},
   ChangeServer(i, h, p) PROVE Owned'
  BY <1>2 DEF ChangeServer, Edit, Typed
<1>3. ASSUME NEW i \in Id, DeleteServer(i) PROVE Owned'
  BY <1>3 DEF DeleteServer, Edit
<1>4. CASE StartSave
  BY <1>4 DEF StartSave
<1>5. CASE StartUnread
  BY <1>5 DEF StartUnread, OneFailure
<1>6. CASE WriteTmp
  BY <1>6 DEF WriteTmp
<1>7. CASE Backup
  BY <1>7 DEF Backup
<1>8. CASE Rename
  BY <1>8 DEF Rename
<1>9. CASE Done
  BY <1>9 DEF Done, Publish
<1>10. CASE SaveFails
  BY <1>10 DEF SaveFails, Publish, OneFailure, Stranded
<1>11. ASSUME NEW i \in Id, StoreSecret(i) PROVE Owned'
  BY <1>11 DEF StoreSecret
<1>12. ASSUME NEW i \in Id, Forget(i) PROVE Owned'
  BY <1>12 DEF Forget
<1>13. ASSUME NEW i \in Id, ForgetFails(i) PROVE Owned'
  BY <1>13 DEF ForgetFails, OneFailure
<1>14. CASE Restart
  BY <1>14 DEF Restart, Load, OneFailure, Stranded
<1>15. CASE UNCHANGED vars
  BY <1>15
<1> HIDE DEF vars, mem, disk, saving, quiet, Hosts, Steps, Listed, Types, Owned
<1>16. QED
  BY <1>1, <1>2, <1>3, <1>4, <1>5, <1>6, <1>7, <1>8, <1>9, <1>10, <1>11, <1>12,
     <1>13, <1>14, <1>15
     DEF Next, Operation

\* No step of a save passes a password by.
LEMMA StoredStep == Types /\ Owned /\ Stored /\ Unlisted /\ [Next]_vars => Stored'
<1> SUFFICES ASSUME Types, Owned, Stored, Unlisted, [Next]_vars PROVE Stored'
  OBVIOUS
<1> USE ValuesAssumption, SizesAssumption DEF vars, mem, disk, saving, quiet,
   Hosts, Steps, Listed, Types, Owned, Stored, Unlisted
<1>1. ASSUME NEW i \in Id, NEW h \in Host, NEW p \in Password \cup {None},
   AddServer(i, h, p) PROVE Stored'
  BY <1>1 DEF AddServer, Edit, Typed
<1>2. ASSUME NEW i \in Id, NEW h \in Host, NEW p \in Password \cup {None},
   ChangeServer(i, h, p) PROVE Stored'
  BY <1>2 DEF ChangeServer, Edit, Typed
<1>3. ASSUME NEW i \in Id, DeleteServer(i) PROVE Stored'
  BY <1>3 DEF DeleteServer, Edit
<1>4. CASE StartSave
  BY <1>4 DEF StartSave
<1>5. CASE StartUnread
  BY <1>5 DEF StartUnread, OneFailure
<1>6. CASE WriteTmp
  BY <1>6 DEF WriteTmp
<1>7. CASE Backup
  BY <1>7 DEF Backup
<1>8. CASE Rename
  BY <1>8 DEF Rename
<1>9. CASE Done
  BY <1>9 DEF Done, Publish
<1>10. CASE SaveFails
  BY <1>10 DEF SaveFails, Publish, OneFailure, Stranded
<1>11. ASSUME NEW i \in Id, StoreSecret(i) PROVE Stored'
  BY <1>11 DEF StoreSecret
<1>12. ASSUME NEW i \in Id, Forget(i) PROVE Stored'
  BY <1>12 DEF Forget
<1>13. ASSUME NEW i \in Id, ForgetFails(i) PROVE Stored'
  BY <1>13 DEF ForgetFails, OneFailure
<1>14. CASE Restart
  BY <1>14 DEF Restart, Load, OneFailure, Stranded
<1>15. CASE UNCHANGED vars
  BY <1>15
<1> HIDE DEF vars, mem, disk, saving, quiet, Hosts, Steps, Listed, Types, Owned,
   Stored, Unlisted
<1>16. QED
  BY <1>1, <1>2, <1>3, <1>4, <1>5, <1>6, <1>7, <1>8, <1>9, <1>10, <1>11, <1>12,
     <1>13, <1>14, <1>15
     DEF Next, Operation

\* No step lists again what will be forgotten.
LEMMA UnlistedStep == Types /\ Owned /\ Unlisted /\ [Next]_vars => Unlisted'
<1> SUFFICES ASSUME Types, Owned, Unlisted, [Next]_vars PROVE Unlisted'
  OBVIOUS
<1> USE ValuesAssumption, SizesAssumption DEF vars, mem, disk, saving, quiet,
   Hosts, Steps, Listed, Types, Owned, Unlisted
<1>1. ASSUME NEW i \in Id, NEW h \in Host, NEW p \in Password \cup {None},
   AddServer(i, h, p) PROVE Unlisted'
  BY <1>1 DEF AddServer, Edit, Typed
<1>2. ASSUME NEW i \in Id, NEW h \in Host, NEW p \in Password \cup {None},
   ChangeServer(i, h, p) PROVE Unlisted'
  BY <1>2 DEF ChangeServer, Edit, Typed
<1>3. ASSUME NEW i \in Id, DeleteServer(i) PROVE Unlisted'
  BY <1>3 DEF DeleteServer, Edit
<1>4. CASE StartSave
  BY <1>4 DEF StartSave
<1>5. CASE StartUnread
  BY <1>5 DEF StartUnread, OneFailure
<1>6. CASE WriteTmp
  BY <1>6 DEF WriteTmp
<1>7. CASE Backup
  BY <1>7 DEF Backup
<1>8. CASE Rename
  BY <1>8 DEF Rename
<1>9. CASE Done
  BY <1>9 DEF Done, Publish
<1>10. CASE SaveFails
  BY <1>10 DEF SaveFails, Publish, OneFailure, Stranded
<1>11. ASSUME NEW i \in Id, StoreSecret(i) PROVE Unlisted'
  BY <1>11 DEF StoreSecret
<1>12. ASSUME NEW i \in Id, Forget(i) PROVE Unlisted'
  BY <1>12 DEF Forget
<1>13. ASSUME NEW i \in Id, ForgetFails(i) PROVE Unlisted'
  BY <1>13 DEF ForgetFails, OneFailure
<1>14. CASE Restart
  BY <1>14 DEF Restart, Load, OneFailure, Stranded
<1>15. CASE UNCHANGED vars
  BY <1>15
<1> HIDE DEF vars, mem, disk, saving, quiet, Hosts, Steps, Listed, Types, Owned,
   Unlisted
<1>16. QED
  BY <1>1, <1>2, <1>3, <1>4, <1>5, <1>6, <1>7, <1>8, <1>9, <1>10, <1>11, <1>12,
     <1>13, <1>14, <1>15
     DEF Next, Operation

\* No step takes a secret from an entry of the file.
LEMMA FiledStep == Types /\ Stored /\ Unlisted /\ Filed /\ [Next]_vars => Filed'
<1> SUFFICES ASSUME Types, Stored, Unlisted, Filed, [Next]_vars PROVE Filed'
  OBVIOUS
<1> USE ValuesAssumption, SizesAssumption DEF vars, mem, disk, saving, quiet,
   Hosts, Steps, Listed, Types, Stored, Unlisted, Filed
<1>1. ASSUME NEW i \in Id, NEW h \in Host, NEW p \in Password \cup {None},
   AddServer(i, h, p) PROVE Filed'
  BY <1>1 DEF AddServer, Edit, Typed
<1>2. ASSUME NEW i \in Id, NEW h \in Host, NEW p \in Password \cup {None},
   ChangeServer(i, h, p) PROVE Filed'
  BY <1>2 DEF ChangeServer, Edit, Typed
<1>3. ASSUME NEW i \in Id, DeleteServer(i) PROVE Filed'
  BY <1>3 DEF DeleteServer, Edit
<1>4. CASE StartSave
  BY <1>4 DEF StartSave
<1>5. CASE StartUnread
  BY <1>5 DEF StartUnread, OneFailure
<1>6. CASE WriteTmp
  BY <1>6 DEF WriteTmp
<1>7. CASE Backup
  BY <1>7 DEF Backup
<1>8. CASE Rename
  BY <1>8 DEF Rename
<1>9. CASE Done
  BY <1>9 DEF Done, Publish
<1>10. CASE SaveFails
  BY <1>10 DEF SaveFails, Publish, OneFailure, Stranded
<1>11. ASSUME NEW i \in Id, StoreSecret(i) PROVE Filed'
  BY <1>11 DEF StoreSecret
<1>12. ASSUME NEW i \in Id, Forget(i) PROVE Filed'
  BY <1>12 DEF Forget
<1>13. ASSUME NEW i \in Id, ForgetFails(i) PROVE Filed'
  BY <1>13 DEF ForgetFails, OneFailure
<1>14. CASE Restart
  BY <1>14 DEF Restart, Load, OneFailure, Stranded
<1>15. CASE UNCHANGED vars
  BY <1>15
<1> HIDE DEF vars, mem, disk, saving, quiet, Hosts, Steps, Listed, Types, Stored,
   Unlisted, Filed
<1>16. QED
  BY <1>1, <1>2, <1>3, <1>4, <1>5, <1>6, <1>7, <1>8, <1>9, <1>10, <1>11, <1>12,
     <1>13, <1>14, <1>15
     DEF Next, Operation

\* No step leaves a secret behind.
LEMMA ForgottenStep == Types /\ Owned /\ Stored /\ Forgotten /\ [Next]_vars =>
    Forgotten'
<1> SUFFICES ASSUME Types, Owned, Stored, Forgotten, [Next]_vars PROVE Forgotten'
  OBVIOUS
<1> USE ValuesAssumption, SizesAssumption DEF vars, mem, disk, saving, quiet,
   Hosts, Steps, Listed, Types, Owned, Stored, Forgotten
<1>1. ASSUME NEW i \in Id, NEW h \in Host, NEW p \in Password \cup {None},
   AddServer(i, h, p) PROVE Forgotten'
  BY <1>1 DEF AddServer, Edit, Typed
<1>2. ASSUME NEW i \in Id, NEW h \in Host, NEW p \in Password \cup {None},
   ChangeServer(i, h, p) PROVE Forgotten'
  BY <1>2 DEF ChangeServer, Edit, Typed
<1>3. ASSUME NEW i \in Id, DeleteServer(i) PROVE Forgotten'
  BY <1>3 DEF DeleteServer, Edit
<1>4. CASE StartSave
  BY <1>4 DEF StartSave
<1>5. CASE StartUnread
  BY <1>5 DEF StartUnread, OneFailure
<1>6. CASE WriteTmp
  BY <1>6 DEF WriteTmp
<1>7. CASE Backup
  BY <1>7 DEF Backup
<1>8. CASE Rename
  BY <1>8 DEF Rename
<1>9. CASE Done
  BY <1>9 DEF Done, Publish
<1>10. CASE SaveFails
  BY <1>10 DEF SaveFails, Publish, OneFailure, Stranded
<1>11. ASSUME NEW i \in Id, StoreSecret(i) PROVE Forgotten'
  BY <1>11 DEF StoreSecret
<1>12. ASSUME NEW i \in Id, Forget(i) PROVE Forgotten'
  BY <1>12 DEF Forget
<1>13. ASSUME NEW i \in Id, ForgetFails(i) PROVE Forgotten'
  BY <1>13 DEF ForgetFails, OneFailure
<1>14. CASE Restart
  BY <1>14 DEF Restart, Load, OneFailure, Stranded
<1>15. CASE UNCHANGED vars
  BY <1>15
<1> HIDE DEF vars, mem, disk, saving, quiet, Hosts, Steps, Listed, Types, Owned,
   Stored, Forgotten
<1>16. QED
  BY <1>1, <1>2, <1>3, <1>4, <1>5, <1>6, <1>7, <1>8, <1>9, <1>10, <1>11, <1>12,
     <1>13, <1>14, <1>15
     DEF Next, Operation

\* No step takes the newest backup away.
LEMMA CopiesStep == Types /\ Copies /\ [Next]_vars => Copies'
<1> SUFFICES ASSUME Types, Copies, [Next]_vars PROVE Copies'
  OBVIOUS
<1> USE SizesAssumption DEF Copies
<1>1. CASE Backup
  <2>1. CASE exists
    <3>1. backups' = Trimmed(Kept)
      BY <1>1, <2>1 DEF Backup
    <3>2. QED
      BY <1>1, <3>1, KeptIsCopy, TrimmedKeeps DEF Backup, quiet, Types
  <2>2. CASE ~exists
    BY <1>1, <2>2 DEF Backup, quiet
  <2>3. QED
    BY <2>1, <2>2
<1>2. CASE SaveFails
  <2>1. step' = "idle" /\ failures' = failures + 1
    BY <1>2 DEF SaveFails, Publish, OneFailure
  <2>2. backups' = backups \/ backups' = Kept
    BY <1>2 DEF SaveFails
  <2>3. QED
    BY <2>1, <2>2, KeptIsCopy DEF Types
<1>3. CASE ~Backup /\ ~SaveFails
  <2>1. UNCHANGED backups /\ failures' \in {failures, failures + 1}
    BY <1>3 DEF Next, Operation, AddServer, ChangeServer, DeleteServer, Edit,
       StartSave, StartUnread, WriteTmp, Rename, Done, StoreSecret, Forget,
       ForgetFails, Restart, OneFailure, vars, disk, quiet
  <2>2. step' = "rename" => step = "rename" /\ UNCHANGED <<file, exists>>
    BY <1>3 DEF Next, Operation, AddServer, ChangeServer, DeleteServer, Edit,
       StartSave, StartUnread, WriteTmp, Rename, Done, Publish, StoreSecret, Forget,
       ForgetFails, Restart, vars, disk
  <2>3. QED
    BY <2>1, <2>2 DEF Types
<1>4. QED
  BY <1>1, <1>2, <1>3

\* The inductive invariant holds of every reachable state.
THEOREM Inductive == Spec => []IInv
<1>1. Init => IInv
  <2>1. Init => Types
    <3> SUFFICES ASSUME Init PROVE Types
      OBVIOUS
    <3>1. Nothing \in Hosts /\ NoSecret \in [Id -> Password \cup {None}]
      BY DEF Nothing, NoSecret, Hosts
    <3>2. failures \in 0..MaxFailures
      BY SizesAssumption DEF Init
    <3>3. exists \in BOOLEAN /\ reported \in BOOLEAN /\ step \in Steps
      BY DEF Init, Steps
    <3>4. QED
      BY <3>1, <3>2, <3>3 DEF Init, Types
  <2>2. Init => Owned /\ Stored /\ Unlisted
    BY DEF Init, Owned, Stored, Unlisted, Listed, Nothing, NoSecret
  <2>3. Init => Filed /\ Forgotten
    BY DEF Init, Filed, Forgotten, Listed, NoSecret
  <2>4. Init => Copies
    BY SizesAssumption DEF Init, Copies
  <2>5. QED
    BY <2>1, <2>2, <2>3, <2>4 DEF IInv
<1>2. IInv /\ [Next]_vars => IInv'
  BY TypesStep, OwnedStep, StoredStep, UnlistedStep, FiledStep, ForgottenStep,
     CopiesStep
     DEF IInv
<1>3. QED
  BY <1>1, <1>2, PTL DEF Spec

\* A start after a save that was reported done gives back the entries and passwords.
THEOREM ReportedSaved == Spec => []ReportedIsLoaded
<1>1. IInv => ReportedIsLoaded
  BY DEF IInv, Stored, Unlisted, ReportedIsLoaded
<1>2. QED
  BY <1>1, Inductive, PTL

\* No moment of a save and no failure takes the secret of an entry of the file.
THEOREM FiledSecrets == Spec => []FiledHasSecret
<1>1. IInv => FiledHasSecret
  BY DEF IInv, Filed, FiledHasSecret
<1>2. QED
  BY <1>1, Inductive, PTL

\* The type invariant, for any entries, backups and failures.
THEOREM StorageTyping == Spec => []TypeOK
<1>1. IInv => TypeOK
  BY DEF IInv, Types, Copies, TypeOK
<1>2. QED
  BY <1>1, Inductive, PTL

\* A secret outlives its entry only after a failure or a death of the app.
THEOREM SecretsForgotten == Spec => []GoneIsForgotten
<1>1. IInv => GoneIsForgotten
  BY DEF IInv, Forgotten, GoneIsForgotten
<1>2. QED
  BY <1>1, Inductive, PTL

\* The file a save replaces is the newest of the backups, however many are kept.
THEOREM PreviousIsKept == Spec => PreviousKept
<1>1. IInv /\ [Next]_vars =>
         [file' # file /\ exists => backups[Len(backups)].hosts = file]_vars
  <2> SUFFICES ASSUME IInv, [Next]_vars, file' # file, exists
               PROVE  backups[Len(backups)].hosts = file
    OBVIOUS
  <2>1. step = "rename"
    BY DEF Next, Operation, AddServer, ChangeServer, DeleteServer, Edit, StartSave,
       StartUnread, WriteTmp, Backup, Rename, Done, SaveFails, StoreSecret, Forget,
       ForgetFails, Restart, vars, disk
  <2>2. QED
    BY <2>1 DEF IInv, Copies
<1>2. QED
  BY <1>1, Inductive, PTL DEF Spec, PreviousKept

---------------------------------------------------------------------------
(* The web panel (module Panel).                                           *)

\* What FileIsConsistent says of the file, of any copy.
Consistent(s) ==
    /\ \A c \in s.cascades : {Proxy, c.exit} \subseteq s.servers
    /\ \A k \in s.clients : k.cascade \in Ids(s.cascades)
    /\ \A c, d \in s.cascades : c.id = d.id => c = d
    /\ \A c, d \in Managed(s.cascades) : c.port = d.port => c = d

\* Where a request that creates cascades is until they join its copy.
Linking(q) == q.at = "link" \/ (q.at = "save" /\ q.then = "link")
Making(q)  == \/ q.at \in {"scan", "prepare"} \/ (q.at = "save" /\ q.then = "prepare")
              \/ Linking(q)

\* Cascades in the making have their servers in the copy, and share no id and no port
\* with one another or with the copy's cascades.
Apart(q) ==
    /\ \A c \in q.new :
          /\ c.mode = "managed" /\ {Proxy, c.exit} \subseteq q.s.servers
          /\ c.id \notin Ids(q.s.cascades)
          /\ \A d \in q.s.cascades : c.port # d.port
    /\ \A c, d \in q.new : c.id = d.id \/ c.port = d.port => c = d

\* What a request knows, by its step.
Known(q) ==
    /\ q.then \in {"idle", "prepare", "link", "peer"}
    /\ q.at \in {"put", "restart", "store"} => q.then = "idle"
    /\ q.at = "scan" => q.new = {}
    /\ Making(q) => q.todo \subseteq Exit /\ Apart(q)
    /\ Making(q) /\ q.at # "scan" => Proxy \in q.s.servers
    /\ Linking(q) => q.exit \in q.todo /\ q.exit \in q.s.servers

CopiesInv == Consistent(saved) /\ \A r \in Request : Consistent(req[r].s) /\ Known(req[r])

\* Nobody else works while a request is alone; so what it wrote on the proxy is there.
Alone ==
    \A r \in Request : req[r].alone =>
        /\ \A q \in Request \ {r} : req[q].at = "idle"
        /\ req[r].at = "restart" => script = Routes(req[r].s)
        /\ req[r].at = "store"   => script = Routes(req[r].s) /\ rules = script

\* The same managed cascades, as far as routes tell.
SameRoutes(s, t) == RoutesTo(s.cascades, applied) = RoutesTo(t.cascades, applied)

\* Once they agree, every copy that may be saved without an apply lists the same routes.
Agreed ==
    agreed =>
        /\ rules = script /\ script = RoutesTo(saved.cascades, applied)
        /\ \A r \in Request :
              /\ req[r].at \notin {"restart", "store"}
              /\ req[r].at \in {"scan", "prepare", "link", "peer", "save"} =>
                     SameRoutes(req[r].s, saved)

PanelInv == PanelTypeOK /\ CopiesInv /\ Alone /\ Agreed

\* Equal in all that CopiesInv reads.
Same(p, q) == /\ p.at = q.at /\ p.then = q.then /\ p.s = q.s /\ p.todo = q.todo
              /\ p.exit = q.exit /\ p.new = q.new

LEMMA SameIsKnown ==
    ASSUME NEW p \in Req, NEW q \in Req, Same(q, p), Consistent(p.s), Known(p)
    PROVE  Consistent(q.s) /\ Known(q)
  BY DEF Same, Known, Making, Linking, Apart

\* The copies, when one request takes a step.
LEMMA OneMoves ==
    ASSUME CopiesInv, req \in [Request -> Req], req' \in [Request -> Req],
           NEW r \in Request, \A q \in Request \ {r} : Same(req'[q], req[q]),
           Consistent(saved'), Consistent(req'[r].s), Known(req'[r])
    PROVE  CopiesInv'
<1> SUFFICES ASSUME NEW q \in Request PROVE Consistent(req'[q].s) /\ Known(req'[q])
  BY DEF CopiesInv, Consistent, Known, Making, Linking, Apart
<1>1. CASE q = r
  BY <1>1
<1>2. CASE q # r
  <2>1. Consistent(req[q].s) /\ Known(req[q])
    BY DEF CopiesInv
  <2> QED
    BY <1>2, <2>1, SameIsKnown
<1> QED
  BY <1>1, <1>2

\* Who works is not disturbed in being alone.
LEMMA AloneMoves ==
    ASSUME Alone, req \in [Request -> Req], req' \in [Request -> Req],
           NEW r \in Request, req[r].at # "idle",
           \A q \in Request \ {r} : req'[q] = req[q],
           req'[r].alone => req[r].alone,
           req'[r].alone /\ req'[r].at = "restart" => script' = Routes(req'[r].s),
           req'[r].alone /\ req'[r].at = "store" =>
               script' = Routes(req'[r].s) /\ rules' = script'
    PROVE  Alone'
<1> SUFFICES ASSUME NEW q \in Request, req'[q].alone
    PROVE /\ \A p \in Request \ {q} : req'[p].at = "idle"
          /\ req'[q].at = "restart" => script' = Routes(req'[q].s)
          /\ req'[q].at = "store"   => script' = Routes(req'[q].s) /\ rules' = script'
  BY DEF Alone, Routes, RoutesTo, Managed
<1>1. q = r
  BY DEF Alone
<1> QED
  BY <1>1 DEF Alone

\* A step on the way to a save, with nothing done on the proxy.
LEMMA AgreedMoves ==
    ASSUME Agreed, req \in [Request -> Req], req' \in [Request -> Req],
           NEW r \in Request, \A q \in Request \ {r} : Same(req'[q], req[q]),
           UNCHANGED <<saved, script, rules, agreed, applied>>,
           agreed => /\ req'[r].at \notin {"restart", "store"}
                     /\ req'[r].at \in {"scan", "prepare", "link", "peer", "save"} =>
                            SameRoutes(req'[r].s, saved)
    PROVE  Agreed'
<1> SUFFICES ASSUME agreed, NEW q \in Request
    PROVE /\ req'[q].at \notin {"restart", "store"}
          /\ req'[q].at \in {"scan", "prepare", "link", "peer", "save"} =>
                 SameRoutes(req'[q].s, saved)
  BY DEF Agreed, SameRoutes, RoutesTo, Managed
<1>1. CASE q = r
  BY <1>1
<1>2. CASE q # r
  BY <1>2 DEF Agreed, Same, SameRoutes
<1> QED
  BY <1>1, <1>2

\* What Begin does.
LEMMA BeginDoes ==
    ASSUME PanelTypeOK, NEW r \in Request, NEW at \in Points, NEW s \in State,
           NEW rest \in SUBSET (Exit \cup CascadeId), Begin(r, at, s, rest)
    PROVE  /\ PanelTypeOK'
           /\ req'[r].at = at /\ req'[r].then = "idle" /\ req'[r].s = s
           /\ req'[r].todo = rest /\ req'[r].new = {}
           /\ req'[r].alone => \A q \in Request : req[q].at = "idle"
           /\ \A q \in Request \ {r} :
                 req'[q] \in Req /\ Same(req'[q], req[q]) /\ ~req'[q].alone
<1> DEFINE mine == [Idle EXCEPT !.at = at, !.s = s, !.todo = rest,
                                !.alone = (Active = {})]
<1>1. /\ mine.at = at /\ mine.then = "idle" /\ mine.s = s /\ mine.todo = rest
      /\ mine.new = {} /\ mine.exit = Proxy
      /\ mine.alone = (Active = {})
  BY DEF Idle
<1>2. mine \in Req
  BY PanelAssumption DEF Idle, Req, Points
<1>3. ASSUME NEW q \in Request
      PROVE /\ [req[q] EXCEPT !.alone = FALSE] \in Req
            /\ Same([req[q] EXCEPT !.alone = FALSE], req[q])
            /\ ~[req[q] EXCEPT !.alone = FALSE].alone
  BY DEF PanelTypeOK, Req, Same
<1>4. req' = [q \in Request |-> IF q = r THEN mine ELSE [req[q] EXCEPT !.alone = FALSE]]
  BY DEF Begin
<1> HIDE DEF mine
<1>5. req'[r] = mine /\ \A q \in Request \ {r} : req'[q] = [req[q] EXCEPT !.alone = FALSE]
  BY <1>4
<1>6. req' \in [Request -> Req]
  BY <1>2, <1>3, <1>4
<1>7. begun' \in 0..MaxRequests
  <2>1. begun \in 0..MaxRequests /\ begun < MaxRequests /\ begun' = begun + 1
    BY DEF Begin, PanelTypeOK
  <2> QED
    BY <2>1, PanelAssumption
<1>8. PanelTypeOK'
  BY <1>6, <1>7 DEF Begin, PanelTypeOK
<1>9. req'[r].alone => \A q \in Request : req[q].at = "idle"
  BY <1>1, <1>5 DEF Active
<1> QED
  BY <1>1, <1>3, <1>5, <1>8, <1>9

\* A request begins with a consistent copy, and with the file's routes in it unless its
\* first step is an apply.
Begins(r) ==
    \E at \in {"scan", "peer", "put", "save"}, s \in State, rest \in SUBSET (Exit \cup CascadeId) :
        /\ Begin(r, at, s, rest) /\ Consistent(s)
        /\ at = "scan" => rest \subseteq Exit
        /\ at = "put" \/ SameRoutes(s, saved)

LEMMA BeginKeeps ==
    ASSUME PanelInv, NEW r \in Request, Begins(r)
    PROVE  PanelInv'
<1> PICK at \in {"scan", "peer", "put", "save"}, s \in State, rest \in SUBSET (Exit \cup CascadeId) :
        /\ Begin(r, at, s, rest) /\ Consistent(s)
        /\ at = "scan" => rest \subseteq Exit
        /\ at = "put" \/ SameRoutes(s, saved)
  BY DEF Begins
<1>1. /\ PanelTypeOK'
      /\ req'[r].at = at /\ req'[r].then = "idle" /\ req'[r].s = s
      /\ req'[r].todo = rest /\ req'[r].new = {}
      /\ req'[r].alone => \A q \in Request : req[q].at = "idle"
      /\ \A q \in Request \ {r} :
            req'[q] \in Req /\ Same(req'[q], req[q]) /\ ~req'[q].alone
  BY BeginDoes DEF PanelInv, Points
<1>2. req \in [Request -> Req] /\ req' \in [Request -> Req]
  BY <1>1 DEF PanelInv, PanelTypeOK
<1>3. UNCHANGED <<saved, script, rules, agreed, applied>>
  BY DEF Begin
<1>4. CopiesInv'
  <2>1. Known(req'[r])
    BY <1>1 DEF Known, Making, Linking, Apart
  <2>2. Consistent(saved')
    BY <1>3 DEF PanelInv, CopiesInv
  <2> QED
    BY <1>1, <1>2, <2>1, <2>2, OneMoves DEF PanelInv
<1>5. Alone'
  BY <1>1 DEF Alone, Same
<1>6. Agreed'
  BY <1>1, <1>2, <1>3, AgreedMoves DEF PanelInv
<1> QED
  BY <1>1, <1>4, <1>5, <1>6 DEF PanelInv

\* A fresh id, key or name is in no copy.
LEMMA IdIsFresh ==
    ASSUME NEW i \in FreshIds, NEW r \in Request
    PROVE  /\ i \in CascadeId /\ i \notin Ids(saved.cascades)
           /\ i \notin Ids(req[r].s.cascades) /\ i \notin Ids(req[r].new)
<1> DEFINE A == {Ids(s.cascades) : s \in InUse}
           B == {Ids(req[q].new) \cup req[q].todo : q \in Request}
<1>1. i \in CascadeId /\ i \notin UNION (A \cup B)
  BY DEF FreshIds
<1>2. Ids(saved.cascades) \in A /\ Ids(req[r].s.cascades) \in A
  BY DEF InUse
<1>3. Ids(req[r].new) \cup req[r].todo \in B
  OBVIOUS
<1> HIDE DEF A, B
<1> QED
  BY <1>1, <1>2, <1>3

\* What is learnt of an exit is not in the lists.
LEMMA AtFacts ==
    ASSUME NEW s \in State, NEW x \in Server
    PROVE  /\ \A l \in Listen \cup {NoAwg} : LET t == WithAwg(s, x, l) IN
              /\ t \in State /\ t.servers = s.servers
              /\ t.cascades = s.cascades /\ t.clients = s.clients
           /\ \A h \in Address : LET t == WithHost(s, x, h) IN
              /\ t \in State /\ t.servers = s.servers
              /\ t.cascades = s.cascades /\ t.clients = s.clients
<1> DEFINE A(l) == [e \in Exit |-> IF e = x THEN [host |-> s.at[e].host, listen |-> l]
                                            ELSE s.at[e]]
           H(h) == [e \in Exit |-> IF e = x THEN [host |-> h, listen |-> NoAwg]
                                            ELSE s.at[e]]
<1>1. \A l \in Listen \cup {NoAwg} : A(l) \in [Exit -> Target]
  BY DEF State, Target
<1>2. \A h \in Address : H(h) \in [Exit -> Target]
  BY DEF State, Target
<1>3. /\ \A l : WithAwg(s, x, l) = [s EXCEPT !.at = A(l)]
      /\ \A h : WithHost(s, x, h) = [s EXCEPT !.at = H(h)]
  BY DEF WithAwg, WithHost
<1> HIDE DEF A, H
<1>4. QED
  BY <1>1, <1>2, <1>3 DEF State

\* A copy with the same lists is as consistent, and has the same routes.
LEMMA SameLists ==
    ASSUME NEW s, NEW t, t.servers = s.servers, t.cascades = s.cascades,
           t.clients = s.clients
    PROVE  (Consistent(s) => Consistent(t)) /\ SameRoutes(t, s)
  BY DEF Consistent, SameRoutes

\* Every request begins with such a copy.
LEMMA StartsBegin ==
    ASSUME PanelInv, NEW r \in Request, Start(r)
    PROVE  Begins(r)
<1> DEFINE Good(s) == Consistent(s) /\ s \in State /\ SameRoutes(s, saved)
<1>0. Good(saved) /\ PanelTypeOK /\ saved \in State
  BY DEF PanelInv, CopiesInv, PanelTypeOK, SameRoutes
<1>1. ASSUME NEW s, Good(s), Begin(r, "save", s, {}) PROVE Begins(r)
  BY <1>1 DEF Begins
<1>2. CASE UpsertServer(r)
  <2>1. ASSUME NEW x \in FreshNames, NEW h \in Address,
               Begin(r, "save", [WithHost(saved, x, h) EXCEPT !.servers = @ \cup {x}], {})
        PROVE  Begins(r)
    <3> DEFINE w == WithHost(saved, x, h)
               t == [w EXCEPT !.servers = @ \cup {x}]
    <3>1. /\ x \in Server /\ w \in State /\ w.servers = saved.servers
          /\ w.cascades = saved.cascades /\ w.clients = saved.clients
      BY <1>0, AtFacts DEF FreshNames
    <3> HIDE DEF w
    <3>2. /\ t \in State /\ t.servers = saved.servers \cup {x}
          /\ t.cascades = saved.cascades /\ t.clients = saved.clients
      BY <3>1 DEF State
    <3> HIDE DEF t
    <3>3. Good(t)
      BY <1>0, <3>2 DEF Consistent, SameRoutes
    <3>4. Begin(r, "save", t, {})
      BY <2>1 DEF t, w
    <3>5. QED
      BY <1>1, <3>3, <3>4
  <2>2. ASSUME NEW x \in saved.servers \ {Proxy}, NEW h \in Address,
               Begin(r, "save", WithHost(saved, x, h), {})
        PROVE  Begins(r)
    <3>1. Good(WithHost(saved, x, h))
      BY <1>0, AtFacts, SameLists DEF State
    <3>2. QED
      BY <1>1, <2>2, <3>1
  <2>3. CASE Begin(r, "save", saved, {})
    BY <1>0, <1>1, <2>3
  <2>4. QED
    BY <1>2, <2>1, <2>2, <2>3 DEF UpsertServer
<1>3. CASE ScanServer(r)
  <2> PICK x \in saved.servers, l \in Listen \cup {NoAwg} :
          Begin(r, "save", WithAwg(saved, x, l), {})
    BY <1>3 DEF ScanServer
  <2>1. Good(WithAwg(saved, x, l))
    BY <1>0, AtFacts, SameLists DEF State
  <2>2. QED
    BY <1>1, <2>1
<1>10. CASE RefreshTraffic(r)
  BY <1>0, <1>1, <1>10 DEF RefreshTraffic
<1>4. ASSUME NEW x \in Server, RemoveServer(r, x) PROVE Begins(r)
  <2>1. Good([saved EXCEPT !.servers = @ \ {x}])
    BY <1>0, <1>4 DEF RemoveServer, Consistent, State, SameRoutes
  <2> QED
    BY <1>1, <1>4, <2>1 DEF RemoveServer
<1>5. ASSUME NEW x \in Exit, NEW p \in Port, Adopt(r, x, p) PROVE Begins(r)
  <2> PICK i \in FreshIds :
        LET c == [id |-> i, exit |-> x, port |-> p, mode |-> "external"] IN
        Begin(r, "save", [saved EXCEPT !.cascades = @ \cup {c}], {})
    BY <1>5 DEF Adopt
  <2> DEFINE c == [id |-> i, exit |-> x, port |-> p, mode |-> "external"]
             s == [saved EXCEPT !.cascades = @ \cup {c}]
  <2>1. /\ s.servers = saved.servers /\ s.clients = saved.clients
        /\ s.cascades = saved.cascades \cup {c} /\ s \in State
    BY <1>0, IdIsFresh DEF PanelTypeOK, State, Cascade
  <2>2. c.id = i /\ c.exit = x /\ c.mode = "external"
    OBVIOUS
  <2> HIDE DEF c, s
  <2>3. Managed(s.cascades) = Managed(saved.cascades)
    BY <2>1, <2>2 DEF Managed
  <2>4. i \notin Ids(saved.cascades)
    BY IdIsFresh
  <2>5. Consistent(s)
    BY <1>0, <1>5, <2>1, <2>2, <2>3, <2>4 DEF Consistent, Ids, Adopt
  <2> QED
    BY <1>1, <2>1, <2>3, <2>5 DEF s, c, SameRoutes, RoutesTo
<1>6. ASSUME NEW c \in saved.cascades, DeleteCascade(r, c) PROVE Begins(r)
  <2> DEFINE s == [saved EXCEPT !.cascades = @ \ {c},
                                !.clients = {k \in @ : k.cascade # c.id}]
  <2>1. /\ s.servers = saved.servers /\ s.cascades = saved.cascades \ {c}
        /\ s.clients = {k \in saved.clients : k.cascade # c.id} /\ s \in State
    BY <1>0 DEF PanelTypeOK, State
  <2>2. Begin(r, IF c.mode = "managed" THEN "put" ELSE "save", s, {})
    BY <1>6 DEF DeleteCascade
  <2> HIDE DEF s
  <2>3. Consistent(s)
    BY <1>0, <2>1 DEF Consistent, Ids, Managed
  <2>4. c.mode # "managed" => SameRoutes(s, saved)
    <3> SUFFICES ASSUME c.mode # "managed" PROVE SameRoutes(s, saved)
      OBVIOUS
    <3>1. Managed(s.cascades) = Managed(saved.cascades)
      BY <2>1 DEF Managed
    <3> QED
      BY <3>1 DEF SameRoutes, RoutesTo
  <2> QED
    BY <2>1, <2>2, <2>3, <2>4 DEF Begins
<1>7. ASSUME NEW k \in saved.clients, DeleteClient(r, k) PROVE Begins(r)
  <2>1. Good([saved EXCEPT !.clients = @ \ {k}])
    BY <1>0 DEF Consistent, State, SameRoutes
  <2> QED
    BY <1>1, <1>7, <2>1 DEF DeleteClient
<1>8. ASSUME NEW ids \in SUBSET CascadeId, CreateClients(r, ids) PROVE Begins(r)
  BY <1>0, <1>8 DEF CreateClients, Begins
<1>9. ASSUME NEW exits \in SUBSET Exit, CreateCascades(r, exits) PROVE Begins(r)
  BY <1>0, <1>9 DEF CreateCascades, Begins
<1> QED
  BY <1>2, <1>3, <1>4, <1>5, <1>6, <1>7, <1>8, <1>9, <1>10 DEF Start

\* A step that leaves the file and the proxy alone and starts no apply.
LEMMA QuietKeeps ==
    ASSUME PanelInv, NEW r \in Request, NEW n \in Req, req' = [req EXCEPT ![r] = n],
           UNCHANGED <<saved, script, rules, agreed, applied, begun>>,
           req[r].at # "idle", Consistent(n.s), Known(n), n.alone => req[r].alone,
           n.at \notin {"restart", "store"},
           n.at \in {"scan", "prepare", "link", "peer", "save"} =>
               /\ req[r].at \in {"scan", "prepare", "link", "peer", "save"}
               /\ n.s.cascades = req[r].s.cascades
    PROVE  PanelInv'
<1>1. req \in [Request -> Req] /\ req' \in [Request -> Req]
  BY DEF PanelInv, PanelTypeOK
<1>2. req'[r] = n /\ \A q \in Request \ {r} : req'[q] = req[q]
  BY <1>1
<1>3. \A q \in Request \ {r} : Same(req'[q], req[q])
  BY <1>2 DEF Same
<1>4. PanelTypeOK'
  BY <1>1 DEF PanelInv, PanelTypeOK
<1>5. CopiesInv'
  <2>1. Consistent(saved')
    BY DEF PanelInv, CopiesInv
  <2> QED
    BY <1>1, <1>2, <1>3, <2>1, OneMoves DEF PanelInv
<1>6. Alone'
  BY <1>1, <1>2, AloneMoves DEF PanelInv
<1>7. Agreed'
  <2>1. agreed /\ n.at \in {"scan", "prepare", "link", "peer", "save"} =>
            SameRoutes(n.s, saved)
    BY DEF PanelInv, Agreed, SameRoutes
  <2> QED
    BY <1>1, <1>2, <1>3, <2>1, AgreedMoves DEF PanelInv
<1> QED
  BY <1>4, <1>5, <1>6, <1>7 DEF PanelInv

LEMMA NowhereType == Nowhere \in [Exit -> Target]
<1>1. (CHOOSE h \in Address : TRUE) \in Address
  BY PanelAssumption
<1>2. QED
  BY <1>1 DEF Nowhere, Target

LEMMA IdleIsKnown == Idle \in Req /\ Consistent(Idle.s) /\ Known(Idle) /\ ~Idle.alone
                     /\ Idle.at = "idle"
<1>1. Idle \in Req
  BY NowhereType, PanelAssumption DEF Idle, Req, Points, Empty, State
<1> QED
  BY <1>1 DEF Idle, Empty, Consistent, Known, Making, Linking, Managed

\* An answer without a save.
LEMMA AnswerKeeps ==
    ASSUME PanelInv, NEW r \in Request, Answer(r), req[r].at # "idle",
           UNCHANGED <<saved, script, rules, agreed, applied, begun>>
    PROVE  PanelInv'
  BY IdleIsKnown, QuietKeeps DEF Answer

\* What the record of a request holds.
LEMMA ReqIs ==
    ASSUME PanelInv, NEW r \in Request
    PROVE  req[r] \in Req /\ Consistent(req[r].s) /\ Known(req[r])
  BY DEF PanelInv, PanelTypeOK, CopiesInv

LEMMA AddPeerKeeps ==
    ASSUME PanelInv, NEW r \in Request, NEW i \in CascadeId, AddPeer(r, i)
    PROVE  PanelInv'
<1>0. req[r].at = "peer" /\ UNCHANGED <<saved, script, rules, agreed, applied, begun>>
  BY DEF AddPeer
<1>1. CASE i \notin Ids(req[r].s.cascades)
  BY <1>0, <1>1, AnswerKeeps DEF AddPeer
<1>2. CASE i \in Ids(req[r].s.cascades)
  <2> PICK c \in req[r].s.cascades, l \in Listen, k \in FreshKeys :
        /\ c.id = i
        /\ req' = [req EXCEPT ![r].s = WithClient(WithAwg(@, c.exit, l), k, i),
                              ![r].todo = @ \ {i}, ![r].at = "save",
                              ![r].then = IF req[r].todo = {i} THEN "idle" ELSE "peer"]
    BY <1>2, Zenon DEF AddPeer
  <2> DEFINE w == WithAwg(req[r].s, c.exit, l)
             t == WithClient(w, k, i)
             n == [req[r] EXCEPT !.s = t, !.todo = @ \ {i}, !.at = "save",
                                 !.then = IF req[r].todo = {i} THEN "idle" ELSE "peer"]
  <2>1. req' = [req EXCEPT ![r] = n]
    BY DEF PanelInv, PanelTypeOK, Req
  <2>5. /\ w \in State /\ w.servers = req[r].s.servers
        /\ w.cascades = req[r].s.cascades /\ w.clients = req[r].s.clients
    <3>1. req[r].s \in State /\ c.exit \in Server
      BY ReqIs DEF Req, State, Cascade, Exit
    <3>2. QED
      BY <3>1, AtFacts
  <2> HIDE DEF w
  <2>6. /\ t \in State /\ t.servers = req[r].s.servers /\ t.cascades = req[r].s.cascades
        /\ t.clients = req[r].s.clients \cup {[key |-> k, cascade |-> i]}
    BY <2>5 DEF State, Client, FreshKeys, WithClient
  <2> HIDE DEF t
  <2>2. t \in State /\ t.cascades = req[r].s.cascades /\ Consistent(t)
    BY <1>2, <2>6, ReqIs DEF Consistent
  <2>3. /\ n \in Req /\ n.s = t /\ n.at = "save" /\ n.then \in {"idle", "peer"}
        /\ n.alone = req[r].alone
    BY ReqIs, <2>2 DEF Req, Points
  <2> HIDE DEF n, t
  <2>4. Known(n)
    BY <2>3 DEF Known, Making, Linking
  <2> QED
    BY <1>0, <2>1, <2>2, <2>3, <2>4, QuietKeeps
<1> QED
  BY <1>1, <1>2

LEMMA ScanProxyKeeps ==
    ASSUME PanelInv, NEW r \in Request, ScanProxy(r)
    PROVE  PanelInv'
<1>0. req[r].at = "scan" /\ UNCHANGED <<saved, script, rules, agreed, applied, begun>>
  BY DEF ScanProxy
<1>1. CASE Proxy \notin req[r].s.servers
  BY <1>0, <1>1, AnswerKeeps DEF ScanProxy
<1>2. CASE Proxy \in req[r].s.servers
  <2> DEFINE n == [req[r] EXCEPT !.at = "save", !.then = "prepare"]
  <2>1. req' = [req EXCEPT ![r] = n]
    BY <1>2 DEF ScanProxy, SaveThen, PanelInv, PanelTypeOK
  <2>2. /\ n \in Req /\ n.s = req[r].s /\ n.at = "save" /\ n.then = "prepare"
        /\ n.alone = req[r].alone /\ n.todo = req[r].todo /\ n.new = req[r].new
    BY ReqIs DEF Req, Points
  <2> HIDE DEF n
  <2>3. Known(n)
    BY <1>0, <1>2, <2>2, ReqIs DEF Known, Making, Linking, Apart
  <2> QED
    BY <1>0, <2>1, <2>2, <2>3, ReqIs, QuietKeeps
<1> QED
  BY <1>1, <1>2

LEMMA PrepareKeeps ==
    ASSUME PanelInv, NEW r \in Request, NEW x \in Exit, NEW l \in Listen, Prepare(r, x, l)
    PROVE  PanelInv'
<1>0. /\ req[r].at = "prepare" /\ x \in req[r].todo
      /\ UNCHANGED <<saved, script, rules, agreed, applied, begun>>
  BY DEF Prepare
<1>1. CASE x \notin req[r].s.servers
  BY <1>0, <1>1, AnswerKeeps DEF Prepare
<1>2. CASE x \in req[r].s.servers
  <2> DEFINE t == WithAwg(req[r].s, x, l)
             n == [req[r] EXCEPT !.at = "save", !.then = "link", !.exit = x, !.s = t]
  <2>1. req' = [req EXCEPT ![r] = n]
    BY <1>2 DEF Prepare, PanelInv, PanelTypeOK
  <2>5. /\ t \in State /\ t.servers = req[r].s.servers
        /\ t.cascades = req[r].s.cascades /\ t.clients = req[r].s.clients
    BY ReqIs, AtFacts DEF Req, Exit
  <2> HIDE DEF t
  <2>2. /\ n \in Req /\ n.s = t /\ n.at = "save" /\ n.then = "link" /\ n.exit = x
        /\ n.alone = req[r].alone /\ n.todo = req[r].todo /\ n.new = req[r].new
    BY ReqIs, <2>5 DEF Req, Points, Exit
  <2> HIDE DEF n
  <2>3. Known(n)
    BY <1>0, <1>2, <2>2, <2>5, ReqIs DEF Known, Making, Linking, Apart
  <2>4. Consistent(n.s) /\ n.s.cascades = req[r].s.cascades
    BY <2>2, <2>5, SameLists, ReqIs
  <2> QED
    BY <1>0, <2>1, <2>2, <2>3, <2>4, QuietKeeps
<1> QED
  BY <1>1, <1>2

\* A new cascade shares nothing with the others.
LEMMA AcceptKeeps ==
    ASSUME PanelInv, NEW r \in Request, Accept(r)
    PROVE  PanelInv'
<1>0. req[r].at = "link" /\ UNCHANGED <<saved, script, rules, agreed, applied, begun>>
  BY DEF Accept
<1> PICK new \in NewCascades(r), rest \in {req[r].todo, req[r].todo \ {req[r].exit}} :
        req' = [req EXCEPT ![r].todo = rest, ![r].new = @ \cup new, ![r].at = "prepare"]
  BY DEF Accept
<1> DEFINE m == req[r]
           n == [m EXCEPT !.todo = rest, !.new = @ \cup new, !.at = "prepare"]
<1>1. req' = [req EXCEPT ![r] = n]
  <2>1. req \in [Request -> Req] /\ req[r] \in Req
    BY DEF PanelInv, PanelTypeOK
  <2> QED
    BY <2>1 DEF Req
<1>2. /\ m \in Req /\ Consistent(m.s) /\ Apart(m) /\ m.todo \subseteq Exit
      /\ m.exit \in m.todo /\ m.exit \in m.s.servers /\ Proxy \in m.s.servers
      /\ m.then \in {"idle", "prepare", "link", "peer"}
  BY <1>0, ReqIs DEF Known, Making, Linking
\* What is new.
<1>3. /\ new \subseteq Cascade
      /\ \A c, d \in new : c = d
      /\ \A c \in new : /\ c.mode = "managed" /\ c.exit = m.exit /\ ~Linked(r)
                        /\ c.id \in FreshIds /\ c.port \notin Taken(r)
  <2>1. CASE Linked(r)
    BY <2>1 DEF NewCascades
  <2>2. CASE ~Linked(r)
    <3> PICK i \in FreshIds, p \in Port \ Taken(r) :
          new = {[id |-> i, exit |-> m.exit, port |-> p, mode |-> "managed"]}
      BY <2>2 DEF NewCascades
    <3>1. i \in CascadeId /\ m.exit \in Exit
      BY <1>2, IdIsFresh
    <3>2. [id |-> i, exit |-> m.exit, port |-> p, mode |-> "managed"] \in Cascade
      BY <3>1 DEF Cascade
    <3> QED
      BY <2>2, <3>2
  <2> QED
    BY <2>1, <2>2
<1>9. rest \subseteq m.todo
  OBVIOUS
<1>4. /\ n \in Req /\ n.s = m.s /\ n.at = "prepare" /\ n.then = m.then /\ n.exit = m.exit
      /\ n.alone = m.alone /\ n.todo = rest /\ rest \subseteq m.todo /\ n.new = m.new \cup new
  <2> HIDE DEF m
  <2>1. rest \in SUBSET (Exit \cup CascadeId) /\ m.new \cup new \in SUBSET Cascade
    BY <1>2, <1>3, <1>9 DEF Req
  <2> QED
    BY <1>2, <1>9, <2>1 DEF Req, Points
<1> HIDE DEF n
<1>5. \A c \in new :
        /\ c.mode = "managed" /\ {Proxy, c.exit} \subseteq m.s.servers
        /\ c.id \notin Ids(m.s.cascades) /\ c.id \notin Ids(m.new)
        /\ \A d \in m.s.cascades \cup m.new : c.port # d.port
  BY <1>2, <1>3, <1>4, IdIsFresh DEF Taken, Linked
<1> HIDE DEF m
<1>7. Apart(n)
  <2>1. ASSUME NEW c \in m.new \cup new
        PROVE /\ c.mode = "managed" /\ {Proxy, c.exit} \subseteq m.s.servers
              /\ c.id \notin Ids(m.s.cascades)
              /\ \A d \in m.s.cascades : c.port # d.port
    BY <1>2, <1>4, <1>5 DEF Apart
  <2>2. ASSUME NEW c \in m.new, NEW d \in new
        PROVE c.id # d.id /\ c.port # d.port
    BY <1>3, <1>5 DEF Ids
  <2>3. ASSUME NEW c \in m.new \cup new, NEW d \in m.new \cup new,
               c.id = d.id \/ c.port = d.port
        PROVE c = d
    <3>1. CASE c \in m.new /\ d \in m.new
      BY <1>2, <2>3, <3>1 DEF Apart
    <3>2. CASE c \in new /\ d \in new
      BY <1>3, <3>2
    <3>3. CASE (c \in m.new /\ d \in new) \/ (c \in new /\ d \in m.new)
      BY <2>2, <2>3, <3>3
    <3> QED
      BY <3>1, <3>2, <3>3
  <2> QED
    BY <1>4, <2>1, <2>3 DEF Apart
<1>8. Known(n)
  BY <1>2, <1>4, <1>7 DEF Known, Making, Linking
<1> QED
  BY <1>0, <1>1, <1>2, <1>4, <1>8, QuietKeeps DEF m

LEMMA JoinKeeps ==
    ASSUME PanelInv, NEW r \in Request, Join(r)
    PROVE  PanelInv'
<1> DEFINE m == req[r]
<1>0. m.at = "prepare" /\ UNCHANGED <<saved, script, rules, agreed, applied, begun>>
  BY DEF Join
<1>1. CASE m.new = {}
  BY <1>0, <1>1, AnswerKeeps DEF Join
<1>2. CASE m.new # {}
  <2> DEFINE t == [m.s EXCEPT !.cascades = @ \cup m.new]
             n == [m EXCEPT !.s = t, !.at = "put", !.then = "idle"]
  <2>1. req' = [req EXCEPT ![r] = n]
    BY <1>2 DEF Join, PanelInv, PanelTypeOK
  <2>2. m \in Req /\ Consistent(m.s) /\ Apart(m)
    BY <1>0, ReqIs DEF Known, Making
  <2>3. /\ t \in State /\ t.servers = m.s.servers /\ t.clients = m.s.clients
        /\ t.cascades = m.s.cascades \cup m.new
    BY <2>2 DEF Req, State
  <2>4. n \in Req /\ n.s = t /\ n.at = "put" /\ n.then = "idle" /\ n.alone = m.alone
    BY <2>2, <2>3 DEF Req, Points
  <2> HIDE DEF m, n, t
  <2>5. Managed(t.cascades) = Managed(m.s.cascades) \cup m.new
    BY <2>2, <2>3 DEF Managed, Apart
  <2>6. Consistent(t)
    <3>1. ASSUME NEW c \in t.cascades PROVE {Proxy, c.exit} \subseteq t.servers
      BY <2>2, <2>3 DEF Consistent, Apart
    <3>2. ASSUME NEW k \in t.clients PROVE k.cascade \in Ids(t.cascades)
      BY <2>2, <2>3 DEF Consistent, Ids
    <3>3. ASSUME NEW c \in t.cascades, NEW d \in t.cascades, c.id = d.id PROVE c = d
      BY <2>2, <2>3, <3>3 DEF Consistent, Apart, Ids
    <3>4. ASSUME NEW c \in Managed(t.cascades), NEW d \in Managed(t.cascades),
                 c.port = d.port
          PROVE c = d
      <4>1. CASE c \in Managed(m.s.cascades) /\ d \in Managed(m.s.cascades)
        BY <2>2, <3>4, <4>1 DEF Consistent
      <4>2. CASE c \in m.new /\ d \in m.new
        BY <2>2, <3>4, <4>2 DEF Apart
      <4>3. CASE \/ c \in m.new /\ d \in Managed(m.s.cascades)
                 \/ d \in m.new /\ c \in Managed(m.s.cascades)
        BY <2>2, <3>4, <4>3 DEF Apart, Managed
      <4> QED
        BY <2>5, <4>1, <4>2, <4>3
    <3> QED
      BY <3>1, <3>2, <3>3, <3>4 DEF Consistent
  <2>7. Known(n)
    BY <2>4 DEF Known, Making, Linking
  <2>8. n.alone => req[r].alone
    BY <2>4 DEF m
  <2> QED
    BY <1>0, <2>1, <2>4, <2>6, <2>7, <2>8, QuietKeeps DEF m
<1> QED
  BY <1>1, <1>2

\* A step of an apply or a save: what it changes besides the request is known.
LEMMA WorkKeeps ==
    ASSUME PanelInv, NEW r \in Request, NEW n \in Req, req' = [req EXCEPT ![r] = n],
           req[r].at # "idle", begun' = begun, agreed' \in BOOLEAN,
           applied' \in [Exit -> Target],
           saved' \in State, Consistent(saved'), script' \subseteq Route, rules' \subseteq Route,
           Consistent(n.s), Known(n), n.alone => req[r].alone,
           n.alone /\ n.at = "restart" => script' = Routes(n.s),
           n.alone /\ n.at = "store" => script' = Routes(n.s) /\ rules' = script',
           Agreed'
    PROVE  PanelInv'
<1>1. req \in [Request -> Req] /\ req' \in [Request -> Req]
  BY DEF PanelInv, PanelTypeOK
<1>2. req'[r] = n /\ \A q \in Request \ {r} : req'[q] = req[q]
  BY <1>1
<1>3. \A q \in Request \ {r} : Same(req'[q], req[q])
  BY <1>2 DEF Same
<1>4. PanelTypeOK'
  BY <1>1 DEF PanelInv, PanelTypeOK
<1>5. CopiesInv'
  BY <1>1, <1>2, <1>3, OneMoves DEF PanelInv
<1>6. Alone'
  BY <1>1, <1>2, AloneMoves DEF PanelInv
<1> QED
  BY <1>4, <1>5, <1>6 DEF PanelInv

\* A request that only goes on.
LEMMA GoIs ==
    ASSUME PanelInv, NEW r \in Request, NEW at \in Points, Go(r, at)
    PROVE  \E n \in Req :
              /\ req' = [req EXCEPT ![r] = n] /\ n.at = at /\ n.then = req[r].then
              /\ n.s = req[r].s /\ n.todo = req[r].todo /\ n.exit = req[r].exit
              /\ n.new = req[r].new /\ n.alone = req[r].alone
<1> DEFINE n == [req[r] EXCEPT !.at = at]
<1>1. req' = [req EXCEPT ![r] = n]
  BY DEF Go, PanelInv, PanelTypeOK
<1>2. /\ n \in Req /\ n.at = at /\ n.then = req[r].then
      /\ n.s = req[r].s /\ n.todo = req[r].todo /\ n.exit = req[r].exit
      /\ n.new = req[r].new /\ n.alone = req[r].alone
  BY ReqIs DEF Req
<1> HIDE DEF n
<1> QED
  BY <1>1, <1>2

LEMMA RoutesType == ASSUME NEW s \in State PROVE Routes(s) \subseteq Route
  BY DEF State, Cascade, Routes, RoutesTo, Managed, Route

\* What an apply has written is what the exits in use are noted to be at.
LEMMA InUseRoutes ==
    ASSUME NEW s \in State
    PROVE  InUseAt(s) \in [Exit -> Target] /\ RoutesTo(s.cascades, InUseAt(s)) = Routes(s)
<1>1. Nowhere \in [Exit -> Target]
  BY NowhereType
<1>2. InUseAt(s) \in [Exit -> Target]
  BY <1>1 DEF InUseAt, State
<1>3. \A c \in Managed(s.cascades) : InUseAt(s)[c.exit] = s.at[c.exit]
  BY DEF InUseAt, Managed, State, Cascade
<1>4. QED
  BY <1>2, <1>3 DEF RoutesTo, Routes

\* Without agreement there is nothing to show.
LEMMA PutScriptKeeps ==
    ASSUME PanelInv, NEW r \in Request, PutScript(r)
    PROVE  PanelInv'
<1>0. /\ req[r].at = "put" /\ script' = Routes(req[r].s) /\ agreed' = FALSE
      /\ UNCHANGED <<saved, rules, applied, begun>>
  BY DEF PutScript
<1>1. Agreed'
  BY <1>0 DEF Agreed
<1>2. req[r] \in Req /\ Consistent(req[r].s) /\ Known(req[r])
  BY ReqIs
<1> PICK n \in Req :
              /\ req' = [req EXCEPT ![r] = n] /\ n.at = "restart" /\ n.then = req[r].then
              /\ n.s = req[r].s /\ n.todo = req[r].todo /\ n.exit = req[r].exit
              /\ n.new = req[r].new /\ n.alone = req[r].alone
  BY GoIs DEF PutScript, Points
<1>3. Known(n)
  BY <1>0, <1>2 DEF Known, Making, Linking
<1>4. script' \subseteq Route
  BY <1>0, <1>2, RoutesType DEF Req
<1>5. /\ saved' \in State /\ Consistent(saved') /\ rules' \subseteq Route /\ agreed' \in BOOLEAN
      /\ applied' \in [Exit -> Target]
  BY <1>0 DEF PanelInv, PanelTypeOK, CopiesInv
<1> QED
  BY <1>0, <1>1, <1>2, <1>3, <1>4, <1>5, WorkKeeps

LEMMA RestartKeeps ==
    ASSUME PanelInv, NEW r \in Request, RestartService(r)
    PROVE  PanelInv'
<1>0. req[r].at = "restart" /\ rules' = script /\ UNCHANGED <<saved, script, agreed, applied, begun>>
  BY DEF RestartService
<1>1. Agreed'
  <2>1. ~agreed
    BY <1>0 DEF PanelInv, Agreed
  <2>2. QED
    BY <1>0, <2>1 DEF Agreed
<1>2. req[r] \in Req /\ Consistent(req[r].s) /\ Known(req[r])
  BY ReqIs
<1> PICK n \in Req :
              /\ req' = [req EXCEPT ![r] = n] /\ n.at = "store" /\ n.then = req[r].then
              /\ n.s = req[r].s /\ n.todo = req[r].todo /\ n.exit = req[r].exit
              /\ n.new = req[r].new /\ n.alone = req[r].alone
  BY GoIs DEF RestartService, Points
<1>3. Known(n)
  BY <1>0, <1>2 DEF Known, Making, Linking
<1>4. req[r].alone => script = Routes(req[r].s)
  BY <1>0 DEF PanelInv, Alone
<1>5. /\ saved' \in State /\ Consistent(saved') /\ agreed' \in BOOLEAN
      /\ applied' \in [Exit -> Target]
      /\ script' \subseteq Route /\ rules' \subseteq Route
  BY <1>0 DEF PanelInv, PanelTypeOK, CopiesInv
<1> QED
  BY <1>0, <1>1, <1>2, <1>3, <1>4, <1>5, WorkKeeps

LEMMA ApplyFailsKeeps ==
    ASSUME PanelInv, NEW r \in Request, ApplyFails(r)
    PROVE  PanelInv'
<1>0. /\ req[r].at # "idle" /\ req' = [req EXCEPT ![r] = Idle] /\ agreed' = FALSE
      /\ script' \in {script, Routes(req[r].s)} /\ rules' \in {rules, script}
      /\ UNCHANGED <<saved, applied, begun>>
  BY DEF ApplyFails, Answer
<1>1. Agreed'
  BY <1>0 DEF Agreed
<1>2. script' \subseteq Route /\ rules' \subseteq Route
  BY <1>0, ReqIs, RoutesType DEF Req, PanelInv, PanelTypeOK
<1>3. /\ saved' \in State /\ Consistent(saved') /\ agreed' \in BOOLEAN
      /\ applied' \in [Exit -> Target]
  BY <1>0 DEF PanelInv, PanelTypeOK, CopiesInv
<1> QED
  BY <1>0, <1>1, <1>2, <1>3, IdleIsKnown, WorkKeeps

LEMMA NotScannedKeeps ==
    ASSUME PanelInv, NEW r \in Request, NotScanned(r)
    PROVE  PanelInv'
  BY AnswerKeeps DEF NotScanned

LEMMA FailsKeeps ==
    ASSUME PanelInv, NEW r \in Request, Fails(r)
    PROVE  PanelInv'
  BY AnswerKeeps DEF Fails

\* The file becomes the copy: it lists the routes it listed, or those just applied.
LEMMA SaveKeeps ==
    ASSUME PanelInv, NEW r \in Request, Save(r)
    PROVE  PanelInv'
<1>0. /\ req[r].at \in {"save", "store"} /\ saved' = req[r].s
      /\ req[r].at = "store" /\ req[r].alone =>
             agreed' = TRUE /\ applied' = InUseAt(req[r].s)
      /\ ~(req[r].at = "store" /\ req[r].alone) => UNCHANGED <<agreed, applied>>
      /\ UNCHANGED <<script, rules, begun>>
  BY DEF Save, Agree
<1>1. req[r] \in Req /\ Consistent(req[r].s) /\ Known(req[r])
  BY ReqIs
<1>2. PICK n \in Req :
         /\ req' = [req EXCEPT ![r] = n] /\ Consistent(n.s) /\ Known(n)
         /\ n.alone => req[r].alone
         /\ n.at \in {"idle", "prepare", "link", "peer"}
         /\ n.at # "idle" => n.s = req[r].s /\ req[r].at = "save"
  <2>1. CASE req[r].then = "idle"
    BY <2>1, IdleIsKnown DEF Save, Answer
  <2>2. CASE req[r].then # "idle"
    <3>1. req[r].then \in {"prepare", "link", "peer"} /\ req[r].at = "save"
      BY <1>0, <1>1, <2>2 DEF Known
    <3> PICK n \in Req :
              /\ req' = [req EXCEPT ![r] = n] /\ n.at = req[r].then /\ n.then = req[r].then
              /\ n.s = req[r].s /\ n.todo = req[r].todo /\ n.exit = req[r].exit
              /\ n.new = req[r].new /\ n.alone = req[r].alone
      BY <2>2, <3>1, GoIs DEF Save, Points
    <3>2. Known(n)
      BY <1>1, <3>1 DEF Known, Making, Linking, Apart
    <3> QED
      BY <1>1, <3>1, <3>2
  <2> QED
    BY <2>1, <2>2
<1>3. Agreed'
  <2>1. req'[r] = n /\ \A q \in Request \ {r} : req'[q] = req[q]
    BY <1>2 DEF PanelInv, PanelTypeOK
  <2>2. CASE agreed
    <3>1. /\ req[r].at = "save" /\ SameRoutes(req[r].s, saved)
          /\ rules = script /\ script = RoutesTo(saved.cascades, applied)
      BY <1>0, <2>2 DEF PanelInv, Agreed
    <3>2. rules' = script' /\ script' = RoutesTo(saved'.cascades, applied')
      BY <1>0, <3>1 DEF SameRoutes
    <3>3. ASSUME NEW q \in Request
          PROVE /\ req'[q].at \notin {"restart", "store"}
                /\ req'[q].at \in {"scan", "prepare", "link", "peer", "save"} =>
                       RoutesTo(req'[q].s.cascades, applied') = RoutesTo(saved'.cascades, applied')
      <4>1. CASE q = r
        BY <1>0, <1>2, <2>1, <4>1
      <4>2. CASE q # r
        BY <1>0, <2>1, <2>2, <3>1, <4>2 DEF PanelInv, Agreed, SameRoutes
      <4> QED
        BY <4>1, <4>2
    <3> QED
      BY <3>2, <3>3 DEF Agreed, SameRoutes
  <2>3. CASE req[r].at = "store" /\ req[r].alone
    <3>1. /\ script = Routes(req[r].s) /\ rules = script
          /\ \A q \in Request \ {r} : req[q].at = "idle"
      BY <2>3 DEF PanelInv, Alone
    <3>2. rules' = script' /\ script' = RoutesTo(saved'.cascades, applied')
      BY <1>0, <1>1, <2>3, <3>1, InUseRoutes DEF Req
    <3>3. \A q \in Request : req'[q].at = "idle"
      BY <1>2, <2>1, <2>3, <3>1
    <3> QED
      BY <3>2, <3>3 DEF Agreed
  <2>4. CASE ~agreed /\ ~(req[r].at = "store" /\ req[r].alone)
    <3>1. ~agreed'
      BY <1>0, <2>4
    <3> QED
      BY <3>1 DEF Agreed
  <2> QED
    BY <2>2, <2>3, <2>4
<1>4. /\ saved' \in State /\ Consistent(saved') /\ agreed' \in BOOLEAN
      /\ applied' \in [Exit -> Target]
  BY <1>0, <1>1, InUseRoutes DEF Req, PanelInv, PanelTypeOK
<1>5. script' \subseteq Route /\ rules' \subseteq Route
  BY <1>0 DEF PanelInv, PanelTypeOK
<1> QED
  BY <1>0, <1>2, <1>3, <1>4, <1>5, WorkKeeps

\* A boot fills the chains with what the script has.
LEMMA RebootKeeps == PanelInv /\ Reboot => PanelInv'
<1> SUFFICES ASSUME PanelInv, Reboot PROVE PanelInv'
  OBVIOUS
<1> USE DEF Reboot, PanelInv
<1>1. PanelTypeOK'
  BY DEF PanelTypeOK
<1>2. CopiesInv'
  BY DEF CopiesInv, Consistent, Known, Making, Linking, Apart
<1>3. Alone'
  BY DEF Alone, Routes, RoutesTo, Managed
<1>4. Agreed'
  BY DEF Agreed, SameRoutes, RoutesTo, Managed
<1> QED
  BY <1>1, <1>2, <1>3, <1>4

LEMMA PanelStarts == PanelInit => PanelInv
<1> SUFFICES ASSUME PanelInit PROVE PanelInv
  OBVIOUS
<1> PICK listed \in SUBSET Server : saved = [Empty EXCEPT !.servers = listed]
  BY DEF PanelInit
<1>1. \A r \in Request : req[r] = Idle
  BY DEF PanelInit
<1>2. saved.cascades = {} /\ saved.clients = {} /\ saved \in State
  BY NowhereType DEF Empty, State
<1>3. PanelTypeOK
  BY <1>2, NowhereType, IdleIsKnown, PanelAssumption DEF PanelInit, PanelTypeOK
<1>4. CopiesInv
  BY <1>1, <1>2, IdleIsKnown DEF CopiesInv, Consistent, Managed
<1>5. Alone
  BY <1>1, IdleIsKnown DEF Alone
<1>6. Agreed
  <2>1. RoutesTo(saved.cascades, applied) = {}
    BY <1>2 DEF RoutesTo, Managed
  <2>2. \A r \in Request : SameRoutes(req[r].s, saved)
    BY <1>1, <1>2 DEF SameRoutes, Idle, Empty
  <2> QED
    BY <1>1, <2>1, <2>2, IdleIsKnown DEF Agreed, PanelInit
<1> QED
  BY <1>3, <1>4, <1>5, <1>6 DEF PanelInv

LEMMA PanelSteps == PanelInv /\ [PanelNext]_panelVars => PanelInv'
<1> SUFFICES ASSUME PanelInv, [PanelNext]_panelVars PROVE PanelInv'
  OBVIOUS
<1>1. CASE Reboot
  BY <1>1, RebootKeeps
<1>2. ASSUME NEW r \in Request, Start(r) PROVE PanelInv'
  BY <1>2, StartsBegin, BeginKeeps
<1>3. ASSUME NEW r \in Request, Work(r) PROVE PanelInv'
  BY <1>3, AddPeerKeeps, ScanProxyKeeps, AcceptKeeps, JoinKeeps, PrepareKeeps, PutScriptKeeps,
     RestartKeeps, ApplyFailsKeeps, SaveKeeps, FailsKeeps, NotScannedKeeps DEF Work
<1>4. CASE UNCHANGED panelVars
  BY <1>4 DEF panelVars, PanelInv, PanelTypeOK, CopiesInv, Alone, Agreed, Consistent, Known,
     Making, Linking, Apart, SameRoutes, Routes, RoutesTo, Managed
<1> QED
  BY <1>1, <1>2, <1>3, <1>4 DEF PanelNext

LEMMA PanelInductive == PanelSpec => []PanelInv
  BY PanelStarts, PanelSteps, PTL DEF PanelSpec

\* Every variable of the panel has its type, for any number of threads, servers and requests.
THEOREM PanelTyping == PanelSpec => []PanelTypeOK
<1>1. PanelInv => PanelTypeOK
  BY DEF PanelInv
<1> QED
  BY <1>1, PanelInductive, PTL

\* state.json is never inconsistent (app/main.py): for any number of threads that write
\* old copies over each other, no cascade is without its servers, no client without its
\* cascade, and no two managed cascades share a port.
THEOREM FileStaysConsistent == PanelSpec => []FileIsConsistent
<1>1. PanelInv => FileIsConsistent
  BY DEF PanelInv, CopiesInv, Consistent, FileIsConsistent
<1> QED
  BY <1>1, PanelInductive, PTL

\* An apply that ran alone and was saved makes the proxy forward what the file lists, to
\* where the exits were then (app/main.py, _apply_proxy); until the next apply no save of
\* anybody, no scan, no new address of an exit and no boot of the proxy changes that.
THEOREM ApplyAloneAgrees == PanelSpec => []AloneAgrees
<1>1. PanelInv => AloneAgrees
  BY DEF PanelInv, Agreed, AloneAgrees
<1> QED
  BY <1>1, PanelInductive, PTL
==============================================================================

------------------------------- MODULE Storage -------------------------------
(***************************************************************************)
(* The saved state of the management app: Storage with a keychain, driven  *)
(* by with_state.  An operation edits the state in memory and saves it:    *)
(* secrets to the keychain one by one, the rest to a temporary file, a     *)
(* backup of the old file, the rename, and last the secrets of entries     *)
(* that are gone.  Every step can fail, the app can die between any two,   *)
(* and a start loads file and keychain back.                               *)
(*                                                                         *)
(* An entry is a server: its host and its password (a client is an entry   *)
(* that is never edited).  A password names the host it was typed for.     *)
(* The keychain keeps every secret by itself, as on Windows and Linux; the *)
(* vault that macOS puts in front of it is the subject of Vault.        *)
(***************************************************************************)
EXTENDS Naturals, Sequences

CONSTANTS
    Id, Host, Version,   \* ids of entries, machines, passwords of one machine
    Absent, None,        \* no entry; no password
    MaxBackups,          \* BACKUPS
    MaxFailures          \* bound: failed steps and deaths of the app

ASSUME ValuesAssumption == Absent \notin Host /\ None \notin [of : Host, ver : Version]
ASSUME SizesAssumption == MaxBackups \in Nat \ {0} /\ MaxFailures \in Nat

Password == [of : Host, ver : Version]

VARIABLES
    hosts, passwords,  \* the working state (Manage::state)
    snapshot,          \* what manage_view shows: hosts
    file, exists,      \* state.json: hosts; whether it was ever written
    keychain,
    backups,           \* backups/, oldest first: hosts, and whose password was saved
    step, todo, gone,  \* the save: next step, secrets to store, secrets to delete
    used,              \* ids given out; new_id() never repeats one
    filed,             \* history: entries of the file saved with a password
    reported,          \* the last operation reported success
    excused,           \* history: ids whose secret an interruption left behind
    failures

disk == <<file, exists, keychain, backups>>
mem  == <<hosts, passwords>>
vars == <<mem, snapshot, disk, step, todo, gone, used, filed, reported, excused, failures>>

Hosts  == [Id -> Host \cup {Absent}]
Steps  == {"idle", "start", "secrets", "backup", "rename", "forget"}
Listed(h) == {i \in Id : h[i] # Absent}

TypeOK ==
    /\ hosts \in Hosts /\ file \in Hosts /\ snapshot \in Hosts /\ exists \in BOOLEAN
    /\ passwords \in [Id -> Password \cup {None}]
    /\ keychain \in [Id -> Password \cup {None}]
    /\ backups \in Seq([hosts : Hosts, filed : SUBSET Id])
    /\ Len(backups) <= MaxBackups + failures
    /\ step \in Steps /\ todo \subseteq Id /\ gone \subseteq Id
    /\ used \subseteq Id /\ filed \subseteq Id /\ excused \subseteq Id
    /\ reported \in BOOLEAN /\ failures \in 0..MaxFailures

Nothing == [i \in Id |-> Absent]
NoSecret == [i \in Id |-> None]

Init ==
    /\ hosts = Nothing /\ file = Nothing /\ snapshot = Nothing /\ exists = FALSE
    /\ passwords = NoSecret /\ keychain = NoSecret /\ backups = <<>>
    /\ step = "idle" /\ todo = {} /\ gone = {} /\ used = {} /\ filed = {}
    /\ reported = TRUE /\ excused = {} /\ failures = 0

OneFailure == failures < MaxFailures /\ failures' = failures + 1
Stranded   == {i \in Id : keychain[i] # None /\ file[i] = Absent}

---------------------------------------------------------------------------
(* Operations: change the working state, then save.                        *)

Edit(i, host, password) ==
    /\ step = "idle" /\ step' = "start" /\ reported' = FALSE
    /\ hosts' = [hosts EXCEPT ![i] = host]
    /\ passwords' = [passwords EXCEPT ![i] = password]
    /\ UNCHANGED <<snapshot, disk, todo, gone, filed, excused, failures>>

Typed(host) == {None} \cup {p \in Password : p.of = host}

AddServer(i, host, password) ==
    /\ i \notin used /\ used' = used \cup {i}
    /\ password \in Typed(host) /\ Edit(i, host, password)

\* save_server: an empty password keeps the saved one of the same host.
ChangeServer(i, host, password) ==
    /\ hosts[i] # Absent /\ password \in Typed(host) /\ UNCHANGED used
    /\ Edit(i, host, IF password = None /\ host = hosts[i] THEN passwords[i] ELSE password)

DeleteServer(i) ==
    /\ hosts[i] # Absent /\ UNCHANGED used /\ Edit(i, Absent, None)

---------------------------------------------------------------------------
(* Storage::save                                                           *)

saving == <<mem, used, reported>>
quiet  == <<snapshot, failures, excused>>

\* Mutated form of StartSave: the old file is not looked at for what is gone.
MStartSave ==
    /\ step = "start" /\ step' = "secrets"
    /\ todo' = {i \in Id : passwords[i] # None} /\ gone' = {}
    /\ UNCHANGED <<saving, quiet, disk, filed>>

\* What is gone is what the old file has and the new state has not.
StartSave ==
    /\ step = "start" /\ step' = "secrets"
    /\ todo' = {i \in Id : passwords[i] # None}
    /\ gone' = Listed(file) \ Listed(hosts)
    /\ UNCHANGED <<saving, quiet, disk, filed>>

\* The old file could not be read: nothing is gone, and the save goes on.
StartUnread ==
    /\ step = "start" /\ step' = "secrets" /\ OneFailure
    /\ todo' = {i \in Id : passwords[i] # None} /\ gone' = {}
    /\ excused' = excused \cup (Listed(file) \ Listed(hosts))
    /\ UNCHANGED <<saving, snapshot, disk, filed>>

\* Mutated form of StoreSecret: a password that is already there is not replaced.
MStoreSecret(i) ==
    /\ step = "secrets" /\ i \in todo /\ todo' = todo \ {i}
    /\ keychain' = [keychain EXCEPT ![i] = IF keychain[i] = None THEN passwords[i] ELSE @]
    /\ UNCHANGED <<saving, quiet, file, exists, backups, step, gone, filed>>

StoreSecret(i) ==
    /\ step = "secrets" /\ i \in todo /\ todo' = todo \ {i}
    /\ keychain' = [keychain EXCEPT ![i] = passwords[i]]
    /\ UNCHANGED <<saving, quiet, file, exists, backups, step, gone, filed>>

WriteTmp ==
    /\ step = "secrets" /\ todo = {} /\ step' = "backup"
    /\ UNCHANGED <<saving, quiet, disk, todo, gone, filed>>

\* A backup is named by the wall clock and sorted by its name: the newest is the last,
\* as long as the clock is not set back.
Kept == Append(backups, [hosts |-> file, filed |-> filed])

\* Mutated form of Trimmed: the newest backups are removed.
MTrimmed(s) == IF Len(s) > MaxBackups THEN SubSeq(s, 1, MaxBackups) ELSE s

\* Only the last MaxBackups stay.
Trimmed(s) == IF Len(s) > MaxBackups THEN SubSeq(s, Len(s) - MaxBackups + 1, Len(s)) ELSE s

Backup ==
    /\ step = "backup" /\ step' = "rename"
    /\ backups' = IF exists THEN Trimmed(Kept) ELSE backups
    /\ UNCHANGED <<saving, quiet, file, exists, keychain, todo, gone, filed>>

\* The new file is there, with every entry that was ever saved with a password.
Rename ==
    /\ step = "rename" /\ step' = "forget"
    /\ file' = hosts /\ exists' = TRUE
    /\ filed' = (filed \cup {i \in Id : passwords[i] # None}) \cap Listed(hosts)
    /\ UNCHANGED <<saving, quiet, keychain, backups, todo, gone>>

\* Mutated form of Forget: what is not in memory with a password is forgotten.
MForget(i) ==
    /\ step = "forget" /\ i \in Id /\ passwords[i] = None /\ gone' = gone \ {i}
    /\ keychain' = [keychain EXCEPT ![i] = None]
    /\ UNCHANGED <<saving, quiet, file, exists, backups, step, todo, filed>>

Forget(i) ==
    /\ step = "forget" /\ i \in gone /\ gone' = gone \ {i}
    /\ keychain' = [keychain EXCEPT ![i] = None]
    /\ UNCHANGED <<saving, quiet, file, exists, backups, step, todo, filed>>

\* The keychain refuses; nobody is told.
ForgetFails(i) ==
    /\ step = "forget" /\ i \in gone /\ gone' = gone \ {i} /\ OneFailure
    /\ excused' = excused \cup {i}
    /\ UNCHANGED <<saving, snapshot, disk, step, todo, filed>>

\* with_state publishes the working state when the operation is over.
Publish == step' = "idle" /\ todo' = {} /\ gone' = {} /\ snapshot' = hosts

Done ==
    /\ step = "forget" /\ gone = {} /\ Publish /\ reported' = TRUE
    /\ UNCHANGED <<mem, disk, used, filed, excused, failures>>

\* The error is shown; the working state stays as it was edited.  A backup may have
\* been written and not trimmed.
SaveFails ==
    /\ step \in Steps \ {"idle", "forget"} /\ Publish /\ OneFailure
    /\ \/ UNCHANGED backups
       \/ step = "backup" /\ exists /\ backups' = Kept
    /\ excused' = excused \cup Stranded
    /\ UNCHANGED <<mem, file, exists, keychain, used, filed, reported>>

---------------------------------------------------------------------------
(* The app dies at any point, or is closed between operations; Manage::open*)
(* loads what is saved.  A keychain that does not answer leaves a password *)
(* empty.                                                                  *)

Load(answering) ==
    /\ hosts' = file /\ snapshot' = file
    /\ passwords' = [i \in Id |-> IF file[i] # Absent /\ i \in answering
                                  THEN keychain[i] ELSE None]

Restart ==
    /\ OneFailure \/ (step = "idle" /\ UNCHANGED failures)
    /\ \E answering \in SUBSET Id : Load(answering)
    /\ step' = "idle" /\ todo' = {} /\ gone' = {} /\ reported' = TRUE
    /\ excused' = excused \cup Stranded
    /\ UNCHANGED <<disk, used, filed>>

Operation ==
    \E i \in Id :
        \/ \E h \in Host, p \in Password \cup {None} : AddServer(i, h, p)
        \/ \E h \in Host, p \in Password \cup {None} : ChangeServer(i, h, p)
        \/ DeleteServer(i)

Next ==
    \/ Operation
    \/ StartSave \/ StartUnread \/ WriteTmp \/ Backup \/ Rename \/ Done \/ SaveFails
    \/ \E i \in Id : StoreSecret(i) \/ Forget(i) \/ ForgetFails(i)
    \/ Restart

Spec == Init /\ [][Next]_vars

---------------------------------------------------------------------------
(* Properties *)

\* What was reported saved is what a start loads: the same entries, with every
\* password that is in memory, whatever saves failed before.
ReportedIsLoaded ==
    step = "idle" /\ reported =>
        /\ file = hosts
        /\ \A i \in Id : passwords[i] # None => keychain[i] = passwords[i]

\* At every moment, also between two steps of a save, an entry of the file that was
\* ever saved with a password has one in the keychain.
FiledHasSecret == \A i \in filed : keychain[i] # None

\* The keychain holds nothing of an entry that is gone from memory and file, unless a
\* failed save, a refusal of the keychain or a death of the app left it there.
GoneIsForgotten ==
    step = "idle" => \A i \in Id \ excused :
        hosts[i] = Absent /\ file[i] = Absent => keychain[i] = None

\* The file a save replaces is the newest backup, and older ones are removed first.
PreviousKept ==
    [][file' # file /\ exists => backups[Len(backups)].hosts = file]_vars

---------------------------------------------------------------------------
(* What comments and documents say and the code does not keep.             *)

\* "Another machine: forget what we knew about the old one" (manage.rs:207): a
\* password in memory was typed for the host it will be sent to.
PasswordOfThisMachine == \A i \in Id : passwords[i] # None => passwords[i].of = hosts[i]

\* The snapshot is the "last saved state" between operations (manage.rs:74).
SnapshotIsSaved == step = "idle" => snapshot = file

\* "A mistaken edit can be rolled back from here" (storage.rs:125): restoring a backup
\* brings back every entry that had a password together with one.
BackupHasSecrets ==
    \A n \in 1..Len(backups) : \A i \in backups[n].filed : keychain[i] # None
=============================================================================

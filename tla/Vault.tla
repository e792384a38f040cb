-------------------------------- MODULE Vault --------------------------------
(***************************************************************************)
(* All secrets of the app on macOS: one keychain item, the cache in front  *)
(* of it (vault.rs), and its two users.  The profiles of this device change*)
(* under one mutex (change in lib.rs, Store::save), the passwords of the   *)
(* management part under another (with_state, Storage::save); both call    *)
(* the vault, one call at a time.  The keychain may refuse any call, and   *)
(* the app may die between any two steps.                                  *)
(*                                                                         *)
(* A profile has one config for its whole life.  What a save does besides  *)
(* storing passwords is the subject of Storage, where the keychain may also*)
(* refuse to give one; items of older versions are left out.               *)
(***************************************************************************)
EXTENDS Naturals, FiniteSets

CONSTANTS
    Profile,         \* ids of profiles, given out once
    Server,          \* servers with a password
    Password, Config,
    None,            \* no secret under this key
    NotLoaded,       \* CACHE before its first use
    MaxFailures      \* bound: refusals of the keychain, failed writes, deaths

Key    == Profile \cup Server
Secret == Password \cup {Config, None}

ASSUME KeysAssumption == Profile \cap Server = {}
ASSUME SecretsAssumption == Config \notin Password /\ None \notin Password \cup {Config}
ASSUME BoundAssumption == MaxFailures \in Nat
ASSUME CacheAssumption == NotLoaded \notin [Key -> Secret]

VARIABLES
    cache, item,        \* CACHE and the keychain item: a secret for each key
    listed, confs,      \* Data.profiles in memory; those whose config is there too
    file,               \* profiles.json
    next, step, todo,   \* the change under way: its profiles, step, configs to store
    forgetting,         \* removed profiles whose config is still to be forgotten
    used, removed,      \* history: ids given out; ids whose removal was asked for
    servers, passwords, \* the management part: servers with a password in memory,
    stored,             \*   those in state.json,
    saving, unstored,   \*   whether a save runs, what it has still to store,
    gone,               \*   and, after its rename, to delete,
    reported,           \*   and whether the last save was reported successful
    dropped,            \* history: servers whose removal was asked for
    failures

vault    == <<cache, item>>
profiles == <<listed, confs, file>>
change   == <<next, step, todo>>
manage   == <<servers, passwords, stored, saving, unstored, gone, reported, dropped>>
vaultVars == <<vault, profiles, change, forgetting, used, removed, manage, failures>>

Secrets == [Key -> Secret]
Listing == [listed : SUBSET Profile, confs : SUBSET Profile]

VaultTypeOK ==
    /\ cache \in Secrets \cup {NotLoaded} /\ item \in Secrets
    /\ listed \subseteq Profile /\ confs \subseteq listed /\ file \subseteq Profile
    /\ next \in Listing /\ step \in {"idle", "store", "write"} /\ todo \subseteq next.confs
    /\ forgetting \subseteq removed \ file /\ removed \subseteq used /\ used \subseteq Profile
    /\ servers \subseteq Server /\ stored \subseteq Server /\ dropped \subseteq Server
    /\ passwords \in [Server -> Password \cup {None}]
    /\ saving \in BOOLEAN /\ unstored \subseteq servers /\ gone \subseteq dropped \ stored
    /\ reported \in BOOLEAN
    /\ failures \in 0..MaxFailures

NoNext == [listed |-> {}, confs |-> {}]

VaultInit ==
    /\ cache = NotLoaded /\ item = [k \in Key |-> None]
    /\ listed = {} /\ confs = {} /\ file = {}
    /\ next = NoNext /\ step = "idle" /\ todo = {}
    /\ forgetting = {} /\ used = {} /\ removed = {}
    /\ servers = {} /\ passwords = [s \in Server |-> None] /\ stored = {}
    /\ saving = FALSE /\ unstored = {} /\ gone = {}
    /\ reported = TRUE /\ dropped = {} /\ failures = 0

OneFailure == failures < MaxFailures /\ failures' = failures + 1

---------------------------------------------------------------------------
(* vault.rs: with loads the item on its first use and keeps it; a set or a *)
(* delete changes the cache, then persist writes all of it.                *)

Loaded == IF cache = NotLoaded THEN item ELSE cache

\* Mutated form of Put: an item that was not loaded is taken for an empty one.
MPut(k, v) ==
    /\ cache' = IF cache = NotLoaded THEN [x \in Key |-> IF x = k THEN v ELSE None]
                ELSE [cache EXCEPT ![k] = v]
    /\ item' = IF Loaded[k] = v THEN item ELSE cache'

\* A key that already has this secret is not written again.
Put(k, v) ==
    /\ cache' = [Loaded EXCEPT ![k] = v]
    /\ item' = IF Loaded[k] = v THEN item ELSE cache'

\* Access denied while nothing is loaded, or persist fails after the cache changed.
PutFails(k, v) ==
    /\ OneFailure /\ UNCHANGED item
    /\ \/ cache = NotLoaded /\ UNCHANGED cache
       \/ Loaded[k] # v /\ cache' = [Loaded EXCEPT ![k] = v]

---------------------------------------------------------------------------
(* The profiles of this device.                                            *)

rest == <<used, removed, manage>>

\* change: a copy of the data is edited and saved, then it becomes the data.
Change(to) ==
    /\ step = "idle" /\ step' = "store" /\ next' = to /\ todo' = to.confs
    /\ UNCHANGED <<vault, profiles, forgetting, manage, failures>>

\* A key or a file with one exit or several.
Import(new) ==
    /\ new # {} /\ new \cap used = {} /\ used' = used \cup new /\ UNCHANGED removed
    /\ Change([listed |-> listed \cup new, confs |-> confs \cup new])

Remove(i) ==
    /\ i \in listed /\ removed' = removed \cup {i} /\ UNCHANGED used
    /\ Change([listed |-> listed \ {i}, confs |-> confs \ {i}])

\* A name, the selection or the settings.
Resave == UNCHANGED <<used, removed>> /\ Change([listed |-> listed, confs |-> confs])

StoreConf(i) ==
    /\ step = "store" /\ i \in todo /\ todo' = todo \ {i} /\ Put(i, Config)
    /\ UNCHANGED <<profiles, next, step, forgetting, rest, failures>>

AllStored ==
    /\ step = "store" /\ todo = {} /\ step' = "write"
    /\ UNCHANGED <<vault, profiles, next, todo, forgetting, rest, failures>>

ChangeOver == next' = NoNext /\ step' = "idle" /\ todo' = {}

\* Mutated form of StoreFails: the data takes the change over before it is saved.
MStoreFails ==
    /\ step = "store" /\ ChangeOver /\ \E i \in todo : PutFails(i, Config)
    /\ listed' = next.listed /\ confs' = next.confs
    /\ UNCHANGED <<file, forgetting, rest>>

\* The error is shown and the copy is dropped.
StoreFails ==
    /\ step = "store" /\ ChangeOver /\ \E i \in todo : PutFails(i, Config)
    /\ UNCHANGED <<profiles, forgetting, rest>>

\* The rename, then the data; a removed profile is forgotten outside the mutex.
WriteFile ==
    /\ step = "write" /\ ChangeOver
    /\ file' = next.listed /\ listed' = next.listed /\ confs' = next.confs
    /\ forgetting' = forgetting \cup (listed \ next.listed)
    /\ UNCHANGED <<vault, rest, failures>>

WriteFails ==
    /\ step = "write" /\ ChangeOver /\ OneFailure
    /\ UNCHANGED <<vault, profiles, forgetting, rest>>

ForgetConf(i) ==
    /\ i \in forgetting /\ forgetting' = forgetting \ {i}
    /\ \/ Put(i, None) /\ UNCHANGED failures
       \/ PutFails(i, None)
    /\ UNCHANGED <<profiles, change, rest>>

---------------------------------------------------------------------------
(* The passwords of the management part.                                   *)

theirs == <<profiles, change, forgetting, used, removed>>

\* Every operation saves all of the state, also one that changes no password; the next
\* one waits until the last secret of a removed server is deleted.
StartSave ==
    /\ ~saving /\ gone = {} /\ saving' = TRUE /\ reported' = FALSE
    /\ unstored' = {s \in Server : passwords'[s] # None}
    /\ UNCHANGED <<vault, theirs, stored, gone, failures>>

SaveServer(s, p) ==
    /\ s \in servers \/ s \notin dropped
    /\ servers' = servers \cup {s} /\ passwords' = [passwords EXCEPT ![s] = p]
    /\ StartSave /\ UNCHANGED dropped

DropServer(s) ==
    /\ s \in servers /\ servers' = servers \ {s}
    /\ passwords' = [passwords EXCEPT ![s] = None]
    /\ StartSave /\ dropped' = dropped \cup {s}

StorePassword(s) ==
    /\ saving /\ s \in unstored /\ unstored' = unstored \ {s} /\ Put(s, passwords[s])
    /\ UNCHANGED <<theirs, servers, passwords, stored, saving, gone, reported, dropped,
                   failures>>

SaveOver == saving' = FALSE /\ unstored' = {}

\* Mutated form of StorePasswordFails: the refusal is not reported.
MStorePasswordFails(s) ==
    /\ saving /\ s \in unstored /\ SaveOver /\ reported' = TRUE
    /\ PutFails(s, passwords[s])
    /\ UNCHANGED <<theirs, servers, passwords, stored, gone, dropped>>

StorePasswordFails(s) ==
    /\ saving /\ s \in unstored /\ SaveOver
    /\ PutFails(s, passwords[s])
    /\ UNCHANGED <<theirs, servers, passwords, stored, gone, reported, dropped>>

\* The rename of state.json; what it no longer lists is deleted after it.
WriteState ==
    /\ saving /\ unstored = {} /\ SaveOver /\ reported' = TRUE
    /\ stored' = servers /\ gone' = stored \ servers
    /\ UNCHANGED <<vault, theirs, servers, passwords, dropped, failures>>

WriteStateFails ==
    /\ saving /\ unstored = {} /\ SaveOver /\ OneFailure
    /\ UNCHANGED <<vault, theirs, servers, passwords, stored, gone, reported, dropped>>

ForgetPassword(s) ==
    /\ s \in gone /\ gone' = gone \ {s}
    /\ \/ Put(s, None) /\ UNCHANGED failures
       \/ PutFails(s, None)
    /\ UNCHANGED <<theirs, servers, passwords, stored, saving, unstored, reported, dropped>>

---------------------------------------------------------------------------
(* The app dies, or is closed between operations, and is started again.  A *)
(* config the keychain does not give stays empty in memory.                *)

Restart ==
    /\ OneFailure \/ (step = "idle" /\ forgetting \cup gone = {} /\ ~saving /\ UNCHANGED failures)
    /\ listed' = file
    /\ \E given \in SUBSET file :
        /\ confs' = {i \in given : item[i] # None}
        /\ cache' \in IF given \cup stored = {} THEN {NotLoaded, item} ELSE {item}
    /\ next' = NoNext /\ step' = "idle" /\ todo' = {} /\ forgetting' = {}
    /\ servers' = stored /\ passwords' = [s \in Server |-> IF s \in stored THEN item[s] ELSE None]
    /\ saving' = FALSE /\ unstored' = {} /\ gone' = {} /\ reported' = TRUE
    /\ UNCHANGED <<item, file, stored, used, removed, dropped>>

Profiles ==
    \/ \E new \in SUBSET Profile : Import(new)
    \/ \E i \in Profile : Remove(i) \/ StoreConf(i) \/ ForgetConf(i)
    \/ Resave \/ AllStored \/ StoreFails \/ WriteFile \/ WriteFails

Management ==
    \/ \E s \in Server, p \in Password : SaveServer(s, p)
    \/ \E s \in Server : DropServer(s) \/ StorePassword(s) \/ StorePasswordFails(s)
    \/ \E s \in Server : ForgetPassword(s)
    \/ WriteState \/ WriteStateFails

VaultNext == Profiles \/ Management \/ Restart

VaultSpec == VaultInit /\ [][VaultNext]_vaultVars

---------------------------------------------------------------------------
(* Properties *)

\* A profile that profiles.json lists has its config in the keychain at every moment,
\* whatever imports failed before and whatever the management part does meanwhile.
ListedHasConf == \A i \in file : item[i] = Config

\* Between two changes the data in memory are the ones on disk: a change that failed
\* left no trace in either.
MemoryIsFile == step = "idle" => listed = file

\* A secret only leaves the keychain when its profile or server was removed: "Access denied is an
\* error (not empty): nothing may be overwritten then" (vault.rs:18).
NothingOverwritten ==
    [][\A k \in Key : item[k] # None /\ item'[k] = None => k \in removed \cup dropped]_vaultVars

\* Every password in memory is among these secrets.
HasPasswords(secrets) == \A s \in Server : passwords[s] # None => secrets[s] = passwords[s]

\* A password that was reported saved is in what the vault answers from: no refused save is
\* reported as done otherwise, and no other user of the item takes the password out.  After a
\* refused write the item may be behind, but no longer than until it is next written, by
\* whichever of its users.
SavedIsKept ==
    /\ [](~saving /\ reported => HasPasswords(Loaded))
    /\ [][item' # item /\ ~saving' /\ reported' => HasPasswords(item)']_vaultVars

---------------------------------------------------------------------------
(* What comments and documents say and the code does not keep.             *)

\* That it is in the keychain itself, as storage.rs:49 puts it.  The code does not keep it:
\* set leaves a refused secret in the cache, and a retry finds it there and writes nothing.
SavedIsWritten == ~saving /\ reported => HasPasswords(item)
=============================================================================

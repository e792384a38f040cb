-------------------------------- MODULE Peers --------------------------------
(***************************************************************************)
(* Clients of one AmneziaWG instance on an exit server: create_clients and *)
(* delete_client of the management operations, with add_peer, remove_peer, *)
(* apply_conf and clients_table command by command.  Four places must      *)
(* agree: the config file, the running interface, AmneziaVPN's user list   *)
(* and the app's own list (in memory and saved).  Any command can fail     *)
(* before or after it took effect, the app can die, the interface can      *)
(* restart, and another tool can add a peer of its own at any time.        *)
(*                                                                         *)
(* One operation runs at a time (Manage::state).  A peer is its key.       *)
(***************************************************************************)
EXTENDS Naturals, FiniteSets

CONSTANTS
    Key,         \* client keys the app generates
    Foreign,     \* peers another tool adds
    Hosts,       \* how many addresses the subnet has for clients
    HasTable,    \* the instance is AmneziaVPN's own container
    NoKey,
    MaxFailures  \* bound: failed commands and deaths of the app

ASSUME KeysAssumption == Key \cap Foreign = {} /\ NoKey \notin Key \cup Foreign
ASSUME SizesAssumption == Hosts \in Nat /\ MaxFailures \in Nat /\ HasTable \in BOOLEAN

Peer == Key \cup Foreign

VARIABLES
    conf, live, table,  \* peers of the config file, the interface, the user list
    ip,                 \* the address a peer was given, 0 before
    list, saved,        \* State.clients in memory; in state.json
    op, step, key,      \* the operation, its next command, its client
    text, rows,         \* the config and the user list as the operation read them
    revoked,            \* history: clients whose deletion was reported done
    begun,              \* history: clients a deletion was begun for
    unapplied,          \* history: some apply_conf did not run or did not answer
    torn,               \* history: whose peer was cut off as it was appended; NoKey: a file was
    failures

server == <<conf, live, table, ip>>
app    == <<list, saved>>
vars == <<server, app, op, step, key, text, rows, revoked, begun, unapplied, torn, failures>>

TypeOK ==
    /\ conf \subseteq Peer /\ live \subseteq Peer /\ table \subseteq Peer
    /\ ip \in [Peer -> 0..Hosts]
    /\ list \subseteq Key /\ saved \subseteq Key
    /\ op \in {"none", "add", "remove"} /\ key \in Key \cup {NoKey}
    /\ step \in {"none", "read", "write", "apply", "table", "rows", "record"}
    /\ text \subseteq Peer /\ rows \subseteq Peer
    /\ revoked \subseteq Key /\ begun \subseteq Key
    /\ unapplied \in BOOLEAN /\ torn \subseteq Key \cup {NoKey} /\ failures \in 0..MaxFailures

Init ==
    /\ conf = {} /\ live = {} /\ table = {} /\ ip = [p \in Peer |-> 0]
    /\ list = {} /\ saved = {} /\ op = "none" /\ step = "none" /\ key = NoKey
    /\ text = {} /\ rows = {} /\ revoked = {} /\ begun = {}
    /\ unapplied = FALSE /\ torn = {} /\ failures = 0

Over    == op' = "none" /\ step' = "none" /\ key' = NoKey

Free(peers) == {h \in 1..Hosts : \A p \in peers : ip[p] # h}
First(peers) == {h \in Free(peers) : \A o \in Free(peers) : h <= o}

---------------------------------------------------------------------------
(* Requests of the user.                                                   *)

\* A key is generated once; the client is not listed anywhere yet.
CreateClient(k) ==
    /\ op = "none" /\ ip[k] = 0 /\ k \notin torn
    /\ op' = "add" /\ step' = "read" /\ key' = k
    /\ UNCHANGED <<server, app, text, rows, revoked, begun, unapplied, torn, failures>>

DeleteClient(k) ==
    /\ op = "none" /\ k \in list
    /\ op' = "remove" /\ step' = "read" /\ key' = k /\ begun' = begun \cup {k}
    /\ UNCHANGED <<server, app, text, rows, revoked, unapplied, torn, failures>>

---------------------------------------------------------------------------
(* Commands.  Each says what it does to the server and to what the         *)
(* operation has read; NextStep says which command is next.                *)

\* Mutated form of ReadConf: the address is not looked up in the file.
MReadConf ==
    /\ step = "read" /\ text' = conf /\ UNCHANGED <<conf, live, table, rows>>
    /\ IF op = "add" THEN \E h \in First({}) : ip' = [ip EXCEPT ![key] = h]
       ELSE UNCHANGED ip

\* cat the config; a new peer takes the first address not in it.
ReadConf ==
    /\ step = "read" /\ text' = conf /\ UNCHANGED <<conf, live, table, rows>>
    /\ IF op = "add" THEN \E h \in First(conf) : ip' = [ip EXCEPT ![key] = h]
       ELSE UNCHANGED ip

\* Mutated form of WriteConf: the file is written back as it was read.
MWriteConf ==
    /\ step = "write" /\ UNCHANGED <<live, table, ip, text, rows>>
    /\ conf' = IF op = "add" THEN conf \cup {key} ELSE text

\* A new peer is appended; a removal writes back what was read, without the peer.
WriteConf ==
    /\ step = "write" /\ UNCHANGED <<live, table, ip, text, rows>>
    /\ conf' = IF op = "add" THEN conf \cup {key} ELSE text \ {key}

\* Mutated form of ApplyConf: peers are taken off the interface, never added.
MApplyConf ==
    /\ step = "apply" /\ live' = live \cap conf
    /\ UNCHANGED <<conf, table, ip, text, rows>>

\* syncconf: the interface takes over the file.
ApplyConf ==
    /\ step = "apply" /\ live' = conf /\ UNCHANGED <<conf, table, ip, text, rows>>

ReadTable ==
    /\ step = "table" /\ rows' = table /\ UNCHANGED <<server, text>>

WriteTable ==
    /\ step = "rows" /\ UNCHANGED <<conf, live, ip, text, rows>>
    /\ table' = IF op = "add" THEN rows \cup {key} ELSE rows \ {key}

Command == ReadConf \/ WriteConf \/ ApplyConf \/ ReadTable \/ WriteTable

\* Only AmneziaVPN's container has a user list.  A peer that is not in the file needs
\* no edit and no apply.
TableStep == IF HasTable THEN "table" ELSE "record"
NextStep ==
    CASE step = "read"  -> IF op = "add" \/ key \in conf THEN "write" ELSE TableStep
      [] step = "write" -> "apply"
      [] step = "apply" -> TableStep
      [] step = "table" -> "rows"
      [] step = "rows"  -> "record"

Succeed ==
    /\ Command /\ step' = NextStep
    /\ UNCHANGED <<app, op, key, revoked, begun, unapplied, torn, failures>>

\* Every address of the subnet is in the file.
NoAddress ==
    /\ op = "add" /\ step = "read" /\ Free(conf) = {} /\ Over
    /\ UNCHANGED <<server, app, text, rows, revoked, begun, unapplied, torn, failures>>

OneFailure == failures < MaxFailures /\ failures' = failures + 1

\* Connecting, detecting or the command itself fails: the operation ends there.
Fail ==
    /\ op # "none" /\ step # "record" /\ OneFailure /\ Over
    /\ unapplied' = (unapplied \/ step = "apply")
    /\ UNCHANGED <<server, text, rows, app, revoked, begun, torn>>

\* The command ran on the server and its answer was lost: the operation ends too.
AnswerLost ==
    /\ Command /\ OneFailure /\ Over
    /\ unapplied' = (unapplied \/ step = "write")
    /\ UNCHANGED <<app, revoked, begun, torn>>

\* The connection breaks while "cat >" runs: the file is empty or ends early.
TornWrite ==
    /\ OneFailure /\ Over /\ torn' = torn \cup {NoKey}
    /\ unapplied' = (unapplied \/ step = "write")
    /\ \/ step = "write" /\ op = "remove" /\ UNCHANGED table
          /\ \E rest \in SUBSET (text \ {key}) : conf' = rest
       \/ step = "rows" /\ table' = {} /\ UNCHANGED conf
    /\ UNCHANGED <<live, ip, text, rows, app, revoked, begun>>

\* It breaks while "cat >>" runs: a new peer without its address, or with the first
\* digits of it, which are another address; or only what is no peer yet.
TornAppend ==
    /\ step = "write" /\ op = "add" /\ OneFailure /\ Over /\ torn' = torn \cup {key}
    /\ unapplied' = TRUE /\ conf' \in {conf, conf \cup {key}}
    /\ \E h \in 0..Hosts : ip' = [ip EXCEPT ![key] = h]
    /\ UNCHANGED <<live, table, text, rows, app, revoked, begun>>

\* The list and its file.  The list changes whether or not the file can be written.
Listed == IF op = "add" THEN list \cup {key} ELSE list \ {key}

Record ==
    /\ step = "record" /\ list' = Listed /\ saved' = Listed /\ Over
    /\ revoked' = IF op = "remove" THEN revoked \cup {key} ELSE revoked
    /\ UNCHANGED <<server, text, rows, begun, unapplied, torn, failures>>

RecordFails ==
    /\ step = "record" /\ list' = Listed /\ UNCHANGED saved /\ Over
    /\ OneFailure
    /\ UNCHANGED <<server, text, rows, revoked, begun, unapplied, torn>>

\* delete_cascade: the clients of the cascade are listed no more and their peers stay
\* (README.md:42); when it fails, state.json is loaded again, if that can be read.
DeleteCascade(clients) ==
    /\ op = "none" /\ clients # {}
    /\ \/ list' = list \ clients /\ saved' = list' /\ UNCHANGED failures
       \/ list' \in {saved, list \ clients} /\ UNCHANGED saved /\ OneFailure
    /\ UNCHANGED <<server, op, step, key, text, rows, revoked, begun, unapplied, torn>>

---------------------------------------------------------------------------
(* Around the operation.                                                   *)

\* The app dies, or is closed between operations, and loads state.json again.
AppRestart ==
    /\ OneFailure \/ (op = "none" /\ UNCHANGED failures)
    /\ list' = saved /\ Over
    /\ unapplied' = (unapplied \/ step = "apply")
    /\ UNCHANGED <<server, saved, text, rows, revoked, begun, torn>>

\* The container or service restarts and reads the config file.
InterfaceRestart ==
    /\ live # conf /\ live' = conf
    /\ UNCHANGED <<conf, table, ip, app, op, step, key, text, rows, revoked, begun,
                   unapplied, torn, failures>>

\* Another tool gives a user of its own an address that is free in the file.
ForeignAdds(p) ==
    /\ ip[p] = 0 /\ \E h \in First(conf) : ip' = [ip EXCEPT ![p] = h]
    /\ conf' = conf \cup {p} /\ live' = live \cup {p} /\ table' = table \cup {p}
    /\ UNCHANGED <<app, op, step, key, text, rows, revoked, begun, unapplied, torn, failures>>

Next ==
    \/ \E k \in Key : CreateClient(k) \/ DeleteClient(k)
    \/ Succeed \/ NoAddress \/ Fail \/ AnswerLost \/ TornWrite \/ TornAppend
    \/ Record \/ RecordFails \/ \E clients \in SUBSET list : DeleteCascade(clients)
    \/ AppRestart \/ InterfaceRestart \/ \E p \in Foreign : ForeignAdds(p)

Spec == Init /\ [][Next]_vars

---------------------------------------------------------------------------
(* Properties *)

\* A client the user was given a config for can connect, and AmneziaVPN shows it,
\* unless a deletion of it was begun or a file was cut off: no operation on another
\* client and no other failure of one takes its peer away.
ListedWorks ==
    torn = {} => \A k \in (list \cup saved) \ begun : k \in conf \cap live /\ (HasTable => k \in table)

\* A deletion that was reported done has removed the peer for good from the file;
\* it still runs on the interface only if an apply_conf failed before.
RevokedIsGone ==
    \A k \in revoked : k \notin conf /\ (k \in live => unapplied)

\* No two clients of the file or of the interface share an address, though addresses
\* of revoked clients are given out again and files are cut off; but for a client that
\* was itself cut off as it was appended, which the user never gets a config for.
DistinctAddresses ==
    \A p, q \in Key \ torn : p # q /\ ({p, q} \subseteq conf \/ {p, q} \subseteq live)
                       => ip[p] # ip[q]

---------------------------------------------------------------------------
(* What comments and documents say and the code does not keep.             *)

\* Deleting a client revokes its access on the exit server (README.md:41).
RevokedHasNoAccess == revoked \cap live = {}

\* A peer that another tool added is not dropped (foreign.rs:307).
OtherPeersKept == \A p \in Foreign : ip[p] # 0 => p \in conf \cap live
=============================================================================

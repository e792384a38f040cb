# Verification of AMneZinu

TLA+ models, model-checking runs and machine-checked proofs for this repository: a VPN
client (AmneziaWG) with a privileged helper, an app that manages the user's own servers
over SSH, and a web panel with the same operations in Python. Everything here is
translated from the code under `src/`; `PROJECT.json` maps every definition to the lines
it stands for.

## The system

| Part | State | Operations | Talks to |
|---|---|---|---|
| Helper, request protocol (`amz-helper/src/main.rs`, `windows.rs`) | `Mutex<Helper>` (connection, block), `PREPARATION`, `LAST_STATUS` | one thread per request: Status, Up, Down; two watcher threads; start, stop handler | the app over a socket or pipe |
| macOS network (`amz-tunnel/src/macos.rs`) | routes, DNS, packet filter; `NetState` in memory and in a state file | configure, restore, follow_gateway, refresh_split | the system, command by command |
| Windows network (`windows.rs`, `go/libawg/libawg_windows.go`, `firewall/`) | adapter, routes, WFP sessions; a file with the kill switch | applyPlan, block, unblock | the system through Go |
| Background DNS (`preparation.rs`, `split.rs`) | the token of a connection | resolve the sites of a split list, apply each answer | the helper's mutex |
| Management operations (`amz-remote/src/ops.rs`) | `State`: servers, cascades, clients | scan, create, adopt, delete, clients, traffic | servers over SSH, storage |
| Proxy (`amz-remote/src/proxy.rs`) | boot service, script, iptables chains | scan, pick a port, probe the link, set up | one server over SSH |
| Exit (`amz-remote/src/foreign.rs`) | config file, running interface, AmneziaVPN's user list | detect, install, add and remove peers, statistics | one server over SSH |
| Storage (`amz-core/src/storage.rs`) | `state.json`, keychain, backups | load, save | disk, keychain |
| App (`src-tauri/src/manage.rs`, `lib.rs`, `profiles.rs`, `vault.rs`, `tray.rs`, `ui/`) | working state and snapshot, profiles, vault cache, tray | commands of the window and the tray | all of the above |
| Web panel (`src/app/*.py`) | its own `state.json` | the operations of amz-remote | servers over SSH |

What is hard: a request can be cancelled, refused or overtaken while it runs; the helper
may die between any two system commands and must undo, from a file, what it changed; an
SSH command may take effect although its answer is lost; other tools change the same
servers; a save consists of several steps in several places. `PROJECT.json` lists these
hazards at their lines with the properties that cover them.

What makes each part correct, in one sentence:

* protocol: a status tells the truth, a Down ends what came before it, and protection is
  neither lost nor invented by the death of the process;
* network: whatever was changed can be undone from the record, also after a crash;
* clients: who is listed can connect, who was revoked cannot, and addresses are distinct;
* cascades: the proxy forwards what the saved state lists, live and after a reboot;
* storage: what was reported saved is what a start loads, with its secrets;
* vault: two parts of the app share one item and never take each other's secrets away.

## The modules

| Module | Models | Checked by | Proved in |
|---|---|---|---|
| `Protection` | the promise about the machine's network, without threads and files | refinement `KeepsPromise` | |
| `HelperServer` | the request protocol of both platforms | `MC_HelperServer` | `HelperServerProofs` |
| `MacHelper` | the macOS network changes, command by command | `MC_MacHelper` | `MacHelperProofs` |
| `WinHelper` | the Windows network changes, command by command | `MC_WinHelper` | `WinHelperProofs` |
| `Peers` | the clients of one AmneziaWG instance | `MC_Peers` | `PeersProofs` |
| `Install` | putting AmneziaWG on an exit server, natively and in a container | `MC_Install` | `ExitServerProofs` |
| `Traffic` | the totals of one client over counters that restart | `MC_Install` | `ExitServerProofs` |
| `ExitServer` | `Install` and `Traffic` together: whose restarts reset whose counters | `MC_Install` | `ExitServerProofs` |
| `Cascades` | the forwards of one proxy | `MC_Cascades` | `CascadesProofs` |
| `Storage` | the saved state of the management part | `MC_Storage` | `StorageProofs` |
| `Vault` | the one keychain item of macOS, its cache and its two users | `MC_Vault` | `AppProofs` |
| `App` | window, tray and auto-connect over one helper | `MC_App` | `AppProofs` |
| `Panel` | the requests of the web panel over each other | `MC_Panel` | `StorageProofs` |

A definition named `M...` before an action is a mutated form of it, used to show that a
property can fail; it is no part of the specification.

**HelperServer.** `lock` is the mutex, `active` and `blocked` are the two fields of
`Helper`, `cancelled` is the flag of `PREPARATION`. `file` is the state file: none, the
kind of connection it is of, or `"torn"`. `fs::write` cuts a file off before it fills it,
so each of its calls is two steps (`UpOpens`, `UpWrites`; `NetworkOpens`, `NetworkWrites`;
`WatchApply`, `WatchBatch`; `WatchFinish`, `WatchRecord`), the process may die between
them, and the second may fail. A start can do nothing with a torn file (main.rs:266).
`pc` gives each request thread its place in `handle`: `try`/`wait` before the mutex,
`begin` to `recorded` inside `up` and `down`, `succeeded`/`failed` before the answer;
`asked` is the kind of connection whose file is being written, before `Helper.active` is
set (main.rs:116-123). `network` and `watcher` are the two watchers, `routes` the
connections whose answers the present one has taken in. `Platform` selects the bodies of
`up`, `down` and the start. A connection is its number and kind. `ups`, `mark` and
`heard` are history. That the filter of macOS is loaded within configure, before the file
is written, is the subject of `MacHelper`. `Protection` is the abstract specification:
`tunnel`, `blocked`, `attempts` and `readable` map to the tunnel (from the moment the file
speaks of it), `blocked`, `ups` and `file # "torn"`.

**MacHelper.** The mutex makes the helper one thread here; `pc` is the next command. The
system is `epRoute`, `bypass`, `dns`, `pf`, `pfTokens`; the record is `net` and `file`.
`Faults` says which kinds of commands may fail. `excuse` remembers events for which the
code makes no provision; a property names the ones it is weakened by. One of them ends:
a failed move of the gateway is made up for by the next that succeeds, or by a new
connection (`Mended`), and `OneGateway` holds from then on. Reboots of the
machine are left out (they clear routes, filter and the file in `/var/run` together).

**WinHelper.** `wfp` is what the dynamic WFP session lets through, `device` the Wintun
adapter with `netState.firewall`, `routes` the adapter's routes. `pc` is the next command
of `up`, `down` or the start: `clear` and `filter` are the two halves of applyPlan's kill
switch (DisableFirewall, EnableFirewall). A death takes adapter, routes and filters with
it; a reboot also makes the file's boot id old. `slips` names why the state file may not
tell the truth (a failed or torn write, a replaced connection), `gap` and `torn` that a
filter or a route of a batch could not be set. Requests and watchers are in
`HelperServer`, which has this module's results as the bodies of `up` and `down`.

**Peers.** `conf`, `live`, `table` are on the server, `list` and `saved` in the app.
`step` is the next command of the running operation; every command can fail, be lost on
the way back or, for `cat >` and `cat >>`, be cut off (`TornWrite`, `TornAppend`; `torn`
are the clients such a file has lost, or has half of). `AppRestart`, `InterfaceRestart`,
`ForeignAdds` are the surroundings.

**Install.** `pc` and `want` are the running operation, `pkg`, `unit` and `ok` the detached
job and its marker, `conf`, `port` and `runs` what an instance has on disk and runs with,
`record` what the app keeps. A key is a number, drawn with its port by `server_conf`. The
connection can break at every command and the app can die; the job goes on. `Unlisted` is
a `docker ps` that fails for a moment, which `|| true` makes an empty list (foreign.rs:59).
`doubt` and `gone` are history: attempts that broke off, and a container that `docker ps`
did not list.

**Traffic**, **ExitServer.** `counter` is in the interface, `total` and `raw` in memory,
`disk` in the file; one direction. `slipped` marks what no reader of a counter could
notice: a restart after traffic nobody had read, or a counter that passed its old value
again. `ExitServer` gives `Traffic` the restarts of `Install` and lets refreshes run only
when no installation does and the instance is found.

**App.** Each click is a call of its own: `call[n]` is who made it, what it asks for, and
how far it is between the window's handler, the helper's mutex and the answer. `poll` is
refreshStatus, `busy` and `shown` are the window's. The tray decides from a Status it
asks for on the spot, the window from the last one it was shown. The helper is reduced to
what its callers see: the mutex, the tunnel, LAST_STATUS and its death.

**Storage.** A save is `start`, `secrets`, `backup`, `rename`, `forget`, with a failure or
the death of the app at each. `filed` and `reported` are history. Backups are named by the
time of day and are taken to be made in that order: the clock is not set back.

**Vault.** `cache` and `item` are vault.rs, `listed`, `confs` and `file` the profiles in
memory and on disk, `step` and `todo` the change under way; `servers`, `passwords` and
`stored` the management part, whose save runs at the same time under another mutex. One
call of the vault is one step (CACHE is a mutex of its own).

**Panel.** `saved` is state.json, `script` and `rules` are on the proxy, `req[r]` is one
request: its step, its own copy `s` of the state, what it still has to do. Load and save
are atomic (`_lock`), nothing in between is: a slow request writes its copy back over
whatever was saved meanwhile. Each copy has the address of an exit and the port of its
AmneziaWG (`at`, of type `Target`), which an edit, a scan, a preparation and a new client
change. `agreed`, `alone` and `applied` are history: the last apply of the proxy
overlapped no other request and was saved, and where the exits were then. A request may
name an exit twice, as the endpoint takes a list; it then gets a managed cascade for each.

**Cascades.** `mem` and `saved` are the working state and the file, `script` and `rules`
are on the proxy. `at` is where each exit is as far as the state tells, `applied` where it
was at the last complete apply: `SaveServer` gives it another address, and `Prepared`,
`ScanServer`, `DetectExit` and `CreateDirect` may find its AmneziaWG on another port,
all without an apply. The proxy stays the same machine. One AmneziaWG instance per exit:
instances differ only in the name under which the scan keeps them. The window names each
exit of a request once.

## The runs

| Run | Shows |
|---|---|
| `HelperServer_mac` | status, cancellation, routes, protection and the refinement of `Protection`, macOS |
| `HelperServer_live` | Windows: every Down is answered and the resolver reaches lasting split connections, also one that follows another, and across a crash or stop |
| `MacHelper_all` | the record covers every change, with all faults, a crash and a gateway change |
| `WinHelper_all` | Windows: the status is true, nothing is left behind, routes match the list, and a start blocks exactly what was protected |
| `Peers_app` | listed clients work, revoked ones are gone, no two clients share an address |
| `Install_all` | a job reported done has installed; records match what runs; keys survive; traffic totals are right across all of it |
| `Storage_all` | what was reported saved is loaded, secrets are neither lost nor left behind |
| `Cascades_all` | proxy, memory and file agree after every complete apply about where the exits were then |
| `Vault_all` | the two users of the one keychain item lose neither configs nor passwords, and a refused write is made up for by the next |
| `App_all` | tray and auto-connect never replace a tunnel they saw; buttons come back; the window ends up with the truth |
| `Panel_all` | whatever requests write over each other, the file stays consistent, and one apply alone puts the proxy right |
| `Peers_revoke` | expects a violation: a retried deletion is reported done while the peer still has access |

Bounds. In `HelperServer` two request threads: every protocol race is between the holder
of the mutex and one other thread, and the two watchers are there as well; two Ups, so
that there is an earlier and a later connection, and one restart; a connection may come
while the resolver works or sleeps for the one before it. In `MacHelper` two networks (one
known at the start, one resolved later), two gateways, one service, two Ups and two
crashes. In `WinHelper` four networks (one known, two resolved later one after the other,
one of no list), three Ups and two deaths or reboots. In `Peers` three keys for the app
and one for another tool share two addresses, so that they run out and are given out
again. In `Install` three attempts, two events on the server (`MaxUpsets`: a reboot, a
user, a daemon) and three units of traffic. In `Storage` two entries and two failures, so
that a failed save is followed by another and a death; one backup is kept (`MaxBackups`),
so that the second file a save replaces has one trimmed. In `Vault` three profiles, so
that an import of two fails between them, two servers and two failures. In `Cascades` two
exits, two ports and two ids, so that ports and ids run out and are reused, one failure,
and one move of an exit (`MaxMoves`) to another address or another port of AmneziaWG. A
property that needs more failures was found out by its proof: the forward of a create that
broke off, lost in a script, created and saved again needs three of them. The proofs hold
for any number. In `App` one budget (`MaxEvents`) of three for clicks, deaths of the
helper and the auto-connect: three calls are enough for a request, the one it overtakes
and the answer of a third. In `Panel` two requests at a time and three in all (a create, a
save that undoes it or moves an exit, and the apply that repairs), with two exits, ports,
ids, keys and addresses.

Each run checks what is worth a run. `TypeOK` of every module holds as well when it is
added to its configuration, and is proved where there is a proof module.

Deadlock is checked, except in `Install_all` and `App_all`: there attempts and clicks are
used up and nothing else has to happen. In the others an idle program can always be closed
and started, or refreshed.

Fairness. `HelperServer_live`: request threads, watchers and the stop handler are threads
of the operating system and run (weak fairness). Taking the mutex is strongly fair for a
waiting Down and the watchers: the mutex itself promises no order, but each of its holders
gives it back and the watchers sleep at least a second between two turns, so a parked
thread finds it free. Nothing is assumed of the user. `App_all`: the timer of the window
fires, threads run and a request is answered or its connection breaks (weak fairness).
That the helper answers in the end is assumed: every holder of its mutex gives it back
(`HelperServer_live`) and a death breaks the connection. The time limits of the app (2 s
for a Status, 30 minutes for an Up, amz-ipc/src/lib.rs:129) are left out; they bound the
same wait without the helper. The user, the auto-connect and the start of a dead helper
have no fairness. `MacHelper` states fairness too, for `RouteFollows`: under `FairSpec`
with `Faults <- RestFaults` (no route command fails) the server's route returns to the
physical gateway. This holds, and is no run: `OneGateway` of `MacHelper_all` says of the
same routes that the record the watcher compares with does not lie about them, again after
failed moves once one succeeds, and `GatewayKept` below is what is left.

### Disagreements

Sentences of the repository that the code does not keep. Each is a definition at the end
of its module. One is a run that expects the violation, quoted in `PROJECT.json`; each of
the others is violated under its module's constants when it is added to the configuration
(`HelperServer!NoBlockFromNowhere` with `Platform = "windows"`, `GatewayKept` with
`MaxMoves = 2`, `RouteFollows` with the faults named here).

| Definition | Sentence | What happens |
|---|---|---|
| `HelperServer!NoBlockFromNowhere` | a block is restored when "the previous run died with the kill switch on" (windows.rs:125) | Windows: a failed Up has already taken the kill switch away but left its file |
| `MacHelper!DisconnectUnblocks` | blocked "until the user connects or disconnects" (main.rs:263) | the state file could not be written: nobody owns the block |
| `MacHelper!GatewayKept` | "keep the route to the server on the current physical gateway" (main.rs:137) | a failed move deleted the route; back on the recorded gateway nothing looks changed |
| `Cascades!AppliedWorks` | "applied" is shown as "works" (Manage.svelte:29) | the exit's AmneziaWG is on another port since; only the address is compared (proxy.rs:182) |
| `Panel!CascadesMove` | the cascades "will move to the new address" (index.html:323) | the save applies nothing |
| `Peers!RevokedHasNoAccess` (run `Peers_revoke`) | deleting a client revokes its access (README.md:41) | the retry after a failed apply skips the apply |
| `HelperServer!BusyAnswerMeansWork` | "the service is busy: wait or cancel connecting" (main.rs:226) | a Status or a watcher holds the mutex for a moment |
| `MacHelper!FailedUpUndone` | everything changed "can be undone" (macos.rs:1-2) | the state file cannot be written after the network was configured, and `?` returns |
| `MacHelper!BackupIsOriginal` | DNS "before we changed them" (macos.rs:17), two Ups | an Up after one that was not undone backs up our own servers |
| `MacHelper!RouteFollows`, under `FairSpec` with `Faults <- RouteFaults`, `MaxMoves = 2` | "keep the route to the server on the current physical gateway" (main.rs:137) | a route deleted and not added again is not repaired when the gateway returns |
| `WinHelper!NoGap` | the block of a crash stays until the new tunnel is up (windows.rs:151) | applyPlan disables the filters before it enables the new ones (libawg_windows.go:124), and leaves none if the second fails |
| `App!AutoKeepsTunnel` | auto-connect does not replace a tunnel that is up (lib.rs:246) | the user connects between its Status and its Up |
| `Peers!OtherPeersKept` | "without dropping other peers" (foreign.rs:307) | the file is written back as it was read |
| `Storage!PasswordOfThisMachine` | "forget what we knew about the old" machine (manage.rs:207) | the keychain still has the old password under the same id |
| `Storage!SnapshotIsSaved` | "last saved state" (manage.rs:74) | the snapshot is also taken after a failed save |
| `Storage!BackupHasSecrets` | "can be rolled back from here" (storage.rs:125) | the backups' secrets are deleted |
| `Cascades!WorkIsKept` | "keeps what was already done" (ops.rs:2-3) | nothing is saved when the apply fails after it took effect |
| `Panel!OnlyItsRule` | deleting a cascade "removes only its rule on the proxy" (README.md:42) | another request began before a third cascade was created, and takes that one along |
| `Panel!PortsInUse` | a port "never meets" one that is in use (README.md:23) | two overlapping requests give out the same one |
| `Vault!SavedIsWritten` | passwords "are kept in `secrets`" (storage.rs:49) | a refused secret stays in the cache; a retry finds it there and is reported saved |

## The proofs

TLC checks the instances above; the proofs hold for every number of threads, Ups, keys,
entries, failures and crashes. Each follows the same pattern: a strengthening (`IInv`, or
`TInv`, `InstallInv`, `VaultInv`, `PanelInv` where two modules share a file), lemmas saying
that every action keeps its conjuncts, and a theorem that joins them. Every strengthening
was checked with TLC on the module's run before it was proved. Two modules that belong
together share a proof module: `Install`, `Traffic` and `ExitServer`; `App` and `Vault`
(the app's side); `Storage` and `Panel` (the two places where state is saved).

* `HelperServerProofs`. `IInv` adds to the types who may be at which point: whoever is
  past its lock holds the mutex (so two threads are never inside `up`), where the cached
  status may be stale, and how `mark` and `heard` relate to `ups` and the flag. From it:
  `BusyEnds`, `CachedTruth`, `DownIsFinal`, `CancelIsHeard` and `RoutesAreOwn` (an answer
  enters only the connection the resolver was given, whose number no other will have); for
  macOS also `ProtectionSurvives` and `PromiseKept`, the step simulation of `Protection`:
  a file that is not torn is of the tunnel, of the block, or of nothing, at each of the
  two steps of each write. The macOS results assume `Platform = "macos"`; Windows does not
  have them (`NoBlockFromNowhere`).
* `WinHelperProofs`. `netState.firewall` is true exactly while the filters are the
  tunnel's (`Filters`), which is why netDown may decide from it alone, and each point of
  `up` and `down` knows what it has left open (`AtPoint`). From these and from what the
  file says between two requests (`FileTells`): all four properties of `WinHelper_all`.
* `MacHelperProofs`. The record an interrupted helper would undo from is, while it undoes,
  what the commands still to come take back (`Remaining`), so a failed command costs only
  its own part. `Recorded` is inductive together with: which point goes with which
  connection (`Control`), where a file can be (`Files`), whoever says kill switch has the
  filter (`Guarded`), the routes lie on the recorded gateway (`Gateways`), the DNS servers
  in the record and the file are the user's (`Backups`), and what the file says of the
  record when the helper is at rest (`FileKept`). From these all five properties of
  `MacHelper_all`: `ChangesAreRecorded`, `FileIsEnough`, `BlockHolds`, `RoutesAgree`,
  `OnlyTheUserLifts`. `FileAssumption` only says that a missing and a torn file differ from
  every record.
* `PeersProofs`. `RevocationIsFinal`: keys are generated once, so a revoked key is never
  the key of an operation that writes it back; the invariant follows what an operation has
  read (`text`) against what the file may have become. `ListedClientsWork` needs the other
  direction: what an operation has read still holds every listed client but the one being
  deleted. `AddressesAreDistinct`: the address being given out is
  free in the file, which until it is written only loses clients, so that neither the file
  nor the interface ever holds an address twice (`Addressed`), but for a client that was
  cut off as it was appended.
* `CascadesProofs`. `Settled` says what the boot script, the chains and the file owe each
  other after an apply that was not cut short; `Condemned` that only a forward which an
  interrupted create or delete touched is live without being in the script, or in the file
  without being in memory. The first statement of `ForwardsKept` had forgotten such
  leftovers. What the exits do between two applies is kept apart by `applied`: the proxy
  answers to where they were, `begun` and the file to ports alone. From these:
  `ForwardsMatch`, `StatusTrue`, `PortsDistinct` and `ForwardsKept`, for any number of
  failures and moves.
* `StorageProofs`. `ReportedSaved` and `FiledSecrets`: while a save runs every password is
  in the keychain or still to be stored, and what will be forgotten is listed nowhere.
  `SecretsForgotten` adds that a reported save leaves no secret of a deleted entry, and
  `PreviousIsKept` that trimming spares the backup just made, for any number of backups.
  For `Panel` the file alone is not inductive: every copy a request works on is consistent
  as well, and cascades in the making share no id and no port with one another or with the
  copy (`Apart`). `FileStaysConsistent` follows although copies overwrite each other in any
  order. `ApplyAloneAgrees`: once the proxy agrees with the file, every copy that can be
  saved without an apply lists the same cascades, wherever it has their exits (`Agreed`).
* `ExitServerProofs`. For `Traffic`, a total and the counter it was read from are always
  stored as a pair, so memory and disk satisfy the same bound and the app may go on with
  either. For `Install`, an `ok` marker or a running unit means an installed package
  whoever started the job (`DoneIsInstalled`); what an instance runs with is what its
  config says and the port the container publishes, unless an attempt is under way or
  broke off (`RecordIsTrue`); and only an instance that was not listed is given new keys
  (`KeysAreKept`). Every step of `ExitServer` is a step of `Traffic` or a stutter (lemma
  `ExitCounts`), so the totals stay right in the composition (`ExitTotalsRight`).
* `AppProofs`. The cached status is set before the mutex is given back, so a tunnel that is
  up is cached as up or as busy (`NoHiddenTunnel`); a call is inside the helper only while
  it runs (`Served`). From these `ConnectsOnlyWhenDown`.
  For `Vault`, `ListedHaveConfs`, `OnlyAskedLeave`, `ReportedIsKept`: a write of the item
  writes the whole cache, so `Held` and `Asked` compare both with what was asked for; a
  new profile's key is in neither, so storing it really writes the item, which is
  not so for a password that is stored again after a refusal (`SavedIsWritten`): that one
  is in the cache (`Cached`), and every write takes the whole cache (`WholeCache`).
  `NoTraceOfFailure`: between two changes memory and file list the same profiles.

Types are proved for every module but `Protection`, which `PromiseKept` relates to
`HelperServer`. The only assumptions are the named ones on constants: values that mean
"nothing" are not values, bounds are naturals (and `MaxEvents` positive, for the
auto-connect counts).

What the proofs found. The first statement of `ForwardsKept` had forgotten the leftovers of
an interrupted create. The step after the DNS servers of macOS left the next point open
when the machine has no network service, which no run has. A request of the panel that had
joined its cascades to the copy went on to another link test after its last save, instead
of returning (main.py:236-241), so that the model had steps the code has not. The models
were corrected.

Only model-checked: the liveness of `HelperServer_live` and `App_all` (`DownServed`,
`WatcherFollows`, `BusyEnds`, `WindowCatchesUp`), because fairness and ENABLED are out of
the prover's reach. Every other property of a passing run is a theorem. The disagreements
are TLC's counterexamples; a violated statement has no proof.

## Not modelled

* Text formats (configs, vpn:// keys, iptables output), QR codes, encodings, the WFP filter
  tables, the installer, the command line client, the screens, packaging. They compute or
  display and keep no state that outlives a call; the repository's unit tests exercise
  them. `subtract` of split.rs is of this kind: `WinHelper` takes its result as a set.
* Of the web panel: what an endpoint does on an exit (the commands are those of `Peers`,
  `Install` and `Traffic`; here it succeeds or fails), SSH sessions, the page itself.
* Of the app: quitting from the tray, installing and updating the helper, the settings,
  and the time limits of a call (see Fairness).
* The move of configs and keychain items of older versions.

## Plan

1. A promise of what the management operations do, stated without servers and commands
   (a client is listed, works, is revoked), with `Peers` shown to implement it.
2. `MacHelper` and `WinHelper` against one abstract network (protected or not, by whom),
   so that both platforms implement one statement as far as the code lets them.
3. The ports and copies of `Panel` under the lock the code lacks: which of the two
   disagreements a lock over load, work and save would mend.
4. `SplitRoutes`: subtract and routes against sets of addresses (TLC only).

The runs are kept to a dozen, so that all of them are repeated after every change. A new
module takes the place of a run that only repeats a disagreement, which then stays in the
table above.

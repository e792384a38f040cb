------------------------------- MODULE Install -------------------------------
(***************************************************************************)
(* Getting AmneziaWG onto an exit server, command by command: detect, the  *)
(* detached install job and the loop that waits for it, and then either    *)
(* the native interface (a config of its own, awg-quick) or our container  *)
(* (image, config, docker run).  The connection may drop between any two   *)
(* commands, the app may die, and the user tries again; the job, the       *)
(* docker daemon and the machine go on by themselves.  With_state's mutex  *)
(* allows one operation at a time.                                         *)
(*                                                                         *)
(* A number stands for what one server_conf draws: a key with its port.    *)
(***************************************************************************)
EXTENDS Naturals

CONSTANTS MaxTries,  \* bound: operations, each draws at most one key
          MaxUpsets  \* bound: what happens to the server from outside

ASSUME InstallAssumption == MaxTries \in Nat /\ MaxUpsets \in Nat

\* Where AmneziaWG lives: awg0 of the system, or a container of ours.
Places == {"native", "instance"}
Keys   == 0..MaxTries    \* 0: none
Steps  == {"idle", "detect", "docker", "join", "start", "poll", "state", "write",
           "launch", "wait"}

VARIABLES
    pc, want,  \* the operation: its next command, the place it installs to
    pkg,       \* amneziawg, docker: the package is installed
    unit,      \* the job cascade-*-install: none, running, past its last command
    ok,        \* /var/log/cascade-*-install.ok
    daemon,    \* dockerd runs
    conf, torn,\* the key in the config file; files that were cut short
    box,       \* awg-quick enabled, the container: none, on, off (stopped by hand)
    port,      \* the port the container was run with
    runs,      \* the key the interface runs with
    record,    \* State: the key of servers[].awg
    doubt,     \* history: places whose interface nothing has shown to be up
    gone,      \* history: docker ps had no container to list at some time of this operation
    tries, upsets

job    == <<pkg, unit, ok>>
server == <<daemon, conf, torn, box, port, runs>>
limits == <<tries, upsets>>
vars   == <<pc, want, job, server, record, doubt, gone, limits>>

TypeOK ==
    /\ pc \in Steps /\ want \in Places
    /\ pkg \in [Places -> BOOLEAN] /\ ok \in [Places -> BOOLEAN]
    /\ unit \in [Places -> {"none", "active", "ending"}]
    /\ daemon \in BOOLEAN /\ conf \in [Places -> Keys] /\ torn \subseteq Places
    /\ box \in [Places -> {"none", "on", "off"}] /\ port \in [Places -> Keys]
    /\ runs \in [Places -> Keys] /\ record \in [Places -> Keys]
    /\ doubt \subseteq Places /\ gone \in BOOLEAN
    /\ tries \in 0..MaxTries /\ upsets \in 0..MaxUpsets

\* A server on which nothing of ours was installed yet; docker may be there.
Init ==
    /\ pc = "idle" /\ want = "native"
    /\ pkg \in [Places -> BOOLEAN] /\ daemon = pkg["instance"]
    /\ unit = [p \in Places |-> "none"] /\ ok = [p \in Places |-> FALSE]
    /\ conf = [p \in Places |-> 0] /\ torn = {} /\ box = [p \in Places |-> "none"]
    /\ port = [p \in Places |-> 0] /\ runs = [p \in Places |-> 0]
    /\ record = [p \in Places |-> 0] /\ doubt = {} /\ gone = FALSE
    /\ tries = 0 /\ upsets = 0

\* containers: what docker ps lists when it works.
Listed == daemon /\ box["instance"] = "on"

\* start.sh, awg-quick: what an interface may run with once it was started.
Started(p, k) == IF p \in torn THEN {0} ELSE {0, k}

---------------------------------------------------------------------------
(* prepare_exit, detect and detect_instance.                               *)

Begin(p) ==
    /\ pc = "idle" /\ tries < MaxTries /\ tries' = tries + 1
    /\ pc' = "detect" /\ want' = p /\ gone' = (p = "instance" /\ ~Listed)
    /\ UNCHANGED <<job, server, record, doubt, upsets>>

\* Mutated form of Found: the interface must be up, not only configured.
MFound == runs[want] # 0

\* The config of a native installation, a container that runs.
Found == IF want = "native" THEN conf[want] # 0 ELSE Listed

\* set_awg of the place wanted, and of the native one wherever detect found it; then
\* "ready" on the port of the config.
Ready ==
    /\ pc' = "idle"
    /\ record' = [p \in Places |->
                     IF p = want \/ (p = "native" /\ conf[p] # 0)
                     THEN conf[p] ELSE record[p]]

\* detect runs first, whatever is wanted.
Detect ==
    /\ pc = "detect" /\ "native" \notin torn
    /\ \/ /\ Found /\ want \notin torn /\ Ready
       \/ /\ ~Found /\ record' = record
          /\ pc' = IF want = "native" THEN "join" ELSE "docker"
    /\ UNCHANGED <<want, job, server, doubt, gone, limits>>

\* docker ps fails though the container runs: "|| true" makes that an empty list.
Unlisted ==
    /\ upsets < MaxUpsets /\ upsets' = upsets + 1
    /\ pc = "detect" /\ want = "instance" /\ "native" \notin torn
    /\ pc' = "docker" /\ gone' = TRUE
    /\ UNCHANGED <<want, job, server, record, doubt, tries>>

\* An error, a dropped connection, the death of the app: the operation ends where it
\* is; read_info cannot read a config that was cut short.
Fails ==
    /\ pc \notin {"idle", "poll", "state"} /\ pc' = "idle"
    /\ doubt' = IF pc \in {"launch", "wait"} THEN doubt \cup {want} ELSE doubt
    /\ UNCHANGED <<want, job, server, record, gone, limits>>

---------------------------------------------------------------------------
(* ensure_docker, run_install: the detached job.                           *)

EnsureDocker ==
    /\ pc = "docker" /\ pc' = IF pkg["instance"] THEN "write" ELSE "join"
    /\ UNCHANGED <<want, job, server, record, doubt, gone, limits>>

\* A job that already runs is joined.
Join ==
    /\ pc = "join" /\ pc' = IF unit[want] = "none" THEN "start" ELSE "poll"
    /\ UNCHANGED <<want, job, server, record, doubt, gone, limits>>

\* Mutated form of StartJob: the ok of the last job stays.
MStartJob ==
    /\ pc = "start" /\ pc' = "poll"
    /\ unit' = [unit EXCEPT ![want] = "active"]
    /\ UNCHANGED <<pkg, ok, want, server, record, doubt, gone, limits>>

\* rm -f ok; reset-failed; systemd-run.
StartJob ==
    /\ pc = "start" /\ pc' = "poll"
    /\ ok' = [ok EXCEPT ![want] = FALSE] /\ unit' = [unit EXCEPT ![want] = "active"]
    /\ UNCHANGED <<pkg, want, server, record, doubt, gone, limits>>

\* test -f ok
PollOk ==
    /\ pc = "poll" /\ pc' = IF ok[want] THEN "write" ELSE "state"
    /\ UNCHANGED <<want, job, server, record, doubt, gone, limits>>

\* || systemctl is-active
PollState ==
    /\ pc = "state" /\ pc' = IF unit[want] = "none" THEN "idle" ELSE "poll"
    /\ UNCHANGED <<want, job, server, record, doubt, gone, limits>>

\* A poll whose connection dropped is made again, after a reconnect.
Reconnect ==
    /\ pc = "state" /\ pc' = "poll"
    /\ UNCHANGED <<want, job, server, record, doubt, gone, limits>>

\* INSTALL_TIMEOUT, or the death of the app.
Deadline ==
    /\ pc \in {"poll", "state"} /\ pc' = "idle"
    /\ UNCHANGED <<want, job, server, record, doubt, gone, limits>>

\* The script: apt-get, and touch ok as its last command.
JobSucceeds(p) ==
    /\ unit[p] = "active" /\ unit' = [unit EXCEPT ![p] = "ending"]
    /\ pkg' = [pkg EXCEPT ![p] = TRUE] /\ ok' = [ok EXCEPT ![p] = TRUE]
    /\ daemon' = (daemon \/ p = "instance")
    /\ UNCHANGED <<pc, want, conf, torn, box, port, runs, record, doubt, gone, limits>>

\* set -e: the first error ends it.
JobEnds(p) ==
    /\ unit[p] # "none" /\ unit' = [unit EXCEPT ![p] = "none"]
    /\ UNCHANGED <<pc, want, pkg, ok, server, record, doubt, gone, limits>>

---------------------------------------------------------------------------
(* install_native and install_instance after the packages.                 *)

\* put: cat > file; a connection that drops may leave half of it.
WriteConf ==
    /\ pc = "write" /\ conf' = [conf EXCEPT ![want] = tries]
    /\ \/ pc' = "launch" /\ torn' = torn \ {want} /\ doubt' = doubt
       \/ pc' = "idle" /\ torn' = torn \cup {want} /\ doubt' = doubt \cup {want}
    /\ UNCHANGED <<want, job, daemon, box, port, runs, record, gone, limits>>

\* systemctl enable --now: it fails if the interface does not come up, and stays
\* enabled; a success ends in detect.
EnableNative ==
    /\ pc = "launch" /\ want = "native" /\ box' = [box EXCEPT ![want] = "on"]
    /\ \/ /\ runs' = [runs EXCEPT ![want] = conf[want]] /\ doubt' = doubt \ {want}
          /\ Ready
       \/ /\ runs' = runs /\ doubt' = doubt \cup {want} /\ pc' = "idle"
          /\ record' = record
    /\ UNCHANGED <<want, job, daemon, conf, torn, port, gone, limits>>

\* docker rm -f, docker run.
DockerRun ==
    /\ pc = "launch" /\ want = "instance" /\ daemon
    /\ \/ /\ box' = [box EXCEPT ![want] = "on"] /\ port' = [port EXCEPT ![want] = conf[want]]
          /\ \E k \in Started(want, conf[want]) : runs' = [runs EXCEPT ![want] = k]
          /\ pc' = "wait" /\ doubt' = doubt
       \/ /\ box' = [box EXCEPT ![want] = "none"] /\ runs' = [runs EXCEPT ![want] = 0]
          /\ pc' = "idle" /\ doubt' = doubt \cup {want} /\ port' = port
    /\ UNCHANGED <<want, job, daemon, conf, torn, record, gone, limits>>

\* Mutated form of WaitUp: the container is taken for the interface.
MWaitUp ==
    /\ pc = "wait" /\ Listed
    /\ doubt' = doubt \ {want} /\ Ready
    /\ UNCHANGED <<want, job, server, gone, limits>>

\* The interface listens on the port drawn, NAT is on, and detect_instance finds it.
WaitUp ==
    /\ pc = "wait" /\ Listed /\ runs[want] = conf[want]
    /\ doubt' = doubt \ {want} /\ Ready
    /\ UNCHANGED <<want, job, server, gone, limits>>

---------------------------------------------------------------------------
(* The server by itself.                                                   *)

Upset == upsets < MaxUpsets /\ upsets' = upsets + 1

\* Containers end with the daemon and start with it again (--restart always).
DaemonStops ==
    /\ Upset /\ daemon /\ daemon' = FALSE
    /\ runs' = [runs EXCEPT !["instance"] = 0]
    /\ doubt' = doubt \cup {"instance"} /\ gone' = TRUE
    /\ UNCHANGED <<pc, want, job, conf, torn, box, port, record, tries>>

DaemonStarts ==
    /\ ~daemon /\ pkg["instance"] /\ daemon' = TRUE
    /\ IF box["instance"] = "none" THEN UNCHANGED <<box, runs>>
       ELSE /\ box' = [box EXCEPT !["instance"] = "on"]
            /\ \E k \in Started("instance", conf["instance"]) :
                   runs' = [runs EXCEPT !["instance"] = k]
    /\ UNCHANGED <<pc, want, job, conf, torn, port, record, doubt, gone, limits>>

\* The user stops the container.
ContainerStops ==
    /\ Upset /\ Listed /\ box' = [box EXCEPT !["instance"] = "off"]
    /\ runs' = [runs EXCEPT !["instance"] = 0]
    /\ doubt' = doubt \cup {"instance"} /\ gone' = TRUE
    /\ UNCHANGED <<pc, want, job, daemon, conf, torn, port, record, tries>>

\* A reboot ends the job and every connection.
Reboot ==
    /\ Upset /\ pc' = (IF pc \in {"poll", "state"} THEN pc ELSE "idle")
    /\ unit' = [p \in Places |-> "none"] /\ daemon' = FALSE
    /\ \E k \in Started("native", conf["native"]) :
           runs' = [p \in Places |->
                       IF p = "native" /\ box[p] = "on" THEN k ELSE 0]
    /\ doubt' = Places /\ gone' = TRUE
    /\ UNCHANGED <<want, pkg, ok, conf, torn, box, port, record, tries>>

\* Between two operations the user removes the package.
Purge(p) ==
    /\ Upset /\ pc = "idle" /\ pkg[p] /\ box[p] = "none" /\ unit[p] = "none"
    /\ pkg' = [pkg EXCEPT ![p] = FALSE] /\ daemon' = (daemon /\ p # "instance")
    /\ UNCHANGED <<pc, want, unit, ok, conf, torn, box, port, runs, record, doubt, gone,
                   tries>>

Operation ==
    \/ Detect \/ Unlisted \/ Fails \/ EnsureDocker \/ Join \/ StartJob \/ PollOk \/ PollState
    \/ Reconnect \/ Deadline \/ WriteConf \/ EnableNative \/ DockerRun \/ WaitUp

Next ==
    \/ \E p \in Places : Begin(p) \/ JobSucceeds(p) \/ JobEnds(p) \/ Purge(p)
    \/ Operation \/ DaemonStops \/ DaemonStarts \/ ContainerStops \/ Reboot

Spec == Init /\ [][Next]_vars

---------------------------------------------------------------------------
(* Properties *)

\* The config of the place is new, its interface not yet shown to be up.
Launching(p) == pc \in {"launch", "wait"} /\ want = p

\* A job reported as done has installed the package, whoever started it and whatever
\* an earlier one left behind (foreign.rs:240-271).
DoneMeansInstalled ==
    [][pc = "poll" /\ pc' = "write" => pkg[want]]_vars

\* Where no attempt is or broke off halfway and nothing happened to the server since,
\* what the state records is what the interface runs, on the port the container
\* publishes.
RecordedRuns ==
    \A p \in Places : record[p] # 0 /\ p \notin doubt /\ ~Launching(p) =>
        runs[p] = record[p] /\ conf[p] = record[p]
        /\ (p = "instance" => port[p] = record[p])

\* A server key, on which every issued client config depends, is replaced only in a
\* container that docker ps did not list at some time of the operation, because it did
\* not run or because docker ps failed (foreign.rs:59, 171).
KeysSurvive ==
    [][\A p \in Places :
          conf[p] # 0 /\ conf'[p] # conf[p] => p = "instance" /\ gone]_vars

=============================================================================

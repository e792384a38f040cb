--------------------------- MODULE ExitServerProofs ---------------------------
(***************************************************************************)
(* The installation and the traffic of an exit server, for any number of   *)
(* attempts, upsets and units of traffic.                                  *)
(*                                                                         *)
(* Install: an ok file speaks of the job that runs or of the one an        *)
(* operation waits for (OkIsTrue); a container that an operation finds     *)
(* missing was not listed at some time of it (Missed), so a key is only   *)
(* replaced where that may be; and a config nobody doubts is what its      *)
(* interface runs with, except between writing it and starting it (Agrees).*)
(*                                                                         *)
(* Traffic: totals in memory and on disk are each kept with the counter    *)
(* they were read from, so both satisfy the same bound, and it does not    *)
(* matter which of them the app goes on with.                              *)
(*                                                                         *)
(* ExitServer: each of its steps is a step of one of the two, so it has    *)
(* what both promise.                                                      *)
(***************************************************************************)
EXTENDS ExitServer, TLAPS

---------------------------------------------------------------------------
(* The installation.                                                       *)

\* The steps before a config is written.
Before == {"detect", "docker", "join", "start", "poll", "state", "write"}

\* The ok of a running job, and of one an operation waits for, tells of the package.
OkIsTrue ==
    \A p \in Places :
        unit[p] # "none" \/ (pc \in {"poll", "state"} /\ want = p) => (ok[p] => pkg[p])

\* An operation past its detect found no config, or was shown no container.
Missed ==
    /\ want = "native" /\ pc \in Before \ {"detect", "docker"} => conf["native"] = 0
    /\ want = "native" => pc # "docker"
    /\ want = "instance" /\ pc # "idle" /\ ~Listed => gone
    /\ want = "instance" /\ pc \in Before \ {"detect"} => gone

\* A config that is not in doubt runs, and what is recorded is that config.
Agrees ==
    /\ \A p \in Places \ doubt : conf[p] # 0 /\ ~Launching(p) => runs[p] = conf[p]
    /\ "instance" \notin doubt /\ conf["instance"] # 0 /\ ~Launching("instance")
           => Listed /\ port["instance"] = conf["instance"]
    /\ \A p \in Places \ doubt : record[p] # 0 /\ ~Launching(p) => record[p] = conf[p]
    /\ pc = "wait" => want = "instance" /\ port["instance"] = conf["instance"]

InstallInv == TypeOK /\ OkIsTrue /\ Missed /\ Agrees

\* What DoneMeansInstalled and KeysSurvive say of one step.
Installed == pc = "poll" /\ pc' = "write" => pkg[want]
Survived  == \A p \in Places :
                 conf[p] # 0 /\ conf'[p] # conf[p] => p = "instance" /\ gone

\* Every step keeps the types.
LEMMA InstallTypeStep == TypeOK /\ [Next]_vars => TypeOK'
<1> SUFFICES ASSUME TypeOK, [Next]_vars PROVE TypeOK'
  OBVIOUS
<1> USE InstallAssumption DEF Places, Keys, Steps, job, server, limits, vars, TypeOK
<1>1. ASSUME NEW p \in Places, Begin(p) PROVE TypeOK'
  BY <1>1 DEF Begin
<1>2. ASSUME NEW p \in Places, JobSucceeds(p) PROVE TypeOK'
  BY <1>2 DEF JobSucceeds
<1>3. ASSUME NEW p \in Places, JobEnds(p) PROVE TypeOK'
  BY <1>3 DEF JobEnds
<1>4. ASSUME NEW p \in Places, Purge(p) PROVE TypeOK'
  BY <1>4 DEF Purge, Upset
<1>5. CASE Detect
  BY <1>5 DEF Detect, Found, Ready
<1>6. CASE Fails
  BY <1>6 DEF Fails
<1>7. CASE EnsureDocker
  BY <1>7 DEF EnsureDocker
<1>8. CASE Join
  BY <1>8 DEF Join
<1>9. CASE StartJob
  BY <1>9 DEF StartJob
<1>10. CASE PollOk
  BY <1>10 DEF PollOk
<1>11. CASE PollState
  BY <1>11 DEF PollState
<1>12. CASE Reconnect
  BY <1>12 DEF Reconnect
<1>13. CASE Deadline
  BY <1>13 DEF Deadline
<1>14. CASE WriteConf
  BY <1>14 DEF WriteConf
<1>15. CASE EnableNative
  <2>1. want \in Places /\ conf[want] \in Keys
    OBVIOUS
  <2>2. runs' \in [Places -> Keys] /\ record' \in [Places -> Keys]
    BY <1>15, <2>1 DEF EnableNative, Ready
  <2>3. box' \in [Places -> {"none", "on", "off"}] /\ pc' \in Steps /\ doubt' \subseteq Places
    BY <1>15, <2>1 DEF EnableNative, Ready
  <2>4. QED
    BY <1>15, <2>2, <2>3 DEF EnableNative
<1>16. CASE DockerRun
  <2>1. 0 \in Keys /\ want \in Places /\ conf[want] \in Keys
    OBVIOUS
  <2>2. runs' \in [Places -> Keys] /\ port' \in [Places -> Keys]
    BY <1>16, <2>1 DEF DockerRun, Started
  <2>3. pc' \in Steps /\ doubt' \subseteq Places
    BY <1>16, <2>1 DEF DockerRun
  <2>4. box' \in [Places -> {"none", "on", "off"}]
    BY <1>16, <2>1 DEF DockerRun
  <2>5. QED
    BY <1>16, <2>2, <2>3, <2>4 DEF DockerRun
<1>17. CASE WaitUp
  BY <1>17 DEF WaitUp, Ready
<1>18. CASE DaemonStops
  <2>1. 0 \in Keys /\ upsets' \in 0..MaxUpsets
    BY <1>18 DEF DaemonStops, Upset
  <2>2. runs' \in [Places -> Keys] /\ doubt' \subseteq Places
    BY <1>18, <2>1 DEF DaemonStops
  <2>3. QED
    BY <1>18, <2>1, <2>2 DEF DaemonStops
<1>19. CASE DaemonStarts
  BY <1>19 DEF DaemonStarts, Started
<1>20. CASE ContainerStops
  BY <1>20 DEF ContainerStops, Upset
<1>21. CASE Reboot
  <2>1. 0 \in Keys /\ upsets' \in 0..MaxUpsets
    BY <1>21 DEF Reboot, Upset
  <2>2. runs' \in [Places -> Keys]
    BY <1>21, <2>1 DEF Reboot, Started
  <2>3. unit' \in [Places -> {"none", "active", "ending"}] /\ pc' \in Steps
    BY <1>21 DEF Reboot
  <2>4. QED
    BY <1>21, <2>1, <2>2, <2>3 DEF Reboot
<1>24. CASE Unlisted
  BY <1>24 DEF Unlisted
<1>22. CASE UNCHANGED vars
  BY <1>22
<1> HIDE DEF Places, Keys, Steps, job, server, limits, vars, TypeOK
<1>23. QED
  BY <1>1, <1>2, <1>3, <1>4, <1>5, <1>6, <1>7, <1>8, <1>9, <1>10, <1>11, <1>12,
     <1>13, <1>14, <1>15, <1>16, <1>17, <1>18, <1>19, <1>20, <1>21, <1>22, <1>24
     DEF Next, Operation

\* A new job removes the old ok; a package is removed only when no job or operation is there.
LEMMA OkStep == TypeOK /\ OkIsTrue /\ [Next]_vars => OkIsTrue'
<1> SUFFICES ASSUME TypeOK, OkIsTrue, [Next]_vars PROVE OkIsTrue'
  OBVIOUS
<1> USE InstallAssumption DEF Places, Keys, Steps, job, server, limits, vars,
   TypeOK, OkIsTrue
<1>1. ASSUME NEW p \in Places, Begin(p) PROVE OkIsTrue'
  BY <1>1 DEF Begin
<1>2. ASSUME NEW p \in Places, JobSucceeds(p) PROVE OkIsTrue'
  BY <1>2 DEF JobSucceeds
<1>3. ASSUME NEW p \in Places, JobEnds(p) PROVE OkIsTrue'
  BY <1>3 DEF JobEnds
<1>4. ASSUME NEW p \in Places, Purge(p) PROVE OkIsTrue'
  BY <1>4 DEF Purge, Upset
<1>5. CASE Detect
  BY <1>5 DEF Detect, Found, Ready
<1>6. CASE Fails
  BY <1>6 DEF Fails
<1>7. CASE EnsureDocker
  BY <1>7 DEF EnsureDocker
<1>8. CASE Join
  BY <1>8 DEF Join
<1>9. CASE StartJob
  BY <1>9 DEF StartJob
<1>10. CASE PollOk
  BY <1>10 DEF PollOk
<1>11. CASE PollState
  BY <1>11 DEF PollState
<1>12. CASE Reconnect
  BY <1>12 DEF Reconnect
<1>13. CASE Deadline
  BY <1>13 DEF Deadline
<1>14. CASE WriteConf
  BY <1>14 DEF WriteConf
<1>15. CASE EnableNative
  BY <1>15 DEF EnableNative, Ready
<1>16. CASE DockerRun
  BY <1>16 DEF DockerRun, Started
<1>17. CASE WaitUp
  BY <1>17 DEF WaitUp, Ready
<1>18. CASE DaemonStops
  BY <1>18 DEF DaemonStops, Upset
<1>19. CASE DaemonStarts
  BY <1>19 DEF DaemonStarts, Started
<1>20. CASE ContainerStops
  BY <1>20 DEF ContainerStops, Upset
<1>21. CASE Reboot
  BY <1>21 DEF Reboot, Upset, Started
<1>24. CASE Unlisted
  BY <1>24 DEF Unlisted
<1>22. CASE UNCHANGED vars
  BY <1>22
<1> HIDE DEF Places, Keys, Steps, job, server, limits, vars, TypeOK, OkIsTrue
<1>23. QED
  BY <1>1, <1>2, <1>3, <1>4, <1>5, <1>6, <1>7, <1>8, <1>9, <1>10, <1>11, <1>12,
     <1>13, <1>14, <1>15, <1>16, <1>17, <1>18, <1>19, <1>20, <1>21, <1>22, <1>24
     DEF Next, Operation

\* What an operation missed stays missed until it writes.
LEMMA MissedStep == TypeOK /\ Missed /\ Agrees /\ [Next]_vars => Missed'
<1> SUFFICES ASSUME TypeOK, Missed, Agrees, [Next]_vars PROVE Missed'
  OBVIOUS
<1> USE InstallAssumption DEF Places, Keys, Steps, job, server, limits, vars,
   TypeOK, Missed, Agrees, Before, Launching, Listed
<1>1. ASSUME NEW p \in Places, Begin(p) PROVE Missed'
  BY <1>1 DEF Begin
<1>2. ASSUME NEW p \in Places, JobSucceeds(p) PROVE Missed'
  BY <1>2 DEF JobSucceeds
<1>3. ASSUME NEW p \in Places, JobEnds(p) PROVE Missed'
  BY <1>3 DEF JobEnds
<1>4. ASSUME NEW p \in Places, Purge(p) PROVE Missed'
  BY <1>4 DEF Purge, Upset
<1>5. CASE Detect
  BY <1>5 DEF Detect, Found, Ready
<1>6. CASE Fails
  BY <1>6 DEF Fails
<1>7. CASE EnsureDocker
  BY <1>7 DEF EnsureDocker
<1>8. CASE Join
  BY <1>8 DEF Join
<1>9. CASE StartJob
  BY <1>9 DEF StartJob
<1>10. CASE PollOk
  BY <1>10 DEF PollOk
<1>11. CASE PollState
  BY <1>11 DEF PollState
<1>12. CASE Reconnect
  BY <1>12 DEF Reconnect
<1>13. CASE Deadline
  BY <1>13 DEF Deadline
<1>14. CASE WriteConf
  BY <1>14 DEF WriteConf
<1>15. CASE EnableNative
  BY <1>15 DEF EnableNative, Ready
<1>16. CASE DockerRun
  BY <1>16 DEF DockerRun, Started
<1>17. CASE WaitUp
  BY <1>17 DEF WaitUp, Ready
<1>18. CASE DaemonStops
  BY <1>18 DEF DaemonStops, Upset
<1>19. CASE DaemonStarts
  BY <1>19 DEF DaemonStarts, Started
<1>20. CASE ContainerStops
  BY <1>20 DEF ContainerStops, Upset
<1>21. CASE Reboot
  BY <1>21 DEF Reboot, Upset, Started
<1>24. CASE Unlisted
  BY <1>24 DEF Unlisted
<1>22. CASE UNCHANGED vars
  BY <1>22
<1> HIDE DEF Places, Keys, Steps, job, server, limits, vars, TypeOK, Missed,
   Agrees, Before, Launching, Listed
<1>23. QED
  BY <1>1, <1>2, <1>3, <1>4, <1>5, <1>6, <1>7, <1>8, <1>9, <1>10, <1>11, <1>12,
     <1>13, <1>14, <1>15, <1>16, <1>17, <1>18, <1>19, <1>20, <1>21, <1>22, <1>24
     DEF Next, Operation

\* A config runs before it is out of doubt, and what stops an interface brings it in doubt.
LEMMA AgreesStep == TypeOK /\ Missed /\ Agrees /\ [Next]_vars => Agrees'
<1> SUFFICES ASSUME TypeOK, Missed, Agrees, [Next]_vars PROVE Agrees'
  OBVIOUS
<1> USE InstallAssumption DEF Places, Keys, Steps, job, server, limits, vars,
   TypeOK, Missed, Agrees, Before, Launching, Listed
<1>1. ASSUME NEW p \in Places, Begin(p) PROVE Agrees'
  BY <1>1 DEF Begin
<1>2. ASSUME NEW p \in Places, JobSucceeds(p) PROVE Agrees'
  BY <1>2 DEF JobSucceeds
<1>3. ASSUME NEW p \in Places, JobEnds(p) PROVE Agrees'
  BY <1>3 DEF JobEnds
<1>4. ASSUME NEW p \in Places, Purge(p) PROVE Agrees'
  BY <1>4 DEF Purge, Upset
<1>5. CASE Detect
  BY <1>5 DEF Detect, Found, Ready
<1>6. CASE Fails
  BY <1>6 DEF Fails
<1>7. CASE EnsureDocker
  BY <1>7 DEF EnsureDocker
<1>8. CASE Join
  BY <1>8 DEF Join
<1>9. CASE StartJob
  BY <1>9 DEF StartJob
<1>10. CASE PollOk
  BY <1>10 DEF PollOk
<1>11. CASE PollState
  BY <1>11 DEF PollState
<1>12. CASE Reconnect
  BY <1>12 DEF Reconnect
<1>13. CASE Deadline
  BY <1>13 DEF Deadline
<1>14. CASE WriteConf
  BY <1>14 DEF WriteConf
<1>15. CASE EnableNative
  BY <1>15 DEF EnableNative, Ready
<1>16. CASE DockerRun
  BY <1>16 DEF DockerRun, Started
<1>17. CASE WaitUp
  BY <1>17 DEF WaitUp, Ready
<1>18. CASE DaemonStops
  BY <1>18 DEF DaemonStops, Upset
<1>19. CASE DaemonStarts
  BY <1>19 DEF DaemonStarts, Started
<1>20. CASE ContainerStops
  BY <1>20 DEF ContainerStops, Upset
<1>21. CASE Reboot
  BY <1>21 DEF Reboot, Upset, Started
<1>24. CASE Unlisted
  BY <1>24 DEF Unlisted
<1>22. CASE UNCHANGED vars
  BY <1>22
<1> HIDE DEF Places, Keys, Steps, job, server, limits, vars, TypeOK, Missed,
   Agrees, Before, Launching, Listed
<1>23. QED
  BY <1>1, <1>2, <1>3, <1>4, <1>5, <1>6, <1>7, <1>8, <1>9, <1>10, <1>11, <1>12,
     <1>13, <1>14, <1>15, <1>16, <1>17, <1>18, <1>19, <1>20, <1>21, <1>22, <1>24
     DEF Next, Operation

\* Only a true ok lets the operation go on, and only a missing config is written.
LEMMA InstallActionStep == TypeOK /\ OkIsTrue /\ Missed /\ [Next]_vars =>
    (Installed /\ Survived)
<1> SUFFICES ASSUME TypeOK, OkIsTrue, Missed, [Next]_vars PROVE (Installed /\
   Survived)
  OBVIOUS
<1> USE InstallAssumption DEF Places, Keys, Steps, job, server, limits, vars,
   TypeOK, OkIsTrue, Missed, Before, Installed, Survived, Listed
<1>1. ASSUME NEW p \in Places, Begin(p) PROVE (Installed /\ Survived)
  BY <1>1 DEF Begin
<1>2. ASSUME NEW p \in Places, JobSucceeds(p) PROVE (Installed /\ Survived)
  BY <1>2 DEF JobSucceeds
<1>3. ASSUME NEW p \in Places, JobEnds(p) PROVE (Installed /\ Survived)
  BY <1>3 DEF JobEnds
<1>4. ASSUME NEW p \in Places, Purge(p) PROVE (Installed /\ Survived)
  BY <1>4 DEF Purge, Upset
<1>5. CASE Detect
  BY <1>5 DEF Detect, Found, Ready
<1>6. CASE Fails
  BY <1>6 DEF Fails
<1>7. CASE EnsureDocker
  BY <1>7 DEF EnsureDocker
<1>8. CASE Join
  BY <1>8 DEF Join
<1>9. CASE StartJob
  BY <1>9 DEF StartJob
<1>10. CASE PollOk
  BY <1>10 DEF PollOk
<1>11. CASE PollState
  BY <1>11 DEF PollState
<1>12. CASE Reconnect
  BY <1>12 DEF Reconnect
<1>13. CASE Deadline
  BY <1>13 DEF Deadline
<1>14. CASE WriteConf
  BY <1>14 DEF WriteConf
<1>15. CASE EnableNative
  BY <1>15 DEF EnableNative, Ready
<1>16. CASE DockerRun
  BY <1>16 DEF DockerRun, Started
<1>17. CASE WaitUp
  BY <1>17 DEF WaitUp, Ready
<1>18. CASE DaemonStops
  BY <1>18 DEF DaemonStops, Upset
<1>19. CASE DaemonStarts
  BY <1>19 DEF DaemonStarts, Started
<1>20. CASE ContainerStops
  BY <1>20 DEF ContainerStops, Upset
<1>21. CASE Reboot
  BY <1>21 DEF Reboot, Upset, Started
<1>24. CASE Unlisted
  BY <1>24 DEF Unlisted
<1>22. CASE UNCHANGED vars
  BY <1>22
<1> HIDE DEF Places, Keys, Steps, job, server, limits, vars, TypeOK, OkIsTrue,
   Missed, Before, Installed, Survived, Listed
<1>23. QED
  BY <1>1, <1>2, <1>3, <1>4, <1>5, <1>6, <1>7, <1>8, <1>9, <1>10, <1>11, <1>12,
     <1>13, <1>14, <1>15, <1>16, <1>17, <1>18, <1>19, <1>20, <1>21, <1>22, <1>24
     DEF Next, Operation


\* The strengthened invariant of the installation.
LEMMA InstallInductive == Spec => []InstallInv
<1>1. Init => InstallInv
  <2> SUFFICES ASSUME Init PROVE InstallInv
    OBVIOUS
  <2> USE InstallAssumption DEF Init, Places, Keys, Steps
  <2>1. TypeOK
    <3>1. 0 \in Keys /\ 0 \in 0..MaxTries /\ 0 \in 0..MaxUpsets
      OBVIOUS
    <3>2. pkg["instance"] \in BOOLEAN
      OBVIOUS
    <3>3. QED
      BY <3>1, <3>2, Zenon DEF TypeOK
  <2>2. OkIsTrue /\ Missed
    BY DEF OkIsTrue, Missed, Before, Listed
  <2>3. Agrees
    BY DEF Agrees, Launching, Listed
  <2>4. QED
    BY <2>1, <2>2, <2>3 DEF InstallInv
<1>2. InstallInv /\ [Next]_vars => InstallInv'
  BY InstallTypeStep, OkStep, MissedStep, AgreesStep DEF InstallInv
<1>3. QED
  BY <1>1, <1>2, PTL DEF Spec

\* What is recorded of a place that nobody doubts is what its interface runs.
LEMMA RunsAsRecorded == InstallInv => RecordedRuns
  BY DEF InstallInv, Agrees, RecordedRuns, Places

---------------------------------------------------------------------------
(* The traffic of one client.                                              *)

\* What is known of a total and the counter it was read from.
Bounded(t, r) == t + Delta(r) =< sent
Exact(t, r)   == t + Delta(r) = sent

TInv ==
    /\ TrafficTypeOK
    /\ Bounded(total, raw) /\ Bounded(disk.total, disk.raw)
    /\ ~slipped => Exact(total, raw) /\ Exact(disk.total, disk.raw)

\* The delta is what accumulate adds: a natural number, nothing for a fresh counter.
LEMMA DeltaFacts ==
  ASSUME TrafficTypeOK, NEW r \in Nat
  PROVE  /\ Delta(r) \in Nat
         /\ counter = r => Delta(r) = 0
         /\ counter = 0 => Delta(r) = 0
BY DEF TrafficTypeOK, Delta

LEMMA TrafficTypeStep == TrafficTypeOK /\ [TrafficNext]_tvars => TrafficTypeOK'
<1> SUFFICES ASSUME TrafficTypeOK, [TrafficNext]_tvars PROVE TrafficTypeOK'
  OBVIOUS
<1> USE TrafficAssumption
<1>1. CASE Flow
  BY <1>1 DEF Flow, TrafficTypeOK
<1>2. CASE InterfaceRestarts
  BY <1>2 DEF InterfaceRestarts, TrafficTypeOK
<1>3. CASE Refresh
  <2>1. Delta(raw) \in Nat
    BY DeltaFacts DEF TrafficTypeOK
  <2>2. total' \in Nat /\ raw' \in Nat
    BY <1>3, <2>1 DEF Refresh, TrafficTypeOK
  <2>3. disk' \in [total : Nat, raw : Nat]
    BY <1>3, <2>2 DEF Refresh, TrafficTypeOK
  <2>4. QED
    BY <1>3, <2>2, <2>3 DEF Refresh, TrafficTypeOK
<1>4. CASE AppRestarts
  BY <1>4 DEF AppRestarts, TrafficTypeOK
<1>5. CASE UNCHANGED tvars
  BY <1>5 DEF tvars, TrafficTypeOK
<1>6. QED
  BY <1>1, <1>2, <1>3, <1>4, <1>5 DEF TrafficNext

LEMMA TrafficStep == TInv /\ [TrafficNext]_tvars => TInv'
<1> SUFFICES ASSUME TInv, [TrafficNext]_tvars PROVE TInv'
  OBVIOUS
<1>1. TrafficTypeOK /\ TrafficTypeOK'
  BY TrafficTypeStep DEF TInv
<1>2. CASE Flow
  <2>1. ASSUME NEW t \in Nat, NEW r \in Nat
        PROVE  /\ Bounded(t, r) => t + (IF counter' < r THEN counter' ELSE counter' - r)
                                       =< sent'
               /\ Exact(t, r) /\ counter' # r =>
                      t + (IF counter' < r THEN counter' ELSE counter' - r) = sent'
    BY <1>1, <1>2 DEF Flow, TrafficTypeOK, Bounded, Exact, Delta
  <2>2. disk.total \in Nat /\ disk.raw \in Nat /\ total \in Nat /\ raw \in Nat
    BY <1>1 DEF TrafficTypeOK
  <2>3. QED
    BY <1>1, <1>2, <2>1, <2>2 DEF Flow, TInv, Bounded, Exact, Delta
<1>3. CASE InterfaceRestarts
  <2>1. ASSUME NEW t \in Nat, NEW r \in Nat
        PROVE  Bounded(t, r) => t =< sent
    BY <1>1, DeltaFacts DEF TrafficTypeOK, Bounded
  <2>2. disk.total \in Nat /\ disk.raw \in Nat /\ total \in Nat /\ raw \in Nat
        /\ sent \in Nat
    BY <1>1, TrafficAssumption DEF TrafficTypeOK
  <2>3. total =< sent /\ disk.total =< sent
    BY <2>1, <2>2 DEF TInv
  <2>4. /\ counter' = 0 /\ UNCHANGED <<sent, total, raw, disk>>
        /\ ~slipped' => total = sent /\ disk.total = sent
    BY <1>3 DEF InterfaceRestarts
  <2>5. Delta(raw)' = 0 /\ Delta(disk.raw)' = 0
    BY <2>2, <2>4 DEF Delta
  <2>6. Bounded(total, raw)' /\ Bounded(disk.total, disk.raw)'
    BY <2>2, <2>3, <2>4, <2>5 DEF Bounded
  <2>7. ~slipped' => Exact(total, raw)' /\ Exact(disk.total, disk.raw)'
    BY <2>2, <2>4, <2>5 DEF Exact
  <2>8. QED
    BY <1>1, <2>6, <2>7 DEF TInv
<1>4. CASE Refresh
  <2>1. total' = total + Delta(raw) /\ raw' = counter /\ sent' = sent
        /\ counter' = counter /\ slipped' = slipped
    BY <1>4 DEF Refresh
  <2>2. Bounded(total, raw)' /\ (~slipped => Exact(total, raw)')
    BY <1>1, <2>1 DEF TInv, TrafficTypeOK, Bounded, Exact, Delta
  <2>3. CASE disk' = disk
    BY <1>1, <2>1, <2>2, <2>3 DEF TInv, Bounded, Exact, Delta
  <2>4. CASE disk' = [total |-> total', raw |-> counter]
    BY <1>1, <2>1, <2>2, <2>4 DEF TInv, Bounded, Exact, Delta
  <2>5. QED
    BY <1>4, <2>3, <2>4 DEF Refresh
<1>5. CASE AppRestarts
  BY <1>1, <1>5 DEF AppRestarts, TInv, Bounded, Exact, Delta
<1>6. CASE UNCHANGED tvars
  BY <1>1, <1>6 DEF tvars, TInv, Bounded, Exact, Delta
<1>7. QED
  BY <1>2, <1>3, <1>4, <1>5, <1>6 DEF TrafficNext

\* The strengthened invariant holds in every behaviour.
LEMMA TrafficInvariant == TrafficSpec => []TInv
<1>1. TrafficInit => TInv
  <2> SUFFICES ASSUME TrafficInit PROVE TInv
    OBVIOUS
  <2>1. TrafficTypeOK
    <3>1. disk \in [total : Nat, raw : Nat]
      BY DEF TrafficInit
    <3>2. sent \in 0..MaxSent
      BY TrafficAssumption DEF TrafficInit
    <3>3. QED
      BY <3>1, <3>2 DEF TrafficInit, TrafficTypeOK
  <2>2. disk.total = 0 /\ disk.raw = 0 /\ Delta(0) = 0
    BY DEF TrafficInit, Delta
  <2>3. QED
    BY <2>1, <2>2 DEF TrafficInit, TInv, Bounded, Exact
<1>2. QED
  BY <1>1, TrafficStep, PTL DEF TrafficSpec

\* No byte is counted twice, whatever restarts, and nothing is missed, but for a
\* restart with unread traffic or one that went unnoticed (ops.rs:447).
THEOREM TrafficTotalsRight == TrafficSpec => []TotalsRight
<1>1. TInv => TotalsRight
  BY DEF TInv, TotalsRight, NeverMore, CaughtUp, Bounded, Exact
<1>2. QED
  BY <1>1, TrafficInvariant, PTL

---------------------------------------------------------------------------
(* Both together.                                                          *)

\* Every step of the exit server is one of the installation, or leaves it alone.
LEMMA ExitInstalls == ExitSpec => Spec
<1>1. ExitInit => Init
  BY DEF ExitInit
<1>2. [ExitNext]_evars => [Next]_vars
  BY DEF ExitNext, evars, ServerStep, RefreshTraffic, ClientTraffic, AppAgain, IssueClient
<1>3. QED
  BY <1>1, <1>2, PTL DEF ExitSpec, Spec

\* The traffic sees of the installation only restarts of its interface: ExitServer
\* implements Traffic.
LEMMA ExitCounts == ExitSpec => TrafficSpec
<1>1. ExitInit => TrafficInit
  BY DEF ExitInit
<1>2. [ExitNext]_evars => [TrafficNext]_tvars
  BY DEF ExitNext, evars, ServerStep, RefreshTraffic, ClientTraffic, AppAgain, IssueClient,
         TrafficNext
<1>3. QED
  BY <1>1, <1>2, PTL DEF ExitSpec, TrafficSpec

\* Types of both, whatever order their steps come in.
THEOREM ExitTyping == ExitSpec => [](TypeOK /\ TrafficTypeOK)
<1>1. InstallInv => TypeOK
  BY DEF InstallInv
<1>2. TInv => TrafficTypeOK
  BY DEF TInv
<1>3. QED
  BY <1>1, <1>2, ExitInstalls, ExitCounts, InstallInductive, TrafficInvariant, PTL

\* What the state records of an undoubted place is what runs there (foreign.rs:98-236).
THEOREM RecordIsTrue == ExitSpec => []RecordedRuns
  BY RunsAsRecorded, ExitInstalls, InstallInductive, PTL

\* A job reported as done has installed the package (foreign.rs:240-271).
THEOREM DoneIsInstalled == ExitSpec => DoneMeansInstalled
<1>1. InstallInv /\ [Next]_vars => Installed
  BY InstallActionStep DEF InstallInv
<1>2. QED
  BY <1>1, ExitInstalls, InstallInductive, PTL DEF Spec, DoneMeansInstalled, Installed

\* A server key is replaced only in a container that docker ps did not list at some time
\* of the operation (foreign.rs:59, 171).
THEOREM KeysAreKept == ExitSpec => KeysSurvive
<1>1. InstallInv /\ [Next]_vars => Survived
  BY InstallActionStep DEF InstallInv
<1>2. QED
  BY <1>1, ExitInstalls, InstallInductive, PTL DEF Spec, KeysSurvive, Survived

\* The totals of a client are right across installations, upsets and restarts.
THEOREM ExitTotalsRight == ExitSpec => []TotalsRight
  BY ExitCounts, TrafficTotalsRight, PTL
=============================================================================

---------------------------- MODULE MacHelperProofs ----------------------------
(***************************************************************************)
(* What the macOS helper changed can be undone, for any services, networks *)
(* and gateways, any faults, and any number of Ups, deaths and moves.  The *)
(* record in memory covers every change at every command (Recorded); the   *)
(* file covers them as well wherever a death can do without an excuse      *)
(* (FileKept), because it is written whole after an Up, follows a move of  *)
(* the gateway up to the gateway itself, and otherwise only lags behind by *)
(* the networks refreshed since.  Who says kill switch has the filter      *)
(* (Guarded), so a start that finds the word in the file keeps a block     *)
(* that is really there.                                                   *)
(***************************************************************************)
EXTENDS MacHelper, TLAPS

\* Where a connection is being set up, and where the connection's record is in charge.
SettingUp == {"device", "route"} \cup UpSteps
InCharge  == pc \in UpSteps \/ helper = "active"

\* The file is a record, not missing and not torn.
Written == file \in NetState

\* What the next command says about the rest of the helper.
Control ==
    /\ pc \in SettingUp \cup UndoSteps => helper = "none"
    /\ pc = "save" => helper = "active"
    /\ pc \in SettingUp \/ (pc \in UndoSteps /\ after = "device") => ups >= 1
    /\ pc # "save" => unsaved < Batch
    /\ pc = "route" => net = Unchanged
    /\ pc \in {"kill", "enable", "bypass"} => net.token = 0
    /\ pc = "bypass" => opts.mode = "except"
    /\ pc = "undo pf" => after # "keep"
    /\ pc \in UndoSteps /\ after = "start" => ~net.kill

\* Where a file can be: none while a connection is set up, one with the kill switch
\* where a block is kept.
Files ==
    /\ pc \in SettingUp \/ (pc = "idle" /\ helper = "none")
           \/ (pc \in UndoSteps /\ after = "failed") => ~Written
    /\ helper = "blocked" \/ (pc \in UndoSteps /\ after = "keep") => Written /\ file.kill
    /\ pc \in UndoSteps /\ after = "start" => ~(Written /\ file.kill)

\* Whoever says kill switch, the record or the file, has the filter, but for a file on
\* the way out of a Down.
Guarded ==
    /\ InCharge /\ net.kill => pf
    /\ pc \in {"enable", "dns", "write"} \/ helper = "active" =>
           (opts.kill /\ opts.mode = "all" => pf)
    /\ Written /\ file.kill /\ "crash in down" \notin excuse =>
           pf \/ (pc \in UndoSteps \ {"undo pf"} /\ after \in {"idle", "device"})

\* The routes around the tunnel lie on the recorded gateway.
Gateways ==
    /\ InCharge => net.ep # NoGateway
    /\ pc \in UpSteps \/ (helper = "active" /\ "follow failed" \notin excuse) =>
           epRoute = net.ep /\ \A n \in net.bypass : bypass[n] = net.ep

\* The record the helper will undo from, or would now.
Due == IF pc \in UndoSteps THEN Remaining ELSE
       IF pc = "device" \/ (pc = "idle" /\ helper = "none") THEN Unchanged ELSE net

DuePlan ==
    /\ pc \notin UndoSteps /\ pc # "device" /\ (pc # "idle" \/ helper # "none") => Due = net
    /\ pc = "device" \/ (pc = "idle" /\ helper = "none") => Due = Unchanged
    /\ pc = "undo file" => Due.ep = NoGateway
    /\ pc \in UndoSteps \ {"undo file"} => Due.ep = net.ep
    /\ pc \in {"undo route", "undo file"} => Due.dns = Unchanged.dns
    /\ pc \in {"undo pf", "undo bypass", "undo dns"} => Due.dns = net.dns
    /\ pc \in {"undo dns", "undo route", "undo file"} => Due.bypass = {}
    /\ pc \in {"undo pf", "undo bypass"} => Due.bypass = net.bypass
    /\ pc \in UndoSteps \ {"undo pf"} /\ after # "keep" => Due.kill = FALSE /\ Due.token = 0
    /\ pc = "undo pf" \/ (pc \in UndoSteps /\ after = "keep") =>
           Due.kill = net.kill /\ Due.token = net.token

\* Record and file as long as nothing happened that the code makes no provision for:
\* both cover the system, and the file differs from the record of a connection only in
\* the gateway and in networks refreshed since.
Provided == excuse \cap Forgets = {}
NoBackupOfOurs(r) == \A s \in Service : r.dns[s] # "vpn"

Originals == NoBackupOfOurs(net) /\ file # Torn /\ (Written => NoBackupOfOurs(file))
Backups == Provided => Originals

Enough == unsaved = 0 /\ (helper # "none" \/ (pc \in UndoSteps /\ after # "failed")) =>
              Written /\ Covers(file)
Follows == helper = "active" =>
               /\ Written /\ file.ep # NoGateway
               /\ file.dns = net.dns /\ file.kill = net.kill /\ file.token = net.token
               /\ unsaved = 0 => net.bypass \subseteq file.bypass
FileKept == Provided => Enough /\ Follows

IInv ==
    /\ TypeOK /\ Control /\ Files /\ Guarded /\ Gateways /\ Backups
    /\ FileKept /\ Recorded

---------------------------------------------------------------------------
(* Records.                                                                *)

\* A file that is missing or torn is no record.
LEMMA NoRecords == NoFile \notin NetState /\ Torn \notin NetState /\ NoFile # Torn
<1>1. NoFile.ep = "no file" /\ Torn.ep = "torn"
  BY DEF NoFile, Torn, Unchanged
<1>2. \A r \in NetState : r.ep \in Via
  BY DEF NetState
<1>3. QED
  BY <1>1, <1>2, FileAssumption DEF Via

\* The record of a system that was not changed.
LEMMA UnchangedFacts ==
    /\ Unchanged \in NetState /\ Unchanged.ep = NoGateway /\ Unchanged.bypass = {}
    /\ Unchanged.kill = FALSE /\ Unchanged.token = 0
    /\ \A s \in Service : Unchanged.dns[s] = "unset"
<1>1. 0 \in 0..MaxUps
  BY LimitsAssumption
<1>2. QED
  BY <1>1 DEF Unchanged, NetState, Via

LEMMA FieldTypes ==
    ASSUME NEW r \in NetState
    PROVE  /\ r.ep \in Via /\ r.dns \in [Service -> {"unset", "own", "vpn"}]
           /\ r.bypass \subseteq Net /\ r.kill \in BOOLEAN /\ r.token \in 0..MaxUps
BY DEF NetState

\* One field of a record is set and the others stay.
LEMMA SetEp ==
    ASSUME NEW r \in NetState, NEW g \in Via, NEW q, q = [r EXCEPT !.ep = g]
    PROVE  /\ q \in NetState /\ q.ep = g /\ q.dns = r.dns /\ q.bypass = r.bypass
           /\ q.kill = r.kill /\ q.token = r.token
BY DEF NetState

LEMMA SetBypass ==
    ASSUME NEW r \in NetState, NEW n \in Net, NEW q,
           q = [r EXCEPT !.bypass = @ \cup {n}]
    PROVE  /\ q \in NetState /\ q.ep = r.ep /\ q.dns = r.dns
           /\ q.bypass = r.bypass \cup {n} /\ q.kill = r.kill /\ q.token = r.token
<1>1. r.bypass \cup {n} \in SUBSET Net
  BY FieldTypes
<1>2. QED
  BY <1>1 DEF NetState

LEMMA SetKill ==
    ASSUME NEW r \in NetState, NEW q, q = [r EXCEPT !.kill = TRUE]
    PROVE  /\ q \in NetState /\ q.ep = r.ep /\ q.dns = r.dns /\ q.bypass = r.bypass
           /\ q.kill = TRUE /\ q.token = r.token
BY DEF NetState

LEMMA SetToken ==
    ASSUME NEW r \in NetState, NEW i \in 0..MaxUps, NEW q, q = [r EXCEPT !.token = i]
    PROVE  /\ q \in NetState /\ q.ep = r.ep /\ q.dns = r.dns /\ q.bypass = r.bypass
           /\ q.kill = r.kill /\ q.token = i
BY DEF NetState

LEMMA SetDnsOf ==
    ASSUME NEW r \in NetState, NEW s \in Service, NEW d \in {"own", "vpn"}, NEW q,
           q = [r EXCEPT !.dns[s] = d]
    PROVE  /\ q \in NetState /\ q.ep = r.ep /\ q.bypass = r.bypass /\ q.kill = r.kill
           /\ q.token = r.token /\ q.dns[s] = d
           /\ \A x \in Service : x # s => q.dns[x] = r.dns[x]
<1>1. [r.dns EXCEPT ![s] = d] \in [Service -> {"unset", "own", "vpn"}]
  BY FieldTypes
<1>2. q = [ep |-> r.ep, dns |-> [r.dns EXCEPT ![s] = d], bypass |-> r.bypass,
           kill |-> r.kill, token |-> r.token]
  BY DEF NetState
<1>3. QED
  BY <1>1, <1>2, FieldTypes DEF NetState

\* What a block keeps of a record.
LEMMA SetBlock ==
    ASSUME NEW r \in NetState, NEW q,
           q = [Unchanged EXCEPT !.kill = r.kill, !.token = r.token]
    PROVE  /\ q \in NetState /\ q.ep = NoGateway /\ q.bypass = {} /\ q.kill = r.kill
           /\ q.token = r.token /\ \A s \in Service : q.dns[s] = "unset"
<1>1. r.kill \in BOOLEAN /\ r.token \in 0..MaxUps
  BY FieldTypes
<1>2. /\ q \in NetState /\ q.ep = Unchanged.ep /\ q.dns = Unchanged.dns
      /\ q.bypass = Unchanged.bypass /\ q.kill = r.kill /\ q.token = r.token
  BY <1>1, UnchangedFacts DEF NetState
<1>3. QED
  BY <1>2, UnchangedFacts

---------------------------------------------------------------------------
(* The actions that change the record, field by field.                     *)

LEMMA CreateDeviceDoes ==
    ASSUME CreateDevice
    PROVE  /\ pc = "device" /\ pc' = "route" /\ net' = Unchanged
           /\ net' \in NetState /\ net'.ep = NoGateway /\ net'.bypass = {}
           /\ net'.kill = FALSE /\ net'.token = 0
           /\ \A s \in Service : net'.dns[s] = "unset"
           /\ excuse' = excuse \ {"follow failed"}
           /\ UNCHANGED <<gateway, epRoute, bypass, dns, pf, pfTokens, helper, opts,
                          after, unsaved, file, wanted, ups, crashes, moves>>
BY UnchangedFacts DEF CreateDevice, Mended, system, limits

LEMMA AddEndpointRouteDoes ==
    ASSUME TypeOK, AddEndpointRoute
    PROVE  /\ pc = "route" /\ gateway # NoGateway /\ epRoute' = gateway
           /\ pc' \in {"bypass", "kill", "dns", "write"}
           /\ pc' = "bypass" => opts.mode = "except"
           /\ pc' \in {"dns", "write"} => ~(opts.kill /\ opts.mode = "all")
           /\ net' \in NetState /\ net'.ep = gateway /\ net'.dns = net.dns
           /\ net'.bypass = net.bypass /\ net'.kill = net.kill /\ net'.token = net.token
           /\ UNCHANGED <<gateway, bypass, dns, pf, pfTokens, helper, opts, after,
                          unsaved, file, wanted, excuse, ups, crashes, moves>>
<1>1. pc' = AfterRoutes /\ net' = [net EXCEPT !.ep = gateway]
  BY DEF AddEndpointRoute
<1>2. /\ net' \in NetState /\ net'.ep = gateway /\ net'.dns = net.dns
      /\ net'.bypass = net.bypass /\ net'.kill = net.kill /\ net'.token = net.token
  BY <1>1, SetEp DEF TypeOK
<1>3. /\ pc' \in {"bypass", "kill", "dns", "write"}
      /\ pc' = "bypass" => opts.mode = "except"
      /\ pc' \in {"dns", "write"} => ~(opts.kill /\ opts.mode = "all")
  BY <1>1 DEF AfterRoutes
<1>4. QED
  BY <1>2, <1>3 DEF AddEndpointRoute, limits

LEMMA AddBypassDoes ==
    ASSUME TypeOK, NEW n \in Known, AddBypass(n)
    PROVE  /\ pc = "bypass" /\ n \in Net /\ n \notin net.bypass /\ net.bypass \subseteq Net
           /\ bypass' \in [Net -> Via] /\ bypass'[n] = net.ep
           /\ \A m \in Net : m # n => bypass'[m] = bypass[m]
           /\ net' \in NetState /\ net'.ep = net.ep /\ net'.dns = net.dns
           /\ net'.bypass = net.bypass \cup {n} /\ net'.kill = net.kill
           /\ net'.token = net.token
           /\ UNCHANGED <<gateway, epRoute, dns, pf, pfTokens, helper, opts, pc, after,
                          unsaved, file, wanted, excuse, ups, crashes, moves>>
<1>1. n \in Net /\ net \in NetState /\ net.ep \in Via /\ net.bypass \subseteq Net
  BY FieldTypes DEF Net, TypeOK
<1>2. net' = [net EXCEPT !.bypass = @ \cup {n}] /\ bypass' = [bypass EXCEPT ![n] = net.ep]
  BY DEF AddBypass
<1>3. bypass' \in [Net -> Via] /\ bypass'[n] = net.ep
      /\ \A m \in Net : m # n => bypass'[m] = bypass[m]
  BY <1>1, <1>2 DEF TypeOK
<1>4. /\ net' \in NetState /\ net'.ep = net.ep /\ net'.dns = net.dns
      /\ net'.bypass = net.bypass \cup {n} /\ net'.kill = net.kill
      /\ net'.token = net.token
  BY <1>1, <1>2, SetBypass
<1>5. QED
  BY <1>1, <1>3, <1>4 DEF AddBypass, limits

LEMMA LoadRulesDoes ==
    ASSUME TypeOK, LoadRules
    PROVE  /\ pc = "kill" /\ pf' = TRUE /\ pc' = "enable"
           /\ net' \in NetState /\ net'.ep = net.ep /\ net'.dns = net.dns
           /\ net'.bypass = net.bypass /\ net'.kill = TRUE /\ net'.token = net.token
           /\ UNCHANGED <<gateway, epRoute, bypass, dns, pfTokens, helper, opts, after,
                          unsaved, file, wanted, excuse, ups, crashes, moves>>
<1>1. /\ net' \in NetState /\ net'.ep = net.ep /\ net'.dns = net.dns
      /\ net'.bypass = net.bypass /\ net'.kill = TRUE /\ net'.token = net.token
  BY SetKill DEF LoadRules, TypeOK
<1>2. QED
  BY <1>1 DEF LoadRules, limits

LEMMA EnableFilterDoes ==
    ASSUME TypeOK, EnableFilter
    PROVE  /\ pc = "enable" /\ pc' = "dns" /\ pfTokens' = pfTokens \cup {ups}
           /\ 0 \notin pfTokens
           /\ net' \in NetState /\ net'.ep = net.ep /\ net'.dns = net.dns
           /\ net'.bypass = net.bypass /\ net'.kill = net.kill /\ net'.token = ups
           /\ UNCHANGED <<gateway, epRoute, bypass, dns, pf, helper, opts, after,
                          unsaved, file, wanted, excuse, ups, crashes, moves>>
<1>1. net \in NetState /\ ups \in 0..MaxUps
  BY DEF TypeOK
<1>2. net' = [net EXCEPT !.token = ups]
  BY DEF EnableFilter
<1>3. /\ net' \in NetState /\ net'.ep = net.ep /\ net'.dns = net.dns
      /\ net'.bypass = net.bypass /\ net'.kill = net.kill /\ net'.token = ups
  BY <1>1, <1>2, SetToken
<1>4. 0 \notin pfTokens
  BY LimitsAssumption DEF TypeOK
<1>5. QED
  BY <1>3, <1>4 DEF EnableFilter, limits

LEMMA SetDnsDoes ==
    ASSUME TypeOK, NEW s \in Service, SetDns(s)
    PROVE  /\ pc = "dns" /\ net.dns[s] = "unset" /\ dns' \in [Service -> {"own", "vpn"}]
           /\ dns[s] \in {"own", "vpn"}
           /\ dns'[s] = "vpn" /\ \A x \in Service : x # s => dns'[x] = dns[x]
           /\ net' \in NetState /\ net'.ep = net.ep /\ net'.dns[s] = dns[s]
           /\ \A x \in Service : x # s => net'.dns[x] = net.dns[x]
           /\ net'.bypass = net.bypass /\ net'.kill = net.kill /\ net'.token = net.token
           /\ UNCHANGED <<gateway, epRoute, bypass, pf, pfTokens, helper, opts, pc,
                          after, unsaved, file, wanted, excuse, ups, crashes, moves>>
<1>1. net \in NetState /\ dns[s] \in {"own", "vpn"}
  BY DEF TypeOK
<1>2. net' = [net EXCEPT !.dns[s] = dns[s]] /\ dns' = [dns EXCEPT ![s] = "vpn"]
  BY DEF SetDns
<1>3. /\ net' \in NetState /\ net'.ep = net.ep /\ net'.dns[s] = dns[s]
      /\ \A x \in Service : x # s => net'.dns[x] = net.dns[x]
      /\ net'.bypass = net.bypass /\ net'.kill = net.kill /\ net'.token = net.token
  BY <1>1, <1>2, SetDnsOf
<1>4. /\ dns' \in [Service -> {"own", "vpn"}] /\ dns'[s] = "vpn"
      /\ \A x \in Service : x # s => dns'[x] = dns[x]
  BY <1>2 DEF TypeOK
<1>5. QED
  BY <1>1, <1>3, <1>4 DEF SetDns, limits

LEMMA UndoFileDoes ==
    ASSUME UndoFile
    PROVE  /\ pc = "undo file" /\ after # "keep" /\ file' = NoFile /\ unsaved' = 0
           /\ NoFile \notin NetState /\ NoFile # Torn
           /\ pc' = IF after = "device" THEN "device" ELSE "idle"
           /\ net' \in NetState /\ net'.ep = NoGateway /\ net'.bypass = {}
           /\ net'.kill = FALSE /\ net'.token = 0
           /\ \A s \in Service : net'.dns[s] = "unset"
           /\ UNCHANGED <<gateway, epRoute, bypass, dns, pf, pfTokens, helper, opts,
                          after, wanted, excuse, ups, crashes, moves>>
BY UnchangedFacts, NoRecords DEF UndoFile, system, limits

LEMMA KeepBlockDoes ==
    ASSUME TypeOK, KeepBlock
    PROVE  /\ pc = "undo file" /\ after = "keep" /\ helper' = "blocked" /\ pc' = "idle"
           /\ net' \in NetState /\ net'.ep = NoGateway /\ net'.bypass = {}
           /\ net'.kill = net.kill /\ net'.token = net.token
           /\ \A s \in Service : net'.dns[s] = "unset"
           /\ UNCHANGED <<gateway, epRoute, bypass, dns, pf, pfTokens, opts, after,
                          unsaved, file, wanted, excuse, ups, crashes, moves>>
<1>1. /\ net' \in NetState /\ net'.ep = NoGateway /\ net'.bypass = {}
      /\ net'.kill = net.kill /\ net'.token = net.token
      /\ \A s \in Service : net'.dns[s] = "unset"
  BY SetBlock DEF KeepBlock, TypeOK
<1>2. QED
  BY <1>1 DEF KeepBlock, system, limits

LEMMA FollowDoes ==
    ASSUME TypeOK, Follow
    PROVE  /\ pc = "idle" /\ helper = "active" /\ gateway # NoGateway
           /\ net.bypass \subseteq Net
           /\ epRoute' = gateway /\ pc' = "save" /\ bypass' \in [Net -> Via]
           /\ \A n \in Net : bypass'[n] = IF n \in net.bypass THEN gateway ELSE bypass[n]
           /\ net' \in NetState /\ net'.ep = gateway /\ net'.dns = net.dns
           /\ net'.bypass = net.bypass /\ net'.kill = net.kill /\ net'.token = net.token
           /\ excuse' = excuse \ {"follow failed"}
           /\ UNCHANGED <<gateway, dns, pf, pfTokens, helper, opts, after, unsaved,
                          file, wanted, ups, crashes, moves>>
<1>1. /\ net' \in NetState /\ net'.ep = gateway /\ net'.dns = net.dns
      /\ net'.bypass = net.bypass /\ net'.kill = net.kill /\ net'.token = net.token
  BY SetEp DEF Follow, TypeOK
<1>2. bypass' = [n \in Net |-> IF n \in net.bypass THEN gateway ELSE bypass[n]]
  BY DEF Follow
<1>3. bypass' \in [Net -> Via]
  BY <1>2 DEF TypeOK
<1>4. net.bypass \subseteq Net
  BY FieldTypes DEF TypeOK
<1>5. QED
  BY <1>1, <1>2, <1>3, <1>4 DEF Follow, Moved, Mended, limits

LEMMA RefreshDoes ==
    ASSUME TypeOK, NEW n \in Net, Refresh(n)
    PROVE  /\ pc = "idle" /\ helper = "active" /\ n \notin net.bypass
           /\ net.bypass \subseteq Net
           /\ bypass' \in [Net -> Via] /\ bypass'[n] = net.ep
           /\ \A m \in Net : m # n => bypass'[m] = bypass[m]
           /\ net' \in NetState /\ net'.ep = net.ep /\ net'.dns = net.dns
           /\ net'.bypass = net.bypass \cup {n} /\ net'.kill = net.kill
           /\ net'.token = net.token /\ unsaved' = unsaved + 1 /\ unsaved' # 0
           /\ pc' \in {"idle", "save"} /\ (pc' = "idle" => unsaved' < Batch)
           /\ UNCHANGED <<gateway, epRoute, dns, pf, pfTokens, helper, opts, after,
                          file, wanted, excuse, ups, crashes, moves>>
<1>1. net \in NetState /\ net.ep \in Via /\ net.bypass \subseteq Net
  BY FieldTypes DEF TypeOK
<1>2. net' = [net EXCEPT !.bypass = @ \cup {n}] /\ bypass' = [bypass EXCEPT ![n] = net.ep]
  BY DEF Refresh
<1>3. bypass' \in [Net -> Via] /\ bypass'[n] = net.ep
      /\ \A m \in Net : m # n => bypass'[m] = bypass[m]
  BY <1>1, <1>2 DEF TypeOK
<1>4. /\ net' \in NetState /\ net'.ep = net.ep /\ net'.dns = net.dns
      /\ net'.bypass = net.bypass \cup {n} /\ net'.kill = net.kill
      /\ net'.token = net.token
  BY <1>1, <1>2, SetBypass
<1>5. unsaved' = unsaved + 1 /\ unsaved' # 0
  BY LimitsAssumption DEF Refresh, TypeOK
<1>6. pc' \in {"idle", "save"} /\ (pc' = "idle" => unsaved' < Batch)
  BY <1>5, LimitsAssumption DEF Refresh, TypeOK
<1>7. QED
  BY <1>1, <1>3, <1>4, <1>5, <1>6 DEF Refresh, limits

LEMMA CrashDoes ==
    ASSUME TypeOK, Crash
    PROVE  /\ file' \in {file, Torn} /\ (file' # file => "crash in save" \in excuse')
           /\ crashes < MaxCrashes /\ crashes' = crashes + 1
           /\ unsaved' = 0 /\ helper' = "none" /\ excuse \subseteq excuse'
           /\ excuse' \subseteq excuse \cup Excuses /\ CrashExcuse \subseteq excuse'
           /\ \/ /\ file' \notin NetState /\ pc' = "idle" /\ after' = "idle"
                 /\ net' = Unchanged
              \/ /\ file' \in NetState /\ net' = file' /\ file'.kill
                 /\ pc' = "undo bypass" /\ after' = "keep"
              \/ /\ file' \in NetState /\ net' = file' /\ ~file'.kill
                 /\ pc' = "undo pf" /\ after' = "start"
           /\ UNCHANGED <<gateway, epRoute, bypass, dns, pf, pfTokens, opts, wanted,
                          ups, moves>>
<1>1. file' \in {file, Torn} /\ (file' # file => "crash in save" \in excuse')
      /\ excuse \subseteq excuse' /\ CrashExcuse \subseteq excuse'
  BY DEF Crash
<1>2. CrashExcuse \subseteq Excuses
  BY DEF CrashExcuse, Excuses
<1>3. excuse' \subseteq excuse \cup Excuses
  BY <1>2 DEF Crash, Excuses
<1>4. file' \in NetState \cup {NoFile, Torn}
  BY <1>1 DEF TypeOK
<1>5. Recover(file')
  BY DEF Crash
<1>6. CASE file' \in {NoFile, Torn}
  <2>1. file' \notin NetState /\ net' = Unchanged /\ pc' = "idle" /\ after' = "idle"
    BY <1>5, <1>6, NoRecords DEF Recover
  <2>2. QED
    BY <2>1, <1>1, <1>3, <1>5 DEF Crash, Recover, system
<1>7. CASE file' \notin {NoFile, Torn}
  <2>1. /\ file' \in NetState /\ net' = file'
        /\ pc' = IF file'.kill THEN "undo bypass" ELSE "undo pf"
        /\ after' = IF file'.kill THEN "keep" ELSE "start"
    BY <1>4, <1>5, <1>7 DEF Recover
  <2>2. QED
    BY <2>1, <1>1, <1>3, <1>5 DEF Crash, Recover, system
<1>8. QED
  BY <1>6, <1>7

LEMMA UndoFilterDoes ==
    ASSUME TypeOK, UndoFilter
    PROVE  /\ pc = "undo pf" /\ pc' = "undo bypass"
           /\ after \in {"idle", "failed", "device", "keep", "start"}
           /\ excuse' \in {excuse, excuse \cup {"undo failed"}}
           /\ pf' \in BOOLEAN /\ (pf' => pf) /\ (pf /\ ~pf' => net.kill)
           /\ pfTokens' \subseteq pfTokens
           /\ "undo failed" \notin excuse' =>
                  (pf' => ~net.kill) /\ net.token \notin pfTokens'
           /\ UNCHANGED <<gateway, epRoute, bypass, dns, helper, net, opts, after,
                          unsaved, file, wanted, ups, crashes, moves>>
<1>1. PICK done, released \in BOOLEAN :
        /\ pf' = (pf /\ ~(net.kill /\ done))
        /\ pfTokens' = IF released THEN pfTokens \ {net.token} ELSE pfTokens
        /\ IF (net.kill /\ ~done) \/ (net.token \in pfTokens /\ ~released)
           THEN Excused("undo failed") ELSE UNCHANGED excuse
  BY DEF UndoFilter
<1>2. pf' \in BOOLEAN /\ (pf' => pf) /\ (pf /\ ~pf' => net.kill)
  BY <1>1 DEF TypeOK
<1>3. pfTokens' \subseteq pfTokens
  BY <1>1
<1>4. excuse' \in {excuse, excuse \cup {"undo failed"}}
  BY <1>1 DEF Excused
<1>5. ASSUME "undo failed" \notin excuse'
      PROVE  (pf' => ~net.kill) /\ net.token \notin pfTokens'
  <2>1. ~((net.kill /\ ~done) \/ (net.token \in pfTokens /\ ~released))
    BY <1>1, <1>5 DEF Excused
  <2>2. QED
    BY <1>1, <2>1
<1>6. QED
  BY <1>2, <1>3, <1>4, <1>5 DEF UndoFilter, limits, TypeOK

LEMMA UndoBypassDoes ==
    ASSUME TypeOK, UndoBypass
    PROVE  /\ pc = "undo bypass" /\ pc' = "undo dns"
           /\ excuse' \in {excuse, excuse \cup {"undo failed"}}
           /\ bypass' \in [Net -> Via] /\ net.bypass \subseteq Net
           /\ \A n \in Net : bypass'[n] # bypass[n] => bypass'[n] = NoGateway
           /\ "undo failed" \notin excuse' =>
                  \A n \in Net : n \in net.bypass => bypass'[n] = NoGateway
           /\ UNCHANGED <<gateway, epRoute, dns, pf, pfTokens, helper, net, opts, after,
                          unsaved, file, wanted, ups, crashes, moves>>
<1>1. PICK kept \in SUBSET net.bypass :
        /\ bypass' = [n \in Net |-> IF n \in net.bypass \ kept THEN NoGateway ELSE bypass[n]]
        /\ IF kept # {} THEN Excused("undo failed") ELSE UNCHANGED excuse
  BY DEF UndoBypass
<1>2. bypass' \in [Net -> Via]
  BY <1>1 DEF TypeOK, Via
<1>3. excuse' \in {excuse, excuse \cup {"undo failed"}}
  BY <1>1 DEF Excused
<1>4. "undo failed" \notin excuse' => kept = {}
  BY <1>1 DEF Excused
<1>5. net.bypass \subseteq Net
  BY FieldTypes DEF TypeOK
<1>6. QED
  BY <1>1, <1>2, <1>3, <1>4, <1>5 DEF UndoBypass, limits

LEMMA UndoDnsDoes ==
    ASSUME TypeOK, UndoDns
    PROVE  /\ pc = "undo dns" /\ pc' = "undo route"
           /\ excuse' \in {excuse, excuse \cup {"undo failed"}}
           /\ dns' \in [Service -> {"own", "vpn"}]
           /\ \A s \in Service : dns'[s] # dns[s] => dns'[s] = net.dns[s]
           /\ "undo failed" \notin excuse' =>
                  \A s \in Service : net.dns[s] # "unset" => dns'[s] = net.dns[s]
           /\ UNCHANGED <<gateway, epRoute, bypass, pf, pfTokens, helper, net, opts,
                          after, unsaved, file, wanted, ups, crashes, moves>>
<1>1. PICK kept \in SUBSET Backed :
        /\ dns' = [s \in Service |-> IF s \in Backed \ kept THEN net.dns[s] ELSE dns[s]]
        /\ IF kept # {} THEN Excused("undo failed") ELSE UNCHANGED excuse
  BY DEF UndoDns
<1>2. \A s \in Backed : net.dns[s] \in {"own", "vpn"}
  BY FieldTypes DEF TypeOK, Backed
<1>3. dns' \in [Service -> {"own", "vpn"}]
  BY <1>1, <1>2 DEF TypeOK
<1>4. excuse' \in {excuse, excuse \cup {"undo failed"}}
  BY <1>1 DEF Excused
<1>5. "undo failed" \notin excuse' => kept = {}
  BY <1>1 DEF Excused
<1>6. QED
  BY <1>1, <1>3, <1>4, <1>5 DEF UndoDns, Backed, limits

LEMMA UndoRouteDoes ==
    ASSUME TypeOK, UndoRoute
    PROVE  /\ pc = "undo route" /\ pc' = "undo file"
           /\ excuse' \in {excuse, excuse \cup {"undo failed"}}
           /\ epRoute' \in {epRoute, NoGateway}
           /\ "undo failed" \notin excuse' /\ net.ep # NoGateway => epRoute' = NoGateway
           /\ UNCHANGED <<gateway, bypass, dns, pf, pfTokens, helper, net, opts, after,
                          unsaved, file, wanted, ups, crashes, moves>>
BY DEF UndoRoute, Excused, limits

LEMMA FollowFailsDoes ==
    ASSUME TypeOK, FollowFails
    PROVE  /\ pc = "idle" /\ helper = "active" /\ excuse' = excuse \cup {"follow failed"}
           /\ epRoute' \in Via /\ bypass' \in [Net -> Via]
           /\ \A n \in Net : bypass'[n] # bypass[n] => n \in net.bypass
           /\ UNCHANGED <<gateway, dns, pf, pfTokens, helper, net, opts, pc, after,
                          unsaved, file, wanted, ups, crashes, moves>>
<1>1. /\ pc = "idle" /\ helper = "active" /\ excuse' = excuse \cup {"follow failed"}
      /\ gateway \in Via /\ NoGateway \in Via /\ bypass \in [Net -> Via]
  BY DEF FollowFails, Moved, Excused, TypeOK, Via
<1>2. CASE epRoute' = NoGateway /\ UNCHANGED bypass
  BY <1>1, <1>2 DEF FollowFails, limits
<1>3. ASSUME epRoute' = gateway, NEW done \in SUBSET net.bypass,
             NEW bad \in net.bypass \ done,
             bypass' = [n \in Net |-> IF n \in done THEN gateway ELSE
                                      IF n = bad THEN NoGateway ELSE bypass[n]]
      PROVE  /\ epRoute' \in Via /\ bypass' \in [Net -> Via]
             /\ \A n \in Net : bypass'[n] # bypass[n] => n \in net.bypass
  BY <1>1, <1>3
<1>4. QED
  BY <1>1, <1>2, <1>3 DEF FollowFails, limits

\* What an excuse not of Forgets leaves to be ruled out.
LEMMA NotForgotten ==
    ASSUME NEW x, x \cap Forgets = {}
    PROVE  /\ "crash in up" \notin x /\ "crash in save" \notin x
           /\ "crash in refresh" \notin x /\ "undo failed" \notin x
           /\ "write failed" \notin x /\ "save failed" \notin x
BY DEF Forgets

\* Excuses stay, but for a failed move that was made up for.
LEMMA ProvidedBefore == TypeOK /\ [Next]_vars => (Provided' => Provided)
<1> SUFFICES ASSUME TypeOK, [Next]_vars PROVE excuse \cap Forgets \subseteq excuse'
  BY DEF Provided
<1>1. CASE UndoFilter
  BY <1>1, UndoFilterDoes
<1>2. CASE UndoBypass
  BY <1>2, UndoBypassDoes
<1>3. CASE UndoDns
  BY <1>3, UndoDnsDoes
<1>4. CASE UndoRoute
  BY <1>4, UndoRouteDoes
<1>5. CASE FollowFails
  BY <1>5, FollowFailsDoes
<1>6. CASE Crash
  BY <1>6, CrashDoes
<1>7. CASE WriteFails \/ SaveFails
  BY <1>7 DEF WriteFails, SaveFails, Excused
<1>8. CASE UNCHANGED excuse \/ Mended
  BY <1>8 DEF Mended, Forgets
<1>9. \/ UndoFilter \/ UndoBypass \/ UndoDns \/ UndoRoute \/ FollowFails \/ Crash
      \/ WriteFails \/ SaveFails \/ UNCHANGED excuse \/ Mended
  <2>1. CASE \/ \E o \in Options : Up(o)
             \/ Down \/ \E g \in Via : GatewayMoves(g)
             \/ UNCHANGED vars
    BY <2>1 DEF Up, Down, GatewayMoves, vars
  <2>2. CASE Configure
    BY <2>2 DEF Configure, CreateDevice, DeviceFails, AddEndpointRoute, BypassDone,
       AddBypass, LoadRules, EnableFilter, DnsDone, SetDns, UpFails, WriteState
  <2>3. CASE Undo
    BY <2>3 DEF Undo, UndoFile, KeepBlock
  <2>4. CASE Watch
    BY <2>4 DEF Watch, Follow, Resolved, Save, Refresh
  <2>5. QED
    BY <2>1, <2>2, <2>3, <2>4 DEF Next
<1>10. QED
  BY <1>1, <1>2, <1>3, <1>4, <1>5, <1>6, <1>7, <1>8, <1>9

\* What the counters can be.
LEMMA Counters == TypeOK => ups \in Nat /\ unsaved \in Nat /\ 0 < Batch
BY LimitsAssumption DEF TypeOK

LEMMA NetIsRecord == TypeOK => net \in NetState /\ net # Torn
BY NoRecords DEF TypeOK

\* The record due at every command, field by field.
LEMMA DueIsPlanned == DuePlan /\ DuePlan'
BY DEF DuePlan, Due, Remaining, UndoSteps

LEMMA UpCounts == ASSUME TypeOK, NEW o \in Options, Up(o) PROVE ups' >= 1
<1>1. ups \in Nat
  BY Counters
<1>2. ups' = ups + 1
  BY DEF Up
<1>3. QED
  BY <1>1, <1>2

LEMMA Pending == TypeOK => unsaved = 0 \/ unsaved > 0
<1>1. ASSUME TypeOK PROVE unsaved \in Nat
  BY <1>1, Counters
<1>2. QED
  BY <1>1

LEMMA Commands ==
    TypeOK => pc \in {"idle", "device", "route", "save"} \cup UpSteps \cup UndoSteps
BY DEF TypeOK

\* A death with no excuse leaves a file that covers the system, or no file and an
\* unchanged system.
LEMMA HarmlessCrash ==
    ASSUME TypeOK, Control, Files, Crash, Enough, Covers(Due),
           "crash in up" \notin excuse', "crash in save" \notin excuse',
           "crash in refresh" \notin excuse'
    PROVE  /\ unsaved = 0 /\ file' = file
           /\ Written => Covers(file)
           /\ ~Written => Covers(Unchanged)
<1>1. file' = file /\ CrashExcuse \subseteq excuse'
  BY CrashDoes
<1>2. pc \notin UpSteps /\ ~(pc \in UndoSteps /\ after = "failed")
  BY <1>1 DEF CrashExcuse
<1>3. ~(unsaved > 0)
  BY <1>1 DEF CrashExcuse
<1>4. unsaved = 0
  BY <1>3, Pending
<1>5. Written => Covers(file)
  BY <1>2, <1>4, Commands DEF Enough, Files, Control, SettingUp
<1>6. ASSUME ~Written PROVE Due = Unchanged
  <2>1. helper = "none" /\ pc \notin UndoSteps
    BY <1>2, <1>4, <1>6 DEF Enough
  <2>2. pc \in {"idle", "device", "route"}
    BY <1>2, <2>1, Commands DEF Control
  <2>3. CASE pc = "route"
    BY <2>3 DEF Due, Control, UndoSteps
  <2>4. CASE pc \in {"idle", "device"}
    BY <2>1, <2>4 DEF Due
  <2>5. QED
    BY <2>2, <2>3, <2>4
<1>7. QED
  BY <1>1, <1>4, <1>5, <1>6

\* The counters stay in their bounds.
LEMMA UpStays == ASSUME TypeOK, NEW o \in Options, Up(o) PROVE ups' \in 0..MaxUps
<1>1. ups \in 0..MaxUps /\ ups < MaxUps /\ ups' = ups + 1
  BY DEF TypeOK, Up
<1>2. QED
  BY <1>1, LimitsAssumption

LEMMA MovesStay == ASSUME TypeOK, NEW g \in Via, GatewayMoves(g) PROVE moves' \in 0..MaxMoves
<1>1. moves \in 0..MaxMoves /\ moves < MaxMoves /\ moves' = moves + 1
  BY DEF TypeOK, GatewayMoves
<1>2. QED
  BY <1>1, LimitsAssumption

LEMMA CrashesStay == ASSUME TypeOK, Crash PROVE crashes' \in 0..MaxCrashes
<1>1. crashes \in 0..MaxCrashes /\ crashes < MaxCrashes /\ crashes' = crashes + 1
  BY DEF TypeOK, Crash
<1>2. QED
  BY <1>1, LimitsAssumption

LEMMA UnsavedStays ==
    ASSUME TypeOK, Control, NEW n \in Net, Refresh(n) PROVE unsaved' \in 0..Batch
<1>1. unsaved \in 0..Batch /\ unsaved' = unsaved + 1
  BY DEF TypeOK, Refresh
<1>2. unsaved < Batch
  BY DEF Control, Refresh
<1>3. QED
  BY <1>1, <1>2, LimitsAssumption

LEMMA NothingUnsaved == 0 \in 0..Batch
BY LimitsAssumption

LEMMA TokensStay ==
    ASSUME TypeOK, Control, EnableFilter PROVE pfTokens' \subseteq 1..MaxUps
<1>1. ups \in 0..MaxUps /\ ups >= 1
  BY DEF TypeOK, Control, EnableFilter, SettingUp, UpSteps
<1>2. ups \in 1..MaxUps
  BY <1>1, LimitsAssumption
<1>3. QED
  BY <1>2, EnableFilterDoes DEF TypeOK

---------------------------------------------------------------------------
(* The parts of the invariant, kept by every step.                         *)

\* Types.
LEMMA TypeStep == TypeOK /\ Control /\ [Next]_vars => TypeOK'
<1> SUFFICES ASSUME TypeOK, Control, [Next]_vars PROVE TypeOK'
  OBVIOUS
<1>1. ASSUME NEW o \in Options, Up(o) PROVE TypeOK'
  BY <1>1, UpStays DEF Up, system, TypeOK, UpSteps, UndoSteps
<1>2. CASE Down
  BY <1>2 DEF Down, system, limits, TypeOK, UpSteps, UndoSteps
<1>3. CASE CreateDevice
  BY <1>3, CreateDeviceDoes DEF TypeOK, UpSteps, UndoSteps
<1>4. CASE DeviceFails
  BY <1>4 DEF DeviceFails, system, limits, TypeOK, UpSteps, UndoSteps
<1>5. CASE AddEndpointRoute
  BY <1>5, AddEndpointRouteDoes DEF TypeOK, UpSteps, UndoSteps
<1>6. ASSUME NEW n \in Known, AddBypass(n) PROVE TypeOK'
  BY <1>6, AddBypassDoes DEF TypeOK, UpSteps, UndoSteps
<1>7. CASE BypassDone
  BY <1>7 DEF BypassDone, system, limits, TypeOK, UpSteps, UndoSteps
<1>8. CASE LoadRules
  BY <1>8, LoadRulesDoes DEF TypeOK, UpSteps, UndoSteps
<1>9. CASE EnableFilter
  BY <1>9, EnableFilterDoes, TokensStay DEF TypeOK, UpSteps, UndoSteps
<1>10. ASSUME NEW s \in Service, SetDns(s) PROVE TypeOK'
  BY <1>10, SetDnsDoes DEF TypeOK, UpSteps, UndoSteps
<1>11. CASE DnsDone
  BY <1>11 DEF DnsDone, system, limits, TypeOK, UpSteps, UndoSteps
<1>12. CASE UpFails
  BY <1>12 DEF UpFails, system, limits, TypeOK, UpSteps, UndoSteps
<1>13. CASE WriteState
  BY <1>13 DEF WriteState, system, limits, TypeOK, UpSteps, UndoSteps
<1>14. CASE WriteFails
  <2>1. excuse' \subseteq Excuses
    BY <1>14 DEF TypeOK, Excuses, WriteFails, Excused
  <2>2. QED
    BY <1>14, <2>1, UnchangedFacts DEF TypeOK, UpSteps, UndoSteps, WriteFails,
       system, limits
<1>15. CASE UndoFilter
  <2>1. excuse' \subseteq Excuses
    BY <1>15, UndoFilterDoes DEF TypeOK, Excuses
  <2>2. QED
    BY <1>15, <2>1, UndoFilterDoes DEF TypeOK, UpSteps, UndoSteps
<1>16. CASE UndoBypass
  <2>1. excuse' \subseteq Excuses
    BY <1>16, UndoBypassDoes DEF TypeOK, Excuses
  <2>2. QED
    BY <1>16, <2>1, UndoBypassDoes DEF TypeOK, UpSteps, UndoSteps
<1>17. CASE UndoDns
  <2>1. excuse' \subseteq Excuses
    BY <1>17, UndoDnsDoes DEF TypeOK, Excuses
  <2>2. QED
    BY <1>17, <2>1, UndoDnsDoes DEF TypeOK, UpSteps, UndoSteps
<1>18. CASE UndoRoute
  <2>1. excuse' \subseteq Excuses
    BY <1>18, UndoRouteDoes DEF TypeOK, Excuses
  <2>2. QED
    BY <1>18, <2>1, UndoRouteDoes DEF TypeOK, UpSteps, UndoSteps, Via
<1>19. CASE UndoFile
  BY <1>19, UndoFileDoes, NothingUnsaved DEF TypeOK, UpSteps, UndoSteps
<1>20. CASE KeepBlock
  BY <1>20, KeepBlockDoes DEF TypeOK, UpSteps, UndoSteps
<1>21. ASSUME NEW g \in Via, GatewayMoves(g) PROVE TypeOK'
  BY <1>21, MovesStay DEF GatewayMoves, TypeOK
<1>22. CASE Follow
  BY <1>22, FollowDoes DEF TypeOK, UpSteps, UndoSteps
<1>23. CASE FollowFails
  <2>1. excuse' \subseteq Excuses
    BY <1>23, FollowFailsDoes DEF TypeOK, Excuses
  <2>2. QED
    BY <1>23, <2>1, FollowFailsDoes DEF TypeOK, UpSteps, UndoSteps
<1>24. ASSUME NEW n \in Net, Refresh(n) PROVE TypeOK'
  BY <1>24, RefreshDoes, UnsavedStays DEF TypeOK, UpSteps, UndoSteps
<1>25. CASE Resolved
  BY <1>25 DEF Resolved, system, limits, TypeOK, UpSteps, UndoSteps
<1>26. CASE Save
  BY <1>26, NothingUnsaved DEF Save, system, limits, TypeOK, UpSteps, UndoSteps
<1>27. CASE SaveFails
  <2>1. excuse' \subseteq Excuses
    BY <1>27 DEF TypeOK, Excuses, SaveFails, Excused
  <2>2. QED
    BY <1>27, <2>1, NothingUnsaved DEF TypeOK, UpSteps, UndoSteps, SaveFails,
       system, limits
<1>28. CASE Crash
  <2>1. excuse' \subseteq Excuses
    BY <1>28, CrashDoes DEF TypeOK
  <2>2. /\ net' \in NetState /\ pc' \in {"idle"} \cup UndoSteps
        /\ after' \in {"idle", "failed", "device", "keep", "start"}
    BY <1>28, CrashDoes, UnchangedFacts DEF UndoSteps
  <2>3. file' \in NetState \cup {NoFile, Torn} /\ helper' = "none" /\ unsaved' \in
     0..Batch
    BY <1>28, CrashDoes, NothingUnsaved DEF TypeOK
  <2>4. UNCHANGED <<gateway, epRoute, bypass, dns, pf, pfTokens, opts, wanted,
     ups, moves>>
    BY <1>28, CrashDoes
  <2>5. QED
    BY <2>1, <2>2, <2>3, <2>4, <1>28, CrashesStay DEF TypeOK
<1>29. CASE UNCHANGED vars
  BY <1>29 DEF vars, system, limits, TypeOK
<1>30. QED
  BY <1>1, <1>2, <1>3, <1>4, <1>5, <1>6, <1>7, <1>8, <1>9, <1>10, <1>11, <1>12,
     <1>13, <1>14, <1>15, <1>16, <1>17, <1>18, <1>19, <1>20, <1>21, <1>22, <1>23,
     <1>24, <1>25, <1>26, <1>27, <1>28, <1>29
     DEF Next, Configure, Undo, Watch

\* The next command and what it says about the rest.
LEMMA ControlStep == TypeOK /\ Control /\ Files /\ [Next]_vars => Control'
<1> SUFFICES ASSUME TypeOK, Control, Files, [Next]_vars PROVE Control'
  OBVIOUS
<1> USE DEF Control, UpSteps, UndoSteps, SettingUp
<1>1. ASSUME NEW o \in Options, Up(o) PROVE Control'
  BY <1>1, UpCounts DEF Up, system
<1>2. CASE Down
  BY <1>2 DEF Down, system, limits
<1>3. CASE CreateDevice
  BY <1>3, CreateDeviceDoes
<1>4. CASE DeviceFails
  BY <1>4 DEF DeviceFails, system, limits
<1>5. CASE AddEndpointRoute
  BY <1>5, AddEndpointRouteDoes, UnchangedFacts
<1>6. ASSUME NEW n \in Known, AddBypass(n) PROVE Control'
  BY <1>6, AddBypassDoes
<1>7. CASE BypassDone
  BY <1>7 DEF BypassDone, system, limits
<1>8. CASE LoadRules
  BY <1>8, LoadRulesDoes
<1>9. CASE EnableFilter
  BY <1>9, EnableFilterDoes
<1>10. ASSUME NEW s \in Service, SetDns(s) PROVE Control'
  BY <1>10, SetDnsDoes
<1>11. CASE DnsDone
  BY <1>11 DEF DnsDone, system, limits
<1>12. CASE UpFails
  BY <1>12 DEF UpFails, system, limits
<1>13. CASE WriteState
  BY <1>13 DEF WriteState, system, limits
<1>14. CASE WriteFails
  BY <1>14, NoRecords DEF WriteFails, Excused, system, limits
<1>15. CASE UndoFilter
  BY <1>15, UndoFilterDoes
<1>16. CASE UndoBypass
  BY <1>16, UndoBypassDoes
<1>17. CASE UndoDns
  BY <1>17, UndoDnsDoes
<1>18. CASE UndoRoute
  BY <1>18, UndoRouteDoes
<1>19. CASE UndoFile
  BY <1>19, UndoFileDoes, Counters
<1>20. CASE KeepBlock
  BY <1>20, KeepBlockDoes
<1>21. ASSUME NEW g \in Via, GatewayMoves(g) PROVE Control'
  BY <1>21 DEF GatewayMoves
<1>22. CASE Follow
  BY <1>22, FollowDoes
<1>23. CASE FollowFails
  BY <1>23, FollowFailsDoes
<1>24. ASSUME NEW n \in Net, Refresh(n) PROVE Control'
  BY <1>24, RefreshDoes
<1>25. CASE Resolved
  BY <1>25 DEF Resolved, system, limits
<1>26. CASE Save
  BY <1>26, Counters DEF Save, system, limits
<1>27. CASE SaveFails
  BY <1>27, NoRecords, Counters DEF SaveFails, Excused, system, limits
<1>28. CASE Crash
  BY <1>28, CrashDoes, Counters
<1>29. CASE UNCHANGED vars
  BY <1>29 DEF vars, system, limits
<1> HIDE DEF Control, UpSteps, UndoSteps, SettingUp
<1>30. QED
  BY <1>1, <1>2, <1>3, <1>4, <1>5, <1>6, <1>7, <1>8, <1>9, <1>10, <1>11, <1>12,
     <1>13, <1>14, <1>15, <1>16, <1>17, <1>18, <1>19, <1>20, <1>21, <1>22, <1>23,
     <1>24, <1>25, <1>26, <1>27, <1>28, <1>29
     DEF Next, Configure, Undo, Watch

\* Where a file can be: the undo removes it before anything new is set up.
LEMMA FilesStep == TypeOK /\ Control /\ Files /\ [Next]_vars => Files'
<1> SUFFICES ASSUME TypeOK, Control, Files, [Next]_vars PROVE Files'
  OBVIOUS
<1> USE DEF Control, Files, UpSteps, UndoSteps, SettingUp, Written
<1>1. ASSUME NEW o \in Options, Up(o) PROVE Files'
  BY <1>1 DEF Up, system
<1>2. CASE Down
  BY <1>2 DEF Down, system, limits
<1>3. CASE CreateDevice
  BY <1>3, CreateDeviceDoes
<1>4. CASE DeviceFails
  BY <1>4 DEF DeviceFails, system, limits
<1>5. CASE AddEndpointRoute
  BY <1>5, AddEndpointRouteDoes
<1>6. ASSUME NEW n \in Known, AddBypass(n) PROVE Files'
  BY <1>6, AddBypassDoes
<1>7. CASE BypassDone
  BY <1>7 DEF BypassDone, system, limits
<1>8. CASE LoadRules
  BY <1>8, LoadRulesDoes
<1>9. CASE EnableFilter
  BY <1>9, EnableFilterDoes
<1>10. ASSUME NEW s \in Service, SetDns(s) PROVE Files'
  BY <1>10, SetDnsDoes
<1>11. CASE DnsDone
  BY <1>11 DEF DnsDone, system, limits
<1>12. CASE UpFails
  BY <1>12 DEF UpFails, system, limits
<1>13. CASE WriteState
  BY <1>13 DEF WriteState, system, limits
<1>14. CASE WriteFails
  BY <1>14, NoRecords DEF WriteFails, Excused, system, limits
<1>15. CASE UndoFilter
  BY <1>15, UndoFilterDoes
<1>16. CASE UndoBypass
  BY <1>16, UndoBypassDoes
<1>17. CASE UndoDns
  BY <1>17, UndoDnsDoes
<1>18. CASE UndoRoute
  BY <1>18, UndoRouteDoes
<1>19. CASE UndoFile
  BY <1>19, UndoFileDoes
<1>20. CASE KeepBlock
  BY <1>20, KeepBlockDoes
<1>21. ASSUME NEW g \in Via, GatewayMoves(g) PROVE Files'
  BY <1>21 DEF GatewayMoves
<1>22. CASE Follow
  BY <1>22, FollowDoes
<1>23. CASE FollowFails
  BY <1>23, FollowFailsDoes
<1>24. ASSUME NEW n \in Net, Refresh(n) PROVE Files'
  BY <1>24, RefreshDoes
<1>25. CASE Resolved
  BY <1>25 DEF Resolved, system, limits
<1>26. CASE Save
  BY <1>26 DEF Save, system, limits
<1>27. CASE SaveFails
  BY <1>27, NoRecords DEF SaveFails, Excused, system, limits
<1>28. CASE Crash
  BY <1>28, CrashDoes
<1>29. CASE UNCHANGED vars
  BY <1>29 DEF vars, system, limits
<1> HIDE DEF Control, Files, UpSteps, UndoSteps, SettingUp, Written
<1>30. QED
  BY <1>1, <1>2, <1>3, <1>4, <1>5, <1>6, <1>7, <1>8, <1>9, <1>10, <1>11, <1>12,
     <1>13, <1>14, <1>15, <1>16, <1>17, <1>18, <1>19, <1>20, <1>21, <1>22, <1>23,
     <1>24, <1>25, <1>26, <1>27, <1>28, <1>29
     DEF Next, Configure, Undo, Watch

\* The word kill switch in the record or the file goes with the rules: they are loaded in
\* one step with the record, and lifted by an undo that takes the file away.
LEMMA GuardedStep == TypeOK /\ Control /\ Files /\ Guarded /\ [Next]_vars =>
    Guarded'
<1> SUFFICES ASSUME TypeOK, Control, Files, Guarded, [Next]_vars PROVE Guarded'
  OBVIOUS
<1> USE DEF Control, Files, Guarded, UpSteps, UndoSteps, SettingUp, InCharge,
   Written
<1>1. ASSUME NEW o \in Options, Up(o) PROVE Guarded'
  BY <1>1 DEF Up, system
<1>2. CASE Down
  BY <1>2 DEF Down, system, limits
<1>3. CASE CreateDevice
  BY <1>3, CreateDeviceDoes
<1>4. CASE DeviceFails
  BY <1>4 DEF DeviceFails, system, limits
<1>5. CASE AddEndpointRoute
  BY <1>5, AddEndpointRouteDoes, UnchangedFacts
<1>6. ASSUME NEW n \in Known, AddBypass(n) PROVE Guarded'
  BY <1>6, AddBypassDoes
<1>7. CASE BypassDone
  BY <1>7 DEF BypassDone, system, limits
<1>8. CASE LoadRules
  BY <1>8, LoadRulesDoes
<1>9. CASE EnableFilter
  BY <1>9, EnableFilterDoes
<1>10. ASSUME NEW s \in Service, SetDns(s) PROVE Guarded'
  BY <1>10, SetDnsDoes
<1>11. CASE DnsDone
  BY <1>11 DEF DnsDone, system, limits
<1>12. CASE UpFails
  BY <1>12 DEF UpFails, system, limits
<1>13. CASE WriteState
  BY <1>13 DEF WriteState, system, limits
<1>14. CASE WriteFails
  BY <1>14, NoRecords DEF WriteFails, Excused, system, limits
<1>15. CASE UndoFilter
  BY <1>15, UndoFilterDoes
<1>16. CASE UndoBypass
  BY <1>16, UndoBypassDoes
<1>17. CASE UndoDns
  BY <1>17, UndoDnsDoes
<1>18. CASE UndoRoute
  BY <1>18, UndoRouteDoes
<1>19. CASE UndoFile
  BY <1>19, UndoFileDoes
<1>20. CASE KeepBlock
  BY <1>20, KeepBlockDoes
<1>21. ASSUME NEW g \in Via, GatewayMoves(g) PROVE Guarded'
  BY <1>21 DEF GatewayMoves
<1>22. CASE Follow
  BY <1>22, FollowDoes
<1>23. CASE FollowFails
  BY <1>23, FollowFailsDoes
<1>24. ASSUME NEW n \in Net, Refresh(n) PROVE Guarded'
  BY <1>24, RefreshDoes
<1>25. CASE Resolved
  BY <1>25 DEF Resolved, system, limits
<1>26. CASE Save
  BY <1>26 DEF Save, system, limits
<1>27. CASE SaveFails
  BY <1>27, NoRecords DEF SaveFails, Excused, system, limits
<1>28. CASE Crash
  <2>1. CASE file' = file
    BY <1>28, <2>1, CrashDoes DEF CrashExcuse
  <2>2. CASE file' # file
    BY <1>28, <2>2, CrashDoes, NoRecords
  <2>3. QED
    BY <2>1, <2>2
<1>29. CASE UNCHANGED vars
  BY <1>29 DEF vars, system, limits
<1> HIDE DEF Control, Files, Guarded, UpSteps, UndoSteps, SettingUp, InCharge,
   Written
<1>30. QED
  BY <1>1, <1>2, <1>3, <1>4, <1>5, <1>6, <1>7, <1>8, <1>9, <1>10, <1>11, <1>12,
     <1>13, <1>14, <1>15, <1>16, <1>17, <1>18, <1>19, <1>20, <1>21, <1>22, <1>23,
     <1>24, <1>25, <1>26, <1>27, <1>28, <1>29
     DEF Next, Configure, Undo, Watch

\* The routes move with the recorded gateway.
LEMMA GatewaysStep == TypeOK /\ Control /\ Gateways /\ [Next]_vars => Gateways'
<1> SUFFICES ASSUME TypeOK, Control, Gateways, [Next]_vars PROVE Gateways'
  OBVIOUS
<1> USE DEF Control, Gateways, UpSteps, UndoSteps, SettingUp, InCharge
<1>1. ASSUME NEW o \in Options, Up(o) PROVE Gateways'
  BY <1>1 DEF Up, system
<1>2. CASE Down
  BY <1>2 DEF Down, system, limits
<1>3. CASE CreateDevice
  BY <1>3, CreateDeviceDoes
<1>4. CASE DeviceFails
  BY <1>4 DEF DeviceFails, system, limits
<1>5. CASE AddEndpointRoute
  BY <1>5, AddEndpointRouteDoes, UnchangedFacts
<1>6. ASSUME NEW n \in Known, AddBypass(n) PROVE Gateways'
  BY <1>6, AddBypassDoes
<1>7. CASE BypassDone
  BY <1>7 DEF BypassDone, system, limits
<1>8. CASE LoadRules
  BY <1>8, LoadRulesDoes
<1>9. CASE EnableFilter
  BY <1>9, EnableFilterDoes
<1>10. ASSUME NEW s \in Service, SetDns(s) PROVE Gateways'
  <2>1. net'.ep = net.ep /\ net'.bypass = net.bypass
        /\ UNCHANGED <<pc, helper, after, epRoute, bypass, excuse>>
    BY <1>10, SetDnsDoes
  <2> HIDE DEF Control
  <2>2. QED
    BY <2>1
<1>11. CASE DnsDone
  BY <1>11 DEF DnsDone, system, limits
<1>12. CASE UpFails
  BY <1>12 DEF UpFails, system, limits
<1>13. CASE WriteState
  BY <1>13 DEF WriteState, system, limits
<1>14. CASE WriteFails
  BY <1>14, NoRecords DEF WriteFails, Excused, system, limits
<1>15. CASE UndoFilter
  BY <1>15, UndoFilterDoes
<1>16. CASE UndoBypass
  BY <1>16, UndoBypassDoes
<1>17. CASE UndoDns
  BY <1>17, UndoDnsDoes
<1>18. CASE UndoRoute
  BY <1>18, UndoRouteDoes
<1>19. CASE UndoFile
  BY <1>19, UndoFileDoes
<1>20. CASE KeepBlock
  BY <1>20, KeepBlockDoes
<1>21. ASSUME NEW g \in Via, GatewayMoves(g) PROVE Gateways'
  BY <1>21 DEF GatewayMoves
<1>22. CASE Follow
  BY <1>22, FollowDoes
<1>23. CASE FollowFails
  BY <1>23, FollowFailsDoes
<1>24. ASSUME NEW n \in Net, Refresh(n) PROVE Gateways'
  BY <1>24, RefreshDoes
<1>25. CASE Resolved
  BY <1>25 DEF Resolved, system, limits
<1>26. CASE Save
  BY <1>26 DEF Save, system, limits
<1>27. CASE SaveFails
  BY <1>27, NoRecords DEF SaveFails, Excused, system, limits
<1>28. CASE Crash
  BY <1>28, CrashDoes
<1>29. CASE UNCHANGED vars
  BY <1>29 DEF vars, system, limits
<1> HIDE DEF Control, Gateways, UpSteps, UndoSteps, SettingUp, InCharge
<1>30. QED
  BY <1>1, <1>2, <1>3, <1>4, <1>5, <1>6, <1>7, <1>8, <1>9, <1>10, <1>11, <1>12,
     <1>13, <1>14, <1>15, <1>16, <1>17, <1>18, <1>19, <1>20, <1>21, <1>22, <1>23,
     <1>24, <1>25, <1>26, <1>27, <1>28, <1>29
     DEF Next, Configure, Undo, Watch

\* A service whose servers are already the tunnel's is not backed up, because the record
\* that covers it names it.
LEMMA BackupsStep == TypeOK /\ Control /\ Files /\ Backups /\ FileKept /\ Recorded /\ [Next]_vars =>
    Backups'
<1> SUFFICES ASSUME TypeOK, Control, Files, Backups, FileKept, Recorded,
   [Next]_vars PROVE Backups'
  OBVIOUS
<1>1. SUFFICES ASSUME Provided' PROVE Originals'
  BY DEF Backups
<1>2. Originals /\ Covers(Due)
  BY <1>1, ProvidedBefore DEF Backups, Recorded, Due, Provided
<1>3. /\ "undo failed" \notin excuse' /\ "write failed" \notin excuse'
      /\ "save failed" \notin excuse' /\ "crash in up" \notin excuse'
      /\ "crash in save" \notin excuse' /\ "crash in refresh" \notin excuse'
  BY <1>1, NotForgotten DEF Provided
<1>4. DuePlan /\ DuePlan'
  BY DueIsPlanned
<1> USE DEF Control, Files, UpSteps, UndoSteps, SettingUp, Written,
   NoBackupOfOurs, Covers, Originals, DuePlan
<1>5. ASSUME NEW o \in Options, Up(o) PROVE Originals'
  BY <1>5, <1>2, <1>3, <1>4 DEF Up, system
<1>6. CASE Down
  BY <1>6, <1>2, <1>3, <1>4 DEF Down, system, limits
<1>7. CASE CreateDevice
  BY <1>7, <1>2, <1>3, <1>4, CreateDeviceDoes
<1>8. CASE DeviceFails
  BY <1>8, <1>2, <1>3, <1>4 DEF DeviceFails, system, limits
<1>9. CASE AddEndpointRoute
  BY <1>9, <1>2, <1>3, <1>4, AddEndpointRouteDoes
<1>10. ASSUME NEW n \in Known, AddBypass(n) PROVE Originals'
  BY <1>10, <1>2, <1>3, <1>4, AddBypassDoes
<1>11. CASE BypassDone
  BY <1>11, <1>2, <1>3, <1>4 DEF BypassDone, system, limits
<1>12. CASE LoadRules
  BY <1>12, <1>2, <1>3, <1>4, LoadRulesDoes
<1>13. CASE EnableFilter
  BY <1>13, <1>2, <1>3, <1>4, EnableFilterDoes
<1>14. ASSUME NEW s \in Service, SetDns(s) PROVE Originals'
  <2>1. Due = net
    BY <1>14, SetDnsDoes DEF Due, UndoSteps
  <2>2. NoBackupOfOurs(net')
    <3>1. SUFFICES ASSUME NEW x \in Service PROVE net'.dns[x] # "vpn"
      BY DEF NoBackupOfOurs
    <3>2. CASE x = s
      BY <1>14, <1>2, <2>1, <3>2, SetDnsDoes DEF Covers
    <3>3. CASE x # s
      <4>1. net.dns[x] # "vpn"
        BY <1>2 DEF Originals, NoBackupOfOurs
      <4>2. net'.dns[x] = net.dns[x]
        BY <1>14, <3>3, SetDnsDoes
      <4>3. QED
        BY <4>1, <4>2
    <3>4. QED
      BY <3>2, <3>3
  <2>3. QED
    BY <1>14, <1>2, <2>2, SetDnsDoes DEF Originals, NoBackupOfOurs, Written
<1>15. CASE DnsDone
  BY <1>15, <1>2, <1>3, <1>4 DEF DnsDone, system, limits
<1>16. CASE UpFails
  BY <1>16, <1>2, <1>3, <1>4 DEF UpFails, system, limits
<1>17. CASE WriteState
  BY <1>17, <1>2, <1>3, <1>4, NetIsRecord DEF WriteState, system, limits
<1>18. CASE WriteFails
  BY <1>18, <1>2, <1>3, <1>4, NoRecords DEF WriteFails, Excused, system, limits
<1>19. CASE UndoFilter
  BY <1>19, <1>2, <1>3, <1>4, UndoFilterDoes
<1>20. CASE UndoBypass
  BY <1>20, <1>2, <1>3, <1>4, UndoBypassDoes
<1>21. CASE UndoDns
  <2>1. net' = net /\ file' = file
    BY <1>21, UndoDnsDoes
  <2> HIDE DEF Control, Files, DuePlan, Covers
  <2>2. QED
    BY <1>2, <2>1
<1>22. CASE UndoRoute
  BY <1>22, <1>2, <1>3, <1>4, UndoRouteDoes
<1>23. CASE UndoFile
  BY <1>23, <1>2, <1>3, <1>4, UndoFileDoes
<1>24. CASE KeepBlock
  BY <1>24, <1>2, <1>3, <1>4, KeepBlockDoes
<1>25. ASSUME NEW g \in Via, GatewayMoves(g) PROVE Originals'
  BY <1>25, <1>2, <1>3, <1>4 DEF GatewayMoves
<1>26. CASE Follow
  BY <1>26, <1>2, <1>3, <1>4, FollowDoes
<1>27. CASE FollowFails
  BY <1>27, <1>2, <1>3, <1>4, FollowFailsDoes
<1>28. ASSUME NEW n \in Net, Refresh(n) PROVE Originals'
  <2>1. net'.dns = net.dns /\ file' = file
    BY <1>28, RefreshDoes
  <2> HIDE DEF Control, Files, DuePlan, Covers
  <2>2. QED
    BY <1>2, <2>1
<1>29. CASE Resolved
  BY <1>29, <1>2, <1>3, <1>4 DEF Resolved, system, limits
<1>30. CASE Save
  BY <1>30, <1>2, <1>3, <1>4, NetIsRecord DEF Save, system, limits
<1>31. CASE SaveFails
  BY <1>31, <1>2, <1>3, <1>4, NoRecords DEF SaveFails, Excused, system, limits
<1>32. CASE Crash
  <2>1. file' = file
    BY <1>32, <1>3, CrashDoes
  <2>2. QED
    BY <1>32, <1>2, <2>1, CrashDoes, UnchangedFacts DEF Originals, NoBackupOfOurs,
       Written
<1>33. CASE UNCHANGED vars
  BY <1>33, <1>2, <1>3, <1>4 DEF vars, system, limits
<1> HIDE DEF Control, Files, UpSteps, UndoSteps, SettingUp, Written,
   NoBackupOfOurs, Covers, Originals, DuePlan
<1>34. QED
  BY <1>5, <1>6, <1>7, <1>8, <1>9, <1>10, <1>11, <1>12, <1>13, <1>14, <1>15,
     <1>16, <1>17, <1>18, <1>19, <1>20, <1>21, <1>22, <1>23, <1>24, <1>25, <1>26,
     <1>27, <1>28, <1>29, <1>30, <1>31, <1>32, <1>33
     DEF Next, Configure, Undo, Watch

\* The file covers what a record in charge covers: it is written from it, and what is
\* done after it was written touches only what it already names.
LEMMA FileKeptStep == TypeOK /\ Control /\ Files /\ Gateways /\ Backups /\ FileKept /\ Recorded /\ [Next]_vars =>
    FileKept'
<1> SUFFICES ASSUME TypeOK, Control, Files, Gateways, Backups, FileKept, Recorded,
   [Next]_vars PROVE FileKept'
  OBVIOUS
<1>1. SUFFICES ASSUME Provided' PROVE (Enough /\ Follows)'
  BY DEF FileKept
<1>2. Originals /\ Enough /\ Follows /\ Covers(Due)
  BY <1>1, ProvidedBefore DEF Backups, FileKept, Recorded, Due, Provided
<1>3. /\ "undo failed" \notin excuse' /\ "write failed" \notin excuse'
      /\ "save failed" \notin excuse' /\ "crash in up" \notin excuse'
      /\ "crash in save" \notin excuse' /\ "crash in refresh" \notin excuse'
  BY <1>1, NotForgotten DEF Provided
<1>4. DuePlan /\ DuePlan'
  BY DueIsPlanned
<1> USE DEF Control, Files, Gateways, InCharge, UpSteps, UndoSteps, SettingUp,
   Written, Originals, NoBackupOfOurs, Enough, Follows, Covers, DuePlan
<1>5. ASSUME NEW o \in Options, Up(o) PROVE (Enough /\ Follows)'
  BY <1>5, <1>2, <1>3, <1>4 DEF Up, system
<1>6. CASE Down
  BY <1>6, <1>2, <1>3, <1>4 DEF Down, system, limits
<1>7. CASE CreateDevice
  BY <1>7, <1>2, <1>3, <1>4, CreateDeviceDoes
<1>8. CASE DeviceFails
  BY <1>8, <1>2, <1>3, <1>4 DEF DeviceFails, system, limits
<1>9. CASE AddEndpointRoute
  BY <1>9, <1>2, <1>3, <1>4, AddEndpointRouteDoes
<1>10. ASSUME NEW n \in Known, AddBypass(n) PROVE (Enough /\ Follows)'
  BY <1>10, <1>2, <1>3, <1>4, AddBypassDoes
<1>11. CASE BypassDone
  BY <1>11, <1>2, <1>3, <1>4 DEF BypassDone, system, limits
<1>12. CASE LoadRules
  BY <1>12, <1>2, <1>3, <1>4, LoadRulesDoes
<1>13. CASE EnableFilter
  BY <1>13, <1>2, <1>3, <1>4, EnableFilterDoes
<1>14. ASSUME NEW s \in Service, SetDns(s) PROVE (Enough /\ Follows)'
  BY <1>14, <1>2, <1>3, <1>4, SetDnsDoes
<1>15. CASE DnsDone
  BY <1>15, <1>2, <1>3, <1>4 DEF DnsDone, system, limits
<1>16. CASE UpFails
  BY <1>16, <1>2, <1>3, <1>4 DEF UpFails, system, limits
<1>17. CASE WriteState
  BY <1>17, <1>2, <1>3, <1>4, NetIsRecord DEF WriteState, system, limits
<1>18. CASE WriteFails
  BY <1>18, <1>2, <1>3, <1>4, NoRecords DEF WriteFails, Excused, system, limits
<1>19. CASE UndoFilter
  BY <1>19, <1>2, <1>3, <1>4, UndoFilterDoes
<1>20. CASE UndoBypass
  <2>1. Written /\ Covers(file) => Covers(file)'
    BY <1>20, <1>2, UndoBypassDoes DEF Covers, Originals, NoBackupOfOurs, Written,
       Follows
  <2>2. QED
    BY <1>20, <1>2, <2>1, UndoBypassDoes DEF Enough, Follows, Written, Control,
       UndoSteps, SettingUp
<1>21. CASE UndoDns
  <2>1. Covers(file) => Covers(file)'
    <3>1. ASSUME NEW s \in Service, dns'[s] = "vpn" PROVE dns[s] = "vpn"
      BY <1>21, <1>2, <3>1, UndoDnsDoes DEF Originals, NoBackupOfOurs
    <3>2. QED
      BY <1>21, <3>1, UndoDnsDoes DEF Covers
  <2>2. QED
    BY <1>21, <1>2, <2>1, UndoDnsDoes DEF Enough, Follows, Written, Control,
       UndoSteps, SettingUp
<1>22. CASE UndoRoute
  <2>1. Written /\ Covers(file) => Covers(file)'
    BY <1>22, <1>2, UndoRouteDoes DEF Covers, Originals, NoBackupOfOurs, Written,
       Follows
  <2>2. QED
    BY <1>22, <1>2, <2>1, UndoRouteDoes DEF Enough, Follows, Written, Control,
       UndoSteps, SettingUp
<1>23. CASE UndoFile
  BY <1>23, <1>2, <1>3, <1>4, UndoFileDoes
<1>24. CASE KeepBlock
  BY <1>24, <1>2, <1>3, <1>4, KeepBlockDoes
<1>25. ASSUME NEW g \in Via, GatewayMoves(g) PROVE (Enough /\ Follows)'
  BY <1>25, <1>2, <1>3, <1>4 DEF GatewayMoves
<1>26. CASE Follow
  <2>1. /\ Written /\ file.ep # NoGateway
        /\ file.dns = net.dns /\ file.kill = net.kill /\ file.token = net.token
        /\ unsaved = 0 => Covers(file) /\ net.bypass \subseteq file.bypass
    BY <1>26, <1>2, FollowDoes DEF Enough, Follows
  <2>2. unsaved = 0 => Covers(file)'
    BY <1>26, <2>1, FollowDoes DEF Covers
  <2>3. QED
    BY <1>26, <2>1, <2>2, FollowDoes DEF Enough, Follows, Written
<1>27. CASE FollowFails
  <2>1. unsaved = 0 /\ Written /\ Covers(file) => Covers(file)'
    BY <1>27, <1>2, FollowFailsDoes DEF Covers, Originals, NoBackupOfOurs,
       Written, Follows
  <2>2. QED
    BY <1>27, <1>2, <2>1, FollowFailsDoes DEF Enough, Follows, Written, Control,
       UndoSteps, SettingUp
<1>28. ASSUME NEW n \in Net, Refresh(n) PROVE (Enough /\ Follows)'
  BY <1>28, <1>2, <1>3, <1>4, RefreshDoes
<1>29. CASE Resolved
  BY <1>29, <1>2, <1>3, <1>4 DEF Resolved, system, limits
<1>30. CASE Save
  BY <1>30, <1>2, <1>3, <1>4, NetIsRecord DEF Save, system, limits
<1>31. CASE SaveFails
  BY <1>31, <1>2, <1>3, <1>4, NoRecords DEF SaveFails, Excused, system, limits
<1>32. CASE Crash
  <2>1. file' = file /\ (file \in NetState => Covers(file))
    BY <1>32, <1>2, <1>3, HarmlessCrash DEF Written
  <2>2. UNCHANGED system
    BY <1>32 DEF Crash
  <2>3. file \in NetState => Covers(file)'
    BY <2>1, <2>2 DEF Covers, system
  <2>4. QED
    BY <1>32, <2>1, <2>3, CrashDoes DEF Enough, Follows, Written, UndoSteps
<1>33. CASE UNCHANGED vars
  BY <1>33, <1>2, <1>3, <1>4 DEF vars, system, limits
<1> HIDE DEF Control, Files, Gateways, InCharge, UpSteps, UndoSteps, SettingUp,
   Written, Originals, NoBackupOfOurs, Enough, Follows, Covers, DuePlan
<1>34. QED
  BY <1>5, <1>6, <1>7, <1>8, <1>9, <1>10, <1>11, <1>12, <1>13, <1>14, <1>15,
     <1>16, <1>17, <1>18, <1>19, <1>20, <1>21, <1>22, <1>23, <1>24, <1>25, <1>26,
     <1>27, <1>28, <1>29, <1>30, <1>31, <1>32, <1>33
     DEF Next, Configure, Undo, Watch

\* The record due covers every change; at a death, the file does.
LEMMA RecordedStep == TypeOK /\ Control /\ Files /\ Gateways /\ Backups /\ FileKept /\ Recorded /\ [Next]_vars =>
    Recorded'
<1> SUFFICES ASSUME TypeOK, Control, Files, Gateways, Backups, FileKept, Recorded,
   [Next]_vars PROVE Recorded'
  OBVIOUS
<1>1. SUFFICES ASSUME Provided' PROVE Covers(Due)'
  BY DEF Recorded, Due, Provided
<1>2. Originals /\ Enough /\ Follows /\ Covers(Due)
  BY <1>1, ProvidedBefore DEF Backups, FileKept, Recorded, Due, Provided
<1>3. /\ "undo failed" \notin excuse' /\ "write failed" \notin excuse'
      /\ "save failed" \notin excuse' /\ "crash in up" \notin excuse'
      /\ "crash in save" \notin excuse' /\ "crash in refresh" \notin excuse'
  BY <1>1, NotForgotten DEF Provided
<1>4. DuePlan /\ DuePlan'
  BY DueIsPlanned
<1>5. ASSUME NEW o \in Options, Up(o) PROVE Covers(Due)'
  <2>1. /\ Due.ep = Due'.ep /\ Due.dns = Due'.dns /\ Due.bypass = Due'.bypass
        /\ Due.kill = Due'.kill /\ Due.token = Due'.token
    BY <1>5 DEF Up, Control, Due, Remaining, UpSteps, UndoSteps, SettingUp
  <2>2. QED
    BY <1>5, <1>2, <2>1 DEF Up, system, Covers
<1>6. CASE Down
  <2>1. /\ Due.ep = Due'.ep /\ Due.dns = Due'.dns /\ Due.bypass = Due'.bypass
        /\ Due.kill = Due'.kill /\ Due.token = Due'.token
    BY <1>6 DEF Down, Control, Due, Remaining, UpSteps, UndoSteps, SettingUp
  <2>2. QED
    BY <1>6, <1>2, <2>1 DEF Down, system, Covers
<1>7. CASE CreateDevice
  <2>1. Due = Unchanged /\ Due' = Unchanged
    BY <1>7, <1>2, CreateDeviceDoes DEF Control, Due, SettingUp, UpSteps, UndoSteps
  <2>2. UNCHANGED system
    BY <1>7 DEF CreateDevice
  <2>3. QED
    BY <1>2, <2>1, <2>2 DEF Covers, system
<1>8. CASE DeviceFails
  <2>1. Due = Unchanged /\ Due' = Unchanged
    BY <1>8, <1>2 DEF Control, Due, Remaining, SettingUp, UpSteps, UndoSteps,
       DeviceFails, system, limits
  <2>2. QED
    BY <1>8, <1>2, <1>3, <2>1 DEF Covers, DeviceFails, system
<1>9. CASE AddEndpointRoute
  <2>1. Due = net /\ Due' = net'
    BY <1>9, <1>2, AddEndpointRouteDoes DEF Control, Due, Remaining, SettingUp,
       UpSteps, UndoSteps
  <2>2. epRoute' # NoGateway => Due'.ep # NoGateway
    BY <1>9, <1>2, <1>3, <2>1, AddEndpointRouteDoes DEF Covers
  <2>3. \A n \in Net : bypass'[n] # NoGateway => n \in Due'.bypass
    BY <1>9, <1>2, <1>3, <2>1, AddEndpointRouteDoes DEF Covers
  <2>4. \A s \in Service : dns'[s] = "vpn" => Due'.dns[s] = "own"
    BY <1>9, <1>2, <1>3, <2>1, AddEndpointRouteDoes DEF Covers
  <2>5. pf' => Due'.kill
    BY <1>9, <1>2, <1>3, <2>1, AddEndpointRouteDoes DEF Covers
  <2>6. pfTokens' \subseteq {Due'.token}
    BY <1>9, <1>2, <1>3, <2>1, AddEndpointRouteDoes DEF Covers
  <2>7. QED
    BY <2>2, <2>3, <2>4, <2>5, <2>6 DEF Covers
<1>10. ASSUME NEW n \in Known, AddBypass(n) PROVE Covers(Due)'
  <2>1. Due = net /\ Due' = net'
    BY <1>10, <1>2, AddBypassDoes DEF Control, Due, Remaining, SettingUp, UpSteps,
       UndoSteps
  <2>2. QED
    BY <1>10, <1>2, <1>3, <2>1, AddBypassDoes DEF Covers
<1>11. CASE BypassDone
  <2>1. Due = net /\ Due' = net'
    BY <1>11, <1>2 DEF Control, Due, Remaining, SettingUp, UpSteps, UndoSteps,
       BypassDone, system, limits
  <2>2. QED
    BY <1>11, <1>2, <1>3, <2>1 DEF Covers, BypassDone, system
<1>12. CASE LoadRules
  <2>1. Due = net /\ Due' = net'
    BY <1>12, <1>2, LoadRulesDoes DEF Control, Due, Remaining, SettingUp, UpSteps,
       UndoSteps
  <2>2. QED
    BY <1>12, <1>2, <1>3, <2>1, LoadRulesDoes DEF Covers
<1>13. CASE EnableFilter
  <2>1. Due = net /\ Due' = net' /\ net.token = 0
    BY <1>13, <1>2, EnableFilterDoes DEF Control, Due, Remaining, SettingUp,
       UpSteps, UndoSteps
  <2>2. epRoute' # NoGateway => Due'.ep # NoGateway
    BY <1>13, <1>2, <1>3, <2>1, EnableFilterDoes DEF Covers
  <2>3. \A n \in Net : bypass'[n] # NoGateway => n \in Due'.bypass
    BY <1>13, <1>2, <1>3, <2>1, EnableFilterDoes DEF Covers
  <2>4. \A s \in Service : dns'[s] = "vpn" => Due'.dns[s] = "own"
    BY <1>13, <1>2, <1>3, <2>1, EnableFilterDoes DEF Covers
  <2>5. pf' => Due'.kill
    BY <1>13, <1>2, <1>3, <2>1, EnableFilterDoes DEF Covers
  <2>6. pfTokens' \subseteq {Due'.token}
    BY <1>13, <1>2, <1>3, <2>1, EnableFilterDoes DEF Covers
  <2>7. QED
    BY <2>2, <2>3, <2>4, <2>5, <2>6 DEF Covers
<1>14. ASSUME NEW s \in Service, SetDns(s) PROVE Covers(Due)'
  <2>1. Due = net /\ Due' = net'
    BY <1>14, <1>2, SetDnsDoes DEF Control, Due, Remaining, SettingUp, UpSteps,
       UndoSteps
  <2>2. QED
    BY <1>14, <1>2, <1>3, <2>1, SetDnsDoes DEF Covers
<1>15. CASE DnsDone
  <2>1. Due = net /\ Due' = net'
    BY <1>15, <1>2 DEF Control, Due, Remaining, SettingUp, UpSteps, UndoSteps,
       DnsDone
  <2>2. QED
    BY <1>15, <1>2, <1>3, <2>1 DEF Covers, DnsDone, system
<1>16. CASE UpFails
  <2>1. /\ Due = net /\ net' = net
        /\ Due'.ep = net.ep /\ Due'.dns = net.dns /\ Due'.bypass = net.bypass
        /\ Due'.kill = net.kill /\ Due'.token = net.token
    BY <1>16, <1>2 DEF Control, Due, Remaining, SettingUp, UpSteps, UndoSteps,
       UpFails
  <2>2. QED
    BY <1>16, <1>2, <1>3, <2>1 DEF Covers, UpFails, system
<1>17. CASE WriteState
  <2>1. Due = net /\ Due' = net'
    BY <1>17, <1>2 DEF Control, Due, Remaining, SettingUp, UpSteps, UndoSteps,
       WriteState
  <2>2. QED
    BY <1>17, <1>2, <1>3, <2>1 DEF Covers, WriteState, system
<1>18. CASE WriteFails
  BY <1>18, <1>2, <1>3, <1>4, NoRecords DEF WriteFails, Excused, system, limits
<1>19. CASE UndoFilter
  <2>1. /\ Due.ep = net.ep /\ Due.dns = net.dns /\ Due.bypass = net.bypass
        /\ Due.kill = net.kill /\ Due.token = net.token /\ Due'.ep = net.ep
        /\ Due'.dns = net.dns /\ Due'.bypass = net.bypass /\ Due'.kill = FALSE
        /\ Due'.token = 0
    BY <1>19, <1>2, UndoFilterDoes DEF Control, Due, Remaining, SettingUp,
       UpSteps, UndoSteps
  <2>2. epRoute' # NoGateway => Due'.ep # NoGateway
    BY <1>19, <1>2, <1>3, <2>1, UndoFilterDoes DEF Covers
  <2>3. \A n \in Net : bypass'[n] # NoGateway => n \in Due'.bypass
    BY <1>19, <1>2, <1>3, <2>1, UndoFilterDoes DEF Covers
  <2>4. \A s \in Service : dns'[s] = "vpn" => Due'.dns[s] = "own"
    BY <1>19, <1>2, <1>3, <2>1, UndoFilterDoes DEF Covers
  <2>5. pf' => Due'.kill
    BY <1>19, <1>2, <1>3, <2>1, UndoFilterDoes DEF Covers
  <2>6. pfTokens' \subseteq {Due'.token}
    BY <1>19, <1>2, <1>3, <2>1, UndoFilterDoes DEF Covers
  <2>7. QED
    BY <2>2, <2>3, <2>4, <2>5, <2>6 DEF Covers
<1>20. CASE UndoBypass
  <2>1. /\ Due.ep = net.ep /\ Due.dns = net.dns /\ Due.bypass = net.bypass
        /\ Due.kill = (IF after = "keep" THEN net.kill ELSE FALSE)
        /\ Due.token = (IF after = "keep" THEN net.token ELSE 0)
        /\ Due'.ep = net.ep /\ Due'.dns = net.dns /\ Due'.bypass = {}
        /\ Due'.kill = (IF after = "keep" THEN net.kill ELSE FALSE)
        /\ Due'.token = (IF after = "keep" THEN net.token ELSE 0)
    BY <1>20, <1>2, UndoBypassDoes DEF Control, Due, Remaining, SettingUp,
       UpSteps, UndoSteps
  <2>2. epRoute' # NoGateway => Due'.ep # NoGateway
    BY <1>20, <1>2, <1>3, <2>1, UndoBypassDoes DEF Covers
  <2>3. \A n \in Net : bypass'[n] # NoGateway => n \in Due'.bypass
    BY <1>20, <1>2, <1>3, <2>1, UndoBypassDoes DEF Covers
  <2>4. \A s \in Service : dns'[s] = "vpn" => Due'.dns[s] = "own"
    BY <1>20, <1>2, <1>3, <2>1, UndoBypassDoes DEF Covers
  <2>5. pf' => Due'.kill
    BY <1>20, <1>2, <1>3, <2>1, UndoBypassDoes DEF Covers
  <2>6. pfTokens' \subseteq {Due'.token}
    BY <1>20, <1>2, <1>3, <2>1, UndoBypassDoes DEF Covers
  <2>7. QED
    BY <2>2, <2>3, <2>4, <2>5, <2>6 DEF Covers
<1>21. CASE UndoDns
  <2>1. /\ Due.ep = net.ep /\ Due.dns = net.dns /\ Due.bypass = {}
        /\ Due.kill = (IF after = "keep" THEN net.kill ELSE FALSE)
        /\ Due.token = (IF after = "keep" THEN net.token ELSE 0)
        /\ Due'.ep = net.ep /\ Due'.dns = Unchanged.dns /\ Due'.bypass = {}
        /\ Due'.kill = (IF after = "keep" THEN net.kill ELSE FALSE)
        /\ Due'.token = (IF after = "keep" THEN net.token ELSE 0)
    BY <1>21, <1>2, UndoDnsDoes DEF Control, Due, Remaining, SettingUp, UpSteps,
       UndoSteps
  <2>2. epRoute' # NoGateway => Due'.ep # NoGateway
    BY <1>21, <1>2, <1>3, <2>1, UndoDnsDoes DEF Covers, Originals, NoBackupOfOurs
  <2>3. \A n \in Net : bypass'[n] # NoGateway => n \in Due'.bypass
    BY <1>21, <1>2, <1>3, <2>1, UndoDnsDoes DEF Covers, Originals, NoBackupOfOurs
  <2>4. \A s \in Service : dns'[s] = "vpn" => Due'.dns[s] = "own"
    BY <1>21, <1>2, <1>3, <2>1, UndoDnsDoes DEF Covers, Originals, NoBackupOfOurs
  <2>5. pf' => Due'.kill
    BY <1>21, <1>2, <1>3, <2>1, UndoDnsDoes DEF Covers, Originals, NoBackupOfOurs
  <2>6. pfTokens' \subseteq {Due'.token}
    BY <1>21, <1>2, <1>3, <2>1, UndoDnsDoes DEF Covers, Originals, NoBackupOfOurs
  <2>7. QED
    BY <2>2, <2>3, <2>4, <2>5, <2>6 DEF Covers
<1>22. CASE UndoRoute
  <2>1. /\ Due.ep = net.ep /\ Due.dns = Unchanged.dns /\ Due.bypass = {}
        /\ Due.kill = (IF after = "keep" THEN net.kill ELSE FALSE)
        /\ Due.token = (IF after = "keep" THEN net.token ELSE 0)
        /\ Due'.ep = NoGateway /\ Due'.dns = Unchanged.dns /\ Due'.bypass = {}
        /\ Due'.kill = (IF after = "keep" THEN net.kill ELSE FALSE)
        /\ Due'.token = (IF after = "keep" THEN net.token ELSE 0)
    BY <1>22, <1>2, UndoRouteDoes DEF Control, Due, Remaining, SettingUp, UpSteps,
       UndoSteps
  <2>2. epRoute' # NoGateway => Due'.ep # NoGateway
    BY <1>22, <1>2, <1>3, <2>1, UndoRouteDoes DEF Covers
  <2>3. \A n \in Net : bypass'[n] # NoGateway => n \in Due'.bypass
    BY <1>22, <1>2, <1>3, <2>1, UndoRouteDoes DEF Covers
  <2>4. \A s \in Service : dns'[s] = "vpn" => Due'.dns[s] = "own"
    BY <1>22, <1>2, <1>3, <2>1, UndoRouteDoes DEF Covers
  <2>5. pf' => Due'.kill
    BY <1>22, <1>2, <1>3, <2>1, UndoRouteDoes DEF Covers
  <2>6. pfTokens' \subseteq {Due'.token}
    BY <1>22, <1>2, <1>3, <2>1, UndoRouteDoes DEF Covers
  <2>7. QED
    BY <2>2, <2>3, <2>4, <2>5, <2>6 DEF Covers
<1>23. CASE UndoFile
  <2>1. /\ Due.ep = NoGateway /\ Due.dns = Unchanged.dns /\ Due.bypass = {}
        /\ Due.kill = FALSE /\ Due.token = 0
        /\ Due' = Unchanged
    BY <1>23, <1>2, UndoFileDoes, UnchangedFacts DEF Control, Due, Remaining,
       SettingUp, UpSteps, UndoSteps
  <2>2. epRoute' # NoGateway => Due'.ep # NoGateway
    BY <1>23, <1>2, <1>3, <2>1, UndoFileDoes, UnchangedFacts DEF Covers
  <2>3. \A n \in Net : bypass'[n] # NoGateway => n \in Due'.bypass
    BY <1>23, <1>2, <1>3, <2>1, UndoFileDoes, UnchangedFacts DEF Covers
  <2>4. \A s \in Service : dns'[s] = "vpn" => Due'.dns[s] = "own"
    BY <1>23, <1>2, <1>3, <2>1, UndoFileDoes, UnchangedFacts DEF Covers
  <2>5. pf' => Due'.kill
    BY <1>23, <1>2, <1>3, <2>1, UndoFileDoes, UnchangedFacts DEF Covers
  <2>6. pfTokens' \subseteq {Due'.token}
    BY <1>23, <1>2, <1>3, <2>1, UndoFileDoes, UnchangedFacts DEF Covers
  <2>7. QED
    BY <2>2, <2>3, <2>4, <2>5, <2>6 DEF Covers
<1>24. CASE KeepBlock
  <2>1. /\ Due.ep = NoGateway /\ Due.dns = Unchanged.dns /\ Due.bypass = {}
        /\ Due.kill = net.kill /\ Due.token = net.token
        /\ Due' = net'
    BY <1>24, <1>2, KeepBlockDoes, UnchangedFacts DEF Control, Due, Remaining,
       SettingUp, UpSteps, UndoSteps
  <2>2. epRoute' # NoGateway => Due'.ep # NoGateway
    BY <1>24, <1>2, <1>3, <2>1, KeepBlockDoes, UnchangedFacts DEF Covers
  <2>3. \A n \in Net : bypass'[n] # NoGateway => n \in Due'.bypass
    BY <1>24, <1>2, <1>3, <2>1, KeepBlockDoes, UnchangedFacts DEF Covers
  <2>4. \A s \in Service : dns'[s] = "vpn" => Due'.dns[s] = "own"
    BY <1>24, <1>2, <1>3, <2>1, KeepBlockDoes, UnchangedFacts DEF Covers
  <2>5. pf' => Due'.kill
    BY <1>24, <1>2, <1>3, <2>1, KeepBlockDoes, UnchangedFacts DEF Covers
  <2>6. pfTokens' \subseteq {Due'.token}
    BY <1>24, <1>2, <1>3, <2>1, KeepBlockDoes, UnchangedFacts DEF Covers
  <2>7. QED
    BY <2>2, <2>3, <2>4, <2>5, <2>6 DEF Covers
<1>25. ASSUME NEW g \in Via, GatewayMoves(g) PROVE Covers(Due)'
  <2>1. Due' = Due
    BY <1>25, <1>2 DEF Control, Due, Remaining, SettingUp, UpSteps, UndoSteps,
       GatewayMoves
  <2>2. QED
    BY <1>25, <1>2, <1>3, <2>1 DEF Covers, GatewayMoves
<1>26. CASE Follow
  <2>1. Due = net /\ Due' = net'
    BY <1>26, <1>2, FollowDoes DEF Control, Due, Remaining, SettingUp, UpSteps,
       UndoSteps
  <2>2. epRoute' # NoGateway => Due'.ep # NoGateway
    BY <1>26, <1>2, <1>3, <2>1, FollowDoes DEF Covers
  <2>3. \A n \in Net : bypass'[n] # NoGateway => n \in Due'.bypass
    BY <1>26, <1>2, <1>3, <2>1, FollowDoes DEF Covers
  <2>4. \A s \in Service : dns'[s] = "vpn" => Due'.dns[s] = "own"
    BY <1>26, <1>2, <1>3, <2>1, FollowDoes DEF Covers
  <2>5. pf' => Due'.kill
    BY <1>26, <1>2, <1>3, <2>1, FollowDoes DEF Covers
  <2>6. pfTokens' \subseteq {Due'.token}
    BY <1>26, <1>2, <1>3, <2>1, FollowDoes DEF Covers
  <2>7. QED
    BY <2>2, <2>3, <2>4, <2>5, <2>6 DEF Covers
<1>27. CASE FollowFails
  <2>1. Due = net /\ Due' = net' /\ net.ep # NoGateway
    BY <1>27, <1>2, FollowFailsDoes DEF Control, Due, Remaining, SettingUp,
       UpSteps, UndoSteps, Gateways, InCharge
  <2>2. epRoute' # NoGateway => Due'.ep # NoGateway
    BY <1>27, <1>2, <1>3, <2>1, FollowFailsDoes DEF Covers
  <2>3. \A n \in Net : bypass'[n] # NoGateway => n \in Due'.bypass
    BY <1>27, <1>2, <1>3, <2>1, FollowFailsDoes DEF Covers
  <2>4. \A s \in Service : dns'[s] = "vpn" => Due'.dns[s] = "own"
    BY <1>27, <1>2, <1>3, <2>1, FollowFailsDoes DEF Covers
  <2>5. pf' => Due'.kill
    BY <1>27, <1>2, <1>3, <2>1, FollowFailsDoes DEF Covers
  <2>6. pfTokens' \subseteq {Due'.token}
    BY <1>27, <1>2, <1>3, <2>1, FollowFailsDoes DEF Covers
  <2>7. QED
    BY <2>2, <2>3, <2>4, <2>5, <2>6 DEF Covers
<1>28. ASSUME NEW n \in Net, Refresh(n) PROVE Covers(Due)'
  <2>1. Due = net /\ Due' = net'
    BY <1>28, <1>2, RefreshDoes DEF Control, Due, Remaining, SettingUp, UpSteps,
       UndoSteps
  <2>2. QED
    BY <1>28, <1>2, <1>3, <2>1, RefreshDoes DEF Covers
<1>29. CASE Resolved
  <2>1. Due = net /\ Due' = net'
    BY <1>29, <1>2 DEF Control, Due, Remaining, SettingUp, UpSteps, UndoSteps,
       Resolved
  <2>2. QED
    BY <1>29, <1>2, <1>3, <2>1 DEF Covers, Resolved, system
<1>30. CASE Save
  <2>1. Due = net /\ Due' = net'
    BY <1>30, <1>2 DEF Control, Due, Remaining, SettingUp, UpSteps, UndoSteps, Save
  <2>2. QED
    BY <1>30, <1>2, <1>3, <2>1 DEF Covers, Save, system
<1>31. CASE SaveFails
  BY <1>31, <1>2, <1>3, <1>4, NoRecords DEF SaveFails, Excused, system, limits
<1>32. CASE Crash
  <2>1. /\ file' = file /\ (file \in NetState => Covers(file))
        /\ file \notin NetState => Covers(Unchanged)
    BY <1>32, <1>2, <1>3, HarmlessCrash DEF Written
  <2>2. UNCHANGED system
    BY <1>32 DEF Crash
  <2>3. CASE file \notin NetState
    <3>1. Due' = Unchanged
      BY <1>32, <2>1, <2>3, CrashDoes DEF Due, UndoSteps
    <3>2. QED
      BY <2>1, <2>2, <2>3, <3>1 DEF Covers, system
  <2>4. CASE file \in NetState
    <3>1. /\ Due'.ep = file.ep /\ Due'.dns = file.dns /\ Due'.bypass = file.bypass
          /\ Due'.kill = file.kill /\ Due'.token = file.token
      BY <1>32, <2>1, <2>4, CrashDoes DEF Due, Remaining, UndoSteps
    <3>2. QED
      BY <2>1, <2>2, <2>4, <3>1 DEF Covers, system
  <2>5. QED
    BY <2>3, <2>4
<1>33. CASE UNCHANGED vars
  <2>1. Due' = Due
    BY <1>33 DEF vars, Due, Remaining
  <2>2. QED
    BY <1>33, <1>2, <2>1 DEF Covers, vars, system
<1>34. QED
  BY <1>5, <1>6, <1>7, <1>8, <1>9, <1>10, <1>11, <1>12, <1>13, <1>14, <1>15,
     <1>16, <1>17, <1>18, <1>19, <1>20, <1>21, <1>22, <1>23, <1>24, <1>25, <1>26,
     <1>27, <1>28, <1>29, <1>30, <1>31, <1>32, <1>33
     DEF Next, Configure, Undo, Watch

LEMMA Inductive == IInv /\ [Next]_vars => IInv'
<1> SUFFICES ASSUME IInv, [Next]_vars PROVE IInv'
  OBVIOUS
<1>1. /\ TypeOK /\ Control /\ Files /\ Guarded /\ Gateways /\ Backups
      /\ FileKept /\ Recorded
  BY DEF IInv
<1>2. TypeOK' /\ Control' /\ Files' /\ Guarded' /\ Gateways'
  BY <1>1, TypeStep, ControlStep, FilesStep, GuardedStep, GatewaysStep
<1>3. Backups' /\ FileKept' /\ Recorded'
  BY <1>1, BackupsStep, FileKeptStep, RecordedStep
<1>4. QED
  BY <1>2, <1>3 DEF IInv

LEMMA InitInv == Init => IInv
<1> SUFFICES ASSUME Init PROVE IInv
  OBVIOUS
<1>1. TypeOK
  <2>1. 0 \in 0..MaxUps /\ 0 \in 0..MaxCrashes /\ 0 \in 0..MaxMoves /\ 0 \in 0..Batch
    BY LimitsAssumption
  <2>2. [mode |-> "all", kill |-> FALSE] \in Options
    <3>1. "all" \in {"all", "only", "except"} /\ FALSE \in BOOLEAN
      OBVIOUS
    <3>2. \E m \in {"all", "only", "except"}, k \in BOOLEAN :
             [mode |-> "all", kill |-> FALSE] = [mode |-> m, kill |-> k]
      BY <3>1
    <3>3. QED
      BY <3>2 DEF Options
  <2>3. gateway \in Via /\ epRoute \in Via /\ bypass \in [Net -> Via]
    BY DEF Init, Via
  <2>4. QED
    BY <2>1, <2>2, <2>3, UnchangedFacts DEF Init, TypeOK
<1>2. Control /\ Files /\ Guarded /\ Gateways
  BY UnchangedFacts, NoRecords, LimitsAssumption
     DEF Init, Control, Files, Guarded, Gateways, SettingUp, InCharge, Written,
         UpSteps, UndoSteps
<1>3. Backups /\ FileKept
  BY UnchangedFacts, NoRecords
     DEF Init, Backups, Originals, FileKept, Enough, Follows, NoBackupOfOurs, Written,
         UndoSteps
<1>4. Recorded
  <2>1. Due = Unchanged
    BY DEF Init, Due, UndoSteps
  <2>2. Covers(Due)
    BY <2>1 DEF Init, Covers
  <2>3. QED
    BY <2>2 DEF Recorded, Due
<1>5. QED
  BY <1>1, <1>2, <1>3, <1>4 DEF IInv

LEMMA Invariant == Spec => []IInv
BY InitInv, Inductive, PTL DEF Spec

---------------------------------------------------------------------------
(* Theorems.                                                               *)

\* Whatever the helper's commands, the watchers and a death do, every variable has its
\* type: the record and the file are records, and the counters stay in their bounds.
THEOREM MacTyping == Spec => []TypeOK
<1>1. IInv => TypeOK
  BY DEF IInv
<1>2. QED
  BY <1>1, Invariant, PTL

\* At every command, the record that will be undone covers every change of the system,
\* unless one of the events of Forgets happened (macos.rs:1-2).
THEOREM ChangesAreRecorded == Spec => []Recorded
<1>1. IInv => Recorded
  BY DEF IInv
<1>2. QED
  BY <1>1, Invariant, PTL

\* An active connection with nothing unsaved can be undone from the state file alone.
THEOREM FileIsEnough == Spec => []FileSuffices
<1>1. IInv => FileSuffices
  BY DEF IInv, FileKept, FileSuffices, Provided, Enough
<1>2. QED
  BY <1>1, Invariant, PTL

\* An active connection with the kill switch blocks, and so does the block a death
\* left, unless a Down was lifting it when the process died.
THEOREM BlockHolds == Spec => []BlockedIsBlocked
<1>1. IInv => BlockedIsBlocked
  <2> SUFFICES ASSUME IInv PROVE BlockedIsBlocked
    OBVIOUS
  <2>1. helper = "active" /\ opts.kill /\ opts.mode = "all" => pf
    BY DEF IInv, Guarded
  <2>2. helper = "blocked" => pc \notin UndoSteps /\ Written /\ file.kill
    BY DEF IInv, Control, Files
  <2>3. helper = "blocked" /\ "crash in down" \notin excuse => pf
    BY <2>2 DEF IInv, Guarded
  <2>4. QED
    BY <2>1, <2>3 DEF BlockedIsBlocked
<1>2. QED
  BY <1>1, Invariant, PTL

\* All routes around the tunnel lie on the one gateway the record names, again after a
\* failed move once one succeeds or the user connects anew.
THEOREM RoutesAgree == Spec => []OneGateway
<1>1. IInv => OneGateway
  BY DEF IInv, Gateways, OneGateway
<1>2. QED
  BY <1>1, Invariant, PTL

\* Rules that block are lifted by a Down, by an Up or by the undo of an Up that
\* failed, never by a start after a death or by a watcher (main.rs:261-262).
THEOREM OnlyTheUserLifts == Spec => LiftedOnRequest
<1>1. ASSUME IInv, [Next]_vars, pf, ~pf' PROVE after \in {"idle", "device", "failed"}
  <2>1. UndoFilter
    <3>1. \/ UndoFilter \/ pf' = pf \/ pf' = TRUE
      <4>1. CASE \/ \E o \in Options : Up(o)
                 \/ Down \/ \E g \in Via : GatewayMoves(g)
                 \/ UNCHANGED vars
        BY <4>1 DEF Up, Down, GatewayMoves, vars, system
      <4>2. CASE Configure
        BY <4>2 DEF Configure, CreateDevice, DeviceFails, AddEndpointRoute, BypassDone,
           AddBypass, LoadRules, EnableFilter, DnsDone, SetDns, UpFails, WriteState,
           WriteFails, system
      <4>3. CASE Undo
        BY <4>3 DEF Undo, UndoBypass, UndoDns, UndoRoute, UndoFile, KeepBlock, system
      <4>4. CASE Watch \/ Crash
        BY <4>4 DEF Watch, Follow, FollowFails, Resolved, Refresh, Save, SaveFails,
           Crash, system
      <4>5. QED
        BY <1>1, <4>1, <4>2, <4>3, <4>4 DEF Next
    <3>2. QED
      BY <1>1, <3>1
  <2>2. pc = "undo pf" /\ net.kill /\ after \in {"idle", "failed", "device", "keep", "start"}
    BY <1>1, <2>1, UndoFilterDoes DEF IInv
  <2>3. after # "keep" /\ after # "start"
    BY <1>1, <2>2 DEF IInv, Control, UndoSteps
  <2>4. QED
    BY <2>2, <2>3
<1>2. IInv /\ [Next]_vars => [pf /\ ~pf' => after \in {"idle", "device", "failed"}]_vars
  BY <1>1
<1>3. QED
  BY <1>2, Invariant, PTL DEF Spec, LiftedOnRequest
=============================================================================

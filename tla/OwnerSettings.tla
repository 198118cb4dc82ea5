--------------------------- MODULE OwnerSettings ----------------------------
(* The settings a user edits and the tasks that store them: Wi-Fi profiles  *)
(* (network_quota.cpp, mosaico_wifi_profiles_model.h), the display's        *)
(* (mosaico_display_settings), and the socket of the LAN probe, which must  *)
(* be closed before either a save or a restart (mosaico_lan_tcp_probe.cpp). *)
(* The screen and the console ask; the network owner, or for the display a  *)
(* fallback task, stores; the console can also provision over USB.  Gates   *)
(* of the updater, a contended try_lock and an unripe edit only delay: they *)
(* are steps not taken.                                                    *)
EXTENDS Naturals, Sequences, SequencesExt

CONSTANTS Names,     \* networks
          Capacity,  \* profiles kept
          Configs,   \* settings of the display
          MaxAsks    \* bound on requests of the screen and the console

VARIABLES
  nvs,    \* flash: the blob of profiles, the pair of an older version, the display's blob
  wifi,   \* _wifi_profiles, whether they are in flash, whether USB or a failed commit changed that
  set,    \* _wifi_settings: published names, pending, rebootRequired, restartPending, error,
          \* and scanError, latched until the next boot
  ask,    \* _pending_ssid and _pending_forget
  svc,    \* serviceWifiSettings: its step and its copies
  disp,   \* the display's Model
  writer, \* who commits the display's settings, and which
  task,   \* owner, ownerTask, and what became of the network owner
  lan,    \* the probe: its state, and whether its socket is open
  asks

settingsVars == <<nvs, wifi, set, ask, svc, disp, writer, task, lan, asks>>

(***************************************************************************)
(* Profiles: secret 0 is an open network, and lastSuccess 0 is none.       *)
(***************************************************************************)
Empty == [list |-> <<>>, last |-> 0]
Find(p, n) == SelectInSeq(p.list, LAMBDA e : e.ssid = n)

Upsertable(p, n) == Find(p, n) # 0 \/ Len(p.list) < Capacity
\* a blank secret keeps the one remembered
Upsert(p, n, pw) ==
  LET i == Find(p, n) IN
  IF i = 0 THEN [p EXCEPT !.list = Append(@, [ssid |-> n, pw |-> pw])]
  ELSE IF pw = 0 THEN p ELSE [p EXCEPT !.list[i].pw = pw]

Forget(p, n) ==
  LET i == Find(p, n) IN
  [list |-> RemoveAt(p.list, i),
   last |-> IF p.last = i THEN 0 ELSE IF p.last > i THEN p.last - 1 ELSE p.last]

\* begin: the blob, or where there never was one the older pair
Stored(f) == IF f.blob = "none" /\ f.old \in Names
             THEN [p |-> Upsert(Empty, f.old, 1), persisted |-> FALSE, stray |-> FALSE]
             ELSE IF f.blob = "ok" THEN [p |-> f.p, persisted |-> TRUE, stray |-> FALSE]
             ELSE [p |-> Empty, persisted |-> FALSE, stray |-> FALSE]

(***************************************************************************)
(* Boots.                                                                  *)
(***************************************************************************)
Published(p) == {p.list[i].ssid : i \in 1 .. Len(p.list)}
NoService == [pc |-> "idle", failed |-> FALSE, forget |-> FALSE, name |-> "", pw |-> 0]
Unreadable == 9  \* and 0: nothing stored
NoWriter == [by |-> "none", rev |-> 0, config |-> 0]

\* init of the display's model: nothing stored, or what cannot be read, is never written back
Fresh(f) == [config |-> IF f.disp \in Configs THEN f.disp ELSE CHOOSE c \in Configs : TRUE,
             overlay |-> 0, rev |-> 1, saved |-> IF f.disp \in Configs THEN 1 ELSE 0,
             pending |-> FALSE, error |-> f.disp = Unreadable, tried |-> 0]

Boot(f, how) ==
  /\ wifi' = Stored(f) /\ disp' = Fresh(f)
  /\ set' = [names |-> Published(Stored(f).p), pending |-> FALSE, reboot |-> FALSE,
             restart |-> FALSE, error |-> FALSE, scanError |-> FALSE, available |-> how = "network"]
  /\ ask' = [name |-> "", pw |-> 0, forget |-> FALSE] /\ svc' = NoService
  /\ writer' = NoWriter /\ lan' = [state |-> "idle", fd |-> FALSE]
  /\ task' = [owner |-> IF how = "late" THEN "none" ELSE how, on |-> IF how = "network" THEN how ELSE "none"]

Init ==
  /\ nvs \in [blob : {"none", "bad"}, p : {Empty}, old : {"", CHOOSE n \in Names : TRUE}, disp : {0, Unreadable}]
  /\ task \in [owner : {"network", "fallback"}, on : {"none", "network"}]
  /\ task.on = "network" <=> task.owner = "network"
  /\ wifi = Stored(nvs) /\ disp = Fresh(nvs)
  /\ set = [names |-> Published(Stored(nvs).p), pending |-> FALSE, reboot |-> FALSE,
            restart |-> FALSE, error |-> FALSE, scanError |-> FALSE, available |-> task.owner = "network"]
  /\ ask = [name |-> "", pw |-> 0, forget |-> FALSE] /\ svc = NoService
  /\ writer = NoWriter /\ lan = [state |-> "idle", fd |-> FALSE] /\ asks = 0

\* a reset may come between a commit and its answer
Reset ==
  /\ UNCHANGED <<nvs, asks>>
  /\ \E how \in {"network", "fallback"} : Boot(nvs, how)

(***************************************************************************)
(* What is asked of the Wi-Fi owner.                                       *)
(***************************************************************************)
Ask == asks < MaxAsks /\ asks' = asks + 1
Open == set.available /\ ~set.pending /\ ~set.restart
Asked(n, pw, forget) ==
  /\ ask' = [name |-> n, pw |-> pw, forget |-> forget]
  /\ set' = [set EXCEPT !.pending = TRUE, !.error = FALSE]
Refused == set' = [set EXCEPT !.error = TRUE] /\ UNCHANGED ask

\* requestWifiCredentials
RequestSave(n, pw) ==
  /\ Open /\ IF n \notin set.names /\ Len(wifi.p.list) = Capacity THEN Refused ELSE Asked(n, pw, FALSE)
  /\ Ask /\ UNCHANGED <<nvs, wifi, svc, disp, writer, task, lan>>

\* requestWifiForget: never the last one
RequestForget(n) ==
  /\ Open /\ IF n \notin set.names \/ Len(wifi.p.list) <= 1 THEN Refused ELSE Asked(n, 0, TRUE)
  /\ Ask /\ UNCHANGED <<nvs, wifi, svc, disp, writer, task, lan>>

RequestRestart ==
  /\ set.available /\ ~set.pending /\ ~set.error /\ (set.reboot \/ set.scanError)
  /\ set' = [set EXCEPT !.restart = TRUE]
  /\ Ask /\ UNCHANGED <<nvs, wifi, ask, svc, disp, writer, task, lan>>

\* configure, over USB: into flash only, for the owner of the next boot; any write may be the last
Configure(n, pw) ==
  LET read == IF nvs.blob = "none" THEN Stored(nvs).p ELSE IF nvs.blob = "ok" THEN nvs.p ELSE Empty IN
  /\ Upsertable(read, n)
  /\ \/ nvs' = [nvs EXCEPT !.old = n, !.blob = "ok", !.p = Upsert(read, n, pw)]
     \/ nvs' = [nvs EXCEPT !.old = n]
  /\ wifi' = [wifi EXCEPT !.stray = TRUE]
  /\ Ask /\ UNCHANGED <<set, ask, svc, disp, writer, task, lan>>

(***************************************************************************)
(* The LAN probe.                                                          *)
(***************************************************************************)
\* requestLanTcp, under the mutex of the settings
LanAdmitted == lan.state = "idle" /\ ~set.pending /\ ~set.restart
RequestLan ==
  /\ LanAdmitted /\ set.available /\ lan' = [lan EXCEPT !.state = "queued"]
  /\ Ask /\ UNCHANGED <<nvs, wifi, set, ask, svc, disp, writer, task>>

\* serviceLanTcp, Probe::service: by the owner between its other duties
ServiceLan ==
  /\ svc.pc = "idle" /\ lan.state = "queued"
  /\ lan' = [lan EXCEPT !.state = IF set.pending \/ set.restart THEN "idle" ELSE "active"]
  /\ UNCHANGED <<nvs, wifi, set, ask, svc, disp, writer, task, asks>>

\* Probe::run, the worker: a close that fails is a debt until the next boot
LanWorker ==
  /\ \/ lan.state \in {"active", "cancelled"} /\ ~lan.fd /\ lan' \in {[lan EXCEPT !.fd = TRUE], [lan EXCEPT !.state = "idle"]}
     \/ lan.fd /\ lan.state \in {"active", "cancelled"}
        /\ lan' \in {[state |-> "idle", fd |-> FALSE], [lan EXCEPT !.state = "debt"]}
  /\ UNCHANGED <<nvs, wifi, set, ask, svc, disp, writer, task, asks>>

(***************************************************************************)
(* serviceWifiSettings.                                                    *)
(***************************************************************************)
OwnerFree == task.on = "network" /\ svc.pc = "idle" /\ writer.by # "network"

ServiceBegin ==
  /\ OwnerFree /\ (set.pending \/ (set.restart /\ ~set.error))
  /\ svc' = [svc EXCEPT !.pc = "quiesce"]
  /\ UNCHANGED <<nvs, wifi, set, ask, disp, writer, task, lan, asks>>

\* quiesce(): the owner comes back to it until the worker has closed
ServiceQuiesce ==
  /\ svc.pc = "quiesce"
  /\ IF lan.state \in {"idle", "queued"}
     THEN lan' = [lan EXCEPT !.state = "idle"] /\ svc' = [svc EXCEPT !.pc = "copy"]
     ELSE lan' = [lan EXCEPT !.state = IF @ = "active" THEN "cancelled" ELSE @] /\ svc' = NoService
  /\ UNCHANGED <<nvs, wifi, set, ask, disp, writer, task, asks>>

ServiceCopy ==
  /\ svc.pc = "copy"
  /\ svc' = IF set.restart /\ ~set.pending /\ ~set.error THEN [svc EXCEPT !.pc = "check"]
            ELSE [pc |-> "write", failed |-> FALSE, forget |-> ask.forget, name |-> ask.name, pw |-> ask.pw]
  /\ UNCHANGED <<nvs, wifi, set, ask, disp, writer, task, lan, asks>>

\* rebootSaveReady
SaveReady == ~disp.pending /\ ~disp.error /\ (disp.saved = disp.rev \/ (disp.rev = 1 /\ disp.saved = 0))

ServiceRestart ==
  /\ svc.pc = "check"
  /\ \/ disp.error /\ set' = [set EXCEPT !.restart = FALSE] /\ svc' = NoService
     \/ ~disp.error /\ ~SaveReady /\ UNCHANGED set /\ svc' = NoService
     \/ SaveReady /\ UNCHANGED set /\ svc' = [svc EXCEPT !.pc = "restart"]
  /\ UNCHANGED <<nvs, wifi, ask, disp, writer, task, lan, asks>>

Restart ==
  /\ svc.pc = "restart" /\ Boot(nvs, "network") /\ UNCHANGED <<nvs, asks>>

Candidate == IF svc.forget THEN Forget(wifi.p, svc.name) ELSE Upsert(wifi.p, svc.name, svc.pw)
Valid == IF svc.forget THEN Find(wifi.p, svc.name) # 0 /\ Len(wifi.p.list) > 1 ELSE Upsertable(wifi.p, svc.name)
Changed == Candidate # wifi.p

\* the commit, whose failure may have written, and its publication under the mutex
ServiceWrite ==
  /\ svc.pc = "write"
  /\ IF Valid /\ (Changed \/ ~wifi.persisted)
     THEN \E ok, wrote \in BOOLEAN :
            /\ ok => wrote
            /\ nvs' = IF wrote THEN [nvs EXCEPT !.blob = "ok", !.p = Candidate] ELSE nvs
            /\ svc' = [svc EXCEPT !.pc = "publish", !.failed = ~ok]
            /\ wifi' = [wifi EXCEPT !.stray = @ \/ (wrote /\ ~ok)]
     ELSE svc' = [svc EXCEPT !.pc = "publish", !.failed = ~Valid] /\ UNCHANGED <<nvs, wifi>>
  /\ UNCHANGED <<set, ask, disp, writer, task, lan, asks>>

ServicePublish ==
  /\ svc.pc = "publish" /\ svc' = NoService /\ ask' = [name |-> "", pw |-> 0, forget |-> FALSE]
  /\ IF svc.failed THEN set' = [set EXCEPT !.pending = FALSE, !.error = TRUE] /\ UNCHANGED wifi
     ELSE /\ set' = [set EXCEPT !.pending = FALSE, !.error = FALSE, !.names = Published(Candidate),
                                !.reboot = @ \/ Changed]
          /\ wifi' = [p |-> Candidate, persisted |-> TRUE, stray |-> wifi.stray /\ nvs.p # Candidate]
  /\ UNCHANGED <<nvs, disp, writer, task, lan, asks>>

\* a connection made: the owner remembers which, in memory
Success(i) ==
  /\ OwnerFree /\ i \in 1 .. Len(wifi.p.list) /\ wifi' = [wifi EXCEPT !.p.last = i]
  /\ UNCHANGED <<nvs, set, ask, svc, disp, writer, task, lan, asks>>

\* drainWifiScan: a cancelled scan of the owner never reports its end
ScanTimesOut ==
  /\ OwnerFree /\ ~set.scanError /\ set' = [set EXCEPT !.scanError = TRUE]
  /\ UNCHANGED <<nvs, wifi, ask, svc, disp, writer, task, lan, asks>>

(***************************************************************************)
(* The display's settings.                                                 *)
(***************************************************************************)
Requested(d, c) ==
  IF c = d.config /\ ~d.error THEN [d EXCEPT !.overlay = 0]
  ELSE [d EXCEPT !.overlay = 0, !.config = c, !.rev = @ + 1, !.pending = TRUE, !.error = FALSE]

\* request and requestPersistentField
RequestDisplay(c) ==
  /\ disp' = Requested(disp, c)
  /\ Ask /\ UNCHANGED <<nvs, wifi, set, ask, svc, writer, task, lan>>

SetTemporary(c) == Ask /\ disp' = [disp EXCEPT !.overlay = c] /\ UNCHANGED <<nvs, wifi, set, ask, svc, writer, task, lan>>

\* restoreTemporary, or the lease of a temporary setting ends
EndTemporary ==
  /\ disp.overlay # 0 /\ disp' = [disp EXCEPT !.overlay = 0]
  /\ UNCHANGED <<nvs, wifi, set, ask, svc, writer, task, lan, asks>>

SaveTemporary ==
  /\ disp' = Requested(disp, IF disp.overlay = 0 THEN disp.config ELSE disp.overlay)
  /\ Ask /\ UNCHANGED <<nvs, wifi, set, ask, svc, writer, task, lan>>

\* service: one attempt for each revision, by the owner's task, under the writers' mutex
DisplayBegin(who) ==
  /\ writer.by = "none" /\ task.owner = who /\ (who = "network" => OwnerFree)
  /\ disp.pending /\ disp.tried # disp.rev
  /\ disp' = [disp EXCEPT !.tried = disp.rev]
  /\ writer' = [by |-> who, rev |-> disp.rev, config |-> disp.config]
  /\ UNCHANGED <<nvs, wifi, set, ask, svc, task, lan, asks>>

(* A slip: a save acknowledges whatever the settings are by then. *)
CompletedLate(d, rev, error) ==
  [d EXCEPT !.saved = IF error THEN @ ELSE d.rev, !.pending = FALSE, !.error = error]
Completed(d, rev, error) ==
  LET saved == IF error THEN d.saved ELSE rev IN
  IF rev = d.rev THEN [d EXCEPT !.saved = saved, !.pending = FALSE, !.error = error]
  ELSE [d EXCEPT !.saved = saved]
DisplayEnd ==
  /\ writer.by # "none" /\ writer' = NoWriter
  /\ \E error, wrote \in BOOLEAN :
       /\ ~error => wrote
       /\ nvs' = IF wrote THEN [nvs EXCEPT !.disp = writer.config] ELSE nvs
       /\ disp' = Completed(disp, writer.rev, error)
  /\ UNCHANGED <<wifi, set, ask, svc, task, lan, asks>>

\* provisioned late: begin() starts the network owner, which waits for the fallback's commit
ClaimNetworkOwner ==
  /\ task.owner = "fallback" /\ writer.by = "none" /\ nvs.blob = "ok"
  /\ task' = [owner |-> "network", on |-> "network"]
  /\ wifi' = Stored(nvs) /\ set' = [set EXCEPT !.available = TRUE, !.names = Published(Stored(nvs).p)]
  /\ UNCHANGED <<nvs, ask, svc, disp, writer, lan, asks>>

Next ==
  \/ Reset \/ Restart \/ RequestRestart
  \/ \E n \in Names : RequestForget(n) \/ \E pw \in 0 .. 1 : RequestSave(n, pw) \/ Configure(n, pw)
  \/ RequestLan \/ ServiceLan \/ LanWorker
  \/ ServiceBegin \/ ServiceQuiesce \/ ServiceCopy \/ ServiceRestart \/ ServiceWrite \/ ServicePublish
  \/ ScanTimesOut \/ \E i \in 1 .. Capacity : Success(i)
  \/ \E c \in Configs : RequestDisplay(c) \/ SetTemporary(c)
  \/ EndTemporary \/ SaveTemporary \/ DisplayEnd \/ ClaimNetworkOwner
  \/ \E who \in {"network", "fallback"} : DisplayBegin(who)

Spec == Init /\ [][Next]_settingsVars

(***************************************************************************)
(* Properties.                                                             *)
(***************************************************************************)
TypeOK ==
  /\ nvs.blob \in {"none", "bad", "ok"} /\ nvs.disp \in Configs \cup {0, Unreadable}
  /\ asks \in 0 .. MaxAsks /\ lan.state \in {"idle", "queued", "active", "cancelled", "debt"}

\* profiles: none twice, none too many, the last success is one of them
ProfilesSound ==
  \A p \in {wifi.p, nvs.p} :
    /\ Len(p.list) <= Capacity /\ p.last <= Len(p.list)
    /\ \A i, j \in 1 .. Len(p.list) : p.list[i].ssid = p.list[j].ssid => i = j

\* what the owner says is stored is, unless USB or a failed commit changed it since
ProfilesStored ==
  (wifi.persisted /\ ~wifi.stray /\ svc.pc # "publish") => nvs.p.list = wifi.p.list /\ nvs.blob = "ok"

\* an edit acknowledged is in flash, and a restart is only made when the last one is
DisplayStored ==
  (~disp.pending /\ ~disp.error /\ disp.saved = disp.rev) => nvs.disp = disp.config

\* no two tasks store the display's settings, and no save or restart goes over an open socket
OneWriter == writer.by # "none" => writer.by = task.owner
SocketClosed == svc.pc \in {"copy", "write", "check", "restart"} => ~lan.fd /\ lan.state = "idle"

(* What is edited is stored as it was acknowledged, by one task at a time,  *)
(* and nothing is stored or restarted over an open probe.                  *)
SettingsKept == TypeOK /\ ProfilesSound /\ ProfilesStored /\ DisplayStored /\ OneWriter /\ SocketClosed
=============================================================================

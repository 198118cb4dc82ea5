------------------------------ MODULE TwtTrial ------------------------------
(* The diagnostic trials of target wake time (network_quota.cpp): one task *)
(* owns the radio, and a trial leaves it debts - a flow the access point   *)
(* granted, a power-save mode and a keepalive configuration to put back, a *)
(* beacon probe, a socket - that are paid before the radio is stopped, an  *)
(* update transferred or another trial begun.  The driver answers by       *)
(* events, later or never, and posts an answer before its own transmit     *)
(* callback has returned.                                                  *)
EXTENDS Integers, Sequences

CONSTANTS FifoMax,      \* the owner's event queue, 7 in the code
          MaxId,        \* bound on trials of one boot
          MaxFlaps,     \* bound on losses of the link
          Probes,       \* the diagnostics used: keepalive configured or not, tsf or socket
          Modes,        \* what is asked for, of Off, Baseline and On
          ScanFaults    \* whether a cancelled Wi-Fi scan may never be done

VARIABLES
  pc,        \* where the owner is, and, in a service, where it returns to
  trial,     \* _twt.state: id, mode, stage, and the bootstrap of this trial
  owe,       \* what must be paid: flags of cleanupTwtTrial, its stage, its clock
  drv,       \* the driver: callbacks outstanding, its flow, its settings
  fifo,      \* _twt_events
  overflow,  \* _twt_event_overflow
  request,   \* _twt_request
  probe,     \* the one TSF probe of a boot, as the owner knows it
  socket,    \* the LAN probe's socket
  world,     \* idleLocked, the updater, the link, the radio, the scan fault
  flaps      \* losses of the link so far

vars == <<pc, trial, owe, drv, fifo, overflow, request, probe, socket, world, flaps>>

Live(t) == t.stage \in {"Armed", "Negotiating", "Active", "Baseline"}
Ended(t, why) ==
  [t EXCEPT !.stage = IF why \in {"Explicit", "Expired", "Ota", "Awake"} THEN "Off" ELSE "Failed"]
Blocked == world.ota # "idle"           \* twtOtaBlocked
Link == world.radio /\ world.link       \* _wifi_running and associated

Init ==
  /\ pc = [at |-> "pass", back |-> "gate"]
  /\ trial = [id |-> 0, mode |-> "Off", stage |-> "Off", boot |-> "no"]
  /\ \E wanted \in BOOLEAN :
       owe = [flow |-> FALSE, reply |-> FALSE, sent |-> FALSE, ack |-> FALSE,
              barrier |-> FALSE, ps |-> FALSE, alive |-> FALSE, wanted |-> wanted, tries |-> 0,
              pending |-> FALSE, failed |-> FALSE, hold |-> "none", clock |-> "off"]
  /\ drv = [setup |-> 0, flow |-> 0, teardown |-> "none", tail |-> FALSE,
            probe |-> "none", ps |-> "user", alive |-> FALSE]
  /\ fifo = <<>> /\ overflow = FALSE /\ request = "none"
  /\ probe = "none" /\ socket = "idle" /\ flaps = 0
  /\ world = [locked |-> TRUE, ota |-> "idle", link |-> FALSE, radio |-> FALSE, fault |-> FALSE]

(***************************************************************************)
(* cleanupTwtTrial: what it may leave of the debts o and the driver d.     *)
(***************************************************************************)
Debt(o) == o.flow \/ o.ps \/ o.barrier \/ o.alive
ProbeHeld == probe \in {"sent", "timer", "stuck"}
Quiesced == socket \in {"idle", "queued"}   \* quiesce cancels what is only queued
Held(o, what) == [o EXCEPT !.pending = TRUE, !.hold = what, !.clock = "off"]
Released(o, what) ==
  IF o.hold = what THEN [o EXCEPT !.pending = FALSE, !.hold = "none", !.clock = "off"] ELSE o
Failed(o) == [o EXCEPT !.failed = TRUE, !.pending = TRUE]

RestorePs(o, d) ==
  IF ~o.ps THEN {<<o, d>>}
  ELSE {<<[o EXCEPT !.ps = FALSE], [d EXCEPT !.ps = "user"]>>,
        <<IF o.tries + 1 >= 2 THEN Failed([o EXCEPT !.tries = 2]) ELSE [o EXCEPT !.tries = 1], d>>}
RestoreAlive(o, d) ==
  IF ~o.alive THEN RestorePs(o, d)
  ELSE RestorePs([o EXCEPT !.alive = FALSE], [d EXCEPT !.alive = FALSE]) \cup {<<Failed(o), d>>}

(* The query of the bitmap runs on the driver's task, after the transmit   *)
(* callback that posted the answer.                                        *)
Barrier(o, d) ==
  IF ~(o.flow \/ o.barrier) THEN RestoreAlive(o, d)
  ELSE {<<Failed(o), d>>} \cup
       IF d.flow # 0 THEN {}
       ELSE RestoreAlive([o EXCEPT !.flow = FALSE, !.barrier = FALSE, !.sent = FALSE, !.ack = FALSE],
                         [d EXCEPT !.tail = FALSE])

Drained(o, d) ==
  IF o.clock = "due" THEN {<<Failed(o), d>>}
  ELSE IF o.reply \/ (o.flow /\ o.sent /\ ~o.ack) THEN {<<o, d>>}
  ELSE IF o.flow /\ ~o.sent
       THEN {<<[o EXCEPT !.sent = TRUE, !.ack = FALSE], e>> : e \in {d, [d EXCEPT !.teardown = "sent"]}}
  ELSE Barrier(o, d)

Closed(o) ==
  LET p == o.flow \/ o.ps \/ o.barrier \/ o.alive
  IN IF o.failed \/ p THEN [o EXCEPT !.pending = TRUE]
     ELSE [o EXCEPT !.pending = FALSE, !.tries = 0, !.clock = "off", !.hold = "none"]

Cleaned(o, d) ==
  LET o1 == Released(o, "socket")
      o2 == Released(o1, "probe")
      o3 == [o2 EXCEPT !.pending = TRUE, !.hold = "drain",
                       !.clock = IF @ = "off" THEN "run" ELSE @]
  IN CASE ~Quiesced             -> {<<Held(o, "socket"), d>>}
       [] Quiesced /\ ProbeHeld -> {<<Held(o1, "probe"), d>>}
       [] OTHER -> IF o2.failed \/ ~Debt(o2) THEN {<<o2, d>>}
                   ELSE {<<Closed(r[1]), r[2]>> : r \in Drained(o3, d)}

Quiesce == socket' = IF socket = "queued" THEN "idle" ELSE socket

(* cancelTwtTrial, from a trial, debts and a driver already changed.       *)
Cancel(t, o, d, why) ==
  /\ trial' = Ended(t, why) /\ Quiesce
  /\ \E r \in Cleaned(o, d) : owe' = r[1] /\ drv' = r[2]

(***************************************************************************)
(* The driver and the access point.                                        *)
(***************************************************************************)
Setup(id, ok) == [kind |-> "setup", id |-> id, ok |-> ok, all |-> FALSE]
Teardown(ok, all) == [kind |-> "teardown", id |-> 0, ok |-> ok, all |-> all]
Disconnect == [kind |-> "disconnect", id |-> 0, ok |-> FALSE, all |-> FALSE]

(* twtEvent: what finds the queue full leaves only the mark.               *)
Post(e) ==
  IF Len(fifo) = FifoMax THEN overflow' = TRUE /\ UNCHANGED fifo
  ELSE fifo' = Append(fifo, e) /\ UNCHANGED overflow

Reply ==   \* to the setup, by the access point or by the driver's timeout
  /\ drv.setup # 0
  /\ \E ok \in IF Link THEN BOOLEAN ELSE {FALSE} :
       /\ drv' = [drv EXCEPT !.setup = 0, !.tail = TRUE, !.flow = IF ok THEN drv.setup ELSE 0]
       /\ Post(Setup(drv.setup, ok))
  /\ UNCHANGED <<pc, trial, owe, request, probe, socket, world, flaps>>

TeardownDone ==   \* posted before the transmit callback's last accesses
  /\ drv.teardown = "sent"
  /\ \E ok \in BOOLEAN :
       /\ drv' = [drv EXCEPT !.teardown = "none", !.tail = TRUE, !.flow = IF ok THEN 0 ELSE @]
       /\ Post(Teardown(ok, TRUE))
  /\ UNCHANGED <<pc, trial, owe, request, probe, socket, world, flaps>>

CallbackReturns ==
  /\ drv.tail /\ drv' = [drv EXCEPT !.tail = FALSE]
  /\ UNCHANGED <<pc, trial, owe, fifo, overflow, request, probe, socket, world, flaps>>

ApTeardown ==
  /\ Link /\ drv.flow # 0 /\ drv.teardown = "none"
  /\ drv' = [drv EXCEPT !.flow = 0] /\ Post(Teardown(TRUE, FALSE))
  /\ UNCHANGED <<pc, trial, owe, request, probe, socket, world, flaps>>

LinkLost ==
  /\ Link /\ flaps < MaxFlaps /\ flaps' = flaps + 1
  /\ world' = [world EXCEPT !.link = FALSE] /\ drv' = [drv EXCEPT !.flow = 0]
  /\ Post(Disconnect)
  /\ UNCHANGED <<pc, trial, owe, request, probe, socket>>

(* captureTsfProbeEvent, then the timer's sentinel, which drains a         *)
(* producer that may still be running in the timer task.                   *)
ProbeAnswers ==
  /\ drv.probe = "wait" /\ drv' = [drv EXCEPT !.probe = "producing"]
  /\ UNCHANGED <<pc, trial, owe, fifo, overflow, request, probe, socket, world, flaps>>
TimerTask ==
  /\ drv.probe = "producing" /\ probe = "timer"
  /\ drv' = [drv EXCEPT !.probe = "posted"]
  /\ UNCHANGED <<pc, trial, owe, fifo, overflow, request, probe, socket, world, flaps>>

(***************************************************************************)
(* The other tasks: serial requests, the lock, the updater, the clock.     *)
(***************************************************************************)
Request(mode) ==   \* requestTwtTrial: Off replaces a queued request
  /\ mode = "Off" \/ request = "none"
  /\ request' = mode
  /\ UNCHANGED <<pc, trial, owe, drv, fifo, overflow, probe, socket, world, flaps>>

RequestProbe ==   \* requestTsfProbe, of the trial last published
  /\ <<owe.wanted, "tsf">> \in Probes /\ probe = "none" /\ ~Blocked /\ trial.stage = "Active"
  /\ probe' = "queued"
  /\ UNCHANGED <<pc, trial, owe, drv, fifo, overflow, request, socket, world, flaps>>

RequestSocket ==   \* requestLanTcp
  /\ <<owe.wanted, "socket">> \in Probes /\ socket = "idle" /\ trial.stage \in {"Active", "Baseline"} /\ ~owe.pending
  /\ socket' = "queued"
  /\ UNCHANGED <<pc, trial, owe, drv, fifo, overflow, request, probe, world, flaps>>
SocketCloses ==
  /\ socket = "active" /\ socket' \in {"idle", "debt"}
  /\ UNCHANGED <<pc, trial, owe, drv, fifo, overflow, request, probe, world, flaps>>

Lock ==
  /\ world' = [world EXCEPT !.locked = ~@]
  /\ UNCHANGED <<pc, trial, owe, drv, fifo, overflow, request, probe, socket, flaps>>
RequestOta ==
  /\ world.ota = "idle" /\ world' = [world EXCEPT !.ota = "asked"]
  /\ UNCHANGED <<pc, trial, owe, drv, fifo, overflow, request, probe, socket, flaps>>
Tick ==   \* the ten seconds of a cleanup pass
  /\ owe.clock = "run" /\ owe' = [owe EXCEPT !.clock = "due"]
  /\ UNCHANGED <<pc, trial, drv, fifo, overflow, request, probe, socket, world, flaps>>

(***************************************************************************)
(* serviceTwtTrial, by the owner.                                          *)
(***************************************************************************)
At(p) == pc.at = p
Goto(p) == pc' = [pc EXCEPT !.at = p]
Call(back) == pc' = [at |-> "check", back |-> back]
Return == pc' = [at |-> pc.back, back |-> "gate"]
Calm == UNCHANGED <<probe, world, flaps>>

(* Model::check: the update, the lease, the lock and the deadlines.        *)
Ending(t) ==
  IF Blocked THEN {"Ota"}
  ELSE {"Expired"} \cup (IF world.locked THEN {} ELSE {"Awake"})
       \cup (IF t.stage \in {"Armed", "Negotiating"} THEN {"Timeout"} ELSE {})

Check ==
  /\ At("check")
  /\ \/ /\ Live(trial) /\ \E why \in Ending(trial) : Cancel(trial, owe, drv, why)
     \/ /\ ~Live(trial) \/ (~Blocked /\ world.locked)
        /\ UNCHANGED <<trial, owe, drv, socket>>
  /\ Goto(IF overflow THEN "overflow" ELSE "events")
  /\ UNCHANGED <<fifo, overflow, request>> /\ Calm

Overflow ==
  /\ At("overflow") /\ overflow' = FALSE
  /\ owe' = Failed(owe) /\ trial' = Ended(trial, "Lost") /\ Goto("events")
  /\ UNCHANGED <<drv, fifo, request, socket>> /\ Calm

Take ==
  /\ At("events") /\ fifo # <<>> /\ fifo' = Tail(fifo)
  /\ UNCHANGED <<pc, overflow, request>> /\ Calm

OnSetup ==
  /\ Take /\ Head(fifo).kind = "setup"
  /\ LET e == Head(fifo)
         current == trial.stage = "Negotiating" /\ e.id = trial.id
         draining == owe.reply /\ e.id = trial.id
         o == IF ~draining THEN owe
              ELSE IF current THEN [owe EXCEPT !.reply = FALSE]
              ELSE [owe EXCEPT !.reply = FALSE, !.barrier = TRUE, !.flow = e.ok]
     IN \/ /\ current /\ e.ok   \* accept
           /\ trial' = [trial EXCEPT !.stage = "Active"] /\ owe' = o
           /\ UNCHANGED <<drv, socket>>
        \/ /\ current           \* refused, or granted with unusable numbers
           /\ Cancel(trial, [o EXCEPT !.barrier = TRUE, !.flow = e.ok], drv, "Rejected")
        \/ /\ ~current /\ e.ok
           /\ Cancel(trial, [o EXCEPT !.flow = TRUE], drv, "Lost")
        \/ /\ ~current /\ ~e.ok
           /\ owe' = o /\ UNCHANGED <<trial, drv, socket>>

OnDisconnect ==
  /\ Take /\ Head(fifo).kind = "disconnect"
  /\ IF Live(trial) THEN Cancel(trial, owe, drv, "Lost")
     ELSE UNCHANGED <<trial, owe, drv, socket>>

OnTeardown ==
  /\ Take /\ Head(fifo).kind = "teardown"
  /\ LET e == Head(fifo)
     IN \/ /\ owe.sent /\ e.all
           /\ owe' = IF e.ok THEN [owe EXCEPT !.ack = TRUE] ELSE Failed(owe)
           /\ UNCHANGED <<trial, drv, socket>>
        \/ /\ ~(owe.sent /\ e.all) /\ e.ok /\ trial.stage = "Active"
           /\ Cancel(trial, [owe EXCEPT !.flow = FALSE, !.barrier = TRUE], drv, "Lost")
        \/ /\ ~(owe.sent /\ e.all) /\ (~e.ok \/ trial.stage # "Active")
           /\ UNCHANGED <<trial, owe, drv, socket>>

Drain ==   \* the events are through: go on with a cleanup begun before
  /\ At("events") /\ fifo = <<>>
  /\ IF owe.pending
     THEN /\ Quiesce /\ \E r \in Cleaned(owe, drv) : owe' = r[1] /\ drv' = r[2]
     ELSE UNCHANGED <<owe, drv, socket>>
  /\ Goto(IF request = "none" THEN "link" ELSE "request")
  /\ UNCHANGED <<trial, fifo, overflow, request>> /\ Calm

(* A new trial only when the old one owes nothing.                         *)
Started(t, o, mode) ==
  IF o.pending \/ o.failed \/ (mode # "Off" /\ t.id = MaxId) THEN Ended(t, "Driver")
  ELSE IF mode = "Off" THEN Ended(t, "Explicit")
  ELSE LET u == [id |-> t.id + 1, mode |-> mode, stage |-> "Armed", boot |-> "no"]
       IN IF Blocked THEN Ended(u, "Ota")
          ELSE IF world.locked THEN u ELSE Ended(u, "Awake")

Serve ==
  /\ At("request") /\ Goto("link")
  /\ request' = "none" /\ Quiesce
  /\ \E r \in Cleaned(owe, drv) :
       /\ owe' = r[1] /\ drv' = r[2]
       /\ trial' = Started([Ended(trial, "Explicit") EXCEPT !.boot = "no"], r[1], request)
  /\ UNCHANGED <<fifo, overflow>> /\ Calm

(* The link gates a trial, and a bootstrap that succeeded dispatches it:   *)
(* power save first, then the keepalive configuration, then the setup.     *)
Dispatch ==
  /\ At("link")
  /\ \/ /\ Live(trial) /\ world.radio /\ ~world.link /\ (trial.stage # "Armed" \/ trial.boot # "no")
        /\ Cancel(trial, owe, drv, "Lost") /\ Return
     \/ /\ Live(trial) /\ Link /\ world.locked /\ trial.stage = "Armed" /\ trial.boot = "ok"
        /\ \/ /\ \E why \in {"Unsupported", "Driver"} : Cancel(trial, owe, drv, why)
              /\ Return
           \/ /\ Cancel(trial, [owe EXCEPT !.ps = TRUE], drv, "Driver") /\ Return
           \/ LET o == [owe EXCEPT !.ps = TRUE]
                  d == [drv EXCEPT !.ps = "min"]
              IN \/ trial.mode = "Baseline" /\ Return /\ UNCHANGED socket
                    /\ trial' = [trial EXCEPT !.stage = "Baseline"] /\ owe' = o /\ drv' = d
                 \/ trial.mode = "Baseline" /\ Return /\ Cancel(trial, o, d, "Expired")
                 \/ trial.mode = "On" /\ Goto("keepalive")
                    /\ owe' = o /\ drv' = d /\ UNCHANGED <<trial, socket>>
     \/ /\ \/ ~(Live(trial) /\ world.radio)
           \/ ~world.link /\ trial.stage = "Armed" /\ trial.boot = "no"
           \/ world.link /\ ~(world.locked /\ trial.stage = "Armed" /\ trial.boot = "ok")
        /\ Return /\ UNCHANGED <<trial, owe, drv, socket>>
  /\ UNCHANGED <<fifo, overflow, request>> /\ Calm

(* serviceTwtKeepaliveConfig: any attempt of the setter owes a restore.    *)
Wanted == owe.wanted /\ ~owe.alive
Stopping == Blocked \/ ~world.locked \/ request # "none"
Keepalive ==
  /\ At("keepalive")
  /\ \/ ~Wanted /\ Goto("submit") /\ UNCHANGED <<trial, owe, drv, socket>>
     \/ Wanted /\ Stopping /\ Return
        /\ Cancel(trial, owe, drv, IF Blocked THEN "Ota" ELSE "Explicit")
     \/ Wanted /\ ~Stopping
        /\ \/ Cancel(trial, [owe EXCEPT !.alive = TRUE], [drv EXCEPT !.alive = TRUE], "Driver") /\ Return
           \/ owe' = [owe EXCEPT !.alive = TRUE] /\ drv' = [drv EXCEPT !.alive = TRUE]
              /\ Goto("submit") /\ UNCHANGED <<trial, socket>>
  /\ UNCHANGED <<fifo, overflow, request>> /\ Calm

Submit ==
  /\ At("submit") /\ Return
  /\ LET t == [trial EXCEPT !.stage = "Negotiating"]
     IN \/ Cancel(trial, owe, drv, "Timeout")   \* bootstrapReady: a deadline passed
        \/ /\ owe.wanted /\ Stopping
           /\ Cancel(t, owe, drv, IF Blocked THEN "Ota" ELSE "Explicit")
        \/ /\ ~(owe.wanted /\ Stopping) /\ UNCHANGED socket
           /\ trial' = t /\ owe' = [owe EXCEPT !.flow = TRUE, !.reply = TRUE]
           /\ drv' = [drv EXCEPT !.setup = trial.id]
        \/ /\ ~(owe.wanted /\ Stopping)
           /\ Cancel(t, [owe EXCEPT !.barrier = TRUE], drv, "Driver")
  /\ UNCHANGED <<fifo, overflow, request>> /\ Calm

(***************************************************************************)
(* The owner's loop, as far as a trial reaches.                            *)
(***************************************************************************)
Quit == owe.pending \/ owe.failed
Still == UNCHANGED <<trial, owe, drv, fifo, overflow, request, probe, socket, flaps>>

Pass ==   \* after a scan fault a request is dropped, and nothing served here
  /\ At("pass")
  /\ IF world.fault
     THEN /\ Goto("gate") /\ request' = "none"
          /\ trial' = IF request = "none" THEN trial ELSE Ended(trial, "Timeout")
     ELSE Call("gate") /\ UNCHANGED <<request, trial>>
  /\ UNCHANGED <<owe, drv, fifo, overflow, socket>> /\ Calm

(* A probe or a socket starts only in a quiet trial of its own.            *)
Undisturbed == fifo = <<>> /\ ~overflow /\ world.locked /\ ~Blocked /\ request = "none"
               /\ ~Quit /\ Link
ServeSocket ==
  socket' \in IF socket # "queued" THEN {socket}
              ELSE IF Undisturbed /\ trial.stage \in {"Active", "Baseline"} THEN {"active", "idle"}
              ELSE {"idle"}

ServeProbe ==
  LET allowed == Undisturbed /\ trial.stage = "Active"
  IN \/ probe = "queued" /\ ~allowed /\ probe' = "none" /\ UNCHANGED drv
     \/ probe = "queued" /\ allowed /\ probe' = "sent" /\ drv' = [drv EXCEPT !.probe = "wait"]
     \/ probe = "queued" /\ allowed /\ probe' = "done" /\ UNCHANGED drv
     \/ probe = "sent" /\ drv.probe = "producing" /\ probe' \in {"timer", "stuck"} /\ UNCHANGED drv
     \/ probe = "timer" /\ drv.probe = "posted" /\ probe' = "stuck" /\ UNCHANGED drv
     \/ probe = "timer" /\ drv.probe = "posted" /\ probe' = "done"
        /\ drv' = [drv EXCEPT !.probe = "none"]
     \/ /\ probe # "queued" /\ <<probe, drv.probe>> \notin {<<"sent", "producing">>, <<"timer", "posted">>}
        /\ UNCHANGED <<probe, drv>>

ServeProbes ==
  /\ At("gate") /\ Goto("hold") /\ ServeSocket /\ ServeProbe
  /\ UNCHANGED <<trial, owe, fifo, overflow, request, world, flaps>>

(* A slip: only a failed cleanup holds the owner back.                     *)
HoldFailed(next) ==
  IF owe.failed THEN Goto("pass") /\ world' = [world EXCEPT !.ota = "idle"]
  ELSE Goto(next) /\ UNCHANGED world

(* No update, radio stop or request of the net while a callback is awaited *)
Hold(next) ==
  IF Quit THEN Goto("pass") /\ world' = [world EXCEPT !.ota = "idle"]
  ELSE Goto(next) /\ UNCHANGED world

HoldOrSettle == At("hold") /\ Hold(IF Blocked /\ Live(trial) THEN "settle" ELSE "route") /\ Still
Settle ==
  /\ At("settle") /\ Goto("settled")
  /\ Cancel(trial, owe, drv, "Ota")
  /\ UNCHANGED <<fifo, overflow, request>> /\ Calm
HoldOrRoute == At("settled") /\ Hold("route") /\ Still

Route ==   \* whether the refresh window is open is left open
  /\ At("route")
  /\ \/ world.locked /\ Live(trial) /\ trial.stage # "Armed" /\ Link /\ Goto("pass") /\ UNCHANGED world
     \/ world.locked /\ ~Live(trial)
        /\ Goto(IF world.radio /\ Quiesced THEN "stopping" ELSE "pass") /\ UNCHANGED world
     \/ /\ world' = [world EXCEPT !.radio = TRUE]
        /\ Goto(IF ~Link THEN IF Live(trial) THEN "pass" ELSE "selecting"
                ELSE IF trial.stage = "Negotiating" THEN "pass" ELSE "serve")
  /\ Still

Drop(on) ==   \* esp_wifi_disconnect, with or without esp_wifi_stop
  /\ world' = [world EXCEPT !.link = FALSE, !.radio = on]
  /\ drv' = [drv EXCEPT !.flow = 0]
  /\ IF world.link THEN Post(Disconnect) ELSE UNCHANGED <<fifo, overflow>>
Stop ==
  /\ At("stopping") /\ Goto("pass") /\ \E on \in BOOLEAN : Drop(on)
  /\ UNCHANGED <<trial, owe, request, probe, socket, flaps>>
Select ==   \* selectWifiCandidate refuses after a scan fault
  /\ At("selecting") /\ Goto("pass")
  /\ IF world.fault THEN UNCHANGED <<world, drv, fifo, overflow>> ELSE Drop(TRUE)
  /\ UNCHANGED <<trial, owe, request, probe, socket, flaps>>

(* A scan is cancelled for a trial asked for, or for its own deadline, and *)
(* two seconds later it is still not done: drainWifiScan latches that.     *)
ScanFault ==
  /\ ScanFaults /\ ~world.fault /\ world.radio /\ ~Live(trial)
  /\ ~world.link \/ request # "none"
  /\ world' = [world EXCEPT !.fault = TRUE]
  /\ UNCHANGED <<pc, trial, owe, drv, fifo, overflow, request, probe, socket, flaps>>
LinkUp ==
  /\ world.radio /\ ~world.link /\ (world.fault => Live(trial))
  /\ world' = [world EXCEPT !.link = TRUE]
  /\ UNCHANGED <<pc, trial, owe, drv, fifo, overflow, request, probe, socket, flaps>>

(* The manifest and an update are fetched with the trial gone.             *)
Net ==
  /\ At("serve")
  /\ \/ \E what \in {"manifest"} \cup (IF world.ota = "asked" THEN {"update"} ELSE {}) :
          Goto(what) /\ Cancel(trial, owe, drv, "Ota")
     \/ Call("served") /\ UNCHANGED <<trial, owe, drv, socket>>
  /\ UNCHANGED <<fifo, overflow, request>> /\ Calm
Fetch ==
  /\ At("manifest") \/ At("update")
  /\ IF Quit \/ ~Link
     THEN Goto("pass") /\ world' = IF At("update") THEN [world EXCEPT !.ota = "idle"] ELSE world
     ELSE IF At("update") THEN Goto("moving") /\ world' = [world EXCEPT !.ota = "moving"]
     ELSE Call("served") /\ UNCHANGED world
  /\ Still
Moved == At("moving") /\ Goto("pass") /\ world' = [world EXCEPT !.ota = "idle"] /\ Still

(* serviceTwtBootstrap: one fetch, latched before it, primes the path.     *)
Bootstrap ==
  /\ At("served")
  /\ IF trial.stage = "Armed"
     THEN IF trial.boot = "no" /\ ~Quit /\ Link /\ world.locked /\ ~Blocked
          THEN Call("booted") /\ trial' = [trial EXCEPT !.boot = "tried"]
          ELSE Goto("pass") /\ UNCHANGED trial
     ELSE /\ IF Quit \/ trial.stage = "Negotiating" THEN Goto("pass") ELSE Call("pass")
          /\ UNCHANGED trial
  /\ UNCHANGED <<owe, drv, fifo, overflow, request, socket>> /\ Calm
Booted ==
  /\ At("booted")
  /\ \/ trial.stage = "Armed" /\ trial.boot = "tried" /\ Goto("pass")
        /\ \E why \in {"Driver", "Lost"} : Cancel(trial, owe, drv, why)
     \/ trial.stage = "Armed" /\ trial.boot = "tried" /\ Link /\ Call("pass")
        /\ trial' = [trial EXCEPT !.boot = "ok"] /\ UNCHANGED <<owe, drv, socket>>
     \/ ~(trial.stage = "Armed" /\ trial.boot = "tried") /\ Goto("pass")
        /\ UNCHANGED <<trial, owe, drv, socket>>
  /\ UNCHANGED <<fifo, overflow, request>> /\ Calm

Owner ==
  \/ Pass \/ ServeProbes \/ HoldOrSettle \/ Settle \/ HoldOrRoute \/ Route
  \/ Stop \/ Select \/ Net \/ Fetch \/ Moved \/ Bootstrap \/ Booted
  \/ Check \/ Overflow \/ OnSetup \/ OnDisconnect \/ OnTeardown \/ Drain \/ Serve
  \/ Dispatch \/ Keepalive \/ Submit

Driver ==
  \/ Reply \/ TeardownDone \/ CallbackReturns \/ ApTeardown \/ LinkLost \/ LinkUp \/ ScanFault
  \/ ProbeAnswers \/ TimerTask \/ SocketCloses

Next ==
  \/ Owner \/ Driver
  \/ \E mode \in Modes : Request(mode)
  \/ RequestProbe \/ RequestSocket \/ Lock \/ RequestOta \/ Tick

Spec == Init /\ [][Next]_vars

-----------------------------------------------------------------------------
Quiet ==
  /\ drv.setup = 0 /\ drv.teardown = "none" /\ ~drv.tail /\ drv.probe = "none"
  /\ socket \in {"idle", "queued"}

TypeOK ==
  /\ trial.id \in 0 .. MaxId /\ trial.mode \in {"Off", "Baseline", "On"}
  /\ trial.stage \in {"Off", "Armed", "Negotiating", "Active", "Baseline", "Failed"}
  /\ trial.boot \in {"no", "tried", "ok"}
  /\ Len(fifo) <= FifoMax /\ request \in {"none", "Off", "Baseline", "On"}
  /\ probe \in {"none", "queued", "sent", "timer", "stuck", "done"}
  /\ socket \in {"idle", "queued", "active", "debt"}
  /\ flaps \in 0 .. MaxFlaps /\ owe.tries \in 0 .. 2

(* The radio is never stopped or moved to another network, nor an update   *)
(* transferred, while the driver has a callback of a trial outstanding.    *)
RadioQuiet == At("stopping") \/ At("selecting") \/ world.ota = "moving" => Quiet

(* When no trial is live, nothing pending and nothing failed, the driver   *)
(* has no flow and the user's power save and keepalive configuration.      *)
DebtPaid ==
  ~Live(trial) /\ ~Quit =>
    Quiet /\ drv.flow = 0 /\ drv.ps = "user" /\ ~drv.alive

(* An active trial has the flow granted to it and to no other, or the      *)
(* news that it lost it is still in the queue.                             *)
ActiveIsGranted ==
  trial.stage = "Active" =>
    drv.flow = trial.id \/ overflow \/ fifo # <<>>

(* What the trials of TWT must never do, network_quota.cpp:992-996.        *)
TrialIsSafe == TypeOK /\ RadioQuiet /\ DebtPaid /\ ActiveIsGranted
=============================================================================

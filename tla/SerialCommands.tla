---------------------------- MODULE SerialCommands ----------------------------
(* What the diagnostic console does with a line (serial_debug.cpp from     *)
(* handleCachedRead on): who may ask for what and when, and the tests that *)
(* run on after their line and answer later.  The rest of the board is     *)
(* seen as the console sees it, anew at each line.                         *)
EXTENDS Integers, FiniteSets

Ports == {"usb", "uart"}
None == "none"

VARIABLES
  test,   \* _async_test with its stage; history: asker, the port whose line began it
  reply,  \* _async_uart, as a port; and of the touch trial, observing and its port
  capture, \* the app hands keys and touches to the console
  deed,   \* history: what the last line brought about, by whom and in which world
  late    \* history: late replies of the last pollAsync, as <<to, for>>

vars == <<test, reply, capture, deed, late>>

NoTest == [kind |-> None, stage |-> 0, asker |-> None]
NoDeed == [call |-> None, port |-> None, world |-> {}]

Init ==
  /\ test = NoTest /\ reply = [async |-> "usb", observing |-> FALSE, touch |-> "usb", asker |-> "usb"]
  /\ capture = FALSE /\ deed = NoDeed /\ late = {}

-----------------------------------------------------------------------------
(* Commands by family, in the order of the parsers.  Each has a call, what *)
(* it asks of the board if its arguments are right ("read" changes         *)
(* nothing), and needs, the gates that it passes before:                   *)
(*   local   not from the UART (uartAllowed, or a check of its own)        *)
(*   nand    no NAND format under way                                      *)
(*   idle    the updater is not at work                                    *)
(*   healthy no image waits for its verdict                                *)
(*   notest  no test runs                                                  *)
(*   notrial no touch trial                                                *)
(*   dark    locked, radios off                                            *)
(*   lit     not locked, radios on                                         *)
Family(command, actions, call, needs) ==
  {[command |-> command, action |-> a, call |-> call, needs |-> needs] : a \in actions}
Plain(commands, call, needs) == UNION {Family(c, {""}, call, needs) : c \in commands}
Gated(family, needs) == {[c EXCEPT !.needs = @ \union needs] : c \in family}

CachedReads == Plain({"heap-policy"}, "read", {}) \union Plain({"ota-health"}, "read", {"nand"})

MaintenanceRestart ==
  Family("runtime-restart", {"CONFIRM_EXTERNAL_POWER"}, "maintenance", {"nand", "notest"})

(* The gauge's parsers leave the updater to the trials, which lease the    *)
(* storage from it.                                                        *)
Cold ==
  Family("gauge-cold", {"status", "verify", "evidence-page"}, "read", {"nand"}) \union
  Family("gauge-cold", {"bind", "apply", "handoff", "recover", "cancel"}, "trial", {"nand"})

Contrast ==
  Family("gauge-contrast", {"status", "observed-page"}, "read", {"nand"}) \union
  Family("gauge-contrast", {"images", "prepare", "apply", "restore"}, "trial", {"nand"})

FactoryScale ==
  Family("gauge-factory-scale", {"status", "observed", "observed-page"}, "read", {"nand"}) \union
  Family("gauge-factory-scale", {"images", "prepare", "apply", "restore"}, "trial", {"nand"})

StackBudget == Plain({"stack-budget"}, "read", {})
SleepIo == Plain({"sleep-io"}, "read", {"nand"})

GaugeTrace ==
  Family("gauge-trace", {"status"}, "read", {"idle"}) \union
  Family("gauge-trace", {"export"}, "read", {"idle", "local"}) \union
  Family("gauge-trace", {"arm", "resume", "stop", "clear", "checkpoint"}, "journal", {"idle"})

(* handleLine, up to the gate of a working updater.                        *)
SleepPolicies ==
  Plain({"debug-transport"}, "read", {}) \union
  Family("touch-sleep", {"120", "off"}, "standby", {}) \union Family("touch-sleep", {"status"}, "read", {}) \union
  Family("idle-wait", {"on", "off"}, "standby", {}) \union Family("idle-wait", {"status"}, "read", {}) \union
  Family("standby-sleep", {"on"}, "standby", {"idle", "healthy", "dark"}) \union
  Family("standby-sleep", {"auto", "off"}, "standby", {}) \union Family("standby-sleep", {"status"}, "read", {})

Settings ==
  Family("settings", {"usb", "ui", "wifi list", "get"}, "read", {}) \union
  Family("settings", {"wifi save", "wifi forget", "wifi restart"}, "config", {"idle", "healthy", "notrial"}) \union
  Family("settings", {"set", "restore", "save"}, "display", {"idle", "healthy", "notrial"}) \union
  Plain({"display-settings"}, "read", {})

BankPulse ==
  Family("bankpulse", {"status"}, "read", {}) \union Family("bankpulse", {"off"}, "standby", {}) \union
  Family("bankpulse", {"on"}, "standby", {"notest", "idle", "healthy"})

OtaStatus == Plain({"ota-status"}, "read", {})

OtaMaintenance ==
  Family("ota-maintenance", {"status", "power"}, "read", {}) \union
  Family("ota-maintenance", {"update", "reboot"}, "maintenance", {"notest"}) \union Plain({"panic"}, "read", {})

(* handleLine, from that gate on; these two pass it.                       *)
Liveness == Plain({"ping"}, "read", {}) \union Plain({"status"}, "read", {"nand"})

OtaRequests ==
  Plain({"ota-check", "ota-download", "ota-install", "ota-reboot", "ota-bypass"}, "update", {"notest", "notrial"}) \union
  Plain({"ota-update"}, "update", {"local", "notest", "notrial"}) \union
  Plain({"ota-rollback-test"}, "rollback", {"local", "notrial"})

Probes ==
  Family("lan-tcp", {"start", "cancel"}, "radio", {}) \union Family("lan-tcp", {"status"}, "read", {}) \union
  Family("tsf-probe", {"request"}, "radio", {}) \union Family("tsf-probe", {"status"}, "read", {}) \union
  Family("hw-rx", {"snapshot"}, "radio", {}) \union Family("hw-rx", {"status"}, "read", {}) \union
  Plain({"help", "sessions"}, "read", {})

Observers ==
  Family("rx-ingress", {"target", "off"}, "radio", {}) \union Family("rx-ingress", {"status", "drain"}, "read", {}) \union
  Family("wifi-rx", {"on", "off"}, "radio", {}) \union Family("wifi-rx", {"status", "drain"}, "read", {}) \union
  Family("rx-observe", {"target", "on", "derp", "off"}, "radio", {}) \union
  Family("rx-observe", {"status", "drain"}, "read", {}) \union Plain({"clock", "motion"}, "read", {})

Network ==
  Plain({"network-config"}, "config", {"local"}) \union
  Family("derp-tx-budget", {"500", "5000"}, "radio", {"healthy"}) \union
  Family("derp-tx-budget", {"status"}, "read", {}) \union Plain({"network"}, "read", {})

IdleFrequency ==
  Family("display-idle-frequency", {"160", "320"}, "radio", {"lit"}) \union
  Family("display-idle-frequency", {""}, "read", {}) \union Plain({"idle-runtime"}, "read", {})

Twt ==
  Family("twt-keepalive", {"on", "off"}, "radio", {}) \union Family("twt-keepalive", {"status"}, "read", {}) \union
  Family("twt", {"baseline", "on", "off", "observe"}, "radio", {}) \union Family("twt", {"status"}, "read", {})

Clocks ==
  Plain({"display-clocks"}, "read", {}) \union Plain({"display-ram-probe"}, "output", {"local", "dark"}) \union
  Family("display-low-clock", {"on", "off"}, "radio", {"local"}) \union
  Family("display-test-frequency", {"160", "320"}, "radio", {}) \union
  Family("display-test-frequency", {"80"}, "radio", {"local"})

GaugeAudits ==
  Family("gauge-factory-audit", {"status", "field", "revalidate-status", "revalidate-field"}, "read", {}) \union
  Family("gauge-factory-audit", {"capture", "revalidate"}, "gauge", {"local"}) \union
  Family("gauge-native-recovery", {"evidence"}, "read", {}) \union
  Family("gauge-native-recovery", {"resolve"}, "gauge", {})

GaugeScale ==
  Family("gauge-scale", {"status", "observed", "restore-plan"}, "read", {}) \union
  Family("gauge-scale", {"images", "prepare", "apply", "restore"}, "trial", {}) \union Plain({"nand-dma"}, "read", {})

Syslog ==
  Family("syslog", {"status", "chunk"}, "read", {}) \union
  Family("syslog", {"flush", "probe", "read"}, "journal", {})

GaugeReads ==
  Plain({"gauge-engine"}, "read", {"healthy"}) \union
  Plain({"gauge-mode", "gauge", "gauge-fcc-status", "gauge-public-extra-field", "gauge-profile-field"}, "read", {}) \union
  Family("gauge-thresholds", {""}, "read", {}) \union Family("gauge-thresholds", {"audit"}, "gauge", {}) \union
  Family("gauge-fcc-limit", {"apply"}, "gauge", {"local"}) \union Family("gauge-ocv", {"measure"}, "gauge", {"local"})

NandCommands ==
  Family("nand-store", {"status"}, "read", {}) \union Family("nand-store", {"format"}, "format", {})

NandProbe == Family("nand-probe", {"", "page"}, "read", {"dark", "healthy"})

GaugeWrites ==
  Plain({"gauge-charge", "gauge-profile", "gauge-boot", "gauge-selftest"}, "read", {}) \union
  Family("gauge-capacity-test", {"status"}, "read", {}) \union
  Family("gauge-capacity-test", {"arm130", "restore65"}, "gauge", {}) \union
  Family("gauge-near-full", {"status", "field"}, "read", {}) \union
  Family("gauge-near-full", {"set", "restore"}, "gauge", {}) \union
  Family("runtime-restart", {"CONFIRM"}, "reboot", {"lit"})

GaugeDarkroom ==
  Family("gauge-access", {"open", "restore"}, "gauge", {"local", "dark"}) \union
  Plain({"gauge-reconcile"}, "gauge", {"local", "dark"}) \union
  Family("gauge-nominal", {"apply", "restore"}, "gauge", {"local", "dark"})

Quotas ==
  Plain({"dot-selftest", "quota-selftest", "quota-view", "quota", "tailscale", "tailscale-crypto",
         "network-selftest"}, "read", {}) \union Plain({"tailscale-config"}, "config", {"local"})

Displays ==
  Family("standby-dim", {"set", "off"}, "display", {}) \union Family("standby-dim", {"status"}, "read", {}) \union
  Plain({"display-lock", "display-wake"}, "display", {}) \union Plain({"power-refresh"}, "radio", {}) \union
  Family("history", {"hours", "days", "select"}, "display", {}) \union
  Plain({"display", "history-selftest"}, "read", {})

Power == Family("power", {""}, "read", {}) \union Family("power", {"baseline", "radio", "eco"}, "radio", {})

Tests ==
  Plain({"boot", "controls", "protocol"}, "read", {}) \union
  Plain({"selftest", "mic"}, "read", {"notest", "notrial"}) \union
  Family("ui", {"quota", "agent", "mic"}, "display", {"notest", "notrial"}) \union
  Plain({"inputs", "ui", "transport", "perf"}, "test", {"notest", "notrial"}) \union
  Plain({"trace"}, "test", {"local", "notrial"}) \union Plain({"cancel"}, "cancel", {})

Outputs ==
  Plain({"tone", "vibrate", "backlight"}, "output", {"local"}) \union
  Plain({"host-usage"}, "usage", {"local"}) \union Plain({"pairing-reset"}, "pairing", {"local"})

(* Families of handleLine wait for a NAND format, but for a few; those     *)
(* past its gate wait for the updater.                                     *)
Early == CachedReads \union MaintenanceRestart \union Cold \union Contrast \union FactoryScale
         \union StackBudget \union SleepIo \union GaugeTrace
HandleLine ==
  OtaStatus \union
  Gated(SleepPolicies \union Settings \union BankPulse \union OtaMaintenance, {"nand"})
HandleIdle ==
  Liveness \union Gated(NandCommands \union Power, {"idle"}) \union
  Gated(OtaRequests \union Probes \union Observers \union Network \union IdleFrequency \union Twt
        \union Clocks \union GaugeAudits \union GaugeScale \union Syslog \union GaugeReads
        \union NandProbe \union GaugeWrites \union GaugeDarkroom \union Quotas \union Displays
        \union Tests \union Outputs, {"nand", "idle"})
Commands == Early \union HandleLine \union HandleIdle

-----------------------------------------------------------------------------
(* The rest of the board at its worst: a gate that a command does not pass *)
(* before is taken to be closed.                                           *)
World(c, port) ==
  (c.needs \ {"local", "notest"}) \union (IF port = "usb" THEN {"local"} ELSE {})
  \union (IF test = NoTest THEN {"notest"} ELSE {})

(* A slip: a test that is replaced leaves keys and touches captured.       *)
ReleasedLate == capture

(* cancelAsyncTest, of a test and the capture that it holds.               *)
Released == capture /\ test.kind # "inputs"

(* consumeFrom: late replies go to who found the console without a test;   *)
(* without one they are none.                                              *)
Routed(was, now, port) == CASE now = NoTest -> "usb"
                            [] was = NoTest /\ now # NoTest -> port
                            [] OTHER -> reply.async

(* The tests: each replaces what runs, and may find its own conditions     *)
(* unmet only then.                                                        *)
Started(command, port, ready) ==
  IF ready THEN [kind |-> command, stage |-> 0, asker |-> port] ELSE NoTest

TestStarts(c, port) ==
  /\ c.call = "test"
  /\ \E ready \in IF c.command = "inputs" THEN {TRUE} ELSE BOOLEAN :
       LET now == Started(c.command, port, ready)
       IN test' = now /\ reply' = [reply EXCEPT !.async = Routed(test, now, port)]
  /\ capture' = (c.command = "inputs" \/ Released)

Cancels(c, port) ==
  /\ c.call = "cancel" /\ test' = NoTest /\ capture' = Released
  /\ reply' = [reply EXCEPT !.async = Routed(test, NoTest, port)]

(* A touch trial is watched for whom it was last asked by, once it is on.  *)
TouchAsked(c, port) ==
  /\ c.command = "touch-sleep" /\ c.call = "standby" /\ UNCHANGED <<test, capture>>
  /\ \E active \in BOOLEAN :
       reply' = IF active THEN [reply EXCEPT !.observing = TRUE, !.touch = port, !.asker = port] ELSE reply

Asks(c) == c.call \notin {"test", "cancel"} /\ c.command # "touch-sleep" /\ UNCHANGED <<test, capture, reply>>

(* A line that runs: consume, with what the command asks if it may.        *)
Line(c, port) ==
  /\ c.call # "read" /\ c.needs \subseteq World(c, port)
  /\ TestStarts(c, port) \/ Cancels(c, port) \/ TouchAsked(c, port) \/ Asks(c)
  /\ deed' = [call |-> c.call, port |-> port, world |-> World(c, port)] /\ late' = {}

(* An update asked for during a touch trial ends the trial, no more.       *)
TrialEnds(port) ==
  /\ deed' = [call |-> "standby", port |-> port, world |-> {"nand"}] /\ late' = {}
  /\ UNCHANGED <<test, reply, capture>>

(* What a test may come to in a poll, and whether it says so.              *)
Over == [test |-> NoTest, said |-> TRUE]
On(stage, said) == [test |-> [test EXCEPT !.stage = stage], said |-> said]

Steps ==
  CASE test.kind = None -> {}
    [] test.kind = "inputs" -> {On(0, FALSE), On(0, TRUE), Over}
    [] test.kind = "transport" -> {On(0, FALSE), Over}
    [] test.kind = "ui" -> {On(test.stage, FALSE), Over} \union
                           (IF test.stage < 2 THEN {On(test.stage + 1, TRUE)} ELSE {})
    [] OTHER -> IF test.stage = 0 THEN {On(0, FALSE), On(1, FALSE)} ELSE {On(1, FALSE), Over}

TestNews(step) == IF step.said THEN {[to |-> reply.async, asker |-> test.asker, of |-> test.kind]} ELSE {}
TouchNews == {[to |-> reply.touch, asker |-> reply.asker, of |-> "touch"]}

(* pollAsync: news of the touch trial, which may be its last, then of the  *)
(* test.                                                                   *)
PollAsync ==
  \E news, last \in BOOLEAN, step \in Steps \union (IF test = NoTest THEN {[Over EXCEPT !.said = FALSE]} ELSE {}) :
    /\ news => reply.observing
    /\ test' = step.test /\ capture' = (capture /\ (test.kind = "inputs" => step.test # NoTest))
    /\ late' = TestNews(step) \union (IF news THEN TouchNews ELSE {})
    /\ reply' = [reply EXCEPT !.observing = @ /\ ~(news /\ last), !.async = IF step.test = NoTest THEN "usb" ELSE @]
    /\ deed' = NoDeed

(* end: the app closes, and opens again with a new console.                *)
End ==
  /\ test' = NoTest /\ capture' = Released /\ deed' = NoDeed /\ late' = {}
  /\ reply' = [reply EXCEPT !.async = "usb", !.observing = FALSE]

Next == \/ \E port \in Ports : (\E c \in Commands : Line(c, port)) \/ TrialEnds(port)
        \/ PollAsync \/ End

Spec == Init /\ [][Next]_vars

-----------------------------------------------------------------------------
TypeOK ==
  /\ test.kind \in {None, "inputs", "ui", "transport", "perf", "trace"} /\ test.stage \in 0..2
  /\ {reply.async, reply.touch, reply.asker} \subseteq Ports /\ capture \in BOOLEAN

(* While a NAND format or an update is under way, while a test or a touch  *)
(* trial runs, and over the UART, the console asks only what does not get  *)
(* in the way (the gates of handleLine and of the parsers before it).      *)
DeedsInTurn ==
  LET call == deed.call
      world == deed.world
  IN /\ "idle" \in world \/ call \in {None, "standby", "cancel", "maintenance", "trial"}
     /\ "nand" \in world \/ call \in {None, "journal", "radio", "format"}
     /\ call \in {"rollback", "output", "usage", "pairing"} => deed.port = "usb"
     /\ call \in {"update", "maintenance"} => "notest" \in world
     /\ call \in {"update", "rollback", "test"} => "notrial" \in world
     /\ call = "test" => "notest" \in world \/ test.kind \in {"trace", None}

(* A test that was cancelled, replaced or done leaves nothing behind, and  *)
(* its late replies go to who began it, but for a trace over USB, which is *)
(* answered where the test that it replaced would have been (consumeFrom,  *)
(* pollAsync, cancelAsyncTest).                                            *)
TestsAnswer ==
  /\ capture <=> test.kind = "inputs"
  /\ test = NoTest => reply.async = "usb"
  /\ \A l \in late : l.to = l.asker \/ (l.of = "trace" /\ l.asker = "usb")

CommandsInTurn == TypeOK /\ DeedsInTurn /\ TestsAnswer
=============================================================================

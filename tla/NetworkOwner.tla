---------------------------- MODULE NetworkOwner ----------------------------
(* The owner task of the radio (NetworkQuota::run): when locked it brings   *)
(* the radio up only in a refresh window, three attempts at most; it scans  *)
(* asynchronously, connects to the profiles seen, keeps the tailnet, asks   *)
(* for the quota and, awake, the history, and otherwise stops the radio and *)
(* lowers the clock.  Between any two of its steps the screen locks and     *)
(* unlocks, the driver answers or does not, and a trial of the gauge begins *)
(* or ends, which must find the radio off and keep it so.  The updater and  *)
(* the trials of TWT, which share the loop, have modules of their own.      *)
EXTENDS Naturals, Sequences, SequencesExt

CONSTANTS Attempts,  \* connections of a locked window: 3
          Profiles   \* number of profiles kept at most

VARIABLES
  pc,      \* where the loop of the owner stands
  win,     \* its locals: window open, the lock this turn saw, no first refresh owed
  clock,   \* since the window opened, or the lock: 1 is its deadline, 2 the next refresh
  retry,   \* the retry policy: attempts and whether the delay runs; and connections of this window
  radio,   \* running, associated, told to connect
  scan,    \* flags of the scan, its candidates, and what the driver is doing
  count,   \* profiles
  tail,    \* the tailnet's client, and _pause_requested
  ui,      \* locked, a refresh forced, a boost of the clock still to be made
  cpu,     \* frequency, and the change under way under _cpu_mutex
  gauge,   \* a trial holds the radio off; the storage lease
  began    \* the screen was locked when the request began; a history went out locked

ownerVars == <<pc, win, clock, retry, radio, scan, count, tail, ui, cpu, gauge, began>>

NoScan == [started |-> FALSE, cancelled |-> FALSE, done |-> "no",
           complete |-> FALSE, fault |-> FALSE, cands |-> <<>>, drv |-> "none"]

\* run, up to its loop: the radio starts unless a trial of the gauge is in progress
Init ==
  /\ pc = "top" /\ clock = 0 /\ count \in 0 .. Profiles
  /\ win = [open |-> FALSE, locked |-> FALSE, first |-> FALSE]
  /\ retry = [n |-> 0, runs |-> FALSE, made |-> 0]
  /\ gauge \in [hold : BOOLEAN, lease : {"none"}]
  /\ radio = [on |-> ~gauge.hold, up |-> FALSE, dial |-> FALSE]
  /\ scan = NoScan /\ tail \in [client : {"lan", "none"}, paused : {FALSE}]
  /\ ui = [locked |-> FALSE, forced |-> FALSE, boost |-> FALSE]
  /\ cpu = [mhz |-> "full", next |-> "none"] /\ began = [locked |-> FALSE, leaked |-> FALSE]

Go(p) == pc' = p
Reset == retry' = [retry EXCEPT !.n = 0, !.runs = FALSE]

(***************************************************************************)
(* The rest of the board.                                                  *)
(***************************************************************************)
\* setLocked: unlocking boosts the clock before the screen is drawn
Lock(locked) ==
  /\ ui.locked # locked /\ ~ui.boost
  /\ ui' = [ui EXCEPT !.locked = locked, !.boost = ~locked]
  /\ UNCHANGED <<pc, win, clock, retry, radio, scan, count, tail, cpu, gauge, began>>

\* setCpu, by that task: it waits for the mutex
Boost ==
  /\ ui.boost /\ cpu.next = "none" /\ cpu' = [cpu EXCEPT !.mhz = "full"]
  /\ ui' = [ui EXCEPT !.boost = FALSE]
  /\ UNCHANGED <<pc, win, clock, retry, radio, scan, count, tail, gauge, began>>

\* refreshWhileLocked
Force ==
  /\ ui.locked /\ ui' = [ui EXCEPT !.forced = TRUE]
  /\ UNCHANGED <<pc, win, clock, retry, radio, scan, count, tail, cpu, gauge, began>>

Tick ==
  /\ \/ win.locked /\ clock < 2 /\ clock' = clock + 1 /\ UNCHANGED retry
     \/ retry.runs /\ retry' = [retry EXCEPT !.runs = FALSE] /\ UNCHANGED clock
  /\ UNCHANGED <<pc, win, radio, scan, count, tail, ui, cpu, gauge, began>>

\* the driver: a link comes and goes; a scan ends, and its event may be lost
Driver ==
  /\ \/ radio.on /\ radio.dial /\ ~radio.up /\ radio' = [radio EXCEPT !.up = TRUE, !.dial = FALSE] /\ UNCHANGED scan
     \/ radio.up /\ radio' = [radio EXCEPT !.up = FALSE] /\ UNCHANGED scan
     \/ /\ scan.drv = "scans" /\ UNCHANGED radio
        /\ \/ scan' = [scan EXCEPT !.drv = "none"]
           \/ scan.started /\ \E done \in {"good", "bad"} : scan' = [scan EXCEPT !.drv = "none", !.done = done]
  /\ UNCHANGED <<pc, win, clock, retry, count, tail, ui, cpu, gauge, began>>

\* microlink
Tailnet ==
  /\ tail.client \in {"up", "ready"} /\ radio.up
  /\ tail' = [tail EXCEPT !.client = IF @ = "up" THEN "ready" ELSE "up"]
  /\ UNCHANGED <<pc, win, clock, retry, radio, scan, count, ui, cpu, gauge, began>>

\* a scale trial: under the lease it finds the radio off, or gives up; it ends when it has restored
GaugeTask ==
  /\ \/ gauge.lease = "none" /\ ~gauge.hold /\ gauge' = [gauge EXCEPT !.lease = "gauge"]
     \/ gauge.lease = "gauge" /\ gauge' = [gauge EXCEPT !.lease = "none", !.hold = ~radio.on]
     \/ gauge.hold /\ gauge' = [gauge EXCEPT !.hold = FALSE]
  /\ UNCHANGED <<pc, win, clock, retry, radio, scan, count, tail, ui, cpu, began>>

(***************************************************************************)
(* Scans.                                                                  *)
(***************************************************************************)
\* drainWifiScan: nothing new before the event of a cancelled scan; its deadline is a fault
Drains(s) ==
  IF ~s.started \/ ~s.cancelled THEN {s}
  ELSE IF s.done # "no" THEN {[s EXCEPT !.started = FALSE, !.cancelled = FALSE, !.done = "no",
                                 !.cands = <<>>, !.complete = TRUE]}
       ELSE {s, [s EXCEPT !.fault = TRUE]}

\* cancelWifiScan
Cancels(s) ==
  IF ~s.started \/ s.cancelled THEN {s}
  ELSE IF s.done # "no" THEN Drains([s EXCEPT !.cancelled = TRUE]) ELSE {[s EXCEPT !.cancelled = TRUE]}

\* serviceWifiSettings: profiles saved or forgotten
Settings ==
  /\ pc = "top" /\ count' \in (IF count = 0 THEN 1 ELSE count - 1) .. Profiles /\ count' # 0
  /\ \E s \in Cancels(scan) : scan' = [s EXCEPT !.cands = <<>>, !.complete = TRUE]
  /\ UNCHANGED <<pc, win, clock, retry, radio, tail, ui, cpu, gauge, began>>

(***************************************************************************)
(* A turn of the loop.                                                     *)
(***************************************************************************)
Turn ==
  LET locked == ui.locked \/ gauge.hold
      edge == locked /\ ~win.locked
      first == edge /\ ~win.first
      due == IF edge THEN first ELSE clock = 2
      kept == win.open /\ ~edge /\ ~gauge.hold
      asked == locked /\ ~gauge.hold /\ ~kept
      opened == asked /\ (ui.forced \/ due)
      fresh == opened \/ (~locked /\ win.locked)
      open == opened \/ (kept /\ ~(locked /\ clock >= 1))
  IN /\ pc = "top"
     /\ win' = [win EXCEPT !.open = open, !.locked = locked, !.first = @ \/ edge]
     /\ clock' = IF opened \/ ~locked THEN 0 ELSE IF edge THEN IF first THEN 2 ELSE 0 ELSE clock
     /\ ui' = [ui EXCEPT !.forced = @ /\ ~asked]
     /\ retry' = IF fresh THEN [n |-> 0, runs |-> FALSE, made |-> 0] ELSE retry
     /\ \E s \in Drains(scan) : scan' = IF fresh THEN [s EXCEPT !.complete = FALSE] ELSE s
     /\ Go(IF ~locked \/ open THEN "clock" ELSE IF radio.on THEN "pause" ELSE "off")
     /\ began' = [began EXCEPT !.locked = FALSE] /\ UNCHANGED <<radio, count, tail, cpu, gauge>>

Close == win' = [win EXCEPT !.open = FALSE]
Awake == ~ui.locked /\ ~gauge.hold

(***************************************************************************)
(* Out of a window.                                                        *)
(***************************************************************************)
\* TailnetQuota::pause
Pause ==
  /\ pc = "pause" /\ tail' = [tail EXCEPT !.paused = TRUE, !.client = IF @ = "ready" THEN "up" ELSE @]
  /\ (Go("stop") \/ (tail.client \in {"up", "ready"} /\ Go("top")))
  /\ UNCHANGED <<win, clock, retry, radio, scan, count, ui, cpu, gauge, began>>

\* the observers and the probe may hold it; the driver may refuse
Stop ==
  /\ pc = "stop" /\ UNCHANGED <<win, clock, retry, count, tail, ui, cpu, gauge, began>>
  /\ IF Awake THEN Go("top") /\ UNCHANGED <<radio, scan>>
     ELSE /\ \E s \in Cancels(scan) : scan' \in Drains(s)
          /\ \/ Go("top") /\ radio' \in {radio, [radio EXCEPT !.up = FALSE, !.dial = FALSE]}
             \/ Go("off") /\ radio' = [on |-> FALSE, up |-> FALSE, dial |-> FALSE]

\* Bluetooth still connected or advertising is waited for
Off ==
  /\ pc = "off" /\ (Go("top") \/ (~Awake /\ Go("slow")))
  /\ UNCHANGED <<win, clock, retry, radio, scan, count, tail, ui, cpu, gauge, began>>

\* setCpu(80), with the mutex: only a locked board is slow
Slow ==
  /\ pc = "slow" /\ cpu.next = "none" /\ Go("apply")
  /\ cpu' = [cpu EXCEPT !.next = IF ui.locked THEN "slow" ELSE "full"]
  /\ UNCHANGED <<win, clock, retry, radio, scan, count, tail, ui, gauge, began>>
Apply ==
  /\ pc = "apply" /\ Go("top") /\ cpu' = [mhz |-> cpu.next, next |-> "none"]
  /\ UNCHANGED <<win, clock, retry, radio, scan, count, tail, ui, gauge, began>>

(***************************************************************************)
(* Awake, or in a window: the radio, then the link.                        *)
(***************************************************************************)
Clock ==
  /\ pc = "clock" /\ cpu.next = "none" /\ cpu' = [cpu EXCEPT !.mhz = "full"]
  /\ Go(IF radio.on THEN "link" ELSE "lease")
  /\ UNCHANGED <<win, clock, retry, radio, scan, count, tail, ui, gauge, began>>

\* tryNetworkStartLease: the mutex of the gauge's changes
Lease ==
  /\ pc = "lease"
  /\ IF gauge.lease = "none" THEN gauge' = [gauge EXCEPT !.lease = "owner"] /\ Go("radio")
     ELSE UNCHANGED gauge /\ Go("top")
  /\ UNCHANGED <<win, clock, retry, radio, scan, count, tail, ui, cpu, began>>
Radio ==
  /\ pc = "radio" /\ gauge' = [gauge EXCEPT !.lease = "none"]
  /\ \/ ~gauge.hold /\ radio' = [radio EXCEPT !.on = TRUE] /\ Go("link")
     \/ Go("top") /\ UNCHANGED radio
  /\ UNCHANGED <<win, clock, retry, scan, count, tail, ui, cpu, began>>

Link ==
  /\ pc = "link" /\ win' = [win EXCEPT !.open = @ /\ win.locked]
  /\ IF radio.up THEN Go("tail") /\ (IF win.locked THEN UNCHANGED retry ELSE Reset)
     ELSE Go("retry") /\ UNCHANGED retry
  /\ UNCHANGED <<clock, radio, scan, count, tail, ui, cpu, gauge, began>>

\* the policy: exhausted when locked, then the window closes; a delay is waited for
Exhausted == win.locked /\ retry.n >= Attempts
Retry ==
  /\ pc = "retry" /\ UNCHANGED <<clock, retry, radio, scan, count, tail, ui, cpu, gauge, began>>
  /\ \/ Exhausted /\ ~retry.runs /\ Close /\ Go("top")
     \/ retry.runs /\ Go("top") /\ UNCHANGED win
     \/ ~Exhausted /\ ~retry.runs /\ Go("select") /\ UNCHANGED win

Attempted == [retry EXCEPT !.n = IF @ < Attempts THEN @ + 1 ELSE @, !.runs = TRUE]

\* selectWifiCandidate finds none, or not yet
NotSelected(s) ==
  /\ scan' = [s EXCEPT !.complete = @ /\ win.locked] /\ UNCHANGED radio /\ Go("top")
  /\ IF ~s.complete THEN UNCHANGED <<win, retry>>
     ELSE IF win.locked THEN Close /\ UNCHANGED retry ELSE retry' = Attempted /\ UNCHANGED win

\* the first candidate, or a driver that refuses its configuration
Selects(s) ==
  LET rest == [s EXCEPT !.cands = IF @ = <<>> THEN @ ELSE Tail(@)] IN
  \/ NotSelected(rest)
  \/ /\ s.cands # <<>> /\ scan' = rest /\ UNCHANGED win /\ Go("top")
     /\ radio' = [radio EXCEPT !.up = FALSE, !.dial = TRUE]
     /\ retry' = [Attempted EXCEPT !.made = @ + (IF win.locked THEN 1 ELSE 0)]

\* rank: profiles seen, the last that worked first, then by strength: any order here
Seen == {s \in SeqOf(1 .. count, Profiles) : IsInjective(s)}
Result(s) ==
  IF s.done = "good" THEN {[s EXCEPT !.started = FALSE, !.done = "no", !.complete = TRUE, !.cands = c] : c \in Seen}
  ELSE {[s EXCEPT !.started = FALSE, !.done = "no", !.complete = TRUE]}

Select ==
  /\ pc = "select" /\ UNCHANGED <<clock, count, tail, ui, cpu, gauge, began>>
  /\ \E s \in Drains(scan) :
       IF s.fault \/ (s.started /\ s.cancelled) THEN NotSelected(s)
       ELSE IF count = 0 THEN NotSelected([s EXCEPT !.cands = <<>>, !.complete = TRUE])
       ELSE IF s.complete THEN Selects(s)
       ELSE IF ~s.started
       THEN \/ NotSelected([s EXCEPT !.started = TRUE, !.done = "no", !.cands = <<>>, !.drv = "scans"])
            \/ NotSelected([s EXCEPT !.done = "no", !.cands = <<>>, !.complete = TRUE])
       ELSE IF s.done = "no" THEN \E t \in {s} \cup Cancels(s) : NotSelected(t)
       ELSE \E t \in Result(s) : Selects(t)

(***************************************************************************)
(* Connected.                                                              *)
(***************************************************************************)
\* TailnetQuota::start: a paused client is stopped and started again
Start ==
  /\ pc = "tail" /\ UNCHANGED <<win, clock, retry, radio, scan, count, ui, cpu, gauge, began>>
  /\ CASE tail.client = "lan" -> Go("fetch") /\ UNCHANGED tail
       [] tail.client = "none" -> /\ Go("top")
                                  /\ \/ UNCHANGED tail
                                     \/ \E ok \in BOOLEAN : tail' = [client |-> "up", paused |-> ~ok]
       [] OTHER -> IF tail.paused THEN Go("top") /\ tail' \in {tail, [tail EXCEPT !.paused = FALSE]}
                   ELSE UNCHANGED tail /\ Go(IF tail.client = "ready" THEN "fetch" ELSE "top")

\* fetch(): only awake or in a window; a reply is one of this request or a failure
Fetch ==
  /\ pc = "fetch"
  /\ Go(IF win.locked /\ ~win.open THEN "top" ELSE "quota") /\ began' = [began EXCEPT !.locked = ui.locked]
  /\ UNCHANGED <<win, clock, retry, radio, scan, count, tail, ui, cpu, gauge>>
Quota(ok) ==
  /\ pc = "quota" /\ win' = [win EXCEPT !.first = @ \/ ok] /\ Go(IF ok THEN "good" ELSE "bad")
  /\ UNCHANGED <<clock, retry, radio, scan, count, tail, ui, cpu, gauge, began>>

(* A slip: the history is asked for by the lock of the start of the request. *)
HistoryRequiredThen == ~began.locked
\* RequestPolicy: the lock is read again
HistoryRequired == ~began.locked /\ ~ui.locked
\* the rest of the turn; a success ends the window of a board that is still locked
Success == IF win.locked /\ win.open /\ ui.locked THEN Close ELSE UNCHANGED win
History ==
  /\ pc \in {"good", "bad"}
  /\ IF HistoryRequired /\ tail.client # "up"
     THEN Go(IF pc = "good" THEN "good+history" ELSE "bad+history") /\ began' = [began EXCEPT !.leaked = @ \/ ui.locked] /\ UNCHANGED win
     ELSE Go("top") /\ UNCHANGED began
          /\ IF pc = "good" /\ ~HistoryRequired THEN Success ELSE UNCHANGED win
  /\ UNCHANGED <<clock, retry, radio, scan, count, tail, ui, cpu, gauge>>
HistoryEnd(ok) ==
  /\ pc \in {"good+history", "bad+history"} /\ Go("top")
  /\ IF pc = "good+history" /\ ok THEN Success ELSE UNCHANGED win
  /\ UNCHANGED <<clock, retry, radio, scan, count, tail, ui, cpu, gauge, began>>

Next ==
  \/ Lock(TRUE) \/ Lock(FALSE) \/ Boost \/ Force \/ Tick \/ Driver \/ Tailnet \/ GaugeTask
  \/ Settings \/ Turn \/ Pause \/ Stop \/ Off \/ Slow \/ Apply
  \/ Clock \/ Lease \/ Radio \/ Link \/ Retry \/ Select \/ Start \/ Fetch \/ History
  \/ \E ok \in BOOLEAN : Quota(ok) \/ HistoryEnd(ok)

Spec == Init /\ [][Next]_ownerVars

(***************************************************************************)
(* Properties.                                                             *)
(***************************************************************************)
TypeOK == clock \in 0 .. 2 /\ retry.n \in 0 .. Attempts /\ count \in 0 .. Profiles

\* a locked window makes at most its attempts, whatever wakes the owner
Budgeted == retry.made <= Attempts

\* the driver never scans unknown to the owner, and every candidate is a profile
ScansKnown == (scan.drv = "scans" => scan.started) /\ \A i \in DOMAIN scan.cands : scan.cands[i] <= count

\* no radio under a trial of the gauge, no tailnet without the radio
RadioOwned == (gauge.hold => ~radio.on) /\ (~radio.on => tail.paused \/ tail.client \in {"lan", "none"})

\* an unlocked board is at full speed once the task that unlocked it goes on
FullSpeed == ~ui.locked /\ ~ui.boost /\ cpu.next = "none" => cpu.mhz = "full"

\* a request is made awake or in a window, with the radio on, and no history for a locked screen
RequestsFit ==
  /\ pc \in {"quota", "good", "bad"} => radio.on /\ (win.open \/ ~win.locked)
  /\ ~began.leaked

(* What the owner's loop must hold between the screen, the driver and the   *)
(* gauge: attempts bounded by the window, scans accounted for, the radio    *)
(* off under a trial, full speed awake, and requests where they belong.     *)
RadioKept == TypeOK /\ Budgeted /\ ScansKnown /\ RadioOwned /\ FullSpeed /\ RequestsFit
=============================================================================

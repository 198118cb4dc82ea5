------------------------- MODULE PowerbankKeepalive -------------------------
(***************************************************************************)
(* The power bank keepalive (main/host/powerbank_keepalive.cpp and its     *)
(* model header): short CPU pulses on a schedule keep a power bank from    *)
(* switching off.  A lease asked for by the console, or the automatic      *)
(* policy, turns it on; one worker task runs the pulses.  Every section    *)
(* under the spin lock mux is one step, every gate read outside it another.*)
(*                                                                         *)
(* Times are distances from now that Tick counts down, so that no clock    *)
(* runs away.  The generation of the schedule is only ever compared for    *)
(* equality with a copy taken earlier; `current' is the set of tasks whose *)
(* copy still equals it.                                                   *)
(***************************************************************************)
EXTENDS Integers

CONSTANTS Period, Duration, Lease, \* of the one configuration, in ticks
          Fresh,                   \* ticks a supply observation is good for
          MaxLag                   \* bound: ticks the worker may be preempted

ASSUME PowerbankKeepaliveAssumption ==
  {Period, Duration, Lease, Fresh} \subseteq Nat \ {0} /\ MaxLag \in Nat

Forever == -1                      \* portMAX_DELAY
Active  == {"Waiting", "Pulsing", "Blocked"}

VARIABLES leased, leaseLeft,       \* leaseUntil # 0, leaseUntil - now
          automatic,
          dueIn,                   \* nextDue - now
          current,
          configured, external, inhibited, freshLeft, \* autoPolicy
          fatal, state, pulsing,
          created,                 \* the worker task exists
          admission,               \* who holds the mutex, or "none"
          starting,                \* serviceAutomatic's local `start'
          pc, sampling,            \* the worker; what the gates are read for
          lag,                     \* now - the worker's local now
          gate, aborted,
          workLeft, wakeIn, notified,
          pm,                      \* the power-management lock
          eligible,                \* the gates outside this component
          stopped, quiet           \* history: see OffWins and NoBurst

schedule == <<leased, leaseLeft, automatic, dueIn>>
policy   == <<configured, external, inhibited, freshLeft>>
callers  == <<created, admission, starting>>
locals   == <<sampling, lag, gate, aborted, workLeft, wakeIn>>
vars     == <<schedule, current, policy, fatal, state, pulsing, callers, pc,
              locals, notified, pm, eligible, stopped, quiet>>

On         == leased \/ automatic
EnabledAt(age) == automatic \/ (leased /\ leaseLeft + age > 0)
Desired    == configured /\ external /\ ~inhibited /\ freshLeft > 0
Larger(a, b) == IF a > b THEN a ELSE b

Init ==
  /\ leased = FALSE /\ leaseLeft = 0 /\ automatic = FALSE /\ dueIn = 0 /\ current = {}
  /\ configured = FALSE /\ external = FALSE /\ inhibited = FALSE /\ freshLeft = 0
  /\ fatal = FALSE /\ state = "Off" /\ pulsing = FALSE
  /\ created = FALSE /\ admission = "none" /\ starting = FALSE
  /\ pc = "loop" /\ sampling = "due" /\ lag = 0 /\ gate = FALSE /\ aborted = FALSE
  /\ workLeft = 0 /\ wakeIn = Forever /\ notified = FALSE
  /\ pm = "none" /\ eligible = TRUE /\ stopped = FALSE /\ quiet = 0

-----------------------------------------------------------------------------
(* The schedule (Model).                                                   *)

TurnOff == /\ leased' = FALSE /\ leaseLeft' = 0 /\ automatic' = FALSE /\ dueIn' = 0
           /\ current' = {} /\ quiet' = 0

TurnOn(byLease) ==
  /\ leased' = byLease /\ leaseLeft' = (IF byLease THEN Lease ELSE 0)
  /\ automatic' = ~byLease /\ dueIn' = Period
  /\ current' = {} /\ quiet' = 0 /\ state' = "Waiting"

-----------------------------------------------------------------------------
(* The console.  A request that meets a held admission mutex or a fatal    *)
(* error changes nothing; one that is out of bounds is shown, unless a     *)
(* lease is running.                                                       *)

RequestInvalid ==
  /\ state' = IF leased THEN state ELSE "Invalid"
  /\ UNCHANGED <<schedule, current, policy, fatal, pulsing, callers, pc, locals, notified, pm,
                 eligible, stopped, quiet>>

Off ==
  /\ TurnOff /\ inhibited' = TRUE /\ state' = "Off" /\ notified' = created
  /\ stopped' = TRUE
  /\ UNCHANGED <<configured, external, freshLeft, fatal, pulsing, callers, pc, locals,
                 pm, eligible>>

RequestBegins ==
  /\ admission = "none" /\ ~fatal
  /\ TurnOff /\ inhibited' = TRUE /\ state' = "Off" /\ notified' = created
  /\ admission' = "off" /\ stopped' = FALSE
  /\ UNCHANGED <<configured, external, freshLeft, fatal, pulsing, created, starting, pc,
                 locals, pm, eligible>>

(* The copy is taken in a section of its own, after off(): an Off that     *)
(* falls between the two counts as the earlier command.                    *)
RequestReserves ==
  /\ admission = "off" /\ admission' = "request" /\ current' = current \union {"request"}
  /\ stopped' = FALSE
  /\ UNCHANGED <<schedule, policy, fatal, state, pulsing, created, starting, pc, locals,
                 notified, pm, eligible, quiet>>

RequestLacksTask ==
  /\ admission = "request" /\ ~created
  /\ state' = "TaskError" /\ admission' = "none"
  /\ UNCHANGED <<schedule, current, policy, fatal, pulsing, created, starting, pc, locals,
                 notified, pm, eligible, stopped, quiet>>

(* A slip: the reservation is not looked at again.                         *)
RequestInstallsAnyway ==
  /\ admission = "request" /\ created' = TRUE /\ admission' = "none" /\ ~fatal
  /\ TurnOn(TRUE) /\ notified' = TRUE
  /\ UNCHANGED <<policy, fatal, pulsing, starting, pc, locals, pm, eligible, stopped>>

RequestInstalls ==
  /\ admission = "request" /\ created' = TRUE /\ admission' = "none"
  /\ IF fatal \/ "request" \notin current
       THEN UNCHANGED <<schedule, current, state, notified, quiet>>
       ELSE TurnOn(TRUE) /\ notified' = TRUE
  /\ UNCHANGED <<policy, fatal, pulsing, starting, pc, locals, pm, eligible, stopped>>

-----------------------------------------------------------------------------
(* The main loop: the supply and the setting, four times a second.         *)

ObserveSupply(supply) ==
  /\ external' = supply /\ freshLeft' = Fresh
  /\ inhibited' = (inhibited /\ external = supply)
  /\ IF automatic /\ ~(configured /\ supply /\ ~inhibited')
       THEN TurnOff /\ state' = "Off" /\ notified' = created
       ELSE UNCHANGED <<schedule, current, state, notified, quiet>>
  /\ stopped' = (stopped /\ external = supply)
  /\ UNCHANGED <<configured, fatal, pulsing, callers, pc, locals, pm, eligible>>

(* serviceAutomatic, to the end of its first section; the gauge trial may  *)
(* block automatic pulses.                                                 *)
ServiceDecides(wanted, blocked) ==
  /\ blocked => ~eligible
  /\ admission = "none" /\ admission' = "service"
  /\ configured' = wanted /\ inhibited' = (inhibited /\ configured = wanted)
  /\ LET want == wanted /\ external /\ ~inhibited' /\ freshLeft > 0 /\ ~fatal /\ ~blocked
     IN  /\ starting' = (want /\ ~EnabledAt(0))
         /\ IF ~want /\ automatic
              THEN /\ leased' = FALSE /\ leaseLeft' = 0 /\ automatic' = FALSE /\ dueIn' = 0
                   /\ quiet' = 0 /\ state' = "Off" /\ current' = {"service"}
              ELSE /\ current' = current \union {"service"}
                   /\ UNCHANGED <<schedule, quiet, state>>
  /\ stopped' = (stopped /\ configured = wanted)
  /\ UNCHANGED <<external, freshLeft, fatal, pulsing, created, pc, locals, notified, pm,
                 eligible>>

ServiceLacksTask ==
  /\ admission = "service" /\ starting /\ ~created
  /\ fatal' = TRUE /\ state' = "TaskError" /\ admission' = "none"
  /\ UNCHANGED <<schedule, current, policy, pulsing, created, starting, pc, locals,
                 notified, pm, eligible, stopped, quiet>>

ServiceStarts ==
  /\ admission = "service" /\ admission' = "none" /\ starting' = FALSE
  /\ created' = (created \/ starting)
  /\ IF starting /\ ~fatal /\ "service" \in current /\ Desired
       THEN TurnOn(FALSE) ELSE UNCHANGED <<schedule, current, state, quiet>>
  /\ notified' = (notified \/ starting)
  /\ UNCHANGED <<policy, fatal, pulsing, pc, locals, pm, eligible, stopped>>

-----------------------------------------------------------------------------
(* The worker.                                                             *)

outside == <<policy, callers, notified, eligible, stopped>>
WorkerAt(p, q) == created /\ pc = p /\ pc' = q

(* At the end of an iteration its locals are gone.                         *)
LeaveScope == sampling' = "due" /\ lag' = 0 /\ gate' = FALSE /\ aborted' = FALSE /\ workLeft' = 0

(* The loop reads the clock, then the gates, then decides.                 *)
Loop ==
  /\ WorkerAt("loop", "supply") /\ sampling' = "due" /\ lag' = 0
  /\ UNCHANGED <<schedule, current, fatal, state, pulsing, outside, gate, aborted, workLeft,
                 wakeIn, pm, quiet>>

(* safe(): the supply under mux, then the other gates.                     *)
ReadSupply ==
  /\ WorkerAt("supply", "gates") /\ gate' = (automatic => Desired)
  /\ UNCHANGED <<schedule, current, fatal, state, pulsing, outside, sampling, lag, aborted,
                 workLeft, wakeIn, pm, quiet>>

ReadGates ==
  /\ WorkerAt("gates", sampling) /\ gate' = (gate /\ eligible)
  /\ UNCHANGED <<schedule, current, fatal, state, pulsing, outside, sampling, lag, aborted,
                 workLeft, wakeIn, pm, quiet>>

Expires == leased /\ leaseLeft + lag <= 0
Due     == EnabledAt(lag) /\ dueIn + lag <= 0

(* How long to wait, from the local now.                                   *)
Deadline(slot) == lag + IF automatic \/ slot < leaseLeft THEN slot ELSE leaseLeft

LeaseExpires ==
  /\ WorkerAt("due", "wait") /\ Expires
  /\ TurnOff /\ state' = "Expired" /\ wakeIn' = Forever /\ LeaveScope
  /\ UNCHANGED <<fatal, pulsing, outside, pm>>

(* A slot whose gates are closed is skipped, not put off.                  *)
TakeSlot ==
  /\ WorkerAt("due", IF gate THEN "acquire" ELSE "wait") /\ ~Expires /\ Due
  /\ dueIn' = Period - lag
  /\ current' = (IF gate THEN current \union {"pulse"} ELSE current)
  /\ state' = (IF gate THEN state ELSE "Blocked")
  /\ wakeIn' = (IF gate THEN Forever ELSE Deadline(dueIn')) /\ LeaveScope
  /\ UNCHANGED <<leased, leaseLeft, automatic, fatal, pulsing, outside, pm, quiet>>

NothingDue ==
  /\ WorkerAt("due", "wait") /\ ~Expires /\ ~Due
  /\ wakeIn' = (IF On THEN Deadline(dueIn) ELSE Forever) /\ LeaveScope
  /\ UNCHANGED <<schedule, current, fatal, state, pulsing, outside, pm, quiet>>

Wake ==
  /\ WorkerAt("wait", "loop") /\ (notified \/ wakeIn = 0)
  /\ notified' = FALSE /\ wakeIn' = Forever
  /\ UNCHANGED <<schedule, current, policy, fatal, state, pulsing, callers, sampling, lag,
                 gate, aborted, workLeft, pm, eligible, stopped, quiet>>

(* pmFailure: the schedule is off until the next boot.                     *)
PmFailure(error) == TurnOff /\ fatal' = TRUE /\ state' = error

(* The lock is created when it is first needed, then acquired.             *)
Acquire ==
  /\ WorkerAt("acquire", "supply") /\ pm' = "held" /\ sampling' = "first"
  /\ UNCHANGED <<schedule, current, fatal, state, pulsing, outside, lag, gate, aborted,
                 workLeft, wakeIn, quiet>>

AcquireFails ==
  /\ WorkerAt("acquire", "loop") /\ pm' \in {pm, "free"}
  /\ PmFailure(IF pm' = "none" THEN "CreateError" ELSE "AcquireError")
  /\ UNCHANGED <<pulsing, outside, locals>>

PulseAllowed == gate /\ EnabledAt(0) /\ "pulse" \in current

(* The first permission, before anything is shown.                         *)
FirstAllowed ==
  /\ WorkerAt("first", IF PulseAllowed THEN "publish" ELSE "release")
  /\ UNCHANGED <<schedule, current, fatal, state, pulsing, outside, locals, pm, quiet>>

(* A slip: on the early return the lock is kept.                           *)
PublishKeepsLock ==
  /\ WorkerAt("publish", IF EnabledAt(0) /\ "pulse" \in current THEN "work" ELSE "complete")
  /\ IF pc' = "work"
       THEN pulsing' = TRUE /\ state' = "Pulsing" /\ workLeft' = Duration /\ aborted' = FALSE
       ELSE UNCHANGED <<pulsing, state, workLeft, aborted>>
  /\ UNCHANGED <<schedule, current, fatal, outside, sampling, lag, gate, wakeIn, pm, quiet>>

Publish ==
  /\ WorkerAt("publish", IF EnabledAt(0) /\ "pulse" \in current THEN "work" ELSE "release")
  /\ IF pc' = "work"
       THEN pulsing' = TRUE /\ state' = "Pulsing" /\ workLeft' = Duration /\ aborted' = FALSE
       ELSE UNCHANGED <<pulsing, state, workLeft, aborted>>
  /\ UNCHANGED <<schedule, current, fatal, outside, sampling, lag, gate, wakeIn, pm, quiet>>

(* Before every slice of work the gates are read again.                    *)
NextSlice ==
  /\ WorkerAt("work", "supply") /\ workLeft > 0 /\ sampling' = "slice"
  /\ UNCHANGED <<schedule, current, fatal, state, pulsing, outside, lag, gate, aborted,
                 workLeft, wakeIn, pm, quiet>>

Slice ==
  /\ WorkerAt("slice", IF PulseAllowed THEN "work" ELSE "release")
  /\ aborted' = ~PulseAllowed
  /\ UNCHANGED <<schedule, current, fatal, state, pulsing, outside, sampling, lag, gate,
                 workLeft, wakeIn, pm, quiet>>

WorkDone ==
  /\ WorkerAt("work", "release") /\ workLeft = 0
  /\ UNCHANGED <<schedule, current, fatal, state, pulsing, outside, locals, pm, quiet>>

Release ==
  /\ WorkerAt("release", "account") /\ pm' = "free"
  /\ UNCHANGED <<schedule, current, fatal, state, pulsing, outside, locals, quiet>>

(* Whether the lock is still counted is not known.                         *)
ReleaseFails ==
  /\ WorkerAt("release", "account") /\ pm' = "stuck" /\ PmFailure("ReleaseError")
  /\ UNCHANGED <<pulsing, outside, locals>>

(* Only a pulse that was shown is accounted for; what a command made of    *)
(* the state meanwhile stands.                                             *)
Account ==
  /\ WorkerAt("account", "complete")
  /\ pulsing' = FALSE
  /\ state' = IF pulsing /\ "pulse" \in current
                THEN (IF aborted THEN "Blocked" ELSE "Waiting") ELSE state
  /\ quiet' = IF pulsing /\ "pulse" \in current THEN 0 ELSE quiet
  /\ UNCHANGED <<schedule, current, fatal, outside, locals, pm>>

(* A slip: the next slot is counted from when this one was taken.          *)
CompleteAsTaken ==
  /\ WorkerAt("complete", "loop") /\ current' = current \ {"pulse"} /\ LeaveScope
  /\ UNCHANGED <<schedule, fatal, state, pulsing, outside, wakeIn, pm, quiet>>

(* completePulse, when the attempt's scope is left.                        *)
Complete ==
  /\ WorkerAt("complete", "loop") /\ current' = current \ {"pulse"}
  /\ dueIn' = IF EnabledAt(0) /\ "pulse" \in current THEN Larger(dueIn, Period) ELSE dueIn
  /\ LeaveScope
  /\ UNCHANGED <<leased, leaseLeft, automatic, fatal, state, pulsing, outside, wakeIn, pm,
                 quiet>>

Worker == \/ Loop \/ ReadSupply \/ ReadGates \/ LeaseExpires \/ TakeSlot \/ NothingDue \/ Wake
          \/ Acquire \/ AcquireFails \/ FirstAllowed \/ Publish \/ NextSlice \/ Slice \/ WorkDone
          \/ Release \/ ReleaseFails \/ Account \/ Complete

-----------------------------------------------------------------------------
Down(x, floor) == IF x > floor THEN x - 1 ELSE x

(* One tick: a preempted worker falls behind, bounded by MaxLag.           *)
Tick ==
  /\ lag' = (IF pc \in {"supply", "gates", "due"} /\ sampling = "due" THEN lag + 1 ELSE 0)
  /\ lag' <= MaxLag
  /\ leaseLeft' = (IF leased THEN Down(leaseLeft, -MaxLag) ELSE 0)
  /\ dueIn' = (IF On THEN Down(dueIn, -MaxLag) ELSE 0)
  /\ freshLeft' = Down(freshLeft, 0) /\ workLeft' = Down(workLeft, 0)
  /\ wakeIn' = (IF wakeIn = Forever THEN Forever ELSE Down(wakeIn, 0))
  /\ quiet' = (IF quiet < Period THEN quiet + 1 ELSE quiet)
  /\ UNCHANGED <<leased, automatic, current, configured, external, inhibited, fatal, state,
                 pulsing, callers, pc, sampling, gate, aborted, notified, pm, eligible, stopped>>

(* The display, the radio, the updater, the sleep policy, the gauge.       *)
GatesMove ==
  /\ eligible' = ~eligible
  /\ UNCHANGED <<schedule, current, policy, fatal, state, pulsing, callers, pc, locals,
                 notified, pm, stopped, quiet>>

Console == Off \/ RequestInvalid \/ RequestBegins \/ RequestReserves \/ RequestLacksTask \/ RequestInstalls
Service == ServiceLacksTask \/ ServiceStarts \/ \E wanted, blocked \in BOOLEAN : ServiceDecides(wanted, blocked)

Next == \/ Console \/ Service \/ Worker \/ Tick \/ GatesMove
        \/ \E supply \in BOOLEAN : ObserveSupply(supply)

Spec == Init /\ [][Next]_vars

(* The tasks run and time passes; what commands and gates do is open.      *)
FairSpec ==
  Spec /\ WF_vars(Tick) /\ WF_vars(Worker) /\ WF_vars(ServiceLacksTask \/ ServiceStarts)

-----------------------------------------------------------------------------
(* The state shown agrees with the schedule whichever of a command and the *)
(* worker wrote it last: no pulse that a command cut short may report      *)
(* Waiting, Blocked or Pulsing over the command's Off.                     *)
StateMatches == (state \in Active => On) /\ (state = "Off" => ~On)

Flags ==
  /\ leased \in BOOLEAN /\ automatic \in BOOLEAN /\ configured \in BOOLEAN /\ external \in BOOLEAN
  /\ inhibited \in BOOLEAN /\ fatal \in BOOLEAN /\ pulsing \in BOOLEAN /\ created \in BOOLEAN
  /\ starting \in BOOLEAN /\ gate \in BOOLEAN /\ aborted \in BOOLEAN /\ notified \in BOOLEAN
  /\ eligible \in BOOLEAN /\ stopped \in BOOLEAN

(* A late worker waits from its own, older, idea of now.                   *)
Times ==
  /\ leaseLeft \in -MaxLag .. Lease /\ dueIn \in -MaxLag .. Period
  /\ freshLeft \in 0 .. Fresh /\ workLeft \in 0 .. Duration /\ quiet \in 0 .. Period
  /\ lag \in 0 .. MaxLag /\ wakeIn \in {Forever} \union 0 .. (MaxLag + Larger(Period, Lease))

Names ==
  /\ current \subseteq {"request", "service", "pulse"}
  /\ state \in Active \union {"Off", "Invalid", "Expired", "TaskError", "CreateError", "AcquireError",
                              "ReleaseError"}
  /\ admission \in {"none", "off", "request", "service"}
  /\ pc \in {"loop", "supply", "gates", "due", "wait", "acquire", "first", "publish", "work",
             "slice", "release", "account", "complete"}
  /\ sampling \in {"due", "first", "slice"} /\ pm \in {"none", "free", "held", "stuck"}

(* The values the variables take.                                          *)
TypeOK == Flags /\ Times /\ Names

(* After a failure of the power-management lock the schedule stays off, so *)
(* that a lock in doubt is never acquired on top of itself.                *)
NeverNested == /\ fatal => ~On
               /\ pm = "stuck" => pc # "acquire" /\ fatal

(* Off wins over everything that was under way when it was called: a       *)
(* request that had begun, a service that had decided to start.  Only a    *)
(* new request, a changed supply or a changed setting turns it on again.   *)
OffWins == TypeOK /\ StateMatches /\ NeverNested /\ (stopped => ~On)

(* A pulse begins a whole period after the schedule was installed or its   *)
(* last pulse ended, however late that pulse was: no burst catches up.     *)
NoBurst == [][~pulsing /\ pulsing' => quiet = Period]_vars

(* However an attempt ends (refused, overtaken by a command, aborted,      *)
(* done), the lock that keeps the chip out of light sleep is given back.   *)
LockReturned == pm = "held" ~> pm # "held"

(* When the automatic schedule is on and stays on with every gate open,    *)
(* pulses keep coming: the worker is woken however it had gone to sleep.   *)
KeepsPulsing == <>[](automatic /\ Desired /\ eligible) => []<>(pulsing \/ fatal)

(* The worker neither keeps the lock nor falls asleep for good.            *)
PulsesGoOn == LockReturned /\ KeepsPulsing
=============================================================================

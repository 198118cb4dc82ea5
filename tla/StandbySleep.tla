---------------------------- MODULE StandbySleep ----------------------------
(***************************************************************************)
(* Automatic light sleep in standby (main/host/standby_sleep.cpp) and the  *)
(* owner of the power-management configuration (NetworkQuota::setCpu and   *)
(* serviceStandbySleep).  Light sleep is enabled in the chip by            *)
(* esp_pm_configure and held off by one recovery lock; every call of the   *)
(* component runs under its mutex and ends in refreshRecovery, so a call is *)
(* one step.  The power owner asks (allow), configures the chip and reports *)
(* back in three steps, and the updater publishes its flag in one step and *)
(* calls otaActivity in the next.                                          *)
(*                                                                         *)
(* viewLocked, displaySafe and ~fault are only ever asked together and the *)
(* view sets them together: they are one flag, `display'.                  *)
(***************************************************************************)
EXTENDS Integers

VARIABLES s,          \* the state under the mutex
          chip,       \* light sleep is enabled in the chip
          pmFault,    \* _sleep_pm_fault
          owner,      \* the power owner: "idle", "enable", "disable", "enabled", ...
          busy, told, \* the updater's flag; otaActivity has been called for it
          sampled,    \* what the main loop read of the flag, or "none"
          usbSafe,    \* no unserviced USB event, the bus idle
          usbCallback,\* an event's callback has still to run
          lockFailed  \* history: an acquire or release has failed

vars == <<s, chip, pmFault, owner, busy, told, sampled, usbSafe, usbCallback, lockFailed>>
outside == <<chip, pmFault, owner, busy, told, sampled, usbSafe, usbCallback>>

Requested(m) == m.automatic \/ (m.leased /\ ~m.expired)

States == [leased : BOOLEAN, expired : BOOLEAN,   \* leaseUntil # 0, now past it
           automatic : BOOLEAN,
           awake : BOOLEAN,                       \* now < awakeUntil
           otaBlocked : BOOLEAN, display : BOOLEAN, uartPending : BOOLEAN,
           ready : BOOLEAN, initialized : BOOLEAN, fatal : BOOLEAN,
           applied : BOOLEAN, wanted : BOOLEAN, ble : BOOLEAN, held : BOOLEAN]

Init ==
  /\ \E flag \in BOOLEAN :      \* CONFIG_MOSAICO_STANDBY_AUTO_LIGHT_SLEEP
       s = [leased |-> FALSE, expired |-> FALSE, automatic |-> flag, awake |-> FALSE,
            otaBlocked |-> FALSE, display |-> FALSE, uartPending |-> FALSE, ready |-> FALSE,
            initialized |-> FALSE, fatal |-> FALSE, applied |-> FALSE, wanted |-> FALSE,
            ble |-> FALSE, held |-> FALSE]
  /\ chip = FALSE /\ pmFault = FALSE /\ owner = "idle"
  /\ busy = FALSE /\ told = FALSE /\ sampled = "none"
  /\ usbSafe = FALSE /\ usbCallback = FALSE /\ lockFailed = FALSE

-----------------------------------------------------------------------------
(* refreshRecovery.  The lock exists once the component is initialized.    *)

Lapse(m)  == [m EXCEPT !.leased = FALSE, !.expired = FALSE]
Pause(m)  == [Lapse(m) EXCEPT !.display = FALSE]

(* A slip: a window in which the console may still be reading is forgotten. *)
NeedWithoutUart(m) == (m.applied \/ Requested(m)) /\ (~m.wanted \/ ~usbSafe \/ ~Requested(m))

Need(m) == /\ m.applied \/ Requested(m)
           /\ \/ ~m.wanted \/ ~usbSafe \/ ~Requested(m)
              \/ m.uartPending \/ m.awake

Refresh(m) ==
  \/ /\ ~m.initialized /\ s' = m /\ UNCHANGED lockFailed
  \/ /\ m.initialized /\ s' = [m EXCEPT !.held = Need(m)] /\ UNCHANGED lockFailed
  \/ /\ m.initialized /\ Need(m) # m.held
     /\ s' = [Pause(m) EXCEPT !.fatal = TRUE, !.wanted = FALSE] /\ lockFailed' = TRUE

(* Model::service: a lease ends with its time, the display or an update.   *)
Serviced(m) == IF m.expired \/ ~m.display \/ m.otaBlocked THEN Lapse(m) ELSE m

(* The lock, the wake sources and the callbacks are set up once per boot,  *)
(* the first time they are needed; when one cannot be, never again.        *)
InitializeFails(m) == [m EXCEPT !.fatal = TRUE]

-----------------------------------------------------------------------------
(* The callers.                                                            *)

UartReady(ready) ==
  /\ IF ready THEN s' = [s EXCEPT !.ready = TRUE] /\ UNCHANGED lockFailed
     ELSE Refresh([Pause(s) EXCEPT !.ready = FALSE, !.wanted = FALSE])
  /\ UNCHANGED outside

Woken(m) == [m EXCEPT !.awake = Requested(m) \/ m.awake]

UartTraffic(pending, activity) ==
  /\ Refresh([(IF activity THEN Woken(s) ELSE s) EXCEPT !.uartPending = pending])
  /\ UNCHANGED outside

ViewState(good) ==
  /\ LET m == [Serviced([s EXCEPT !.display = good]) EXCEPT !.wanted = @ /\ good]
     IN  Refresh(m)
  /\ UNCHANGED outside

Request ==
  /\ s.ready /\ s.display /\ ~s.ble /\ ~s.otaBlocked /\ ~busy /\ ~s.fatal
  /\ \/ /\ Refresh([s EXCEPT !.leased = TRUE, !.expired = FALSE, !.automatic = FALSE,
                             !.initialized = TRUE, !.wanted = FALSE])
     \/ /\ ~s.initialized /\ s' = InitializeFails(s) /\ UNCHANGED lockFailed
  /\ UNCHANGED outside

EnableAutomatic ==
  /\ s.ready /\ ~s.fatal
  /\ Refresh([Lapse(s) EXCEPT !.automatic = TRUE, !.wanted = FALSE])
  /\ UNCHANGED outside

CancelForActivity == Refresh([Pause(s) EXCEPT !.wanted = FALSE]) /\ UNCHANGED outside

Off ==
  /\ Refresh([Lapse(s) EXCEPT !.automatic = FALSE, !.wanted = FALSE])
  /\ UNCHANGED outside

(* The console's look at the state serves the model and closes the         *)
(* updater's gate, but leaves the permission as it is.                     *)
Snapshot ==
  /\ Refresh(Serviced([s EXCEPT !.otaBlocked = @ \/ busy]))
  /\ UNCHANGED outside

Callers == \/ \E b \in BOOLEAN : UartReady(b) \/ ViewState(b)
           \/ \E p, a \in BOOLEAN : UartTraffic(p, a)
           \/ Request \/ EnableAutomatic \/ CancelForActivity \/ Off \/ Snapshot

(* USB: an event makes the bus unsafe, its callback comes later; the main  *)
(* loop arms the bus again (service_sleep, during which it runs: one step) *)
(* when it has seen the event, whether or not the callback has run.        *)
UsbEvent ==
  /\ usbSafe' = FALSE /\ usbCallback' = TRUE
  /\ UNCHANGED <<s, chip, pmFault, owner, busy, told, sampled, lockFailed>>

UsbActivity ==
  /\ usbCallback /\ usbCallback' = FALSE
  /\ Refresh([Woken(s) EXCEPT !.wanted = FALSE])
  /\ UNCHANGED <<chip, pmFault, owner, busy, told, sampled, usbSafe>>

UsbArmed ==
  /\ usbSafe' = TRUE
  /\ UNCHANGED <<s, chip, pmFault, owner, busy, told, sampled, usbCallback, lockFailed>>

-----------------------------------------------------------------------------
(* The updater and the main loop.  What begins is announced before the     *)
(* admission it began under is left, so nothing ends it earlier.           *)

OtaBegins ==
  /\ ~busy /\ busy' = TRUE
  /\ UNCHANGED <<s, chip, pmFault, owner, told, sampled, usbSafe, usbCallback, lockFailed>>

OtaActivity ==
  /\ busy /\ ~told /\ told' = TRUE
  /\ Refresh([Pause(s) EXCEPT !.otaBlocked = TRUE, !.wanted = FALSE])
  /\ UNCHANGED <<chip, pmFault, owner, busy, sampled, usbSafe, usbCallback>>

OtaEnds ==
  /\ told /\ busy' = FALSE /\ told' = FALSE
  /\ UNCHANGED <<s, chip, pmFault, owner, sampled, usbSafe, usbCallback, lockFailed>>

SampleOta ==
  /\ sampled = "none" /\ sampled' = IF busy THEN "busy" ELSE "free"
  /\ UNCHANGED <<s, chip, pmFault, owner, busy, told, usbSafe, usbCallback, lockFailed>>

(* A slip: the service only ever closes the updater's gate.                 *)
ServedLatched(ota, ble) ==
  LET m == [s EXCEPT !.ble = ble, !.otaBlocked = @ \/ ota]
      n == Serviced(IF ble THEN Pause(m) ELSE m)
  IN  [n EXCEPT !.wanted = @ /\ ~n.otaBlocked /\ ~ble /\ Requested(n)]

(* The updater's gate is opened here and nowhere else.                     *)
Served(ota, ble) ==
  LET m == [s EXCEPT !.ble = ble, !.otaBlocked = ota]
      n == Serviced(IF ble THEN Pause(m) ELSE m)
  IN  [n EXCEPT !.wanted = @ /\ ~n.otaBlocked /\ ~ble /\ Requested(n)]

(* The flag is read again under the mutex.                                 *)
Service(ble) ==
  /\ sampled # "none" /\ sampled' = "none"
  /\ Refresh(Served(sampled = "busy" \/ busy, ble))
  /\ UNCHANGED <<chip, pmFault, owner, busy, told, usbSafe, usbCallback>>

-----------------------------------------------------------------------------
(* The power owner, serialized by _cpu_mutex.  `io' stands for the retained *)
(* pads being ready and Wi-Fi off, without which the display is paused,    *)
(* `idle' for 160 MHz and a locked screen, `change' for another CPU        *)
(* frequency than the one configured.                                      *)

Decide(light, change) ==
  owner' = IF ~change /\ (chip = light \/ pmFault) THEN "idle"
           ELSE IF light THEN "enable" ELSE "disable"

Allow(io, idle, change) ==
  /\ owner = "idle"
  /\ LET m == [s EXCEPT !.otaBlocked = @ \/ busy]
         n == Serviced(IF io /\ ~s.ble THEN m ELSE Pause(m))
         safe == /\ usbSafe /\ io /\ idle /\ ~n.fatal /\ n.ready
                 /\ Requested(n) /\ n.display /\ ~n.otaBlocked /\ ~n.ble
     IN  \/ Refresh([n EXCEPT !.wanted = safe, !.initialized = @ \/ safe])
         \/ /\ safe /\ ~s.initialized
            /\ s' = InitializeFails([n EXCEPT !.wanted = FALSE]) /\ UNCHANGED lockFailed
  /\ Decide(s'.wanted /\ ~pmFault, change)
  /\ UNCHANGED <<chip, pmFault, busy, told, sampled, usbSafe, usbCallback>>

(* beforeConfigure only counts; esp_pm_configure succeeds or fails.        *)
Configure ==
  /\ owner \in {"enable", "disable"}
  /\ \/ chip' = (owner = "enable") /\ owner' = "done" /\ UNCHANGED pmFault
     \/ UNCHANGED chip /\ owner' = "failed" /\ pmFault' = (pmFault \/ chip \/ owner = "enable")
  /\ UNCHANGED <<s, busy, told, sampled, usbSafe, usbCallback, lockFailed>>

Configured ==
  /\ owner \in {"done", "failed"} /\ owner' = "idle"
  /\ Refresh(IF owner = "done" THEN [s EXCEPT !.applied = chip]
             ELSE [Pause(s) EXCEPT !.fatal = TRUE, !.wanted = FALSE])
  /\ UNCHANGED <<chip, pmFault, busy, told, sampled, usbSafe, usbCallback>>

-----------------------------------------------------------------------------
LeaseRunsOut ==
  /\ s.leased /\ ~s.expired /\ s' = [s EXCEPT !.expired = TRUE]
  /\ UNCHANGED <<outside, lockFailed>>

WindowEnds ==
  /\ s.awake /\ s' = [s EXCEPT !.awake = FALSE]
  /\ UNCHANGED <<outside, lockFailed>>

MainLoop == SampleOta \/ UsbArmed \/ \E ble \in BOOLEAN : Service(ble)
Owner    == Configure \/ Configured \/ \E io, idle, change \in BOOLEAN : Allow(io, idle, change)
Time     == LeaseRunsOut \/ WindowEnds
Updater  == OtaBegins \/ OtaActivity \/ OtaEnds
Usb      == UsbEvent \/ UsbActivity

Next == Callers \/ Usb \/ Updater \/ MainLoop \/ Owner \/ Time
Spec == Init /\ [][Next]_vars

-----------------------------------------------------------------------------
(* The values the variables take.                                          *)
TypeOK ==
  /\ s \in States /\ chip \in BOOLEAN /\ pmFault \in BOOLEAN /\ busy \in BOOLEAN /\ told \in BOOLEAN
  /\ usbSafe \in BOOLEAN /\ usbCallback \in BOOLEAN /\ lockFailed \in BOOLEAN
  /\ owner \in {"idle", "enable", "disable", "done", "failed"}
  /\ sampled \in {"none", "busy", "free"}

(* The chip can only enter light sleep when no task is running: not while  *)
(* the power owner is between configuring the chip and reporting back.     *)
MaySleep == chip /\ ~s.held /\ owner = "idle"

(* Once otaActivity has returned the device stays awake to the end of the  *)
(* update, whatever older sample of the updater the main loop, or older    *)
(* permission the power owner, still acts on.                              *)
OtaAwake == told /\ ~lockFailed => ~MaySleep

(* Whenever the chip may sleep, every condition still holds that was asked *)
(* for when it was allowed to, although each is set by a different task.   *)
(* Two may fail while the task that will report it is on its way: the      *)
(* updater's into otaActivity (the console may have closed the gate before *)
(* it, see snapshot), and the USB task into usbActivity.                   *)
SleepIsSafe ==
  /\ TypeOK /\ OtaAwake
  /\ MaySleep /\ ~lockFailed =>
       /\ s.wanted /\ s.ready /\ s.display /\ ~s.fatal /\ ~s.ble /\ ~s.uartPending
       /\ s.otaBlocked => busy /\ ~told
       /\ usbSafe \/ usbCallback
       /\ s.automatic \/ s.leased

(* Left alone in standby (a safe display, no Bluetooth, no update, no USB   *)
(* or console traffic, no power-management error, and nobody asks for the  *)
(* policy once more), the automatic policy keeps getting the device to     *)
(* sleep, whatever blocked it before.                                      *)
Quiet == /\ s.automatic /\ s.ready /\ s.display /\ ~s.awake /\ ~s.ble /\ ~s.uartPending
         /\ ~s.fatal /\ ~pmFault /\ ~busy /\ usbSafe
SleepReturns == <>[]Quiet /\ <>[][~EnableAutomatic]_vars => []<>MaySleep
=============================================================================

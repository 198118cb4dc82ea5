------------------------ MODULE StandbySleep_proofs ------------------------
(***************************************************************************)
(* Proofs about automatic light sleep: while the chip may sleep, every     *)
(* condition holds it was allowed under.  The tasks only ever see one      *)
(* another through the state under the mutex, so the argument is about     *)
(* what each call of the component leaves there: permission (wanted) bears *)
(* out its own conditions, and the recovery lock is free only where the    *)
(* chip is not configured to sleep or permission stands.                   *)
(*                                                                         *)
(* And about the screen, whose lock is what allows it: each callback, key  *)
(* and update of the view keeps its parts in step with one another.        *)
(***************************************************************************)
EXTENDS MCStandbySleep, Sequences, TLAPS

Permitted(m) == m.wanted => /\ m.initialized /\ m.ready /\ m.display
                            /\ ~m.fatal /\ ~m.ble

HeldOff(m) == m.initialized /\ m.applied /\ ~m.held =>
                m.wanted /\ ~m.uartPending /\ (m.automatic \/ m.leased)

(* What the power owner has told the component, and what it will tell it.  *)
OwnerTold == /\ owner # "done" => s.applied = chip
             /\ chip \/ owner = "enable" => s.initialized

(* What may come between a permission and the call that takes it back.     *)
Excused == s.wanted => /\ s.otaBlocked => busy /\ ~told
                       /\ usbSafe \/ usbCallback

IInv == /\ TypeOK /\ Permitted(s) /\ (~lockFailed => HeldOff(s)) /\ OwnerTold /\ Excused
        /\ told => busy /\ s.otaBlocked

(* What refreshRecovery leaves of the state a call hands it.               *)
LEMMA RefreshKeeps ==
  ASSUME NEW m \in States, Refresh(m), Permitted(m), lockFailed \in BOOLEAN
  PROVE  /\ s' \in States /\ lockFailed' \in BOOLEAN
         /\ Permitted(s') /\ (~lockFailed' => HeldOff(s'))
         /\ s'.initialized = m.initialized /\ s'.applied = m.applied /\ s'.otaBlocked = m.otaBlocked
         /\ s'.wanted => m.wanted
<1>1. CASE ~m.initialized /\ s' = m /\ UNCHANGED lockFailed
  BY <1>1 DEF HeldOff
<1>2. CASE m.initialized /\ s' = [m EXCEPT !.held = Need(m)] /\ UNCHANGED lockFailed
  <2>1. Need(m) \in BOOLEAN
    BY DEF Need, Requested, States
  <2>2. /\ s' \in States /\ s'.held = Need(m) /\ s'.wanted = m.wanted /\ s'.ready = m.ready
        /\ s'.display = m.display /\ s'.fatal = m.fatal /\ s'.ble = m.ble /\ s'.otaBlocked = m.otaBlocked
        /\ s'.initialized = m.initialized /\ s'.applied = m.applied /\ s'.uartPending = m.uartPending
        /\ s'.automatic = m.automatic /\ s'.leased = m.leased
    BY <1>2, <2>1 DEF States
  <2>3. Permitted(s')
    BY <2>2 DEF Permitted
  <2>4. HeldOff(s')
    BY <2>2 DEF HeldOff, Need, Requested
  <2> QED
    BY <1>2, <2>2, <2>3, <2>4
<1>3. CASE m.initialized /\ s' = [Pause(m) EXCEPT !.fatal = TRUE, !.wanted = FALSE] /\ lockFailed' = TRUE
  <2>1. /\ s' \in States /\ ~s'.wanted /\ s'.initialized = m.initialized /\ s'.applied = m.applied
        /\ s'.otaBlocked = m.otaBlocked
    BY ZenonT(60), <1>3 DEF States, Pause, Lapse
  <2> QED
    BY <1>3, <2>1 DEF Permitted
<1> QED
  BY <1>1, <1>2, <1>3 DEF Refresh

LEMMA InitInv == Init => IInv
<1> SUFFICES ASSUME Init PROVE IInv
  OBVIOUS
<1>1. s \in States /\ s.wanted = FALSE /\ s.initialized = FALSE /\ s.applied = FALSE
  BY DEF Init, States
<1> QED
  BY <1>1 DEF Init, IInv, TypeOK, Permitted, HeldOff, OwnerTold, Excused

(* A call of the component by a task that is not the power owner.          *)
LEMMA CallKeeps ==
  ASSUME IInv, NEW m \in States, Refresh(m), Permitted(m),
         s.initialized => m.initialized, m.applied = s.applied,
         (m.otaBlocked = s.otaBlocked) \/ (m.otaBlocked /\ busy /\ ~told), m.wanted => s.wanted,
         UNCHANGED outside
  PROVE  IInv'
<1>1. /\ s' \in States /\ lockFailed' \in BOOLEAN
      /\ Permitted(s') /\ (~lockFailed' => HeldOff(s'))
      /\ s.initialized => s'.initialized
      /\ s'.applied = s.applied /\ s'.otaBlocked = m.otaBlocked
      /\ s'.wanted => s.wanted
  BY RefreshKeeps DEF IInv, TypeOK
<1>2. UNCHANGED <<chip, pmFault, owner, busy, told, sampled, usbSafe, usbCallback>>
  BY DEF outside
<1>3. Excused' /\ (told' => busy' /\ s'.otaBlocked)
  BY <1>1, <1>2 DEF IInv, Excused, TypeOK, States
<1>4. OwnerTold'
  BY <1>1, <1>2 DEF IInv, OwnerTold
<1> QED
  BY <1>1, <1>2, <1>3, <1>4 DEF IInv, TypeOK

LEMMA CallersKeep == IInv /\ Callers => IInv'
<1> SUFFICES ASSUME IInv, Callers PROVE IInv'
  OBVIOUS
<1>0. s \in States /\ Permitted(s)
  BY DEF IInv, TypeOK
<1>1. ASSUME NEW ready \in BOOLEAN, UartReady(ready) PROVE IInv'
  <2>1. CASE ready
    <3>1. s' = [s EXCEPT !.ready = TRUE] /\ UNCHANGED <<outside, lockFailed>>
      BY <1>1, <2>1 DEF UartReady
    <3>2. /\ s' \in States /\ s'.ready
          /\ \A f \in {"initialized", "applied", "held", "wanted", "uartPending", "automatic", "leased",
                       "display", "fatal", "ble", "otaBlocked"} : s'[f] = s[f]
      BY <1>0, <3>1 DEF States
    <3> QED
      BY <3>1, <3>2 DEF IInv, TypeOK, outside, Permitted, HeldOff, OwnerTold, Excused
  <2>2. CASE ~ready
    BY <1>0, <1>1, <2>2, CallKeeps DEF UartReady, States, Permitted, Pause, Lapse
  <2> QED BY <2>1, <2>2
<1>2. ASSUME NEW good \in BOOLEAN, ViewState(good) PROVE IInv'
  BY ZenonT(60), <1>0, <1>2, CallKeeps DEF ViewState, Serviced, Lapse, States, Permitted
<1>3. ASSUME NEW pending \in BOOLEAN, NEW activity \in BOOLEAN, UartTraffic(pending, activity) PROVE IInv'
  BY <1>0, <1>3, CallKeeps DEF UartTraffic, Woken, Requested, States, Permitted
<1>4. CASE Request
  <2>1. CASE Refresh([s EXCEPT !.leased = TRUE, !.expired = FALSE, !.automatic = FALSE,
                               !.initialized = TRUE, !.wanted = FALSE])
    BY <1>0, <1>4, <2>1, CallKeeps DEF Request, States, Permitted
  <2>2. CASE ~s.initialized /\ s' = InitializeFails(s) /\ UNCHANGED lockFailed
    <3>1. /\ s' \in States /\ ~s'.initialized /\ ~s'.wanted /\ s'.applied = s.applied
          /\ s'.otaBlocked = s.otaBlocked
      BY <1>0, <2>2 DEF InitializeFails, States, Permitted
    <3> QED
      BY <1>4, <2>2, <3>1 DEF Request, IInv, TypeOK, outside, Permitted, HeldOff, OwnerTold, Excused
  <2> QED
    BY <1>4, <2>1, <2>2 DEF Request
<1>5. CASE EnableAutomatic
  BY <1>0, <1>5, CallKeeps DEF EnableAutomatic, Lapse, States, Permitted
<1>6. CASE CancelForActivity
  BY <1>0, <1>6, CallKeeps DEF CancelForActivity, Pause, Lapse, States, Permitted
<1>7. CASE Off
  BY <1>0, <1>7, CallKeeps DEF Off, Lapse, States, Permitted
<1>8. CASE Snapshot
  <2> DEFINE k == [s EXCEPT !.otaBlocked = @ \/ busy]
             m == Serviced(k)
  <2>1. /\ k \in States /\ k.otaBlocked = (s.otaBlocked \/ busy)
        /\ \A f \in {"initialized", "applied", "ready", "display", "fatal", "ble", "wanted"} : k[f] = s[f]
    BY <1>0 DEF States, IInv, TypeOK
  <2> HIDE DEF k
  <2>2. /\ Lapse(k) \in States
        /\ \A f \in {"otaBlocked", "initialized", "applied", "ready", "display", "fatal", "ble", "wanted"} :
             Lapse(k)[f] = k[f]
    BY <2>1 DEF Lapse, States
  <2>3. /\ m \in States /\ m.otaBlocked = (s.otaBlocked \/ busy)
        /\ \A f \in {"initialized", "applied", "ready", "display", "fatal", "ble", "wanted"} : m[f] = s[f]
    BY <2>1, <2>2 DEF Serviced
  <2>4. Refresh(m) /\ UNCHANGED outside
    BY <1>8 DEF Snapshot, k, m
  <2> HIDE DEF m
  <2>5. Permitted(m)
    BY <1>0, <2>3 DEF Permitted
  <2>6. (m.otaBlocked = s.otaBlocked) \/ (m.otaBlocked /\ busy /\ ~told)
    BY <2>3 DEF IInv, TypeOK, States
  <2> QED
    BY <2>3, <2>4, <2>5, <2>6, CallKeeps
<1> QED
  BY <1>1, <1>2, <1>3, <1>4, <1>5, <1>6, <1>7, <1>8 DEF Callers

(* The main loop: the only place where the updater's gate is opened, and   *)
(* only when the flag, read again, is down.                                *)
LEMMA ServiceKeeps == ASSUME IInv, NEW ble \in BOOLEAN, Service(ble) PROVE IInv'
<1> DEFINE blocked == sampled = "busy" \/ busy
           m == Served(blocked, ble)
<1>1. s \in States /\ Permitted(s) /\ lockFailed \in BOOLEAN /\ blocked \in BOOLEAN /\ (told => busy)
  BY DEF IInv, TypeOK
<1>2. /\ m \in States /\ Permitted(m) /\ m.initialized = s.initialized /\ m.applied = s.applied
      /\ m.otaBlocked = blocked /\ (m.wanted => s.wanted /\ ~blocked)
  <2> DEFINE k == [s EXCEPT !.ble = ble, !.otaBlocked = blocked]
             j == IF ble THEN Pause(k) ELSE k
             n == Serviced(j)
             w == s.wanted /\ ~n.otaBlocked /\ ~ble /\ Requested(n)
  <2>0. /\ j \in States /\ j.initialized = s.initialized /\ j.applied = s.applied /\ j.otaBlocked = blocked
        /\ j.ready = s.ready /\ j.fatal = s.fatal /\ j.ble = ble /\ (~ble => j.display = s.display)
        /\ j.wanted = s.wanted
    <3>1. /\ k \in States /\ k.otaBlocked = blocked /\ k.ble = ble
          /\ k.initialized = s.initialized /\ k.applied = s.applied /\ k.ready = s.ready
          /\ k.fatal = s.fatal /\ k.display = s.display /\ k.wanted = s.wanted
      BY <1>1 DEF States
    <3> HIDE DEF k
    <3>2. /\ Pause(k) \in States /\ Pause(k).otaBlocked = k.otaBlocked /\ Pause(k).ble = k.ble
          /\ Pause(k).initialized = k.initialized /\ Pause(k).applied = k.applied
          /\ Pause(k).ready = k.ready /\ Pause(k).fatal = k.fatal /\ Pause(k).wanted = k.wanted
      BY <3>1 DEF Pause, Lapse, States
    <3> QED
      BY <3>1, <3>2
  <2>1. /\ n \in States /\ n.initialized = s.initialized /\ n.applied = s.applied /\ n.otaBlocked = blocked
        /\ n.ready = s.ready /\ n.fatal = s.fatal /\ n.ble = ble /\ (~ble => n.display = s.display)
        /\ n.wanted = s.wanted
    <3> HIDE DEF j
    <3>1. /\ Lapse(j) \in States /\ Lapse(j).otaBlocked = j.otaBlocked /\ Lapse(j).ble = j.ble
          /\ Lapse(j).initialized = j.initialized /\ Lapse(j).applied = j.applied
          /\ Lapse(j).ready = j.ready /\ Lapse(j).fatal = j.fatal /\ Lapse(j).wanted = j.wanted
          /\ Lapse(j).display = j.display
      BY <2>0 DEF Lapse, States
    <3> QED
      BY <2>0, <3>1 DEF Serviced
  <2>2. m = [n EXCEPT !.wanted = w]
    BY <2>1 DEF Served
  <2> HIDE DEF n, m
  <2>3. w \in BOOLEAN
    BY <1>1, <2>1 DEF Requested, States
  <2>4. /\ m \in States /\ m.wanted = w
        /\ \A f \in {"initialized", "applied", "otaBlocked", "ready", "fatal", "ble", "display"} : m[f] = n[f]
    BY <2>1, <2>2, <2>3 DEF States
  <2> QED
    BY <1>1, <2>1, <2>4 DEF Permitted
<1> HIDE DEF m
<1>3. Refresh(m)
  BY DEF Service, m
<1>4. /\ s' \in States /\ lockFailed' \in BOOLEAN
      /\ Permitted(s') /\ (~lockFailed' => HeldOff(s'))
      /\ s'.initialized = s.initialized /\ s'.applied = s.applied /\ (busy => s'.otaBlocked)
      /\ s'.wanted => s.wanted /\ ~s'.otaBlocked
  BY <1>1, <1>2, <1>3, RefreshKeeps
<1> QED
  BY <1>1, <1>4 DEF Service, IInv, TypeOK, OwnerTold, Permitted, HeldOff, Excused

LEMMA AllowKeeps ==
  ASSUME IInv, NEW io \in BOOLEAN, NEW idle \in BOOLEAN, NEW change \in BOOLEAN, Allow(io, idle, change)
  PROVE  IInv'
<1> DEFINE m == [s EXCEPT !.otaBlocked = @ \/ busy]
           n == Serviced(IF io /\ ~s.ble THEN m ELSE Pause(m))
           safe == /\ usbSafe /\ io /\ idle /\ ~n.fatal /\ n.ready
                   /\ Requested(n) /\ n.display /\ ~n.otaBlocked /\ ~n.ble
           asked == [n EXCEPT !.wanted = safe, !.initialized = @ \/ safe]
           failed == InitializeFails([n EXCEPT !.wanted = FALSE])
<1>1. s \in States /\ Permitted(s) /\ lockFailed \in BOOLEAN /\ busy \in BOOLEAN /\ usbSafe \in BOOLEAN
  BY DEF IInv, TypeOK
<1>2. /\ n \in States /\ n.initialized = s.initialized /\ n.applied = s.applied
      /\ n.otaBlocked = (s.otaBlocked \/ busy)
  BY ZenonT(60), <1>1 DEF Serviced, Pause, Lapse, States
<1>3. safe \in BOOLEAN
  BY <1>1, <1>2 DEF Requested, States
<1>4. Refresh(asked) \/ (safe /\ ~s.initialized /\ s' = failed /\ UNCHANGED lockFailed)
  BY DEF Allow
<1>5. /\ s' \in States /\ lockFailed' \in BOOLEAN
      /\ Permitted(s') /\ (~lockFailed' => HeldOff(s'))
      /\ s.initialized => s'.initialized
      /\ s'.applied = s.applied /\ s'.otaBlocked = (s.otaBlocked \/ busy)
      /\ s'.wanted => usbSafe /\ ~s'.otaBlocked
  <2> HIDE DEF n, m
  <2>1. CASE Refresh(asked)
    <3>1. /\ asked \in States /\ Permitted(asked) /\ asked.initialized = (n.initialized \/ safe)
          /\ asked.applied = n.applied /\ asked.otaBlocked = n.otaBlocked
          /\ asked.wanted => usbSafe /\ ~n.otaBlocked
      <4> HIDE DEF safe
      <4>1. /\ asked \in States /\ asked.wanted = safe /\ asked.initialized = (n.initialized \/ safe)
            /\ \A f \in {"applied", "otaBlocked", "ready", "fatal", "ble", "display"} : asked[f] = n[f]
        BY <1>2, <1>3 DEF States
      <4> QED
        BY <4>1 DEF Permitted, safe
    <3> HIDE DEF asked
    <3> QED
      BY <1>1, <1>2, <2>1, <3>1, RefreshKeeps
  <2>2. CASE safe /\ ~s.initialized /\ s' = failed /\ UNCHANGED lockFailed
    <3>1. /\ failed \in States /\ ~failed.wanted /\ failed.initialized = n.initialized
          /\ failed.applied = n.applied /\ failed.otaBlocked = n.otaBlocked
      BY <1>2 DEF InitializeFails, States
    <3> QED
      BY <1>1, <1>2, <2>2, <3>1 DEF Permitted, HeldOff
  <2> QED
    BY <1>4, <2>1, <2>2
<1>6. owner = "idle" /\ (owner' = "idle" \/ owner' = "disable" \/ (owner' = "enable" /\ s'.wanted))
  BY DEF Allow, Decide
<1> QED
  BY <1>5, <1>6 DEF Allow, IInv, TypeOK, OwnerTold, Permitted, Excused

LEMMA NextInv == IInv /\ [Next]_vars => IInv'
<1> SUFFICES ASSUME IInv, [Next]_vars PROVE IInv'
  OBVIOUS
<1>0. s \in States /\ Permitted(s) /\ lockFailed \in BOOLEAN
  BY DEF IInv, TypeOK
<1>1. CASE Callers
  BY <1>1, CallersKeep
<1>2. CASE UsbEvent \/ UsbArmed \/ OtaBegins \/ OtaEnds \/ SampleOta
  <2>1. UNCHANGED <<s, chip, pmFault, owner, lockFailed>>
    BY <1>2 DEF UsbEvent, UsbArmed, OtaBegins, OtaEnds, SampleOta
  <2>2. TypeOK'
    BY ZenonT(60), <1>2, <2>1 DEF UsbEvent, UsbArmed, OtaBegins, OtaEnds, SampleOta, IInv, TypeOK
  <2>3. told' => busy'
    BY <1>2 DEF UsbEvent, UsbArmed, OtaBegins, OtaEnds, SampleOta, IInv
  <2>4. told' => told
    BY <1>2 DEF UsbEvent, UsbArmed, OtaBegins, OtaEnds, SampleOta
  <2>5. usbSafe \/ usbCallback => usbSafe' \/ usbCallback'
    BY <1>2 DEF UsbEvent, UsbArmed, OtaBegins, OtaEnds, SampleOta
  <2>6. s.otaBlocked /\ s.wanted => busy' /\ ~told'
    BY <1>2 DEF UsbEvent, UsbArmed, OtaBegins, OtaEnds, SampleOta, IInv, Excused
  <2> QED
    BY <2>1, <2>2, <2>3, <2>4, <2>5, <2>6 DEF IInv, OwnerTold, Permitted, HeldOff, Excused
<1>3. CASE UsbActivity
  <2> DEFINE m == [Woken(s) EXCEPT !.wanted = FALSE]
  <2>1. /\ m \in States /\ Permitted(m) /\ m.initialized = s.initialized /\ m.applied = s.applied
        /\ m.otaBlocked = s.otaBlocked /\ ~m.wanted
    BY ZenonT(60), <1>0 DEF Woken, Requested, States, Permitted
  <2> HIDE DEF m
  <2>2. Refresh(m)
    BY <1>3 DEF UsbActivity, m
  <2>3. /\ s' \in States /\ lockFailed' \in BOOLEAN
        /\ Permitted(s') /\ (~lockFailed' => HeldOff(s'))
        /\ s'.initialized = s.initialized /\ s'.applied = s.applied /\ s'.otaBlocked = s.otaBlocked
        /\ ~s'.wanted
    BY <1>0, <2>1, <2>2, RefreshKeeps
  <2> QED
    BY <1>3, <2>3 DEF UsbActivity, IInv, TypeOK, OwnerTold, Permitted, HeldOff, Excused
<1>4. CASE OtaActivity
  <2> DEFINE m == [Pause(s) EXCEPT !.otaBlocked = TRUE, !.wanted = FALSE]
  <2>1. /\ m \in States /\ Permitted(m) /\ m.initialized = s.initialized /\ m.applied = s.applied
        /\ m.otaBlocked /\ ~m.wanted
    BY <1>0 DEF Pause, Lapse, States, Permitted
  <2> HIDE DEF m
  <2>2. Refresh(m)
    BY <1>4 DEF OtaActivity, m
  <2>3. /\ s' \in States /\ lockFailed' \in BOOLEAN
        /\ Permitted(s') /\ (~lockFailed' => HeldOff(s'))
        /\ s'.initialized = s.initialized /\ s'.applied = s.applied /\ s'.otaBlocked
        /\ ~s'.wanted
    BY <1>0, <2>1, <2>2, RefreshKeeps
  <2> QED
    BY <1>4, <2>3 DEF OtaActivity, IInv, TypeOK, OwnerTold, Permitted, HeldOff, Excused
<1>5. ASSUME NEW ble \in BOOLEAN, Service(ble) PROVE IInv'
  BY <1>5, ServiceKeeps
<1>6. ASSUME NEW io \in BOOLEAN, NEW idle \in BOOLEAN, NEW change \in BOOLEAN, Allow(io, idle, change)
      PROVE  IInv'
  BY <1>6, AllowKeeps
<1>7. CASE Configure
  <2>1. UNCHANGED <<s, busy, told, sampled, usbSafe, usbCallback, lockFailed>>
    BY <1>7 DEF Configure
  <2>2. TypeOK'
    BY <1>7, <2>1 DEF Configure, IInv, TypeOK
  <2>3. OwnerTold'
    <3>1. CASE chip' = (owner = "enable") /\ owner' = "done"
      BY <2>1, <3>1 DEF IInv, OwnerTold
    <3>2. CASE UNCHANGED chip /\ owner' = "failed"
      BY <1>7, <2>1, <3>2 DEF Configure, IInv, OwnerTold
    <3> QED
      BY <1>7, <3>1, <3>2 DEF Configure
  <2> QED
    BY <2>1, <2>2, <2>3 DEF IInv, Permitted, HeldOff, Excused
<1>8. CASE Configured
  <2> DEFINE m == IF owner = "done" THEN [s EXCEPT !.applied = chip]
                  ELSE [Pause(s) EXCEPT !.fatal = TRUE, !.wanted = FALSE]
  <2>0. chip \in BOOLEAN /\ (owner # "done" => s.applied = chip) /\ (chip => s.initialized)
    BY DEF IInv, TypeOK, OwnerTold
  <2>1. /\ m \in States /\ Permitted(m) /\ m.initialized = s.initialized /\ m.applied = chip
        /\ m.otaBlocked = s.otaBlocked /\ (m.wanted => s.wanted)
    BY <1>0, <2>0 DEF Pause, Lapse, States, Permitted
  <2> HIDE DEF m
  <2>2. Refresh(m)
    BY <1>8 DEF Configured, m
  <2>3. /\ s' \in States /\ lockFailed' \in BOOLEAN
        /\ Permitted(s') /\ (~lockFailed' => HeldOff(s'))
        /\ s'.initialized = s.initialized /\ s'.applied = chip /\ s'.otaBlocked = s.otaBlocked
        /\ s'.wanted => s.wanted
    BY <1>0, <2>1, <2>2, RefreshKeeps
  <2> QED
    BY <1>8, <2>0, <2>3 DEF Configured, IInv, TypeOK, OwnerTold, Permitted, HeldOff, Excused
<1>9. CASE LeaseRunsOut
  <2>1. s' \in States /\ \A f \in DOMAIN s \ {"expired"} : s'[f] = s[f]
    BY <1>0, <1>9 DEF LeaseRunsOut, States
  <2> QED
    BY <1>0, <1>9, <2>1 DEF LeaseRunsOut, outside, States, IInv, TypeOK, OwnerTold, Permitted, HeldOff, Excused
<1>10. CASE WindowEnds
  <2>1. s' \in States /\ \A f \in DOMAIN s \ {"awake"} : s'[f] = s[f]
    BY <1>0, <1>10 DEF WindowEnds, States
  <2> QED
    BY <1>0, <1>10, <2>1 DEF WindowEnds, outside, States, IInv, TypeOK, OwnerTold, Permitted, HeldOff, Excused
<1>11. CASE UNCHANGED vars
  BY <1>11 DEF vars, IInv, TypeOK, OwnerTold, Permitted, HeldOff, Excused
<1> QED
  BY <1>1, <1>2, <1>3, <1>4, <1>5, <1>6, <1>7, <1>8, <1>9, <1>10, <1>11
  DEF Next, MainLoop, Owner, Time, Updater, Usb

-----------------------------------------------------------------------------
(* While the chip may sleep every condition of the sleep holds, but for    *)
(* what a task is on its way to report, and an update that has announced   *)
(* itself keeps the device awake, whatever the other tasks had sampled     *)
(* before (allow, service, snapshot, usbActivity, refreshRecovery and      *)
(* otaActivity of standby_sleep.cpp, setCpu of network_quota.cpp).         *)
THEOREM SleepAlwaysSafe == Spec => []SleepIsSafe
<1>1. IInv => SleepIsSafe
  BY DEF IInv, OwnerTold, Permitted, HeldOff, Excused, SleepIsSafe, OtaAwake, MaySleep
<1>2. Init => IInv
  BY InitInv
<1>3. IInv /\ [Next]_vars => IInv'
  BY NextInv
<1> QED
  BY <1>1, <1>2, <1>3, PTL DEF Spec

-----------------------------------------------------------------------------
(* The screen.                                                             *)
Pages == {"Command", "History", "OTA", "Sessions"}
Levels == {"bright", "lock", "dim"}
Views ==
  [page : Pages, panels : SUBSET Pages, slide : Seq(Pages),
   locked : BOOLEAN, suppressed : BOOLEAN, fault : BOOLEAN,
   phase : {"Idle", "FadeOut", "WaitBlack", "WaitRotated", "FadeIn"}, curtain : {"off", "fading", "black"},
   noted : BOOLEAN, turned : BOOLEAN, healthy : BOOLEAN,
   open : BOOLEAN, closing : BOOLEAN, moving : BOOLEAN, sheet : BOOLEAN, detail : 0 .. 4,
   anims : SUBSET {"slide", "turn", "sheet", "detail"},
   tracking : BOOLEAN, consumed : BOOLEAN, onEditor : BOOLEAN, plot : BOOLEAN,
   editor : Screen!Fields \cup {Screen!None}, pending : Screen!Fields \cup {Screen!None}, released : BOOLEAN, secret : BOOLEAN,
   stage : {"idle", "offer", "ready", "work", "ended"}, approved : BOOLEAN, offered : BOOLEAN,
   dim : BOOLEAN, applied : Levels, light : Levels, due : BOOLEAN,
   link : BOOLEAN, radio : BOOLEAN, idle : BOOLEAN, still : BOOLEAN]

\* a slide comes from another page, and its animation runs
SlideSound(v) ==
  /\ \/ v.slide = <<>> /\ v.panels = {v.page}
     \/ \E p \in Pages \ {v.page} : v.slide = <<p, v.page>> /\ v.panels = {p, v.page}
  /\ v.slide # <<>> <=> "slide" \in v.anims
\* the sheet moves by one animation, and closes if it is not open
SheetSound(v) ==
  /\ v.moving <=> v.anims \cap {"sheet", "detail"} # {}
  /\ ~{"sheet", "detail"} \subseteq v.anims
  /\ v.sheet <=> (v.open \/ v.moving)
  /\ v.closing <=> (v.moving /\ ~v.open)
TurnSound(v) ==
  /\ v.phase \in {"FadeOut", "FadeIn"} <=> "turn" \in v.anims
  /\ v.curtain = "off" <=> (v.phase = "Idle" /\ ~v.fault)
  /\ v.fault => v.curtain = "black"
RestSound(v) ==
  /\ v.locked => /\ ~v.open /\ ~v.moving /\ v.slide = <<>> /\ v.phase = "Idle"
                 /\ v.idle /\ v.still
  /\ v.radio = v.locked
LinkSound(v) == v.link => v.page = "Sessions" /\ ~v.suppressed /\ ~v.locked
IdleSound(v) == v.idle => v.locked \/ world.asleep
\* the panel is as it was set, or waits for a frame to be lit
LightSound(v) ==
  /\ v.dim => v.locked
  /\ v.applied = Screen!Level(v)
  /\ IF v.due THEN v.applied = "bright" /\ v.light # "bright" ELSE v.light = v.applied
SecretSound(v) ==
  /\ v.secret => v.open
  /\ v.editor # Screen!None \/ v.pending # Screen!None => v.open /\ v.detail = 4
\* what holds of a view whatever its turn, its light and its lease are
Core(v) == v \in Views /\ SlideSound(v) /\ SheetSound(v) /\ RestSound(v) /\ IdleSound(v) /\ SecretSound(v)
\* a view but for its turn, which a fault may have left anyhow
ViewFramed(v) == Core(v) /\ LinkSound(v) /\ LightSound(v)
ViewSound(v) == ViewFramed(v) /\ TurnSound(v)
\* keys pressed in the dark are held until they are let go
KeysSound ==
  /\ keys.dark /\ keys.was # {} => loop.held
  /\ keys.dark /\ keys.was = {} => keys.pend = Screen!None
  /\ keys.combo => keys.pend = Screen!None
  /\ loop.toggle => ~keys.dark
Worlds == [trial : BOOLEAN, asleep : BOOLEAN, drawn : {"open", "lock", "black"}]
Stages == {"idle", "offer", "ready", "work", "ended"}
Snapshots == [stage : Stages, news : BOOLEAN]
Touched == Screen!Fields \cup {Screen!None, "curtain", "key", "control", "root", "tile", "row", "action", "profiles",
                        "cell", "mode", "plot", "ota"}
Hands == [down : BOOLEAN, on : Touched, stale : BOOLEAN, deeds : Nat]
KeyStates == [down : SUBSET {"A", "B"}, was : SUBSET {"A", "B"}, pend : {"A", "B", Screen!None}, combo : BOOLEAN,
              active : SUBSET {"A", "B"}, dark : BOOLEAN]
Loops == [at : {"poll", "run"}, toggle : BOOLEAN, event : BOOLEAN, held : BOOLEAN, capture : BOOLEAN]
ViewTyped ==
  /\ world \in Worlds /\ ota \in Snapshots /\ hand \in Hands /\ keys \in KeyStates /\ loop \in Loops
  /\ left \in 0 .. MaxEvents
ViewInv ==
  /\ ViewTyped /\ ViewSound(view) /\ KeysSound
  /\ view.light = "bright" => world.drawn # "lock"

\* what one part of the view leaves alone of the others
SameLock(v, w) == /\ w.locked = v.locked /\ w.suppressed = v.suppressed /\ w.fault = v.fault
                  /\ w.radio = v.radio /\ w.idle = v.idle /\ w.still = v.still
SameSheet(v, w) == w.open = v.open /\ w.closing = v.closing /\ w.moving = v.moving /\ w.sheet = v.sheet
SameTurn(v, w) == w.phase = v.phase /\ w.curtain = v.curtain
SamePage(v, w) == w.page = v.page /\ w.panels = v.panels /\ w.slide = v.slide
SameLight(v, w) == w.dim = v.dim /\ w.applied = v.applied /\ w.light = v.light /\ w.due = v.due
SameOta(v, w) == w.stage = v.stage /\ w.approved = v.approved /\ w.offered = v.offered
SameText(v, w) == w.editor = v.editor /\ w.pending = v.pending /\ w.secret = v.secret /\ w.detail = v.detail
\* all but the contact and the texts
SameStand(v, w) == /\ SameLock(v, w) /\ SameSheet(v, w) /\ SameTurn(v, w) /\ SamePage(v, w) /\ w.anims = v.anims
                   /\ SameLight(v, w) /\ SameOta(v, w) /\ w.link = v.link

(* What closing a sheet, ending a slide or a turn and dropping a contact   *)
(* leave alone, and never start.                                           *)
Stays(v, w) ==
  /\ w \in Views /\ SameLock(v, w) /\ SameLight(v, w) /\ SameOta(v, w) /\ w.page = v.page /\ w.link = v.link
  /\ (~v.open => ~w.open) /\ (v.slide = <<>> => w.slide = <<>>) /\ (v.phase = "Idle" => w.phase = "Idle")
  /\ (~v.open /\ ~v.moving => ~w.moving)

LEMMA StaysOn ==
  ASSUME NEW u, NEW v, NEW w, Stays(u, v), Stays(v, w)
  PROVE  Stays(u, w)
<1>1. SameLock(u, w) /\ SameLight(u, w) /\ SameOta(u, w)
  BY DEF Stays, SameLock, SameLight, SameOta
<1> QED BY <1>1 DEF Stays

LEMMA StaysRest ==
  ASSUME NEW v, NEW w, Stays(v, w)
  PROVE  /\ RestSound(v) => RestSound(w)
         /\ LinkSound(v) => LinkSound(w)
         /\ IdleSound(v) => IdleSound(w)
         /\ LightSound(v) => LightSound(w)
<1>1. RestSound(v) => RestSound(w)
  BY DEF Stays, SameLock, RestSound
<1>2. (LinkSound(v) => LinkSound(w)) /\ (IdleSound(v) => IdleSound(w))
  BY DEF Stays, SameLock, LinkSound, IdleSound
<1>3. LightSound(v) => LightSound(w)
  BY DEF Stays, SameLock, SameLight, LightSound, Screen!Level
<1> QED BY <1>1, <1>2, <1>3

(* So a step of that kind keeps a view if its page, sheet and texts agree. *)
LEMMA StaysCore ==
  ASSUME NEW v, NEW w, Core(v), Stays(v, w), SlideSound(w), SheetSound(w), SecretSound(w)
  PROVE  Core(w) /\ (ViewFramed(v) => ViewFramed(w))
BY StaysRest DEF Core, ViewFramed, Stays

LEMMA StandStays ==
  ASSUME NEW v, NEW w, w \in Views, SameStand(v, w)
  PROVE  /\ Stays(v, w)
         /\ SlideSound(v) => SlideSound(w)
         /\ SheetSound(v) => SheetSound(w)
         /\ TurnSound(v) => TurnSound(w)
<1>1. Stays(v, w)
  BY DEF SameStand, SameSheet, SameTurn, SamePage, Stays
<1>2. SlideSound(v) => SlideSound(w)
  BY DEF SameStand, SamePage, SlideSound
<1>3. SheetSound(v) => SheetSound(w)
  BY DEF SameStand, SameSheet, SheetSound
<1>4. TurnSound(v) => TurnSound(w)
  BY DEF SameStand, SameTurn, SameLock, TurnSound
<1> QED BY <1>1, <1>2, <1>3, <1>4

LEMMA StandCore ==
  ASSUME NEW v, NEW w, Core(v), w \in Views, SameStand(v, w), SecretSound(w)
  PROVE  /\ Core(w) /\ Stays(v, w)
         /\ ViewFramed(v) => ViewFramed(w)
         /\ ViewSound(v) => ViewSound(w)
<1>1. Stays(v, w) /\ SlideSound(w) /\ SheetSound(w) /\ (TurnSound(v) => TurnSound(w))
  BY StandStays DEF Core
<1> QED BY <1>1, StaysCore DEF ViewSound

LEMMA NoTouchIs ==
  ASSUME NEW v \in Views
  PROVE  Screen!NoTouch(v) \in Views /\ SameStand(v, Screen!NoTouch(v)) /\ SameText(v, Screen!NoTouch(v))
<1> DEFINE w == Screen!NoTouch(v)
<1>1. w \in Views
  BY DEF Screen!NoTouch, Views
<1>2. SameLock(v, w) /\ SameSheet(v, w) /\ SameTurn(v, w) /\ SamePage(v, w) /\ w.anims = v.anims
  BY DEF Screen!NoTouch, Views, SameLock, SameSheet, SameTurn, SamePage
<1>3. SameLight(v, w) /\ SameOta(v, w) /\ w.link = v.link /\ SameText(v, w)
  BY DEF Screen!NoTouch, Views, SameLight, SameOta, SameText
<1> QED BY <1>1, <1>2, <1>3 DEF SameStand

LEMMA DropPendingIs ==
  ASSUME NEW v \in Views
  PROVE  LET w == Screen!DropPending(v)
         IN /\ w \in Views /\ SameStand(v, w)
            /\ w.editor = v.editor /\ w.pending = Screen!None /\ w.secret = v.secret /\ w.detail = v.detail
<1> DEFINE w == Screen!DropPending(v)
<1>1. w \in Views
  BY DEF Screen!DropPending, Views, Screen!None
<1>2. SameLock(v, w) /\ SameSheet(v, w) /\ SameTurn(v, w) /\ SamePage(v, w) /\ w.anims = v.anims
  BY DEF Screen!DropPending, Views, SameLock, SameSheet, SameTurn, SamePage
<1>3. SameLight(v, w) /\ SameOta(v, w) /\ w.link = v.link
  BY DEF Screen!DropPending, Views, SameLight, SameOta
<1>4. w.editor = v.editor /\ w.pending = Screen!None /\ w.secret = v.secret /\ w.detail = v.detail
  BY DEF Screen!DropPending, Views
<1> QED BY <1>1, <1>2, <1>3, <1>4 DEF SameStand

LEMMA RestoreEditorIs ==
  ASSUME NEW v \in Views
  PROVE  LET w == Screen!RestoreEditor(v)
         IN /\ w \in Views /\ SameStand(v, w)
            /\ w.editor = Screen!None /\ w.pending = v.pending /\ w.secret = v.secret /\ w.detail = v.detail
<1> DEFINE w == Screen!RestoreEditor(v)
<1>1. w \in Views
  BY DEF Screen!RestoreEditor, Views, Screen!None
<1>2. SameLock(v, w) /\ SameSheet(v, w) /\ SameTurn(v, w) /\ SamePage(v, w) /\ w.anims = v.anims
  BY DEF Screen!RestoreEditor, Views, SameLock, SameSheet, SameTurn, SamePage
<1>3. SameLight(v, w) /\ SameOta(v, w) /\ w.link = v.link
  BY DEF Screen!RestoreEditor, Views, SameLight, SameOta
<1>4. w.editor = Screen!None /\ w.pending = v.pending /\ w.secret = v.secret /\ w.detail = v.detail
  BY DEF Screen!RestoreEditor, Views
<1> QED BY <1>1, <1>2, <1>3, <1>4 DEF SameStand

(* Dropping the contact, the editor or the wish for it keeps a view.       *)
LEMMA NoTouchKeeps ==
  ASSUME NEW v, Core(v)
  PROVE  LET w == Screen!NoTouch(v)
         IN Core(w) /\ Stays(v, w) /\ (ViewFramed(v) => ViewFramed(w)) /\ (ViewSound(v) => ViewSound(w))
<1> DEFINE w == Screen!NoTouch(v)
<1>1. w \in Views /\ SameStand(v, w) /\ SameText(v, w)
  BY NoTouchIs DEF Core
<1> HIDE DEF w
<1>2. SecretSound(w)
  BY <1>1 DEF Core, SecretSound, SameStand, SameSheet, SameText
<1>3. Core(w) /\ Stays(v, w) /\ (ViewFramed(v) => ViewFramed(w)) /\ (ViewSound(v) => ViewSound(w))
  BY <1>1, <1>2, StandCore
<1> QED BY <1>3 DEF w

LEMMA DropPendingKeeps ==
  ASSUME NEW v, Core(v)
  PROVE  LET w == Screen!DropPending(v)
         IN Core(w) /\ Stays(v, w) /\ (ViewFramed(v) => ViewFramed(w)) /\ (ViewSound(v) => ViewSound(w))
<1> DEFINE w == Screen!DropPending(v)
<1>1. /\ w \in Views /\ SameStand(v, w)
      /\ w.editor = v.editor /\ w.pending = Screen!None /\ w.secret = v.secret /\ w.detail = v.detail
  BY DropPendingIs DEF Core
<1> HIDE DEF w
<1>2. SecretSound(w)
  BY <1>1 DEF Core, SecretSound, SameStand, SameSheet
<1>3. Core(w) /\ Stays(v, w) /\ (ViewFramed(v) => ViewFramed(w)) /\ (ViewSound(v) => ViewSound(w))
  BY <1>1, <1>2, StandCore
<1> QED BY <1>3 DEF w

LEMMA RestoreEditorKeeps ==
  ASSUME NEW v, Core(v)
  PROVE  LET w == Screen!RestoreEditor(v)
         IN Core(w) /\ Stays(v, w) /\ (ViewFramed(v) => ViewFramed(w)) /\ (ViewSound(v) => ViewSound(w))
<1> DEFINE w == Screen!RestoreEditor(v)
<1>1. /\ w \in Views /\ SameStand(v, w)
      /\ w.editor = Screen!None /\ w.pending = v.pending /\ w.secret = v.secret /\ w.detail = v.detail
  BY RestoreEditorIs DEF Core
<1> HIDE DEF w
<1>2. SecretSound(w)
  BY <1>1 DEF Core, SecretSound, SameStand, SameSheet
<1>3. Core(w) /\ Stays(v, w) /\ (ViewFramed(v) => ViewFramed(w)) /\ (ViewSound(v) => ViewSound(w))
  BY <1>1, <1>2, StandCore
<1> QED BY <1>3 DEF w

(* A record of the view with other animations, panels and slide.           *)
LEMMA AnimsTyped ==
  ASSUME NEW v \in Views, NEW some
  PROVE  v.anims \ some \in SUBSET {"slide", "turn", "sheet", "detail"} /\ v.panels \ some \in SUBSET Pages
BY DEF Views

(* Closing the sheet takes its animation, its editor and its secret along. *)
LEMMA CloseSheetKeeps ==
  ASSUME NEW v, Core(v), NEW animate \in BOOLEAN
  PROVE  LET w == Screen!CloseSheet(v, animate)
         IN /\ Core(w) /\ ~w.open /\ w.slide = v.slide /\ w.phase = v.phase /\ (~animate => ~w.moving)
            /\ (~animate => Stays(v, w))
            /\ ViewFramed(v) => ViewFramed(w)
            /\ ViewSound(v) => ViewSound(w)
            /\ w.light = v.light
<1> DEFINE w == Screen!CloseSheet(v, animate)
<1>1. CASE ~v.open /\ ~v.moving
  <2>1. w = Screen!DropPending(v)
    BY <1>1 DEF Screen!CloseSheet
  <2>2. w \in Views /\ SameStand(v, w)
    BY <2>1, DropPendingIs DEF Core
  <2>3. Core(w) /\ Stays(v, w) /\ (ViewFramed(v) => ViewFramed(w)) /\ (ViewSound(v) => ViewSound(w))
    BY <2>1, DropPendingKeeps
  <2> HIDE DEF w
  <2>4. ~w.open /\ ~w.moving /\ w.slide = v.slide /\ w.phase = v.phase /\ w.light = v.light
    BY <2>2, <1>1 DEF SameStand, SameSheet, SamePage, SameTurn, SameLight
  <2>5. QED
    BY <2>3, <2>4 DEF w
<1>2. CASE v.open \/ v.moving
  <2> DEFINE u == Screen!NoTouch(Screen!RestoreEditor(Screen!DropPending(v)))
             x == [u EXCEPT !.anims = (@ \ {"sheet", "detail"}) \union (IF animate THEN {"sheet"} ELSE {}),
                            !.open = FALSE, !.moving = animate, !.closing = animate, !.sheet = animate,
                            !.secret = FALSE]
  <2>1. w = x
    BY <1>2 DEF Screen!CloseSheet
  <2>2. Screen!DropPending(v) \in Views /\ SameStand(v, Screen!DropPending(v)) /\ Screen!DropPending(v).pending = Screen!None
    BY DropPendingIs DEF Core
  <2>3. /\ Screen!RestoreEditor(Screen!DropPending(v)) \in Views /\ SameStand(Screen!DropPending(v), Screen!RestoreEditor(Screen!DropPending(v)))
        /\ Screen!RestoreEditor(Screen!DropPending(v)).pending = Screen!None /\ Screen!RestoreEditor(Screen!DropPending(v)).editor = Screen!None
    BY <2>2, RestoreEditorIs
  <2>4. u \in Views /\ SameStand(Screen!RestoreEditor(Screen!DropPending(v)), u) /\ u.editor = Screen!None /\ u.pending = Screen!None
    BY <2>3, NoTouchIs DEF SameText
  <2>5. SameStand(v, u)
    BY <2>2, <2>3, <2>4 DEF SameStand, SameLock, SameSheet, SameTurn, SamePage, SameLight, SameOta
  <2> HIDE DEF u
  <2> DEFINE some == (u.anims \ {"sheet", "detail"}) \union (IF animate THEN {"sheet"} ELSE {})
  <2>6. x \in Views
    <3>1. u.anims \ {"sheet", "detail"} \in SUBSET {"slide", "turn", "sheet", "detail"}
      BY <2>4, AnimsTyped
    <3>2. some \in SUBSET {"slide", "turn", "sheet", "detail"}
      BY <3>1
    <3> DEFINE y == [u EXCEPT !.anims = some]
    <3>3. x = [y EXCEPT !.open = FALSE, !.moving = animate, !.closing = animate, !.sheet = animate,
                        !.secret = FALSE]
      BY <2>4 DEF Views
    <3> HIDE DEF some
    <3>4. y \in Views
      BY <2>4, <3>2 DEF Views
    <3> HIDE DEF x, y
    <3>5. animate \in BOOLEAN
      OBVIOUS
    <3>6. [y EXCEPT !.open = FALSE, !.moving = animate, !.closing = animate, !.sheet = animate, !.secret = FALSE]
             \in Views
      BY <3>4, <3>5, ZenonT(60) DEF Views
    <3>7. QED
      BY <3>3, <3>6
  <2>7. /\ x.open = FALSE /\ x.moving = animate /\ x.closing = animate /\ x.sheet = animate /\ x.secret = FALSE
        /\ x.anims = (v.anims \ {"sheet", "detail"}) \union (IF animate THEN {"sheet"} ELSE {})
        /\ x.editor = Screen!None /\ x.pending = Screen!None
    BY <2>4, <2>5 DEF Views, SameStand
  <2>8. SameLock(v, x) /\ SameTurn(v, x) /\ SamePage(v, x)
    BY <2>4, <2>5 DEF Views, SameStand, SameLock, SameTurn, SamePage
  <2>9. SameLight(v, x) /\ SameOta(v, x) /\ x.link = v.link
    BY <2>4, <2>5 DEF Views, SameStand, SameLight, SameOta
  <2> HIDE DEF x
  <2>10. SlideSound(x)
    BY <2>7, <2>8 DEF Core, SlideSound, SamePage
  <2>11. SheetSound(x)
    BY <2>7 DEF SheetSound
  <2>12. SecretSound(x)
    BY <2>7 DEF SecretSound
  <2>13. TurnSound(v) => TurnSound(x)
    BY <2>7, <2>8 DEF TurnSound, SameTurn, SameLock
  <2>14. ~v.locked /\ v.radio = v.locked
    BY <1>2 DEF Core, RestSound
  <2>15. RestSound(x) /\ IdleSound(x) /\ (LinkSound(v) => LinkSound(x))
    BY <2>14, <2>8, <2>9 DEF RestSound, Core, IdleSound, LinkSound, SameLock, SamePage
  <2>16. LightSound(v) => LightSound(x)
    BY <2>8, <2>9 DEF LightSound, SameLight, SameLock, Screen!Level
  <2>17. Core(x)
    BY <2>6, <2>10, <2>11, <2>12, <2>15 DEF Core
  <2>18. (ViewFramed(v) => ViewFramed(x)) /\ (ViewSound(v) => ViewSound(x))
    BY <2>17, <2>15, <2>16, <2>13 DEF ViewFramed, ViewSound
  <2>19. ~animate => Stays(v, x)
    BY <2>6, <2>7, <2>8, <2>9 DEF Stays, SamePage, SameTurn
  <2>20. ~x.open /\ x.slide = v.slide /\ x.phase = v.phase /\ (~animate => ~x.moving) /\ x.light = v.light
    BY <2>7, <2>8, <2>9 DEF SamePage, SameTurn, SameLight
  <2> HIDE DEF w
  <2>21. QED
    BY <2>1, <2>17, <2>18, <2>19, <2>20 DEF w
<1>3. QED
  BY <1>1, <1>2

(* The two panels of a slide are those that it passes between.             *)
LEMMA TwoPanels ==
  ASSUME NEW p, NEW q
  PROVE  Screen!Range(<<p, q>>) = {p, q}
<1> DEFINE f == <<p, q>>
<1>1. DOMAIN f = {1, 2} /\ f[1] = p /\ f[2] = q
  OBVIOUS
<1>2. Screen!Range(f) = {f[1], f[2]}
  BY <1>1 DEF Screen!Range
<1> QED BY <1>1, <1>2

(* A slide that is given up leaves the page it was going to.               *)
LEMMA CancelSlideKeeps ==
  ASSUME NEW v, Core(v)
  PROVE  LET w == Screen!CancelSlide(v)
         IN /\ Core(w) /\ Stays(v, w) /\ w.slide = <<>>
            /\ w.open = v.open /\ w.moving = v.moving /\ w.phase = v.phase /\ w.light = v.light
            /\ ViewFramed(v) => ViewFramed(w)
            /\ ViewSound(v) => ViewSound(w)
<1> DEFINE w == Screen!CancelSlide(v)
<1>0. v \in Views /\ SlideSound(v) /\ SheetSound(v) /\ SecretSound(v)
  BY DEF Core
<1>1. w \in Views
  <2>1. /\ v.anims \ {"slide"} \in SUBSET {"slide", "turn", "sheet", "detail"}
        /\ v.panels \ (Screen!Range(v.slide) \ {v.page}) \in SUBSET Pages
    BY <1>0, AnimsTyped
  <2> DEFINE none == <<>>
             some == v.anims \ {"slide"}
             rest == v.panels \ (Screen!Range(v.slide) \ {v.page})
             y == [v EXCEPT !.anims = some]
             z == [y EXCEPT !.panels = rest]
  <2>2. none \in Seq(Pages)
    OBVIOUS
  <2>3. some \in SUBSET {"slide", "turn", "sheet", "detail"} /\ rest \in SUBSET Pages
    BY <2>1
  <2>4. w = [z EXCEPT !.slide = none]
    BY <1>0 DEF Screen!CancelSlide, Views
  <2> HIDE DEF w, some, rest
  <2>5. y \in Views
    BY <1>0, <2>3 DEF Views
  <2> HIDE DEF y
  <2>6. z \in Views
    BY <2>3, <2>5 DEF Views
  <2> HIDE DEF z
  <2> HIDE DEF none
  <2>7. [z EXCEPT !.slide = none] \in Views
    BY <2>2, <2>6, ZenonT(60) DEF Views
  <2>8. QED
    BY <2>4, <2>7
<1>2. w.slide = <<>> /\ w.anims = v.anims \ {"slide"} /\ w.panels = v.panels \ (Screen!Range(v.slide) \ {v.page}) /\ w.page = v.page
  BY <1>0 DEF Screen!CancelSlide, Views
<1>3. SameLock(v, w) /\ SameSheet(v, w) /\ SameTurn(v, w)
  BY <1>0 DEF Screen!CancelSlide, Views, SameLock, SameSheet, SameTurn
<1>4. SameLight(v, w) /\ SameOta(v, w) /\ w.link = v.link /\ SameText(v, w)
  BY <1>0 DEF Screen!CancelSlide, Views, SameLight, SameOta, SameText
<1>5. w.panels = {v.page}
  <2>1. CASE v.slide = <<>> /\ v.panels = {v.page}
    <3>1. Screen!Range(<< >>) = {}
      BY DEF Screen!Range
    <3> HIDE DEF w
    <3>2. QED
      BY <3>1, <2>1, <1>2
  <2>2. CASE \E p \in Pages \ {v.page} : v.slide = <<p, v.page>> /\ v.panels = {p, v.page}
    <3>1. PICK p \in Pages \ {v.page} : v.slide = <<p, v.page>> /\ v.panels = {p, v.page}
      BY <2>2
    <3>2. Screen!Range(v.slide) = {p, v.page}
      BY <3>1, TwoPanels
    <3> HIDE DEF w
    <3>3. QED
      BY <3>1, <3>2, <1>2
  <2>3. QED
    BY <1>0, <2>1, <2>2 DEF SlideSound
<1> HIDE DEF w
<1>6. SlideSound(w)
  BY <1>2, <1>5 DEF SlideSound
<1>7. SheetSound(w)
  BY <1>0, <1>2, <1>3 DEF SheetSound, SameSheet
<1>8. SecretSound(w)
  BY <1>0, <1>3, <1>4 DEF SecretSound, SameSheet, SameText
<1>9. TurnSound(v) => TurnSound(w)
  BY <1>2, <1>3 DEF TurnSound, SameTurn, SameLock
<1>10. Stays(v, w)
  BY <1>1, <1>2, <1>3, <1>4 DEF Stays, SameSheet, SameTurn
<1>11. Core(w) /\ (ViewFramed(v) => ViewFramed(w))
  BY <1>6, <1>7, <1>8, <1>10, StaysCore
<1>12. ViewSound(v) => ViewSound(w)
  BY <1>9, <1>11 DEF ViewSound
<1>13. w.open = v.open /\ w.moving = v.moving /\ w.phase = v.phase /\ w.light = v.light
  BY <1>3, <1>4 DEF SameSheet, SameTurn, SameLight
<1> QED BY <1>2, <1>10, <1>11, <1>12, <1>13 DEF w

(* A turn that is given up leaves no curtain, but for a fault's.           *)
LEMMA CancelTurnKeeps ==
  ASSUME NEW v, Core(v), v.fault \/ TurnSound(v)
  PROVE  LET w == Screen!CancelTurn(v)
         IN /\ Core(w) /\ Stays(v, w) /\ w.phase = "Idle" /\ TurnSound(w) /\ w.light = v.light
            /\ ViewFramed(v) => ViewSound(w)
<1> DEFINE w == Screen!CancelTurn(v)
<1>1. CASE v.fault
  <2> DEFINE a == Screen!CloseSheet(v, FALSE)
             b == Screen!CancelSlide(a)
             c == Screen!NoTouch(b)
             x == [c EXCEPT !.anims = @ \ {"turn"}, !.curtain = "black", !.phase = "Idle"]
  <2>1. w = x
    BY <1>1 DEF Screen!CancelTurn
  <2>2. Core(a) /\ Stays(v, a) /\ (ViewFramed(v) => ViewFramed(a)) /\ a.light = v.light
    BY CloseSheetKeeps
  <2> HIDE DEF a
  <2>3. Core(b) /\ Stays(a, b) /\ (ViewFramed(a) => ViewFramed(b)) /\ b.light = a.light
    BY <2>2, CancelSlideKeeps
  <2> HIDE DEF b
  <2>4. Core(c) /\ Stays(b, c) /\ (ViewFramed(b) => ViewFramed(c))
    BY <2>3, NoTouchKeeps
  <2> HIDE DEF c
  <2>5. Stays(v, c) /\ (ViewFramed(v) => ViewFramed(c))
    BY <2>2, <2>3, <2>4, StaysOn
  <2>6. x \in Views
    <3>1. c \in Views /\ c.anims \ {"turn"} \in SUBSET {"slide", "turn", "sheet", "detail"}
      BY <2>4, AnimsTyped DEF Core
    <3>2. QED
      BY <3>1 DEF Views
  <2>7. x.phase = "Idle" /\ x.curtain = "black" /\ x.anims = c.anims \ {"turn"}
    BY <2>4 DEF Core, Views
  <2>8. SameLock(c, x) /\ SameSheet(c, x) /\ SamePage(c, x)
    BY <2>4 DEF Core, Views, SameLock, SameSheet, SamePage
  <2>9. SameLight(c, x) /\ SameOta(c, x) /\ x.link = c.link /\ SameText(c, x)
    BY <2>4 DEF Core, Views, SameLight, SameOta, SameText
  <2> HIDE DEF x
  <2>10. Stays(c, x)
    BY <2>6, <2>7, <2>8, <2>9 DEF Stays, SameSheet, SamePage
  <2>11. SlideSound(x)
    BY <2>4, <2>7, <2>8 DEF Core, SlideSound, SamePage
  <2>12. SheetSound(x)
    BY <2>4, <2>7, <2>8 DEF Core, SheetSound, SameSheet
  <2>13. SecretSound(x)
    BY <2>4, <2>8, <2>9 DEF Core, SecretSound, SameSheet, SameText
  <2>14. Core(x) /\ (ViewFramed(c) => ViewFramed(x))
    BY <2>4, <2>10, <2>11, <2>12, <2>13, StaysCore
  <2>15. Stays(v, x)
    BY <2>5, <2>10, StaysOn
  <2>16. x.fault
    BY <1>1, <2>15 DEF Stays, SameLock
  <2>17. TurnSound(x)
    BY <2>16, <2>7 DEF TurnSound
  <2>18. x.light = v.light
    BY <2>15 DEF Stays, SameLight
  <2> HIDE DEF w
  <2>19. QED
    BY <2>1, <2>5, <2>7, <2>14, <2>15, <2>17, <2>18 DEF w, ViewSound
<1>2. CASE ~v.fault /\ v.phase = "Idle"
  <2>1. w = v
    BY <1>2 DEF Screen!CancelTurn
  <2>2. Stays(v, v)
    BY DEF Stays, Core, SameLock, SameLight, SameOta
  <2> HIDE DEF w
  <2>3. QED
    BY <2>1, <2>2, <1>2 DEF w, ViewSound
<1>3. CASE ~v.fault /\ v.phase # "Idle"
  <2> DEFINE c == Screen!NoTouch(v)
             x == [c EXCEPT !.anims = @ \ {"turn"}, !.curtain = "off", !.phase = "Idle"]
  <2>1. w = x
    BY <1>3 DEF Screen!CancelTurn
  <2>2. Core(c) /\ Stays(v, c) /\ (ViewFramed(v) => ViewFramed(c))
    BY NoTouchKeeps
  <2> HIDE DEF c
  <2>6. x \in Views
    <3>1. c \in Views /\ c.anims \ {"turn"} \in SUBSET {"slide", "turn", "sheet", "detail"}
      BY <2>2, AnimsTyped DEF Core
    <3>2. QED
      BY <3>1 DEF Views
  <2>7. x.phase = "Idle" /\ x.curtain = "off" /\ x.anims = c.anims \ {"turn"}
    BY <2>2 DEF Core, Views
  <2>8. SameLock(c, x) /\ SameSheet(c, x) /\ SamePage(c, x)
    BY <2>2 DEF Core, Views, SameLock, SameSheet, SamePage
  <2>9. SameLight(c, x) /\ SameOta(c, x) /\ x.link = c.link /\ SameText(c, x)
    BY <2>2 DEF Core, Views, SameLight, SameOta, SameText
  <2> HIDE DEF x
  <2>10. Stays(c, x)
    BY <2>6, <2>7, <2>8, <2>9 DEF Stays, SameSheet, SamePage
  <2>11. SlideSound(x)
    BY <2>2, <2>7, <2>8 DEF Core, SlideSound, SamePage
  <2>12. SheetSound(x)
    BY <2>2, <2>7, <2>8 DEF Core, SheetSound, SameSheet
  <2>13. SecretSound(x)
    BY <2>2, <2>8, <2>9 DEF Core, SecretSound, SameSheet, SameText
  <2>14. Core(x) /\ (ViewFramed(c) => ViewFramed(x))
    BY <2>2, <2>10, <2>11, <2>12, <2>13, StaysCore
  <2>15. Stays(v, x)
    BY <2>2, <2>10, StaysOn
  <2>16. ~x.fault
    BY <1>3, <2>15 DEF Stays, SameLock
  <2>17. TurnSound(x)
    BY <2>16, <2>7 DEF TurnSound
  <2>18. x.light = v.light
    BY <2>15 DEF Stays, SameLight
  <2> HIDE DEF w
  <2>19. QED
    BY <2>1, <2>2, <2>7, <2>14, <2>15, <2>17, <2>18 DEF w, ViewSound
<1>4. QED
  BY <1>1, <1>2, <1>3

\* all but the light and the lease
SameBody(v, w) == /\ w \in Views /\ SameLock(v, w) /\ SameSheet(v, w) /\ SameTurn(v, w) /\ SamePage(v, w)
                  /\ SameOta(v, w) /\ SameText(v, w) /\ w.anims = v.anims

LEMMA BodyCore ==
  ASSUME NEW v, NEW w, SameBody(v, w)
  PROVE  /\ Core(v) => Core(w)
         /\ TurnSound(v) => TurnSound(w)
         /\ w.link = v.link /\ LinkSound(v) => LinkSound(w)
         /\ SameLight(v, w) /\ LightSound(v) => LightSound(w)
<1>1. SlideSound(v) => SlideSound(w)
  BY DEF SameBody, SamePage, SlideSound
<1>2. SheetSound(v) => SheetSound(w)
  BY DEF SameBody, SameSheet, SheetSound
<1>3. RestSound(v) => RestSound(w)
  BY DEF SameBody, SameLock, SameSheet, SamePage, SameTurn, RestSound
<1>4. (IdleSound(v) => IdleSound(w)) /\ (w.link = v.link /\ LinkSound(v) => LinkSound(w))
  BY DEF SameBody, SameLock, SamePage, IdleSound, LinkSound
<1>5. SecretSound(v) => SecretSound(w)
  BY DEF SameBody, SameSheet, SameText, SecretSound
<1>6. TurnSound(v) => TurnSound(w)
  BY DEF SameBody, SameTurn, SameLock, TurnSound
<1>7. SameLight(v, w) /\ LightSound(v) => LightSound(w)
  BY DEF SameBody, SameLight, SameLock, LightSound, Screen!Level
<1>8. Core(v) => Core(w)
  BY <1>1, <1>2, <1>3, <1>4, <1>5 DEF Core, SameBody
<1> QED BY <1>4, <1>6, <1>7, <1>8

(* The session lease is granted to the page that may have it.              *)
LEMMA LeaseIs ==
  ASSUME NEW v \in Views
  PROVE  SameBody(v, Screen!Lease(v)) /\ SameLight(v, Screen!Lease(v)) /\ LinkSound(Screen!Lease(v))
<1> DEFINE w == Screen!Lease(v)
           b == /\ v.page = "Sessions" /\ ~v.locked /\ ~v.suppressed /\ ~v.fault /\ ~Screen!KeepAwake(v)
<1>1. w = [v EXCEPT !.link = b] /\ b \in BOOLEAN /\ (b => v.page = "Sessions" /\ ~v.locked /\ ~v.suppressed)
  BY DEF Screen!Lease
<1> HIDE DEF w, b
<1>2. w \in Views
  BY <1>1 DEF Views
<1>3. SameLock(v, w) /\ SameSheet(v, w) /\ SameTurn(v, w) /\ SamePage(v, w)
  BY <1>1 DEF Views, SameLock, SameSheet, SameTurn, SamePage
<1>4. SameOta(v, w) /\ SameText(v, w) /\ w.anims = v.anims /\ SameLight(v, w)
  BY <1>1 DEF Views, SameOta, SameText, SameLight
<1>5. w.link = b
  BY <1>1 DEF Views
<1>6. LinkSound(w)
  BY <1>1, <1>3, <1>5 DEF LinkSound, SamePage, SameLock
<1> QED BY <1>2, <1>3, <1>4, <1>6 DEF w, SameBody

LEMMA LeaseKeeps ==
  ASSUME NEW v, Core(v), LightSound(v)
  PROVE  LET w == Screen!Lease(v)
         IN /\ SameBody(v, w) /\ w.light = v.light /\ ViewFramed(w)
            /\ TurnSound(v) => ViewSound(w)
<1> DEFINE w == Screen!Lease(v)
<1>1. SameBody(v, w) /\ SameLight(v, w) /\ LinkSound(w)
  BY LeaseIs DEF Core
<1> HIDE DEF w
<1>2. Core(w) /\ LightSound(w) /\ (TurnSound(v) => TurnSound(w))
  BY <1>1, BodyCore
<1>3. ViewFramed(w) /\ (TurnSound(v) => ViewSound(w)) /\ w.light = v.light
  BY <1>1, <1>2 DEF ViewFramed, ViewSound, SameLight
<1> QED BY <1>1, <1>3 DEF w

(* setBackLightBrightness leaves the light as wanted, or waiting for it.   *)
LEMMA SetLightIs ==
  ASSUME NEW v \in Views, NEW level \in Levels
  PROVE  LET w == Screen!SetLight(v, level)
         IN /\ SameBody(v, w) /\ w.link = v.link /\ w.dim = v.dim /\ w.applied = level
            /\ IF level = "bright" /\ (v.light # "bright" \/ v.due) THEN w.due /\ w.light = v.light
               ELSE ~w.due /\ w.light = level
<1> DEFINE x == [v EXCEPT !.due = TRUE, !.applied = level]
           y == [v EXCEPT !.due = FALSE, !.light = level, !.applied = level]
<1>1. x \in Views /\ y \in Views
  <2>1. x \in Views
    BY ZenonT(60) DEF Views
  <2>2. y \in Views
    BY ZenonT(60) DEF Views
  <2>3. QED
    BY <2>1, <2>2
<1>2. x.link = v.link /\ x.dim = v.dim /\ x.applied = level /\ x.due = TRUE /\ x.light = v.light
  BY DEF Views
<1>3. y.link = v.link /\ y.dim = v.dim /\ y.applied = level /\ y.due = FALSE /\ y.light = level
  BY DEF Views
<1>4. SameLock(v, x) /\ SameSheet(v, x) /\ SameTurn(v, x) /\ SamePage(v, x)
  BY DEF Views, SameLock, SameSheet, SameTurn, SamePage
<1>5. SameLock(v, y) /\ SameSheet(v, y) /\ SameTurn(v, y) /\ SamePage(v, y)
  BY DEF Views, SameLock, SameSheet, SameTurn, SamePage
<1>6. SameOta(v, x) /\ SameText(v, x) /\ x.anims = v.anims
  BY DEF Views, SameOta, SameText
<1>7. SameOta(v, y) /\ SameText(v, y) /\ y.anims = v.anims
  BY DEF Views, SameOta, SameText
<1>8. Screen!SetLight(v, level) = IF level = "bright" /\ (v.light # "bright" \/ v.due) THEN x ELSE y
  BY DEF Screen!SetLight
<1> HIDE DEF x, y
<1>9. SameBody(v, x) /\ SameBody(v, y)
  BY <1>1, <1>4, <1>5, <1>6, <1>7 DEF SameBody
<1>10. CASE level = "bright" /\ (v.light # "bright" \/ v.due)
  <2>1. Screen!SetLight(v, level) = x
    BY <1>8, <1>10
  <2>2. QED
    BY <2>1, <1>2, <1>9, <1>10
<1>11. CASE ~(level = "bright" /\ (v.light # "bright" \/ v.due))
  <2>1. Screen!SetLight(v, level) = y
    BY <1>8, <1>11
  <2>2. QED
    BY <2>1, <1>3, <1>9, <1>11
<1> QED BY <1>10, <1>11

(* Whatever the light was, it is right once it is set to what is wanted.   *)
LEMMA SetLightKeeps ==
  ASSUME NEW v, Core(v), v.dim => v.locked, v.due => v.light # "bright", NEW level, level = Screen!Level(v)
  PROVE  LET w == Screen!SetLight(v, level)
         IN /\ SameBody(v, w) /\ w.link = v.link /\ w.dim = v.dim
            /\ Core(w) /\ LightSound(w) /\ (TurnSound(v) => TurnSound(w)) /\ (LinkSound(v) => LinkSound(w))
            /\ w.light = "bright" => v.light = "bright"
<1> DEFINE w == Screen!SetLight(v, level)
<1>1. level \in Levels /\ v \in Views
  BY DEF Screen!Level, Levels, Core
<1>2. /\ SameBody(v, w) /\ w.link = v.link /\ w.dim = v.dim /\ w.applied = level
      /\ IF level = "bright" /\ (v.light # "bright" \/ v.due) THEN w.due /\ w.light = v.light
         ELSE ~w.due /\ w.light = level
  BY <1>1, SetLightIs
<1> HIDE DEF w
<1>3. Core(w) /\ (TurnSound(v) => TurnSound(w)) /\ (LinkSound(v) => LinkSound(w))
  BY <1>2, BodyCore
<1>4. LightSound(w)
  BY <1>2 DEF LightSound, SameBody, SameLock, Screen!Level
<1>5. w.light = "bright" => v.light = "bright"
  BY <1>2
<1> QED BY <1>2, <1>3, <1>4, <1>5 DEF w

LEMMA ClearDimKeeps ==
  ASSUME NEW v, Core(v), LightSound(v)
  PROVE  LET w == Screen!ClearDim(v)
         IN /\ SameBody(v, w) /\ w.link = v.link /\ w.dim = FALSE
            /\ Core(w) /\ LightSound(w) /\ (TurnSound(v) => TurnSound(w)) /\ (LinkSound(v) => LinkSound(w))
            /\ w.light = "bright" => v.light = "bright"
<1> DEFINE w == Screen!ClearDim(v)
<1>1. CASE v.dim
  <2> DEFINE x == [v EXCEPT !.dim = FALSE]
             y == Screen!SetLight(x, Screen!Level(x))
  <2>1. w = y
    BY <1>1 DEF Screen!ClearDim
  <2>2. x \in Views /\ x.dim = FALSE /\ x.due = v.due /\ x.light = v.light /\ x.link = v.link
    BY DEF Core, Views
  <2>3. SameLock(v, x) /\ SameSheet(v, x) /\ SameTurn(v, x) /\ SamePage(v, x)
    BY DEF Core, Views, SameLock, SameSheet, SameTurn, SamePage
  <2>4. SameOta(v, x) /\ SameText(v, x) /\ x.anims = v.anims
    BY DEF Core, Views, SameOta, SameText
  <2>5. SameBody(v, x)
    BY <2>2, <2>3, <2>4 DEF SameBody
  <2> HIDE DEF x
  <2>6. Core(x) /\ (TurnSound(v) => TurnSound(x)) /\ (LinkSound(v) => LinkSound(x))
    BY <2>2, <2>5, BodyCore
  <2>7. x.due => x.light # "bright"
    BY <2>2 DEF LightSound
  <2>8. /\ SameBody(x, y) /\ y.link = x.link /\ y.dim = x.dim
        /\ Core(y) /\ LightSound(y) /\ (TurnSound(x) => TurnSound(y)) /\ (LinkSound(x) => LinkSound(y))
        /\ y.light = "bright" => x.light = "bright"
    BY <2>2, <2>6, <2>7, SetLightKeeps
  <2> HIDE DEF y
  <2>9. SameBody(v, y)
    BY <2>5, <2>8 DEF SameBody, SameLock, SameSheet, SameTurn, SamePage, SameOta, SameText
  <2> HIDE DEF w
  <2>10. QED
    BY <2>1, <2>2, <2>6, <2>8, <2>9 DEF w
<1>2. CASE ~v.dim
  <2>1. w = v
    BY <1>2 DEF Screen!ClearDim
  <2>2. v.dim = FALSE /\ v \in Views
    BY <1>2 DEF Core, Views
  <2>3. SameBody(v, v)
    BY <2>2 DEF SameBody, SameLock, SameSheet, SameTurn, SamePage, SameOta, SameText
  <2> HIDE DEF w
  <2>4. QED
    BY <2>1, <2>2, <2>3 DEF w
<1>3. QED
  BY <1>1, <1>2

\* what every step does: a whole view, and not lit where it was not
Fares(v, w) == ViewSound(w) /\ (w.light = "bright" => v.light = "bright")

LEMMA FaresOn ==
  ASSUME NEW u, NEW v, NEW w, Fares(u, v), Fares(v, w)
  PROVE  Fares(u, w)
BY DEF Fares

LEMMA FaresStill ==
  ASSUME NEW v, ViewSound(v)
  PROVE  Fares(v, v)
BY DEF Fares

(* A change of page starts from a screen with nothing on it.               *)
LEMMA ShowPageKeeps ==
  ASSUME NEW v, ViewSound(v), NEW page \in Pages
  PROVE  LET w == Screen!ShowPage(v, page)
         IN /\ Fares(v, w) /\ SameLock(v, w)
            /\ IF v.fault \/ (Screen!OtaBusy(v) /\ page # "OTA") THEN w = v
               ELSE /\ w.page = page /\ w.panels = {page} /\ w.slide = <<>>
                    /\ ~w.open /\ ~w.moving /\ w.phase = "Idle"
<1> DEFINE w == Screen!ShowPage(v, page)
<1>1. CASE v.fault \/ (Screen!OtaBusy(v) /\ page # "OTA")
  <2>1. w = v
    BY <1>1 DEF Screen!ShowPage
  <2>2. SameLock(v, v)
    BY DEF SameLock
  <2> HIDE DEF w
  <2>3. QED
    BY <1>1, <2>1, <2>2, FaresStill DEF w
<1>2. CASE ~(v.fault \/ (Screen!OtaBusy(v) /\ page # "OTA"))
  <2> DEFINE a == Screen!CloseSheet(v, FALSE)
             b == Screen!CancelTurn(a)
             c == Screen!CancelSlide(b)
             x == [c EXCEPT !.consumed = @ \/ c.tracking, !.plot = FALSE, !.tracking = FALSE,
                            !.page = page, !.panels = {page}]
             y == Screen!Lease(x)
  <2>1. w = y
    BY <1>2 DEF Screen!ShowPage
  <2>2. ViewSound(a) /\ Stays(v, a) /\ ~a.open /\ ~a.moving
    BY CloseSheetKeeps DEF ViewSound, ViewFramed
  <2> HIDE DEF a
  <2>3. ViewSound(b) /\ Stays(a, b) /\ b.phase = "Idle"
    BY <2>2, CancelTurnKeeps DEF ViewSound, ViewFramed
  <2> HIDE DEF b
  <2>4. ViewSound(c) /\ Stays(b, c) /\ c.slide = <<>>
    BY <2>3, CancelSlideKeeps DEF ViewSound, ViewFramed
  <2> HIDE DEF c
  <2>5. Stays(v, c) /\ ~c.open /\ ~c.moving /\ c.phase = "Idle" /\ SameLock(v, c) /\ c.light = v.light
    <3>1. Stays(v, b) /\ Stays(v, c)
      BY <2>2, <2>3, <2>4, StaysOn
    <3>2. ~b.open /\ ~b.moving /\ ~c.open /\ ~c.moving /\ c.phase = "Idle"
      BY <2>2, <2>3, <2>4 DEF Stays
    <3>3. QED
      BY <3>1, <3>2 DEF Stays, SameLight
  <2>6. c \in Views /\ SlideSound(c) /\ SheetSound(c) /\ RestSound(c) /\ IdleSound(c) /\ SecretSound(c)
        /\ LinkSound(c) /\ LightSound(c) /\ TurnSound(c)
    BY <2>4 DEF ViewSound, ViewFramed, Core
  <2>7. x \in Views /\ x.page = page /\ x.panels = {page} /\ x.slide = c.slide /\ x.anims = c.anims /\ x.link = c.link
    <3>1. (c.consumed \/ c.tracking) \in BOOLEAN /\ {page} \in SUBSET Pages
      OBVIOUS
    <3> DEFINE on == c.consumed \/ c.tracking
               one == {page}
    <3>2. x = [c EXCEPT !.consumed = on, !.plot = FALSE, !.tracking = FALSE, !.page = page, !.panels = one]
      BY <2>6 DEF Views
    <3>3. on \in BOOLEAN /\ one \in SUBSET Pages
      BY <3>1
    <3> HIDE DEF on, x, one
    <3>4. [c EXCEPT !.consumed = on, !.plot = FALSE, !.tracking = FALSE, !.page = page, !.panels = one] \in Views
      BY <2>6, <3>3, ZenonT(60) DEF Views
    <3>5. x.page = page /\ x.panels = one /\ x.slide = c.slide /\ x.anims = c.anims /\ x.link = c.link
      BY <2>6, <3>2 DEF Views
    <3> QED BY <3>2, <3>4, <3>5 DEF one
  <2>8. SameLock(c, x) /\ SameSheet(c, x) /\ SameTurn(c, x)
    BY <2>6 DEF Views, SameLock, SameSheet, SameTurn
  <2>9. SameText(c, x) /\ SameLight(c, x)
    BY <2>6 DEF Views, SameText, SameLight
  <2> HIDE DEF x
  <2>10. SlideSound(x)
    BY <2>4, <2>6, <2>7 DEF SlideSound
  <2>11. SheetSound(x)
    BY <2>6, <2>7, <2>8 DEF SheetSound, SameSheet
  <2>12. RestSound(x)
    BY <2>4, <2>6, <2>7, <2>8 DEF RestSound, SameSheet, SameTurn, SameLock
  <2>13. IdleSound(x) /\ SecretSound(x)
    BY <2>6, <2>8, <2>9 DEF IdleSound, SecretSound, SameText, SameLock, SameSheet
  <2>14. LightSound(x)
    BY <2>6, <2>8, <2>9 DEF LightSound, SameLight, SameLock, Screen!Level
  <2>15. TurnSound(x)
    BY <2>6, <2>7, <2>8 DEF TurnSound, SameTurn, SameLock
  <2>16. Core(x)
    BY <2>7, <2>10, <2>11, <2>12, <2>13 DEF Core
  <2>17. SameBody(x, y) /\ y.light = x.light /\ ViewSound(y)
    BY <2>14, <2>15, <2>16, LeaseKeeps
  <2> HIDE DEF y
  <2>18. SameLock(v, y)
    BY <2>5, <2>8, <2>17 DEF SameBody, SameLock
  <2>19. y.light = v.light
    BY <2>5, <2>9, <2>17 DEF SameLight
  <2>20. y.page = page /\ y.panels = {page} /\ y.slide = <<>> /\ ~y.open /\ ~y.moving /\ y.phase = "Idle"
    BY <2>4, <2>5, <2>7, <2>8, <2>17 DEF SameBody, SamePage, SameSheet, SameTurn
  <2> HIDE DEF w
  <2>21. QED
    BY <1>2, <2>1, <2>17, <2>18, <2>19, <2>20 DEF w, Fares
<1>3. QED
  BY <1>1, <1>2

LEMMA SameLockOn ==
  ASSUME NEW u, NEW v, NEW w, SameLock(u, v), SameLock(v, w)
  PROVE  SameLock(u, w)
BY DEF SameLock

(* The updater's news, the contact and what a view only remembers decide   *)
(* nothing about whether it is whole.                                      *)
LEMMA OfferKeeps ==
  ASSUME NEW v, NEW w, ViewSound(v), w \in Views, SameLock(v, w), SameSheet(v, w), SameTurn(v, w), SamePage(v, w),
         SameText(v, w), SameLight(v, w), w.anims = v.anims, w.link = v.link
  PROVE  ViewSound(w) /\ w.light = v.light
<1>1. SlideSound(w) /\ SheetSound(w) /\ SecretSound(w)
  BY DEF ViewSound, ViewFramed, Core, SlideSound, SheetSound, SecretSound, SamePage, SameSheet, SameText
<1>2. RestSound(w)
  BY DEF ViewSound, ViewFramed, Core, RestSound, SameLock, SameSheet, SamePage, SameTurn
<1>3. IdleSound(w) /\ LinkSound(w)
  BY DEF ViewSound, ViewFramed, Core, IdleSound, LinkSound, SameLock, SamePage
<1>4. LightSound(w)
  BY DEF ViewSound, ViewFramed, LightSound, Screen!Level, SameLight, SameLock
<1>5. TurnSound(w)
  BY DEF ViewSound, TurnSound, SameTurn, SameLock
<1> QED BY <1>1, <1>2, <1>3, <1>4, <1>5 DEF ViewSound, ViewFramed, Core, SameLight

\* the display unlocked and lit
Roused(v) ==
  LET w == Screen!ClearDim(v)
      still == w.suppressed \/ Screen!OtaBusy(w)
      idle == w.idle /\ world.asleep
  IN Screen!SetLight([w EXCEPT !.locked = FALSE, !.radio = FALSE, !.idle = idle, !.still = still], "bright")
Taken(v) == [v EXCEPT !.offered = FALSE]

LEMMA WakeIs ==
  ASSUME NEW v, Screen!ClearDim(v) \in Views
  PROVE  Screen!Wake(v) = IF world.trial THEN v ELSE IF v.fault THEN Screen!ClearDim(v)
                   ELSE IF Roused(v).offered THEN Screen!ShowPage(Taken(Roused(v)), "OTA") ELSE Screen!Lease(Roused(v))
<1> DEFINE w == Screen!ClearDim(v)
           x == [w EXCEPT !.locked = FALSE, !.radio = FALSE, !.idle = w.idle /\ world.asleep,
                          !.still = w.suppressed \/ Screen!OtaBusy(w)]
<1>1. x = [w EXCEPT !.locked = FALSE, !.radio = FALSE, !.idle = @ /\ world.asleep, !.still = w.suppressed \/ Screen!OtaBusy(w)]
  BY DEF Views
<1> QED
  BY <1>1 DEF Screen!Wake, Roused, Taken

LEMMA RousedKeeps ==
  ASSUME NEW v, ViewSound(v), world \in Worlds
  PROVE  /\ Screen!ClearDim(v) \in Views /\ Fares(v, Screen!ClearDim(v))
         /\ Fares(v, Roused(v)) /\ Fares(v, Taken(Roused(v)))
<1> DEFINE w == Screen!ClearDim(v)
           still == w.suppressed \/ Screen!OtaBusy(w)
           idle == w.idle /\ world.asleep
           x == [w EXCEPT !.locked = FALSE, !.radio = FALSE, !.idle = idle, !.still = still]
           y == Screen!SetLight(x, "bright")
           z == [y EXCEPT !.offered = FALSE]
<1>1. /\ v \in Views /\ w.dim = FALSE /\ Core(w) /\ LightSound(w) /\ TurnSound(w) /\ LinkSound(w)
      /\ w.light = "bright" => v.light = "bright"
  BY ClearDimKeeps DEF ViewSound, ViewFramed, Core
<1>2. Fares(v, w)
  BY <1>1 DEF Fares, ViewSound, ViewFramed
<1>3. Roused(v) = y /\ Taken(y) = z
  BY DEF Roused, Taken
<1>4. idle \in BOOLEAN /\ (idle => world.asleep) /\ still \in BOOLEAN
  BY <1>1 DEF Worlds, Core, Views
<1> HIDE DEF w
<1> HIDE DEF idle, still
<1>5. x \in Views
  <2>1. w \in Views
    BY <1>1 DEF Core
  <2>2. QED
    BY <1>4, <2>1, ZenonT(60) DEF Views
<1>6. x.locked = FALSE /\ x.radio = FALSE /\ x.idle = idle /\ x.suppressed = w.suppressed /\ x.fault = w.fault /\ x.link = w.link
  BY <1>1 DEF Core, Views
<1>7. SameSheet(w, x) /\ SameTurn(w, x) /\ SamePage(w, x) /\ SameOta(w, x)
  BY <1>1 DEF Core, Views, SameSheet, SameTurn, SamePage, SameOta
<1>8. SameLight(w, x) /\ SameText(w, x) /\ x.anims = w.anims
  BY <1>1 DEF Core, Views, SameLight, SameText
<1> HIDE DEF x
<1>9. SlideSound(x) /\ SheetSound(x) /\ SecretSound(x)
  BY <1>1, <1>7, <1>8 DEF Core, SlideSound, SheetSound, SecretSound, SamePage, SameSheet, SameText
<1>10. RestSound(x) /\ LinkSound(x)
  BY <1>1, <1>6, <1>7 DEF RestSound, LinkSound, SamePage
<1>11. IdleSound(x)
  BY <1>4, <1>6 DEF IdleSound
<1>12. TurnSound(x)
  BY <1>1, <1>6, <1>7, <1>8 DEF TurnSound, SameTurn
<1>13. Core(x)
  BY <1>5, <1>9, <1>10, <1>11 DEF Core
<1>14. x.dim = FALSE /\ (x.due => x.light # "bright") /\ x.light = w.light
  BY <1>1, <1>8 DEF LightSound, SameLight
<1>15. Screen!Level(x) = "bright"
  BY <1>6 DEF Screen!Level
<1>16. /\ Core(y) /\ LightSound(y) /\ TurnSound(y) /\ LinkSound(y)
       /\ y.light = "bright" => x.light = "bright"
  BY <1>10, <1>12, <1>13, <1>14, <1>15, SetLightKeeps
<1> HIDE DEF y
<1>17. Fares(v, y)
  BY <1>1, <1>14, <1>16 DEF Fares, ViewSound, ViewFramed
<1>19. ViewSound(z) /\ z.light = y.light
  <2>1. z \in Views
    BY <1>16 DEF Core, Views
  <2>2. SameLock(y, z) /\ SameSheet(y, z) /\ SameTurn(y, z) /\ SamePage(y, z)
    BY <1>16 DEF Core, Views, SameLock, SameSheet, SameTurn, SamePage
  <2>3. SameText(y, z) /\ SameLight(y, z) /\ z.anims = y.anims /\ z.link = y.link
    BY <1>16 DEF Core, Views, SameText, SameLight
  <2> HIDE DEF z
  <2>4. QED
    BY <2>1, <2>2, <2>3, <1>17, OfferKeeps DEF Fares
<1>20. Fares(v, z)
  BY <1>17, <1>19 DEF Fares
<1>21. w \in Views
  BY <1>1 DEF Core
<1> HIDE DEF z
<1> QED BY <1>2, <1>3, <1>17, <1>20, <1>21 DEF w

(* wakeDisplay unlocks, lights and, where an offer waits, shows it.        *)
LEMMA WakeKeeps ==
  ASSUME NEW v, ViewSound(v), world \in Worlds
  PROVE  Fares(v, Screen!Wake(v))
<1>1. /\ Screen!ClearDim(v) \in Views /\ Fares(v, Screen!ClearDim(v))
      /\ Fares(v, Roused(v)) /\ Fares(v, Taken(Roused(v)))
  BY RousedKeeps
<1>2. Fares(v, Screen!ShowPage(Taken(Roused(v)), "OTA"))
  <2>1. Fares(Taken(Roused(v)), Screen!ShowPage(Taken(Roused(v)), "OTA"))
    BY <1>1, ShowPageKeeps DEF Pages, Fares
  <2> QED BY <1>1, <2>1, FaresOn
<1>3. Fares(v, Screen!Lease(Roused(v)))
  <2>1. Core(Roused(v)) /\ LightSound(Roused(v)) /\ TurnSound(Roused(v))
    BY <1>1 DEF Fares, ViewSound, ViewFramed
  <2> QED BY <1>1, <2>1, LeaseKeeps DEF Fares
<1> QED BY <1>1, <1>2, <1>3, WakeIs, FaresStill

LEMMA SetPageKeeps ==
  ASSUME NEW v, ViewSound(v), world \in Worlds, NEW page \in Pages
  PROVE  Fares(v, Screen!SetPage(v, page))
<1> DEFINE w == Screen!ShowPage(v, page)
<1>1. Fares(v, w)
  BY ShowPageKeeps
<1>2. Screen!SetPage(v, page) = IF w.page = "OTA" /\ page = "OTA" /\ w.locked THEN Screen!Wake(w) ELSE w
  BY DEF Screen!SetPage
<1> HIDE DEF w
<1>3. Fares(w, Screen!Wake(w))
  BY <1>1, WakeKeeps DEF Fares
<1> QED BY <1>1, <1>2, <1>3, FaresOn

(* lockDisplay clears the screen before it darkens it.                     *)
LEMMA LockKeeps ==
  ASSUME NEW v, ViewSound(v)
  PROVE  Fares(v, Screen!Lock(v))
<1>1. CASE v.fault \/ v.locked \/ Screen!KeepAwake(v)
  BY <1>1, FaresStill DEF Screen!Lock
<1>2. CASE ~(v.fault \/ v.locked \/ Screen!KeepAwake(v))
  <2> DEFINE a == Screen!CancelTurn(v)
             b == Screen!CloseSheet(a, FALSE)
             c == Screen!CancelSlide(b)
             d == Screen!NoTouch(c)
             x == [d EXCEPT !.still = TRUE, !.locked = TRUE, !.radio = TRUE, !.idle = TRUE]
             y == Screen!Lease(x)
             z == Screen!SetLight(y, "lock")
  <2>1. Screen!Lock(v) = z
    BY <1>2 DEF Screen!Lock
  <2>2. ViewSound(a) /\ Stays(v, a) /\ a.phase = "Idle"
    BY CancelTurnKeeps DEF ViewSound, ViewFramed
  <2> HIDE DEF a
  <2>3. ViewSound(b) /\ Stays(a, b) /\ ~b.open /\ ~b.moving
    BY <2>2, CloseSheetKeeps DEF ViewSound, ViewFramed
  <2> HIDE DEF b
  <2>4. ViewSound(c) /\ Stays(b, c) /\ c.slide = <<>>
    BY <2>3, CancelSlideKeeps DEF ViewSound, ViewFramed
  <2> HIDE DEF c
  <2>5. ViewSound(d) /\ Stays(c, d)
    BY <2>4, NoTouchKeeps DEF ViewSound, ViewFramed
  <2> HIDE DEF d
  <2>6. d.phase = "Idle" /\ ~d.open /\ ~d.moving /\ d.slide = <<>>
    BY <2>2, <2>3, <2>4, <2>5 DEF Stays
  <2>7. Stays(v, d)
    BY <2>2, <2>3, <2>4, <2>5, StaysOn
  <2>8. d.locked = v.locked /\ ~v.locked
    BY <1>2, <2>7 DEF Stays, SameLock
  <2>9. d \in Views /\ SlideSound(d) /\ SheetSound(d) /\ SecretSound(d) /\ LightSound(d) /\ TurnSound(d)
    BY <2>5 DEF ViewSound, ViewFramed, Core
  <2>10. x \in Views /\ x.locked = TRUE /\ x.radio = TRUE /\ x.idle = TRUE /\ x.still = TRUE /\ x.fault = d.fault
    BY <2>9 DEF Views
  <2>11. SameSheet(d, x) /\ SameTurn(d, x) /\ SamePage(d, x) /\ SameOta(d, x)
    BY <2>9 DEF Views, SameSheet, SameTurn, SamePage, SameOta
  <2>12. SameLight(d, x) /\ SameText(d, x) /\ x.anims = d.anims
    BY <2>9 DEF Views, SameLight, SameText
  <2> HIDE DEF x
  <2>13. SlideSound(x) /\ SheetSound(x) /\ SecretSound(x)
    BY <2>9, <2>11, <2>12 DEF SlideSound, SheetSound, SecretSound, SamePage, SameSheet, SameText
  <2>14. RestSound(x) /\ IdleSound(x)
    BY <2>6, <2>10, <2>11 DEF RestSound, IdleSound, SameSheet, SamePage, SameTurn
  <2>15. TurnSound(x)
    BY <2>9, <2>10, <2>11, <2>12 DEF TurnSound, SameTurn
  <2>16. Core(x)
    BY <2>10, <2>13, <2>14 DEF Core
  <2>17. SameBody(x, y) /\ SameLight(x, y) /\ LinkSound(y)
    BY <2>10, LeaseIs
  <2> HIDE DEF y
  <2>18. Core(y) /\ TurnSound(y)
    BY <2>15, <2>16, <2>17, BodyCore
  <2>19. y.dim = FALSE /\ (y.due => y.light # "bright") /\ y.locked = TRUE
    BY <2>8, <2>9, <2>10, <2>12, <2>17 DEF LightSound, SameLight, SameBody, SameLock, Views
  <2>20. Screen!Level(y) = "lock"
    BY <2>19 DEF Screen!Level
  <2>21. /\ Core(z) /\ LightSound(z) /\ TurnSound(z) /\ LinkSound(z)
         /\ z.light = "bright" => y.light = "bright"
    BY <2>17, <2>18, <2>19, <2>20, SetLightKeeps
  <2>22. y.light = v.light
    BY <2>7, <2>12, <2>17 DEF SameLight, Stays
  <2> HIDE DEF z
  <2>23. QED
    BY <2>1, <2>21, <2>22 DEF Fares, ViewSound, ViewFramed
<1>3. QED
  BY <1>1, <1>2

(* What a view knows of motion polling, faults and captures.               *)
LEMMA FlagKeeps ==
  ASSUME NEW v, NEW w, Core(v), w \in Views, SameSheet(v, w), SameTurn(v, w), SamePage(v, w), SameText(v, w),
         SameLight(v, w), w.anims = v.anims, w.link = v.link, w.locked = v.locked, w.radio = v.radio, w.idle = v.idle,
         w.locked => w.still
  PROVE  /\ Core(w) /\ (LightSound(v) => LightSound(w)) /\ w.light = v.light
         /\ (w.suppressed => v.suppressed) /\ LinkSound(v) => LinkSound(w)
         /\ w.fault = v.fault /\ TurnSound(v) => TurnSound(w)
<1>1. SlideSound(w) /\ SheetSound(w) /\ SecretSound(w)
  BY DEF Core, SlideSound, SheetSound, SecretSound, SamePage, SameSheet, SameText
<1>2. RestSound(w) /\ IdleSound(w)
  BY DEF Core, RestSound, IdleSound, SameSheet, SamePage, SameTurn
<1>3. (LightSound(v) => LightSound(w)) /\ w.light = v.light
  BY DEF LightSound, Screen!Level, SameLight
<1>4. (w.suppressed => v.suppressed) /\ LinkSound(v) => LinkSound(w)
  BY DEF LinkSound, SamePage
<1>5. w.fault = v.fault /\ TurnSound(v) => TurnSound(w)
  BY DEF TurnSound, SameTurn
<1> QED BY <1>1, <1>2, <1>3, <1>4, <1>5 DEF Core

LEMMA StillKeeps ==
  ASSUME NEW v, ViewSound(v), NEW b \in BOOLEAN, b \/ ~v.locked
  PROVE  LET w == [v EXCEPT !.still = b] IN Fares(v, w) /\ w.still = b /\ SameSheet(v, w) /\ SameTurn(v, w) /\ SamePage(v, w)
<1> DEFINE w == [v EXCEPT !.still = b]
<1>1. v \in Views
  BY DEF ViewSound, ViewFramed, Core
<1>2. w \in Views
  BY <1>1, ZenonT(60) DEF Views
<1>3. SameSheet(v, w) /\ SameTurn(v, w) /\ SamePage(v, w) /\ SameText(v, w) /\ SameLight(v, w)
  BY <1>1 DEF Views, SameSheet, SameTurn, SamePage, SameText, SameLight
<1>4. /\ w.anims = v.anims /\ w.link = v.link /\ w.locked = v.locked /\ w.radio = v.radio /\ w.idle = v.idle
      /\ w.still = b /\ w.suppressed = v.suppressed /\ w.fault = v.fault
  BY <1>1 DEF Views
<1> HIDE DEF w
<1>5. ViewSound(w) /\ w.light = v.light
  BY <1>2, <1>3, <1>4, FlagKeeps DEF ViewSound, ViewFramed
<1> QED BY <1>3, <1>4, <1>5 DEF Fares, w

(* A capture takes the screen as it is, without sheet, slide or turn.      *)
LEMMA SuppressKeeps ==
  ASSUME NEW v, ViewSound(v), NEW on \in BOOLEAN
  PROVE  Fares(v, Screen!Suppress(v, on))
<1> DEFINE x == [v EXCEPT !.suppressed = on]
<1>1. v \in Views
  BY DEF ViewSound, ViewFramed, Core
<1>2. x \in Views
  BY <1>1, ZenonT(60) DEF Views
<1>3. SameSheet(v, x) /\ SameTurn(v, x) /\ SamePage(v, x) /\ SameText(v, x) /\ SameLight(v, x)
  BY <1>1 DEF Views, SameSheet, SameTurn, SamePage, SameText, SameLight
<1>4. /\ x.anims = v.anims /\ x.link = v.link /\ x.locked = v.locked /\ x.radio = v.radio /\ x.idle = v.idle
      /\ x.still = v.still /\ x.suppressed = on /\ x.fault = v.fault
  BY <1>1 DEF Views
<1>5. x.locked => x.still
  BY <1>4 DEF ViewSound, ViewFramed, Core, RestSound
<1>6. Core(x) /\ LightSound(x) /\ TurnSound(x) /\ x.light = v.light
  <2> HIDE DEF x
  <2>1. QED
    BY <1>2, <1>3, <1>4, <1>5, FlagKeeps DEF ViewSound, ViewFramed
<1>7. CASE on = TRUE
  <2> DEFINE y == Screen!ClearDim(x)
             w == Screen!Lease(y)
             a == Screen!CloseSheet(w, FALSE)
             b == Screen!NoTouch(a)
             c == Screen!CancelTurn(b)
             d == Screen!CancelSlide(c)
             e == [d EXCEPT !.still = TRUE]
  <2>1. Screen!Suppress(v, on) = e
    BY <1>7 DEF Screen!Suppress
  <2> HIDE DEF x
  <2>2. Core(y) /\ LightSound(y) /\ TurnSound(y) /\ (y.light = "bright" => x.light = "bright")
    BY <1>6, ClearDimKeeps
  <2> HIDE DEF y
  <2>3. ViewSound(w) /\ w.light = y.light
    BY <2>2, LeaseKeeps
  <2> HIDE DEF w
  <2>4. ViewSound(a) /\ a.light = w.light
    BY <2>3, CloseSheetKeeps DEF ViewSound, ViewFramed
  <2> HIDE DEF a
  <2>5. ViewSound(b) /\ Stays(a, b)
    BY <2>4, NoTouchKeeps DEF ViewSound, ViewFramed
  <2> HIDE DEF b
  <2>6. ViewSound(c) /\ c.light = b.light
    BY <2>5, CancelTurnKeeps DEF ViewSound, ViewFramed
  <2> HIDE DEF c
  <2>7. ViewSound(d) /\ d.light = c.light
    BY <2>6, CancelSlideKeeps DEF ViewSound, ViewFramed
  <2> HIDE DEF d
  <2>8. Fares(d, e)
    BY <2>7, StillKeeps
  <2> HIDE DEF e
  <2>9. QED
    BY <1>6, <2>1, <2>2, <2>3, <2>4, <2>5, <2>6, <2>7, <2>8 DEF Fares, Stays, SameLight
<1>8. CASE on = FALSE
  <2>1. Screen!Suppress(v, on) = Screen!Lease(x)
    BY <1>8 DEF Screen!Suppress
  <2> HIDE DEF x
  <2>2. ViewSound(Screen!Lease(x)) /\ Screen!Lease(x).light = x.light
    BY <1>6, LeaseKeeps
  <2>3. QED
    BY <1>6, <2>1, <2>2 DEF Fares
<1> QED BY <1>7, <1>8

(* From each page of the ring both neighbours are others.                  *)
LEMMA NextPage ==
  ASSUME NEW page \in Pages, NEW step \in {1, 3}
  PROVE  LET here == CHOOSE i \in 1 .. 4 : Screen!Ring[i] = page
         IN Screen!Ring[((here - 1 + step) % 4) + 1] \in Pages \ {page}
<1> DEFINE here == CHOOSE i \in 1 .. 4 : Screen!Ring[i] = page
<1>1. Screen!Ring[1] = "Command" /\ Screen!Ring[2] = "History" /\ Screen!Ring[3] = "OTA" /\ Screen!Ring[4] = "Sessions"
  BY DEF Screen!Ring
<1>2. \E i \in 1 .. 4 : Screen!Ring[i] = page
  BY <1>1 DEF Pages
<1>3. here \in 1 .. 4 /\ Screen!Ring[here] = page
  BY <1>2
<1> HIDE DEF here
<1>4. here \in {1, 2, 3, 4}
  BY <1>3
<1>5. CASE step = 1
  <2>1. ((here - 1 + step) % 4) + 1 = IF here = 4 THEN 1 ELSE here + 1
    BY <1>4, <1>5
  <2>2. QED
    BY <1>1, <1>3, <1>4, <2>1 DEF Pages, here
<1>6. CASE step = 3
  <2>1. ((here - 1 + step) % 4) + 1 = IF here = 1 THEN 4 ELSE here - 1
    BY <1>4, <1>6
  <2>2. QED
    BY <1>1, <1>3, <1>4, <2>1 DEF Pages, here
<1> QED BY <1>5, <1>6

(* A swipe slides from the page that was to its neighbour.                 *)
LEMMA NavigateKeeps ==
  ASSUME NEW v, ViewSound(v), NEW step \in {1, 3}
  PROVE  Fares(v, Screen!Navigate(v, step))
<1>1. CASE Screen!Blocked(v) \/ v.open
  BY <1>1, FaresStill DEF Screen!Navigate
<1>2. CASE ~(Screen!Blocked(v) \/ v.open)
  <2> DEFINE here == CHOOSE i \in 1 .. 4 : Screen!Ring[i] = v.page
             next == Screen!Ring[((here - 1 + step) % 4) + 1]
             w == Screen!ShowPage(v, next)
             way == <<v.page, next>>
             both == {v.page, next}
             some == w.anims \union {"slide"}
             x == [w EXCEPT !.slide = way, !.panels = both, !.anims = some]
  <2>1. Screen!Navigate(v, step) = x
    BY <1>2 DEF Screen!Navigate
  <2>2. v \in Views /\ v.page \in Pages
    BY DEF ViewSound, ViewFramed, Core, Views
  <2>3. next \in Pages /\ next # v.page
    BY <2>2, NextPage
  <2> HIDE DEF next
  <2>4. ~v.fault /\ ~Screen!OtaBusy(v) /\ ~v.locked
    BY <1>2 DEF Screen!Blocked
  <2>5. /\ Fares(v, w) /\ SameLock(v, w) /\ w.page = next /\ w.slide = <<>> /\ ~w.open /\ ~w.moving /\ w.phase = "Idle"
    BY <2>3, <2>4, ShowPageKeeps
  <2> HIDE DEF w
  <2>6. w \in Views /\ SheetSound(w) /\ RestSound(w) /\ IdleSound(w) /\ SecretSound(w)
        /\ LinkSound(w) /\ LightSound(w) /\ TurnSound(w)
    BY <2>5 DEF Fares, ViewSound, ViewFramed, Core
  <2>7. way \in Seq(Pages) /\ both \in SUBSET Pages
    BY <2>2, <2>3
  <2>8. some \in SUBSET {"slide", "turn", "sheet", "detail"}
    BY <2>6 DEF Views
  <2>9. way # <<>>
    OBVIOUS
  <2> HIDE DEF way, both, some
  <2>10. x \in Views
    BY <2>6, <2>7, <2>8, ZenonT(60) DEF Views
  <2>11. x.page = w.page /\ x.panels = both /\ x.slide = way /\ x.anims = some /\ x.link = w.link
    BY <2>6 DEF Views
  <2>12. SameLock(w, x) /\ SameSheet(w, x) /\ SameTurn(w, x)
    BY <2>6 DEF Views, SameLock, SameSheet, SameTurn
  <2>13. SameText(w, x) /\ SameLight(w, x)
    BY <2>6 DEF Views, SameText, SameLight
  <2> HIDE DEF x
  <2>14. SlideSound(x)
    <3>1. v.page \in Pages \ {x.page} /\ x.slide = <<v.page, x.page>> /\ x.panels = {v.page, x.page}
      BY <2>2, <2>3, <2>5, <2>11 DEF way, both
    <3>2. x.slide # <<>> /\ "slide" \in x.anims
      BY <2>9, <2>11 DEF some
    <3>3. QED
      BY <3>1, <3>2 DEF SlideSound
  <2>15. SheetSound(x)
    BY <2>6, <2>11, <2>12 DEF SheetSound, SameSheet, some
  <2>16. RestSound(x)
    BY <2>4, <2>5, <2>6, <2>12 DEF RestSound, SameLock
  <2>17. IdleSound(x) /\ SecretSound(x)
    BY <2>6, <2>12, <2>13 DEF IdleSound, SecretSound, SameText, SameLock, SameSheet
  <2>18. LightSound(x)
    BY <2>6, <2>12, <2>13 DEF LightSound, SameLight, SameLock, Screen!Level
  <2>19. LinkSound(x)
    BY <2>6, <2>11, <2>12 DEF LinkSound, SameLock
  <2>20. TurnSound(x)
    BY <2>6, <2>11, <2>12 DEF TurnSound, SameTurn, SameLock, some
  <2>21. x.light = w.light
    BY <2>13 DEF SameLight
  <2>22. QED
    BY <2>1, <2>5, <2>10, <2>14, <2>15, <2>16, <2>17, <2>18, <2>19, <2>20, <2>21
       DEF Fares, ViewSound, ViewFramed, Core
<1>3. QED
  BY <1>1, <1>2

(* The key's toggle wakes, closes the sheet or goes to the next page.      *)
LEMMA ToggleKeeps ==
  ASSUME NEW v, ViewSound(v), world \in Worlds
  PROVE  Fares(v, Screen!Toggle(v))
<1>1. Fares(v, v) /\ Fares(v, Screen!Wake(v)) /\ Fares(v, Screen!Navigate(v, 1))
  BY FaresStill, WakeKeeps, NavigateKeeps
<1>2. Fares(v, Screen!CloseSheet(v, TRUE))
  BY CloseSheetKeeps DEF Fares, ViewSound, ViewFramed
<1> QED BY <1>1, <1>2, Zenon DEF Screen!Toggle

(* The sheet's page changes; an editor on it is closed.                    *)
LEMMA ShowDetailIs ==
  ASSUME NEW v \in Views, NEW detail \in 0 .. 4
  PROVE  LET w == Screen!ShowDetail(v, detail)
         IN w \in Views /\ SameStand(v, w) /\ w.editor = Screen!None /\ w.pending = Screen!None /\ w.secret = v.secret
<1> DEFINE u == Screen!RestoreEditor(Screen!DropPending(v))
           w == [u EXCEPT !.detail = detail]
<1>1. Screen!ShowDetail(v, detail) = w
  BY DEF Screen!ShowDetail
<1>2. Screen!DropPending(v) \in Views /\ SameStand(v, Screen!DropPending(v)) /\ Screen!DropPending(v).pending = Screen!None /\ Screen!DropPending(v).secret = v.secret
  BY DropPendingIs
<1>3. u \in Views /\ SameStand(Screen!DropPending(v), u) /\ u.pending = Screen!None /\ u.editor = Screen!None /\ u.secret = v.secret
  BY <1>2, RestoreEditorIs
<1> HIDE DEF u
<1>4. w \in Views
  BY <1>3, ZenonT(60) DEF Views
<1>5. SameLock(u, w) /\ SameSheet(u, w) /\ SameTurn(u, w) /\ SamePage(u, w) /\ w.anims = u.anims
  BY <1>3 DEF Views, SameLock, SameSheet, SameTurn, SamePage
<1>6. SameLight(u, w) /\ SameOta(u, w) /\ w.link = u.link /\ w.editor = u.editor /\ w.pending = u.pending /\ w.secret = u.secret
  BY <1>3 DEF Views, SameLight, SameOta
<1> HIDE DEF w
<1>7. SameStand(v, w)
  BY <1>2, <1>3, <1>5, <1>6 DEF SameStand, SameLock, SameSheet, SameTurn, SamePage, SameLight, SameOta
<1> QED BY <1>1, <1>3, <1>4, <1>6, <1>7

(* The sheet opens over a screen at rest.                                  *)
LEMMA OpenSheetKeeps ==
  ASSUME NEW v, ViewSound(v)
  PROVE  Fares(v, Screen!OpenSheet(v))
<1>1. CASE Screen!Blocked(v) \/ v.open
  BY <1>1, FaresStill DEF Screen!OpenSheet
<1>2. CASE ~(Screen!Blocked(v) \/ v.open)
  <2> DEFINE d == Screen!ShowDetail(v, 0)
             u == Screen!NoTouch(d)
             some == u.anims \union {"sheet"}
             x == [u EXCEPT !.open = TRUE, !.closing = FALSE, !.moving = TRUE, !.sheet = TRUE, !.anims = some]
  <2>1. Screen!OpenSheet(v) = x
    BY <1>2 DEF Screen!OpenSheet
  <2>2. /\ v \in Views /\ SlideSound(v) /\ SheetSound(v) /\ RestSound(v) /\ IdleSound(v) /\ LinkSound(v)
        /\ LightSound(v) /\ TurnSound(v)
    BY DEF ViewSound, ViewFramed, Core
  <2>3. ~v.moving /\ ~v.locked
    BY <1>2 DEF Screen!Blocked
  <2>4. d \in Views /\ SameStand(v, d) /\ d.editor = Screen!None /\ d.pending = Screen!None
    BY <2>2, ShowDetailIs
  <2> HIDE DEF d
  <2>5. u \in Views /\ SameStand(d, u) /\ u.editor = Screen!None /\ u.pending = Screen!None
    BY <2>4, NoTouchIs DEF SameText
  <2> HIDE DEF u
  <2>6. SameLock(v, u) /\ SameTurn(v, u) /\ SamePage(v, u) /\ SameLight(v, u) /\ u.anims = v.anims /\ u.link = v.link
    BY <2>4, <2>5 DEF SameStand, SameLock, SameTurn, SamePage, SameLight
  <2>7. some \in SUBSET {"slide", "turn", "sheet", "detail"}
    BY <2>5 DEF Views
  <2> HIDE DEF some
  <2>8. x \in Views
    BY <2>5, <2>7, ZenonT(90) DEF Views
  <2>9. /\ x.open = TRUE /\ x.closing = FALSE /\ x.moving = TRUE /\ x.sheet = TRUE /\ x.anims = some
        /\ x.editor = u.editor /\ x.pending = u.pending /\ x.link = u.link
    BY <2>5 DEF Views
  <2>10. SameLock(u, x) /\ SameTurn(u, x) /\ SamePage(u, x) /\ SameLight(u, x)
    BY <2>5 DEF Views, SameLock, SameTurn, SamePage, SameLight
  <2> HIDE DEF x
  <2>11. SameLock(v, x) /\ SameTurn(v, x) /\ SamePage(v, x) /\ SameLight(v, x) /\ x.link = v.link
    BY <2>6, <2>9, <2>10 DEF SameLock, SameTurn, SamePage, SameLight
  <2>12. SlideSound(x)
    BY <2>2, <2>6, <2>9, <2>11 DEF SlideSound, SamePage, some
  <2>13. SheetSound(x)
    BY <2>2, <2>3, <2>6, <2>9 DEF SheetSound, some
  <2>14. RestSound(x) /\ IdleSound(x) /\ LinkSound(x)
    BY <2>2, <2>3, <2>11 DEF RestSound, IdleSound, LinkSound, SameLock, SamePage
  <2>15. LightSound(x) /\ x.light = v.light
    BY <2>2, <2>11 DEF LightSound, SameLock, SameLight, Screen!Level
  <2>16. SecretSound(x)
    BY <2>5, <2>9 DEF SecretSound
  <2>17. TurnSound(x)
    BY <2>2, <2>6, <2>9, <2>11 DEF TurnSound, SameTurn, SameLock, some
  <2>18. QED
    BY <2>1, <2>8, <2>12, <2>13, <2>14, <2>15, <2>16, <2>17 DEF Fares, ViewSound, ViewFramed, Core
<1>3. QED
  BY <1>1, <1>2

(* What a contact sets of the view, on what stands: whether it is followed *)
(* and consumed, and which field is wished for.                            *)
LEMMA TouchKeeps ==
  ASSUME NEW v, NEW w, ViewSound(v), w \in Views, SameStand(v, w), SecretSound(w)
  PROVE  Fares(v, w)
<1>1. ViewSound(w)
  BY StandCore DEF ViewSound, ViewFramed
<1> QED BY <1>1 DEF Fares, SameStand, SameLight

LEMMA FollowKeeps ==
  ASSUME NEW v, ViewSound(v), NEW plot \in BOOLEAN, NEW tracking \in BOOLEAN, NEW consumed \in BOOLEAN,
         NEW onEditor \in BOOLEAN
  PROVE  /\ Fares(v, [v EXCEPT !.plot = plot, !.tracking = tracking, !.consumed = consumed, !.onEditor = onEditor])
         /\ Fares(v, [v EXCEPT !.plot = plot])
         /\ Fares(v, [v EXCEPT !.plot = plot, !.tracking = tracking])
         /\ Fares(v, [v EXCEPT !.tracking = tracking])
         /\ Fares(v, [v EXCEPT !.consumed = consumed])
<1> DEFINE a == [v EXCEPT !.plot = plot, !.tracking = tracking, !.consumed = consumed, !.onEditor = onEditor]
           b == [v EXCEPT !.plot = plot]
           c == [v EXCEPT !.plot = plot, !.tracking = tracking]
           d == [v EXCEPT !.tracking = tracking]
           e == [v EXCEPT !.consumed = consumed]
<1>0. v \in Views /\ SecretSound(v)
  BY DEF ViewSound, ViewFramed, Core
<1>1. Fares(v, a)
  <2>1. a \in Views
    BY <1>0, ZenonT(60) DEF Views
  <2>2. SameLock(v, a) /\ SameSheet(v, a) /\ SameTurn(v, a) /\ SamePage(v, a) /\ a.anims = v.anims
    BY <1>0 DEF Views, SameLock, SameSheet, SameTurn, SamePage
  <2>3. SameLight(v, a) /\ SameOta(v, a) /\ a.link = v.link /\ SameText(v, a)
    BY <1>0 DEF Views, SameLight, SameOta, SameText
  <2> HIDE DEF a
  <2>4. QED
    BY <1>0, <2>1, <2>2, <2>3, TouchKeeps DEF SameStand, SecretSound, SameText, SameSheet
<1>2. Fares(v, b)
  <2>1. b \in Views
    BY <1>0, ZenonT(60) DEF Views
  <2>2. SameLock(v, b) /\ SameSheet(v, b) /\ SameTurn(v, b) /\ SamePage(v, b) /\ b.anims = v.anims
    BY <1>0 DEF Views, SameLock, SameSheet, SameTurn, SamePage
  <2>3. SameLight(v, b) /\ SameOta(v, b) /\ b.link = v.link /\ SameText(v, b)
    BY <1>0 DEF Views, SameLight, SameOta, SameText
  <2> HIDE DEF b
  <2>4. QED
    BY <1>0, <2>1, <2>2, <2>3, TouchKeeps DEF SameStand, SecretSound, SameText, SameSheet
<1>3. Fares(v, c)
  <2>1. c \in Views
    BY <1>0, ZenonT(60) DEF Views
  <2>2. SameLock(v, c) /\ SameSheet(v, c) /\ SameTurn(v, c) /\ SamePage(v, c) /\ c.anims = v.anims
    BY <1>0 DEF Views, SameLock, SameSheet, SameTurn, SamePage
  <2>3. SameLight(v, c) /\ SameOta(v, c) /\ c.link = v.link /\ SameText(v, c)
    BY <1>0 DEF Views, SameLight, SameOta, SameText
  <2> HIDE DEF c
  <2>4. QED
    BY <1>0, <2>1, <2>2, <2>3, TouchKeeps DEF SameStand, SecretSound, SameText, SameSheet
<1>4. Fares(v, d)
  <2>1. d \in Views
    BY <1>0, ZenonT(60) DEF Views
  <2>2. SameLock(v, d) /\ SameSheet(v, d) /\ SameTurn(v, d) /\ SamePage(v, d) /\ d.anims = v.anims
    BY <1>0 DEF Views, SameLock, SameSheet, SameTurn, SamePage
  <2>3. SameLight(v, d) /\ SameOta(v, d) /\ d.link = v.link /\ SameText(v, d)
    BY <1>0 DEF Views, SameLight, SameOta, SameText
  <2> HIDE DEF d
  <2>4. QED
    BY <1>0, <2>1, <2>2, <2>3, TouchKeeps DEF SameStand, SecretSound, SameText, SameSheet
<1>5. Fares(v, e)
  <2>1. e \in Views
    BY <1>0, ZenonT(60) DEF Views
  <2>2. SameLock(v, e) /\ SameSheet(v, e) /\ SameTurn(v, e) /\ SamePage(v, e) /\ e.anims = v.anims
    BY <1>0 DEF Views, SameLock, SameSheet, SameTurn, SamePage
  <2>3. SameLight(v, e) /\ SameOta(v, e) /\ e.link = v.link /\ SameText(v, e)
    BY <1>0 DEF Views, SameLight, SameOta, SameText
  <2> HIDE DEF e
  <2>4. QED
    BY <1>0, <2>1, <2>2, <2>3, TouchKeeps DEF SameStand, SecretSound, SameText, SameSheet
<1> QED BY <1>1, <1>2, <1>3, <1>4, <1>5

LEMMA DroppedFares ==
  ASSUME NEW v, ViewSound(v)
  PROVE  /\ Fares(v, Screen!NoTouch(v)) /\ Fares(v, Screen!DropPending(v)) /\ Fares(v, Screen!RestoreEditor(v))
         /\ Fares(v, Screen!DropPending(Screen!NoTouch(v))) /\ Fares(v, Screen!RestoreEditor(Screen!DropPending(v)))
<1>1. ASSUME NEW u, ViewSound(u)
      PROVE  Fares(u, Screen!NoTouch(u)) /\ Fares(u, Screen!DropPending(u)) /\ Fares(u, Screen!RestoreEditor(u))
  BY <1>1, NoTouchKeeps, DropPendingKeeps, RestoreEditorKeeps DEF Fares, ViewSound, ViewFramed, Stays, SameLight
<1>2. Fares(v, Screen!NoTouch(v)) /\ Fares(v, Screen!DropPending(v)) /\ Fares(v, Screen!RestoreEditor(v))
  BY <1>1
<1>3. Fares(Screen!NoTouch(v), Screen!DropPending(Screen!NoTouch(v))) /\ Fares(Screen!DropPending(v), Screen!RestoreEditor(Screen!DropPending(v)))
  BY <1>1, <1>2 DEF Fares
<1> QED BY <1>2, <1>3, FaresOn

(* The root follows a contact, unless it is blocked.                       *)
LEMMA RootPressKeeps ==
  ASSUME NEW v, ViewSound(v), NEW on
  PROVE  Fares(v, Screen!RootPress(v, on))
<1> DEFINE w == IF v.released THEN Screen!DropPending(v) ELSE v
           edit == w.open /\ w.detail = 4 /\ on \in Screen!Fields \union {"profiles"}
           x == [Screen!NoTouch(w) EXCEPT !.plot = TRUE]
           y == [w EXCEPT !.plot = FALSE, !.tracking = TRUE, !.consumed = FALSE, !.onEditor = edit]
<1>1. Fares(v, w)
  BY FaresStill, DroppedFares
<1>2. Fares(v, Screen!DropPending(Screen!NoTouch(v)))
  BY DroppedFares
<1>3. edit \in BOOLEAN
  BY <1>1 DEF Fares, ViewSound, ViewFramed, Core, Views
<1>4. Screen!RootPress(v, on) = IF Screen!Blocked(v) THEN Screen!DropPending(Screen!NoTouch(v))
                         ELSE IF on = "plot" /\ w.page = "History" /\ ~w.open THEN x ELSE y
  BY Zenon DEF Screen!RootPress
<1> HIDE DEF w, edit
<1>5. Fares(v, x)
  <2>1. Fares(w, Screen!NoTouch(w))
    BY <1>1, DroppedFares DEF Fares
  <2>2. Fares(Screen!NoTouch(w), x)
    BY <2>1, FollowKeeps DEF Fares
  <2> HIDE DEF x
  <2>3. QED
    BY <1>1, <2>1, <2>2, FaresOn
<1>6. Fares(v, y)
  <2>1. Fares(w, y)
    BY <1>1, <1>3, FollowKeeps DEF Fares
  <2> HIDE DEF y
  <2>2. QED
    BY <1>1, <2>1, FaresOn
<1> HIDE DEF x, y
<1> QED BY <1>2, <1>4, <1>5, <1>6

(* A drag opens or closes the sheet, or slides to a neighbour.             *)
LEMMA RootDragKeeps ==
  ASSUME NEW v, ViewSound(v), NEW way
  PROVE  Fares(v, Screen!RootDrag(v, way))
<1> DEFINE u == [v EXCEPT !.consumed = TRUE]
           w == Screen!DropPending(u)
           end == [w EXCEPT !.tracking = FALSE]
<1>1. Fares(v, u)
  BY FollowKeeps
<1>2. Screen!RootDrag(v, way) \in {Screen!DropPending(Screen!NoTouch(v)), v, w, Screen!OpenSheet(end), Screen!CloseSheet(end, TRUE),
                            Screen!Navigate(end, 1), Screen!Navigate(end, 3), end}
  BY Zenon DEF Screen!RootDrag
<1> HIDE DEF u
<1>3. Fares(v, w)
  BY <1>1, DroppedFares, FaresOn DEF Fares
<1> HIDE DEF w
<1>4. Fares(w, end)
  BY <1>3, FollowKeeps DEF Fares
<1> HIDE DEF end
<1>5. Fares(v, end)
  BY <1>3, <1>4, FaresOn
<1>6. Fares(end, Screen!OpenSheet(end)) /\ Fares(end, Screen!Navigate(end, 1)) /\ Fares(end, Screen!Navigate(end, 3))
  BY <1>5, OpenSheetKeeps, NavigateKeeps DEF Fares
<1>7. Fares(end, Screen!CloseSheet(end, TRUE))
  BY <1>5, CloseSheetKeeps DEF Fares, ViewSound, ViewFramed
<1>8. Fares(v, Screen!DropPending(Screen!NoTouch(v))) /\ Fares(v, v)
  BY DroppedFares, FaresStill
<1>9. /\ Fares(v, Screen!OpenSheet(end)) /\ Fares(v, Screen!Navigate(end, 1)) /\ Fares(v, Screen!Navigate(end, 3))
      /\ Fares(v, Screen!CloseSheet(end, TRUE))
  BY <1>5, <1>6, <1>7, FaresOn
<1> QED BY <1>2, <1>3, <1>5, <1>8, <1>9

LEMMA RootEndKeeps ==
  ASSUME NEW v, ViewSound(v), NEW lost \in BOOLEAN
  PROVE  Fares(v, Screen!RootEnd(v, lost))
<1> DEFINE u == [v EXCEPT !.consumed = TRUE]
           w == IF lost THEN Screen!DropPending(u) ELSE v
           x == [w EXCEPT !.plot = FALSE, !.tracking = FALSE]
<1>1. Fares(v, u)
  BY FollowKeeps
<1>2. Screen!RootEnd(v, lost) = IF Screen!Blocked(v) THEN Screen!DropPending(Screen!NoTouch(v)) ELSE x
  BY DEF Screen!RootEnd
<1> HIDE DEF u
<1>3. Fares(v, Screen!DropPending(u))
  BY <1>1, DroppedFares, FaresOn DEF Fares
<1>4. Fares(v, w)
  BY <1>3, FaresStill
<1> HIDE DEF w
<1>5. Fares(w, x)
  BY <1>4, FollowKeeps DEF Fares
<1> HIDE DEF x
<1>6. Fares(v, x)
  BY <1>4, <1>5, FaresOn
<1>7. Fares(v, Screen!DropPending(Screen!NoTouch(v)))
  BY DroppedFares
<1> QED BY <1>2, <1>6, <1>7

(* The wish for an editor is only ever made on the open Wi-Fi sheet.       *)
LEMMA WishKeeps ==
  ASSUME NEW v, ViewSound(v), NEW field \in Screen!Fields, NEW released \in BOOLEAN
  PROVE  /\ v.open /\ v.detail = 4 =>
              /\ Fares(v, [v EXCEPT !.pending = field])
              /\ Fares(v, [v EXCEPT !.pending = field, !.released = released])
         /\ Fares(v, [v EXCEPT !.released = released])
<1> DEFINE a == [v EXCEPT !.pending = field]
           b == [v EXCEPT !.pending = field, !.released = released]
           c == [v EXCEPT !.released = released]
<1>0. v \in Views /\ SecretSound(v)
  BY DEF ViewSound, ViewFramed, Core
<1>1. ASSUME v.open /\ v.detail = 4
      PROVE  Fares(v, a)
  <2>1. a \in Views
    BY <1>0, ZenonT(60) DEF Views
  <2>2. SameLock(v, a) /\ SameSheet(v, a) /\ SameTurn(v, a) /\ SamePage(v, a) /\ a.anims = v.anims
    BY <1>0 DEF Views, SameLock, SameSheet, SameTurn, SamePage
  <2>3. SameLight(v, a) /\ SameOta(v, a) /\ a.link = v.link /\ a.editor = v.editor /\ a.secret = v.secret /\ a.detail = v.detail
    BY <1>0 DEF Views, SameLight, SameOta
  <2> HIDE DEF a
  <2>4. SecretSound(a)
    BY <1>0, <1>1, <2>2, <2>3 DEF SecretSound, SameSheet
  <2>5. QED
    BY <2>1, <2>2, <2>3, <2>4, TouchKeeps DEF SameStand
<1>2. ASSUME v.open /\ v.detail = 4
      PROVE  Fares(v, b)
  <2>1. b \in Views
    BY <1>0, ZenonT(60) DEF Views
  <2>2. SameLock(v, b) /\ SameSheet(v, b) /\ SameTurn(v, b) /\ SamePage(v, b) /\ b.anims = v.anims
    BY <1>0 DEF Views, SameLock, SameSheet, SameTurn, SamePage
  <2>3. SameLight(v, b) /\ SameOta(v, b) /\ b.link = v.link /\ b.editor = v.editor /\ b.secret = v.secret /\ b.detail = v.detail
    BY <1>0 DEF Views, SameLight, SameOta
  <2> HIDE DEF b
  <2>4. SecretSound(b)
    BY <1>0, <1>2, <2>2, <2>3 DEF SecretSound, SameSheet
  <2>5. QED
    BY <2>1, <2>2, <2>3, <2>4, TouchKeeps DEF SameStand
<1>3. Fares(v, c)
  <2>1. c \in Views
    BY <1>0, ZenonT(60) DEF Views
  <2>2. SameLock(v, c) /\ SameSheet(v, c) /\ SameTurn(v, c) /\ SamePage(v, c) /\ c.anims = v.anims
    BY <1>0 DEF Views, SameLock, SameSheet, SameTurn, SamePage
  <2>3. SameLight(v, c) /\ SameOta(v, c) /\ c.link = v.link /\ SameText(v, c)
    BY <1>0 DEF Views, SameLight, SameOta, SameText
  <2> HIDE DEF c
  <2>4. SecretSound(c)
    BY <1>0, <2>2, <2>3 DEF SecretSound, SameSheet, SameText
  <2>5. QED
    BY <2>1, <2>2, <2>3, <2>4, TouchKeeps DEF SameStand
<1> QED BY <1>1, <1>2, <1>3

LEMMA FieldKeeps ==
  ASSUME NEW v, ViewSound(v), NEW field \in Screen!Fields
  PROVE  Fares(v, Screen!FieldPress(v, field)) /\ Fares(v, Screen!FieldRelease(v, field)) /\ Fares(v, Screen!FieldClick(v, field))
<1>1. Fares(v, Screen!DropPending(v)) /\ Fares(v, v)
  BY DroppedFares, FaresStill
<1>2. Fares(v, Screen!FieldPress(v, field))
  <2> DEFINE w == Screen!DropPending(v)
             x == [w EXCEPT !.pending = field]
  <2>1. Screen!FieldPress(v, field) = IF Screen!EditorGuards(w) \/ w.editor # Screen!None THEN w ELSE x
    BY DEF Screen!FieldPress
  <2>2. Fares(v, w)
    BY <1>1
  <2> HIDE DEF w
  <2>3. ~Screen!EditorGuards(w) => Fares(w, x)
    BY <2>2, WishKeeps DEF Screen!EditorGuards, Fares
  <2> HIDE DEF x
  <2>4. QED
    BY <2>1, <2>2, <2>3, FaresOn
<1>3. Fares(v, Screen!FieldRelease(v, field))
  <2>1. Fares(v, [v EXCEPT !.released = TRUE])
    BY WishKeeps
  <2>2. QED
    BY <1>1, <2>1, Zenon DEF Screen!FieldRelease
<1>4. Fares(v, Screen!FieldClick(v, field))
  <2>1. ~Screen!EditorGuards(v) => Fares(v, [v EXCEPT !.pending = field, !.released = TRUE])
    BY WishKeeps DEF Screen!EditorGuards
  <2>2. QED
    BY <1>1, <2>1, Zenon DEF Screen!FieldClick
<1> QED BY <1>2, <1>3, <1>4

(* What was typed is wiped, or stays with the open sheet.                  *)
LEMMA SecretKeeps ==
  ASSUME NEW v, ViewSound(v), NEW b \in BOOLEAN, b => v.open
  PROVE  Fares(v, [v EXCEPT !.secret = b])
<1> DEFINE w == [v EXCEPT !.secret = b]
<1>0. v \in Views /\ SecretSound(v)
  BY DEF ViewSound, ViewFramed, Core
<1>1. w \in Views
  BY <1>0, ZenonT(60) DEF Views
<1>2. SameLock(v, w) /\ SameSheet(v, w) /\ SameTurn(v, w) /\ SamePage(v, w) /\ w.anims = v.anims
  BY <1>0 DEF Views, SameLock, SameSheet, SameTurn, SamePage
<1>3. /\ SameLight(v, w) /\ SameOta(v, w) /\ w.link = v.link
      /\ w.secret = b /\ w.editor = v.editor /\ w.pending = v.pending /\ w.detail = v.detail
  BY <1>0 DEF Views, SameLight, SameOta
<1> HIDE DEF w
<1>4. SecretSound(w)
  BY <1>0, <1>2, <1>3 DEF SecretSound, SameSheet
<1>5. Fares(v, w)
  BY <1>1, <1>2, <1>3, <1>4, TouchKeeps DEF SameStand
<1> QED BY <1>5 DEF w

\* what may come of a click
Clicked(v, S) == \A o \in S : Fares(v, o[1]) /\ o[2] \in {0, 1}

LEMMA ClickedOne ==
  ASSUME NEW v, NEW w, Fares(v, w)
  PROVE  Clicked(v, {Screen!Did(w)}) /\ Clicked(v, {Screen!Nothing(w)})
<1>1. Screen!Did(w)[1] = w /\ Screen!Did(w)[2] = 1 /\ Screen!Nothing(w)[1] = w /\ Screen!Nothing(w)[2] = 0
  BY DEF Screen!Did, Screen!Nothing
<1> QED BY <1>1 DEF Clicked

LEMMA ClickedBoth ==
  ASSUME NEW v, NEW S, NEW T, Clicked(v, S), Clicked(v, T)
  PROVE  Clicked(v, S \cup T)
BY DEF Clicked

(* A tile of the sheet moves to its page, while the sheet stands still.    *)
LEMMA TileKeeps ==
  ASSUME NEW v, ViewSound(v), v.open, ~v.moving, ~v.locked, NEW detail \in 0 .. 4
  PROVE  Fares(v, [Screen!ShowDetail(v, detail) EXCEPT !.moving = TRUE, !.anims = @ \union {"detail"}])
<1> DEFINE u == Screen!ShowDetail(v, detail)
           some == u.anims \union {"detail"}
           x == [u EXCEPT !.moving = TRUE, !.anims = some]
<1>1. /\ v \in Views /\ SlideSound(v) /\ SheetSound(v) /\ RestSound(v) /\ IdleSound(v) /\ LinkSound(v)
      /\ LightSound(v) /\ TurnSound(v)
  BY DEF ViewSound, ViewFramed, Core
<1>2. u \in Views /\ SameStand(v, u) /\ u.editor = Screen!None /\ u.pending = Screen!None /\ u.secret = v.secret
  BY <1>1, ShowDetailIs
<1> HIDE DEF u
<1>3. [u EXCEPT !.moving = TRUE, !.anims = @ \union {"detail"}] = x
  BY <1>2 DEF Views
<1>4. some \in SUBSET {"slide", "turn", "sheet", "detail"} /\ some = v.anims \union {"detail"}
  BY <1>2 DEF Views, SameStand
<1> HIDE DEF some
<1>5. x \in Views
  BY <1>2, <1>4, ZenonT(60) DEF Views
<1>6. /\ x.open = u.open /\ x.closing = u.closing /\ x.sheet = u.sheet /\ x.moving = TRUE /\ x.anims = some
      /\ x.editor = u.editor /\ x.pending = u.pending /\ x.link = u.link /\ x.secret = u.secret
  BY <1>2 DEF Views
<1>7. SameLock(u, x) /\ SameTurn(u, x) /\ SamePage(u, x) /\ SameLight(u, x)
  BY <1>2 DEF Views, SameLock, SameTurn, SamePage, SameLight
<1> HIDE DEF x
<1>8. SameLock(v, x) /\ SameTurn(v, x) /\ SamePage(v, x) /\ SameLight(v, x) /\ x.link = v.link
  BY <1>2, <1>6, <1>7 DEF SameStand, SameLock, SameTurn, SamePage, SameLight
<1>9. x.open = v.open /\ x.closing = v.closing /\ x.sheet = v.sheet
  BY <1>2, <1>6 DEF SameStand, SameSheet
<1>10. SlideSound(x)
  BY <1>1, <1>4, <1>6, <1>8 DEF SlideSound, SamePage
<1>11. SheetSound(x)
  BY <1>1, <1>4, <1>6, <1>9 DEF SheetSound
<1>12. RestSound(x) /\ IdleSound(x) /\ LinkSound(x)
  BY <1>1, <1>8 DEF RestSound, IdleSound, LinkSound, SameLock, SamePage
<1>13. LightSound(x) /\ x.light = v.light
  BY <1>1, <1>8 DEF LightSound, SameLock, SameLight, Screen!Level
<1>14. SecretSound(x)
  BY <1>2, <1>6, <1>9 DEF SecretSound
<1>15. TurnSound(x)
  BY <1>1, <1>4, <1>6, <1>8 DEF TurnSound, SameTurn, SameLock
<1>16. Fares(v, x)
  BY <1>5, <1>10, <1>11, <1>12, <1>13, <1>14, <1>15 DEF Fares, ViewSound, ViewFramed, Core
<1> QED BY <1>3, <1>16 DEF u

(* A press of UPDATE is remembered until the updater takes it.             *)
LEMMA ApproveKeeps ==
  ASSUME NEW v, ViewSound(v)
  PROVE  Fares(v, [v EXCEPT !.approved = TRUE])
<1> DEFINE w == [v EXCEPT !.approved = TRUE]
<1>0. v \in Views
  BY DEF ViewSound, ViewFramed, Core
<1>1. w \in Views
  BY <1>0, ZenonT(60) DEF Views
<1>2. SameLock(v, w) /\ SameSheet(v, w) /\ SameTurn(v, w) /\ SamePage(v, w) /\ w.anims = v.anims
  BY <1>0 DEF Views, SameLock, SameSheet, SameTurn, SamePage
<1>3. SameLight(v, w) /\ w.link = v.link /\ SameText(v, w)
  BY <1>0 DEF Views, SameLight, SameText
<1> HIDE DEF w
<1>4. Fares(v, w)
  BY <1>1, <1>2, <1>3, OfferKeeps DEF Fares
<1> QED BY <1>4 DEF w

(* Whatever is clicked, the view stays whole.                              *)
LEMMA ClicksKeep ==
  ASSUME NEW v, ViewSound(v), NEW on
  PROVE  Clicked(v, Screen!Clicks(v, on))
<1>0. v \in Views /\ v.secret \in BOOLEAN /\ v.editor \in Screen!Fields \cup {Screen!None} /\ v.open \in BOOLEAN
  BY DEF ViewSound, ViewFramed, Core, Views
<1>1. Clicked(v, {Screen!Nothing(v)}) /\ Clicked(v, {Screen!Did(v)})
  BY FaresStill, ClickedOne
<1>2. Fares(v, Screen!DropPending(v)) /\ Fares(v, Screen!RestoreEditor(Screen!DropPending(v)))
  BY DroppedFares
<1>3. ASSUME NEW w, Fares(v, w)
      PROVE  Fares(v, [w EXCEPT !.secret = FALSE])
  <2> DEFINE x == [w EXCEPT !.secret = FALSE]
  <2>1. Fares(w, x)
    BY <1>3, SecretKeeps DEF Fares
  <2> HIDE DEF x
  <2>2. Fares(v, x)
    BY <1>3, <2>1, FaresOn
  <2>3. QED
    BY <2>2 DEF x
<1>4. Clicked(v, Screen!HistoryClick(v, on))
  <2>1. Fares(v, Screen!ShowPage(v, "History"))
    BY ShowPageKeeps DEF Pages
  <2>2. Fares(v, IF on = "mode" THEN Screen!ShowPage(v, "History") ELSE v)
    BY <2>1, FaresStill
  <2>3. Clicked(v, {Screen!Did(IF on = "mode" THEN Screen!ShowPage(v, "History") ELSE v)})
    BY <2>2, ClickedOne
  <2>4. Screen!HistoryClick(v, on) = {Screen!Nothing(v)} \/ Screen!HistoryClick(v, on) = {Screen!Did(IF on = "mode" THEN Screen!ShowPage(v, "History") ELSE v)}
    BY Zenon DEF Screen!HistoryClick
  <2>5. QED
    BY <1>1, <2>3, <2>4
<1>5. Clicked(v, Screen!TileClick(v))
  <2> DEFINE tile(d) == [Screen!ShowDetail(v, d) EXCEPT !.moving = TRUE, !.anims = @ \union {"detail"}]
  <2>1. Screen!TileClick(v) = {Screen!Nothing(v)} \/ (v.open /\ ~v.moving /\ ~v.locked /\ Screen!TileClick(v) = {Screen!Did(tile(d)) : d \in {1, 4}})
    BY Zenon DEF Screen!TileClick
  <2>2. ASSUME v.open, ~v.moving, ~v.locked
        PROVE  Clicked(v, {Screen!Did(tile(d)) : d \in {1, 4}})
    <3>0. 1 \in 0 .. 4 /\ 4 \in 0 .. 4
      OBVIOUS
    <3>1. Fares(v, tile(1)) /\ Fares(v, tile(4))
      BY <2>2, <3>0, TileKeeps, Zenon
    <3>2. Clicked(v, {Screen!Did(tile(1))}) /\ Clicked(v, {Screen!Did(tile(4))})
      BY <3>1, ClickedOne
    <3>3. {Screen!Did(tile(d)) : d \in {1, 4}} = {Screen!Did(tile(1))} \cup {Screen!Did(tile(4))}
      <4> HIDE DEF tile
      <4>1. QED
        OBVIOUS
    <3>4. QED
      BY <3>2, <3>3, ClickedBoth
  <2>3. QED
    BY <1>1, <2>1, <2>2
<1>6. Clicked(v, Screen!RowClick(v))
  BY <1>1, Zenon DEF Screen!RowClick
<1>7. Clicked(v, Screen!ActionClick(v))
  <2> DEFINE a == [Screen!DropPending(v) EXCEPT !.secret = FALSE]
             b == [v EXCEPT !.secret = FALSE]
  <2>1. Fares(v, a) /\ Fares(v, b)
    BY <1>2, <1>3, FaresStill
  <2>2. Screen!ActionClick(v) = {Screen!Nothing(v)} \/ Screen!ActionClick(v) = {Screen!Did(a), Screen!Did(b), Screen!Did(v), Screen!Nothing(v)}
    BY Zenon DEF Screen!ActionClick
  <2> HIDE DEF a, b
  <2>3. Clicked(v, {Screen!Did(a)}) /\ Clicked(v, {Screen!Did(b)})
    BY <2>1, ClickedOne
  <2>4. Clicked(v, {Screen!Did(a), Screen!Did(b), Screen!Did(v), Screen!Nothing(v)})
    BY <1>1, <2>3 DEF Clicked
  <2>5. QED
    BY <1>1, <2>2, <2>4
<1>8. Clicked(v, Screen!ProfilesClick(v))
  <2> DEFINE a == [Screen!DropPending(v) EXCEPT !.secret = FALSE]
  <2>1. Fares(v, a)
    BY <1>2, <1>3
  <2>2. Screen!ProfilesClick(v) = {Screen!Nothing(v)} \/ Screen!ProfilesClick(v) = {Screen!Did(a), Screen!Nothing(v)}
    BY Zenon DEF Screen!ProfilesClick
  <2> HIDE DEF a
  <2>3. Clicked(v, {Screen!Did(a)})
    BY <2>1, ClickedOne
  <2>4. QED
    BY <1>1, <2>2, <2>3 DEF Clicked
<1>9. Clicked(v, Screen!OtaClick(v))
  <2> DEFINE a == [v EXCEPT !.approved = TRUE]
  <2>1. Fares(v, a)
    BY ApproveKeeps
  <2>2. Screen!OtaClick(v) = {Screen!Nothing(v)} \/ Screen!OtaClick(v) = {Screen!Did(a), Screen!Nothing(v)}
    BY Zenon DEF Screen!OtaClick
  <2> HIDE DEF a
  <2>3. Clicked(v, {Screen!Did(a)})
    BY <2>1, ClickedOne
  <2>4. QED
    BY <1>1, <2>2, <2>3 DEF Clicked
<1>10. Clicked(v, Screen!ControlClick(v))
  <2> DEFINE a == [Screen!RestoreEditor(Screen!DropPending(v)) EXCEPT !.secret = FALSE]
             b == [v EXCEPT !.secret = v.secret /\ v.editor # "password"]
  <2>1. Fares(v, a)
    BY <1>2, <1>3
  <2>2. Fares(v, b)
    <3>1. (v.secret /\ v.editor # "password") \in BOOLEAN /\ (v.secret => v.open)
      BY DEF ViewSound, ViewFramed, Core, SecretSound
    <3>2. QED
      BY <3>1, SecretKeeps
  <2>3. Screen!ControlClick(v) = {Screen!Nothing(v)} \/ Screen!ControlClick(v) = {Screen!Did(a), Screen!Did(b), Screen!Did(v)}
    BY Zenon DEF Screen!ControlClick
  <2> HIDE DEF a, b
  <2>4. Clicked(v, {Screen!Did(a)}) /\ Clicked(v, {Screen!Did(b)})
    BY <2>1, <2>2, ClickedOne
  <2>5. QED
    BY <1>1, <2>3, <2>4 DEF Clicked
<1>11. Clicked(v, Screen!KeyClick(v))
  <2> DEFINE w == Screen!RestoreEditor(Screen!DropPending(v))
             typed == v.secret \/ v.editor = "password"
             a == [v EXCEPT !.secret = typed]
             b == [w EXCEPT !.secret = FALSE]
  <2>1. typed \in BOOLEAN /\ (typed => v.open)
    BY <1>0 DEF ViewSound, ViewFramed, Core, SecretSound, Screen!None
  <2>2. a = [v EXCEPT !.secret = @ \/ v.editor = "password"]
    BY <1>0 DEF Views
  <2>3. Screen!KeyClick(v) = {Screen!Nothing(a)} \union (IF Screen!EditorGuards(v) THEN {Screen!Nothing(Screen!DropPending(v))} ELSE {Screen!Did(w), Screen!Did(b)})
    BY <2>2, Zenon DEF Screen!KeyClick
  <2> HIDE DEF typed
  <2>4. Fares(v, a)
    BY <2>1, SecretKeeps
  <2>5. Fares(v, w)
    BY <1>2
  <2> HIDE DEF w
  <2>6. Fares(v, b)
    BY <1>3, <2>5
  <2> HIDE DEF a, b
  <2>7. /\ Clicked(v, {Screen!Nothing(a)}) /\ Clicked(v, {Screen!Nothing(Screen!DropPending(v))})
        /\ Clicked(v, {Screen!Did(w)}) /\ Clicked(v, {Screen!Did(b)})
    BY <1>2, <2>4, <2>5, <2>6, ClickedOne
  <2>8. QED
    BY <2>3, <2>7 DEF Clicked
<1>12. on \in Screen!Fields => Clicked(v, {Screen!Nothing(Screen!FieldClick(v, on))})
  BY FieldKeeps, ClickedOne
<1> QED BY <1>1, <1>4, <1>5, <1>6, <1>7, <1>8, <1>9, <1>10, <1>11, <1>12, Zenon DEF Screen!Clicks

(* The end of an animation is the end of what it showed.                   *)
LEMMA AnimDropped ==
  ASSUME NEW v \in Views, NEW a
  PROVE  LET u == [v EXCEPT !.anims = @ \ {a}]
         IN /\ u \in Views /\ u.anims = v.anims \ {a} /\ u.link = v.link /\ SameLock(v, u) /\ SameSheet(v, u)
            /\ SameTurn(v, u) /\ SamePage(v, u) /\ SameText(v, u) /\ SameLight(v, u)
<1> DEFINE some == v.anims \ {a}
           u == [v EXCEPT !.anims = some]
<1>1. [v EXCEPT !.anims = @ \ {a}] = u
  BY DEF Views
<1>2. some \in SUBSET {"slide", "turn", "sheet", "detail"}
  BY AnimsTyped
<1> HIDE DEF some
<1>3. u \in Views
  BY <1>2, ZenonT(60) DEF Views
<1>4. u.anims = some /\ u.link = v.link /\ SameLock(v, u) /\ SameSheet(v, u)
  BY DEF Views, SameLock, SameSheet
<1>5. SameTurn(v, u) /\ SamePage(v, u) /\ SameText(v, u) /\ SameLight(v, u)
  BY DEF Views, SameTurn, SamePage, SameText, SameLight
<1> HIDE DEF u
<1> QED BY <1>1, <1>3, <1>4, <1>5 DEF some

LEMMA SlideEnds ==
  ASSUME NEW v, ViewSound(v), "slide" \in v.anims
  PROVE  Fares(v, Screen!SlideCompleted([v EXCEPT !.anims = @ \ {"slide"}]))
<1> DEFINE u == [v EXCEPT !.anims = @ \ {"slide"}]
           none == <<>>
           some == u.panels \ {u.slide[1]}
           x == [u EXCEPT !.panels = some, !.slide = none]
<1>0. /\ v \in Views /\ SlideSound(v) /\ SheetSound(v) /\ RestSound(v) /\ IdleSound(v) /\ SecretSound(v) /\ LinkSound(v)
      /\ LightSound(v) /\ TurnSound(v)
  BY DEF ViewSound, ViewFramed, Core
<1>1. /\ u \in Views /\ u.anims = v.anims \ {"slide"} /\ u.link = v.link /\ SameLock(v, u) /\ SameSheet(v, u)
      /\ SameTurn(v, u) /\ SamePage(v, u) /\ SameText(v, u) /\ SameLight(v, u)
  BY <1>0, AnimDropped
<1>2. Screen!SlideCompleted(u) = x
  BY <1>1 DEF Screen!SlideCompleted, Views
<1> HIDE DEF u
<1>3. none \in Seq(Pages)
  OBVIOUS
<1>4. some \in SUBSET Pages
  BY <1>1, AnimsTyped
<1>5. some = {v.page}
  <2>1. PICK p \in Pages \ {v.page} : v.slide = <<p, v.page>> /\ v.panels = {p, v.page}
    BY <1>0 DEF SlideSound
  <2>2. u.slide[1] = p /\ u.panels = {p, v.page}
    BY <1>1, <2>1 DEF SamePage
  <2>3. QED
    BY <2>1, <2>2
<1> HIDE DEF none, some
<1>6. x \in Views
  BY <1>1, <1>3, <1>4, ZenonT(60) DEF Views
<1>7. x.panels = some /\ x.slide = none /\ x.page = u.page /\ x.anims = u.anims /\ x.link = u.link
  BY <1>1 DEF Views
<1>8. SameLock(u, x) /\ SameSheet(u, x) /\ SameTurn(u, x)
  BY <1>1 DEF Views, SameLock, SameSheet, SameTurn
<1>9. SameText(u, x) /\ SameLight(u, x)
  BY <1>1 DEF Views, SameText, SameLight
<1> HIDE DEF x
<1>10. /\ SameLock(v, x) /\ SameSheet(v, x) /\ SameTurn(v, x) /\ SameText(v, x) /\ SameLight(v, x) /\ x.link = v.link
       /\ x.page = v.page
  BY <1>1, <1>7, <1>8, <1>9 DEF SameLock, SameSheet, SameTurn, SameText, SameLight, SamePage
<1>11. SlideSound(x)
  BY <1>1, <1>5, <1>7, <1>10 DEF SlideSound, none
<1>12. SheetSound(x)
  BY <1>0, <1>1, <1>7, <1>10 DEF SheetSound, SameSheet
<1>13. RestSound(x)
  BY <1>0, <1>7, <1>10 DEF RestSound, SameLock, SameSheet, SameTurn, none
<1>14. IdleSound(x) /\ SecretSound(x) /\ LinkSound(x)
  BY <1>0, <1>10 DEF IdleSound, SecretSound, LinkSound, SameLock, SameSheet, SameText
<1>15. LightSound(x) /\ x.light = v.light
  BY <1>0, <1>10 DEF LightSound, SameLock, SameLight, Screen!Level
<1>16. TurnSound(x)
  BY <1>0, <1>1, <1>7, <1>10 DEF TurnSound, SameTurn, SameLock
<1>17. Fares(v, x)
  BY <1>6, <1>11, <1>12, <1>13, <1>14, <1>15, <1>16 DEF Fares, ViewSound, ViewFramed, Core
<1> QED BY <1>2, <1>17 DEF u

LEMMA SheetEnds ==
  ASSUME NEW v, ViewSound(v), NEW a \in {"sheet", "detail"}, a \in v.anims
  PROVE  Fares(v, Screen!SheetMoved([v EXCEPT !.anims = @ \ {a}]))
<1> DEFINE u == [v EXCEPT !.anims = @ \ {a}]
           b == u.sheet /\ ~u.closing
           x == [u EXCEPT !.moving = FALSE, !.sheet = b, !.closing = FALSE]
<1>0. /\ v \in Views /\ SlideSound(v) /\ SheetSound(v) /\ RestSound(v) /\ IdleSound(v) /\ SecretSound(v) /\ LinkSound(v)
      /\ LightSound(v) /\ TurnSound(v)
  BY DEF ViewSound, ViewFramed, Core
<1>1. /\ u \in Views /\ u.anims = v.anims \ {a} /\ u.link = v.link /\ SameLock(v, u) /\ SameSheet(v, u)
      /\ SameTurn(v, u) /\ SamePage(v, u) /\ SameText(v, u) /\ SameLight(v, u)
  BY <1>0, AnimDropped
<1>2. Screen!SheetMoved(u) = x
  BY <1>1 DEF Screen!SheetMoved, Views
<1> HIDE DEF u
<1>3. b \in BOOLEAN /\ b = (v.sheet /\ ~v.closing)
  BY <1>1 DEF SameSheet, Views
<1> HIDE DEF b
<1>6. x \in Views
  <2>1. u \in Views /\ b \in BOOLEAN
    BY <1>1, <1>3
  <2>2. QED
    BY <2>1, ZenonT(60) DEF Views
<1>7. x.open = u.open /\ x.moving = FALSE /\ x.sheet = b /\ x.closing = FALSE /\ x.anims = u.anims /\ x.link = u.link
  BY <1>1 DEF Views
<1>8. SameLock(u, x) /\ SamePage(u, x) /\ SameTurn(u, x)
  BY <1>1 DEF Views, SameLock, SamePage, SameTurn
<1>9. SameText(u, x) /\ SameLight(u, x)
  BY <1>1 DEF Views, SameText, SameLight
<1> HIDE DEF x
<1>10. /\ SameLock(v, x) /\ SamePage(v, x) /\ SameTurn(v, x) /\ SameText(v, x) /\ SameLight(v, x) /\ x.link = v.link
       /\ x.open = v.open
  BY <1>1, <1>7, <1>8, <1>9 DEF SameLock, SameSheet, SameTurn, SameText, SameLight, SamePage
<1>11. SlideSound(x)
  BY <1>0, <1>1, <1>7, <1>10 DEF SlideSound, SamePage
<1>12. SheetSound(x)
  BY <1>0, <1>1, <1>3, <1>7, <1>10 DEF SheetSound
<1>13. RestSound(x)
  BY <1>0, <1>7, <1>10 DEF RestSound, SameLock, SamePage, SameTurn
<1>14. IdleSound(x) /\ SecretSound(x) /\ LinkSound(x)
  BY <1>0, <1>10 DEF IdleSound, SecretSound, LinkSound, SameLock, SamePage, SameText
<1>15. LightSound(x) /\ x.light = v.light
  BY <1>0, <1>10 DEF LightSound, SameLock, SameLight, Screen!Level
<1>16. TurnSound(x)
  BY <1>0, <1>1, <1>7, <1>10 DEF TurnSound, SameTurn, SameLock
<1>17. Fares(v, x)
  BY <1>6, <1>11, <1>12, <1>13, <1>14, <1>15, <1>16 DEF Fares, ViewSound, ViewFramed, Core
<1> QED BY <1>2, <1>17 DEF u

(* What changes the phase of a turn and its curtain, and nothing else.     *)
LEMMA TurnKeeps ==
  ASSUME NEW v, NEW w, ViewFramed(v), w \in Views, SameLock(v, w), SameSheet(v, w), SamePage(v, w), SameText(v, w),
         SameLight(v, w), w.link = v.link, w.anims \ {"turn"} = v.anims \ {"turn"},
         v.locked => w.phase = "Idle", TurnSound(w)
  PROVE  Fares(v, w)
<1>1. \A b \in {"slide", "sheet", "detail"} : b \in w.anims <=> b \in v.anims
  OBVIOUS
<1>2. SlideSound(w)
  BY <1>1 DEF ViewFramed, Core, SlideSound, SamePage
<1>3. SheetSound(w)
  BY <1>1 DEF ViewFramed, Core, SheetSound, SameSheet
<1>4. RestSound(w)
  BY DEF ViewFramed, Core, RestSound, SameLock, SameSheet, SamePage
<1>5. IdleSound(w) /\ SecretSound(w) /\ LinkSound(w)
  BY DEF ViewFramed, Core, IdleSound, SecretSound, LinkSound, SameLock, SameSheet, SamePage, SameText
<1>6. LightSound(w) /\ w.light = v.light
  BY DEF ViewFramed, LightSound, SameLock, SameLight, Screen!Level
<1> QED BY <1>2, <1>3, <1>4, <1>5, <1>6 DEF Fares, ViewSound, ViewFramed, Core

LEMMA TurnEnds ==
  ASSUME NEW v, ViewSound(v), "turn" \in v.anims
  PROVE  Fares(v, Screen!Turned([v EXCEPT !.anims = @ \ {"turn"}]))
<1> DEFINE u == [v EXCEPT !.anims = @ \ {"turn"}]
<1>0. /\ v \in Views /\ SlideSound(v) /\ SheetSound(v) /\ RestSound(v) /\ IdleSound(v) /\ SecretSound(v) /\ LinkSound(v)
      /\ LightSound(v) /\ TurnSound(v)
  BY DEF ViewSound, ViewFramed, Core
<1>1. /\ u \in Views /\ u.anims = v.anims \ {"turn"} /\ u.link = v.link /\ SameLock(v, u) /\ SameSheet(v, u)
      /\ SameTurn(v, u) /\ SamePage(v, u) /\ SameText(v, u) /\ SameLight(v, u)
  BY <1>0, AnimDropped
<1>2. ~v.locked
  BY <1>0 DEF TurnSound, RestSound
<1> HIDE DEF u
<1>3. CASE u.fault
  <2>1. SlideSound(u) /\ SheetSound(u)
    BY <1>0, <1>1 DEF SlideSound, SheetSound, SamePage, SameSheet
  <2>2. RestSound(u) /\ IdleSound(u) /\ SecretSound(u) /\ LinkSound(u)
    BY <1>0, <1>1, <1>2 DEF RestSound, IdleSound, SecretSound, LinkSound, SameLock, SameSheet, SamePage, SameText
  <2>3. LightSound(u) /\ u.light = v.light
    BY <1>0, <1>1 DEF LightSound, SameLock, SameLight, Screen!Level
  <2>4. ViewFramed(u)
    BY <1>1, <2>1, <2>2, <2>3 DEF ViewFramed, Core
  <2>5. ViewSound(Screen!CancelTurn(u)) /\ Screen!CancelTurn(u).light = u.light
    BY <1>3, <2>4, CancelTurnKeeps DEF ViewFramed
  <2>6. Screen!Turned(u) = Screen!CancelTurn(u)
    BY <1>3 DEF Screen!Turned
  <2>7. QED
    BY <2>3, <2>5, <2>6 DEF Fares, u
<1>4. CASE ~u.fault /\ u.phase = "FadeOut"
  <2> DEFINE x == [u EXCEPT !.phase = "WaitBlack", !.curtain = "black", !.noted = FALSE]
  <2>1. Screen!Turned(u) = x
    BY <1>4 DEF Screen!Turned
  <2>2. x \in Views
    BY <1>1, ZenonT(60) DEF Views
  <2>3. /\ x.phase = "WaitBlack" /\ x.curtain = "black" /\ x.anims = u.anims /\ x.link = u.link
        /\ SameLock(u, x) /\ SamePage(u, x) /\ SameSheet(u, x)
    BY <1>1 DEF Views, SameLock, SamePage, SameSheet
  <2>4. SameText(u, x) /\ SameLight(u, x)
    BY <1>1 DEF Views, SameText, SameLight
  <2> HIDE DEF x
  <2>5. SameLock(v, x) /\ SamePage(v, x) /\ SameSheet(v, x) /\ SameText(v, x) /\ SameLight(v, x)
    BY <1>1, <2>3, <2>4 DEF SameLock, SamePage, SameSheet, SameText, SameLight
  <2>6. TurnSound(x)
    BY <1>1, <1>4, <2>3 DEF TurnSound, SameLock
  <2>7. Fares(v, x)
    BY <1>1, <1>2, <2>2, <2>3, <2>5, <2>6, TurnKeeps DEF ViewSound
  <2>8. QED
    BY <2>1, <2>7 DEF u
<1>5. CASE ~u.fault /\ u.phase # "FadeOut"
  <2> DEFINE c == Screen!NoTouch(u)
             x == [c EXCEPT !.phase = "Idle", !.curtain = "off"]
  <2>1. Screen!Turned(u) = x
    BY <1>5 DEF Screen!Turned
  <2>2. c \in Views /\ SameStand(u, c) /\ SameText(u, c)
    BY <1>1, NoTouchIs
  <2> HIDE DEF c
  <2>3. x \in Views
    BY <2>2, ZenonT(60) DEF Views
  <2>4. /\ x.phase = "Idle" /\ x.curtain = "off" /\ x.anims = c.anims /\ x.link = c.link
        /\ SameLock(c, x) /\ SamePage(c, x) /\ SameSheet(c, x)
    BY <2>2 DEF Views, SameLock, SamePage, SameSheet
  <2>5. SameText(c, x) /\ SameLight(c, x)
    BY <2>2 DEF Views, SameText, SameLight
  <2> HIDE DEF x
  <2>6. SameLock(u, x) /\ SamePage(u, x) /\ SameSheet(u, x) /\ SameText(u, x) /\ SameLight(u, x) /\ x.anims = u.anims /\ x.link = u.link
    BY <2>2, <2>4, <2>5 DEF SameStand, SameLock, SamePage, SameSheet, SameText, SameLight
  <2>7. SameLock(v, x) /\ SamePage(v, x) /\ SameSheet(v, x) /\ SameText(v, x) /\ SameLight(v, x)
    BY <1>1, <2>6 DEF SameLock, SamePage, SameSheet, SameText, SameLight
  <2>8. TurnSound(x)
    BY <1>1, <1>5, <2>4, <2>6 DEF TurnSound, SameLock
  <2>9. Fares(v, x)
    BY <1>1, <1>2, <2>3, <2>4, <2>6, <2>7, <2>8, TurnKeeps DEF ViewSound
  <2>10. QED
    BY <2>1, <2>9 DEF u
<1> QED BY <1>3, <1>4, <1>5

(* A frame lights the panel that waited for it, which nothing locks.       *)
LEMMA FrameKeeps ==
  ASSUME NEW v, ViewSound(v)
  PROVE  LET w == [v EXCEPT !.noted = TRUE, !.due = FALSE, !.light = IF v.due THEN "bright" ELSE @]
         IN ViewSound(w) /\ (w.light = "bright" => ~v.locked)
<1> DEFINE b == IF v.due THEN "bright" ELSE v.light
           w == [v EXCEPT !.noted = TRUE, !.due = FALSE, !.light = b]
<1>0. v \in Views /\ LightSound(v)
  BY DEF ViewSound, ViewFramed, Core
<1>1. w = [v EXCEPT !.noted = TRUE, !.due = FALSE, !.light = IF v.due THEN "bright" ELSE @]
  BY <1>0 DEF Views
<1>2. b \in Levels /\ (b = IF v.due THEN "bright" ELSE v.light)
  BY <1>0 DEF Views, Levels
<1> HIDE DEF b
<1>3. w \in Views
  <2>1. b \in Levels
    BY <1>2
  <2>2. QED
    BY <1>0, <2>1, ZenonT(60) DEF Views
<1>4. w.dim = v.dim /\ w.applied = v.applied /\ w.due = FALSE /\ w.light = b /\ w.link = v.link
  BY <1>0 DEF Views
<1>5. SameLock(v, w) /\ SameSheet(v, w) /\ SameTurn(v, w) /\ SamePage(v, w)
  BY <1>0 DEF Views, SameLock, SameSheet, SameTurn, SamePage
<1>6. SameOta(v, w) /\ SameText(v, w) /\ w.anims = v.anims
  BY <1>0 DEF Views, SameOta, SameText
<1> HIDE DEF w
<1>7. SameBody(v, w)
  BY <1>3, <1>5, <1>6 DEF SameBody
<1>8. Core(w) /\ TurnSound(w) /\ LinkSound(w)
  BY <1>4, <1>7, BodyCore DEF ViewSound, ViewFramed
<1>9. LightSound(w)
  BY <1>0, <1>2, <1>4, <1>5 DEF LightSound, SameLock, Screen!Level
<1>10. w.light = "bright" => ~v.locked
  BY <1>0, <1>2, <1>4 DEF LightSound, Screen!Level
<1> QED BY <1>1, <1>8, <1>9, <1>10 DEF ViewSound, ViewFramed

(* Copying the updater's snapshot moves nothing on the screen.             *)
LEMMA CopiedKeeps ==
  ASSUME NEW v, ViewSound(v), ota \in Snapshots, NEW seen \in BOOLEAN, NEW other \in BOOLEAN
  PROVE  Fares(v, Screen!Copied(v, seen, other))
<1> DEFINE st == ota.stage
           offer == v.offered \/ (ota.stage = "offer" /\ (v.stage # "offer" \/ other))
           w == [v EXCEPT !.stage = st, !.approved = FALSE, !.offered = offer]
<1>0. v \in Views
  BY DEF ViewSound, ViewFramed, Core
<1>1. Screen!Copied(v, seen, other) = v \/ Screen!Copied(v, seen, other) = w
  <2>1. w = [v EXCEPT !.stage = ota.stage, !.approved = FALSE,
                      !.offered = @ \/ (ota.stage = "offer" /\ (v.stage # "offer" \/ other))]
    BY <1>0 DEF Views
  <2>2. QED
    BY <2>1 DEF Screen!Copied
<1>2. st \in {"idle", "offer", "ready", "work", "ended"} /\ offer \in BOOLEAN
  BY <1>0 DEF Snapshots, Stages, Views
<1> HIDE DEF st, offer
<1>3. w \in Views
  BY <1>0, <1>2, ZenonT(60) DEF Views
<1>4. SameLock(v, w) /\ SameSheet(v, w) /\ SameTurn(v, w) /\ SamePage(v, w)
  BY <1>0 DEF Views, SameLock, SameSheet, SameTurn, SamePage
<1>5. SameText(v, w) /\ SameLight(v, w) /\ w.anims = v.anims /\ w.link = v.link
  BY <1>0 DEF Views, SameText, SameLight
<1> HIDE DEF w
<1>6. Fares(v, w)
  BY <1>3, <1>4, <1>5, OfferKeeps DEF Fares
<1> QED BY <1>1, <1>6, FaresStill

(* An update takes the screen, lit and cleared.                            *)
LEMMA RefreshOtaKeeps ==
  ASSUME NEW v, ViewSound(v), world \in Worlds
  PROVE  Fares(v, Screen!RefreshOta(v))
<1> DEFINE a == Screen!CancelTurn(v)
           b == [a EXCEPT !.still = TRUE]
           c == Screen!CloseSheet(b, FALSE)
           d == Screen!CancelSlide(c)
           freed == Screen!NoTouch(d)
           lit == IF v.locked THEN Screen!Wake(freed) ELSE freed
           x == [v EXCEPT !.offered = FALSE]
<1>1. Screen!RefreshOta(v) \in {Screen!SetPage(lit, "OTA"), lit, Screen!ShowPage(x, "OTA"), v}
  BY Zenon DEF Screen!RefreshOta
<1>2. Fares(v, x)
  <2>0. v \in Views
    BY DEF ViewSound, ViewFramed, Core
  <2>1. x \in Views
    BY <2>0, ZenonT(60) DEF Views
  <2>2. SameLock(v, x) /\ SameSheet(v, x) /\ SameTurn(v, x) /\ SamePage(v, x)
    BY <2>0 DEF Views, SameLock, SameSheet, SameTurn, SamePage
  <2>3. SameText(v, x) /\ SameLight(v, x) /\ x.anims = v.anims /\ x.link = v.link
    BY <2>0 DEF Views, SameText, SameLight
  <2> HIDE DEF x
  <2>4. QED
    BY <2>1, <2>2, <2>3, OfferKeeps DEF Fares
<1> HIDE DEF x
<1>3. Fares(v, Screen!ShowPage(x, "OTA"))
  <2>1. Fares(x, Screen!ShowPage(x, "OTA"))
    BY <1>2, ShowPageKeeps DEF Fares, Pages
  <2>2. QED
    BY <1>2, <2>1, FaresOn
<1>4. Fares(v, a)
  BY CancelTurnKeeps DEF Fares, ViewSound, ViewFramed
<1> HIDE DEF a
<1>5. Fares(a, b)
  BY <1>4, StillKeeps DEF Fares
<1> HIDE DEF b
<1>6. Fares(b, c)
  BY <1>5, CloseSheetKeeps DEF Fares, ViewSound, ViewFramed
<1> HIDE DEF c
<1>7. Fares(c, d)
  BY <1>6, CancelSlideKeeps DEF Fares, ViewSound, ViewFramed
<1> HIDE DEF d
<1>8. Fares(d, freed)
  BY <1>7, DroppedFares DEF Fares
<1> HIDE DEF freed
<1>9. Fares(v, freed)
  BY <1>4, <1>5, <1>6, <1>7, <1>8, FaresOn
<1>10. Fares(freed, Screen!Wake(freed))
  BY <1>9, WakeKeeps DEF Fares
<1>11. Fares(v, lit)
  BY <1>9, <1>10, FaresOn
<1> HIDE DEF lit
<1>12. Fares(lit, Screen!SetPage(lit, "OTA"))
  BY <1>11, SetPageKeeps DEF Fares, Pages
<1>13. Fares(v, Screen!SetPage(lit, "OTA"))
  BY <1>11, <1>12, FaresOn
<1> QED BY <1>1, <1>3, <1>11, <1>13, FaresStill

(* A fault of the panel's ends in a black curtain over a cleared screen.   *)
LEMMA FaultFares ==
  ASSUME NEW v, ViewSound(v), NEW w \in Views, SameSheet(v, w), SameTurn(v, w), SamePage(v, w), SameText(v, w),
         SameLight(v, w), w.anims = v.anims, w.link = v.link, w.locked = v.locked, w.radio = v.radio, w.idle = v.idle,
         w.still = v.still, w.suppressed = v.suppressed, w.fault
  PROVE  Fares(v, Screen!CancelTurn(w))
<1>1. v.locked => w.still
  BY DEF ViewSound, ViewFramed, Core, RestSound
<1>2. Core(w) /\ LightSound(w) /\ LinkSound(w) /\ w.light = v.light
  BY <1>1, FlagKeeps DEF ViewSound, ViewFramed
<1>3. ViewSound(Screen!CancelTurn(w)) /\ Screen!CancelTurn(w).light = w.light
  BY <1>2, CancelTurnKeeps DEF ViewFramed
<1> QED BY <1>2, <1>3 DEF Fares

LEMMA FaultIs ==
  ASSUME NEW v, ViewSound(v)
  PROVE  /\ Fares(v, Screen!CancelTurn([v EXCEPT !.fault = TRUE]))
         /\ Fares(v, Screen!CancelTurn([v EXCEPT !.healthy = FALSE, !.fault = TRUE]))
<1> DEFINE x == [v EXCEPT !.fault = TRUE]
           y == [v EXCEPT !.healthy = FALSE, !.fault = TRUE]
<1>0. v \in Views
  BY DEF ViewSound, ViewFramed, Core
<1>1. x \in Views
  BY <1>0, ZenonT(60) DEF Views
<1>2. y \in Views
  BY <1>0, ZenonT(60) DEF Views
<1>3. SameSheet(v, x) /\ SameTurn(v, x) /\ SamePage(v, x) /\ SameText(v, x) /\ SameLight(v, x)
  BY <1>0 DEF Views, SameSheet, SameTurn, SamePage, SameText, SameLight
<1>4. SameSheet(v, y) /\ SameTurn(v, y) /\ SamePage(v, y) /\ SameText(v, y) /\ SameLight(v, y)
  BY <1>0 DEF Views, SameSheet, SameTurn, SamePage, SameText, SameLight
<1>5. /\ x.anims = v.anims /\ x.link = v.link /\ x.locked = v.locked /\ x.radio = v.radio /\ x.idle = v.idle
      /\ x.still = v.still /\ x.suppressed = v.suppressed /\ x.fault = TRUE
  BY <1>0 DEF Views
<1>6. /\ y.anims = v.anims /\ y.link = v.link /\ y.locked = v.locked /\ y.radio = v.radio /\ y.idle = v.idle
      /\ y.still = v.still /\ y.suppressed = v.suppressed /\ y.fault = TRUE
  BY <1>0 DEF Views
<1> HIDE DEF x, y
<1>7. Fares(v, Screen!CancelTurn(x)) /\ Fares(v, Screen!CancelTurn(y))
  BY <1>1, <1>2, <1>3, <1>4, <1>5, <1>6, FaultFares
<1> QED BY <1>7 DEF x, y

(* A step of a turn on a screen that is neither locked nor faulty.         *)
LEMMA PhaseKeeps ==
  ASSUME NEW v, ViewSound(v), ~v.locked, ~v.fault
  PROVE  /\ v.phase = "Idle" => Fares(v, Screen!FadeOut(v))
         /\ v.phase = "WaitRotated" =>
              Fares(v, [v EXCEPT !.phase = "FadeIn", !.curtain = "fading", !.anims = @ \union {"turn"}])
         /\ v.phase = "WaitBlack" => \A o \in Screen!Turn(v) : Fares(v, o)
<1>0. v \in Views /\ TurnSound(v)
  BY DEF ViewSound, ViewFramed, Core
<1>1. ASSUME v.phase = "Idle"
      PROVE  Fares(v, Screen!FadeOut(v))
  <2> DEFINE c == Screen!NoTouch(v)
             some == c.anims \union {"turn"}
             x == [c EXCEPT !.phase = "FadeOut", !.curtain = "fading", !.anims = some]
  <2>1. c \in Views /\ SameStand(v, c) /\ SameText(v, c)
    BY <1>0, NoTouchIs
  <2>2. Screen!FadeOut(v) = x
    BY <2>1 DEF Screen!FadeOut, Views
  <2> HIDE DEF c
  <2>3. some \in SUBSET {"slide", "turn", "sheet", "detail"}
    BY <2>1 DEF Views
  <2>4. some \ {"turn"} = v.anims \ {"turn"} /\ "turn" \in some
    BY <2>1 DEF SameStand
  <2> HIDE DEF some
  <2>5. x \in Views
    BY <2>1, <2>3, ZenonT(60) DEF Views
  <2>6. /\ x.phase = "FadeOut" /\ x.curtain = "fading" /\ x.anims = some /\ x.link = c.link
        /\ SameLock(c, x) /\ SameSheet(c, x) /\ SamePage(c, x)
    BY <2>1 DEF Views, SameLock, SameSheet, SamePage
  <2>7. SameText(c, x) /\ SameLight(c, x)
    BY <2>1 DEF Views, SameText, SameLight
  <2> HIDE DEF x
  <2>8. SameLock(v, x) /\ SameSheet(v, x) /\ SamePage(v, x) /\ SameText(v, x) /\ SameLight(v, x) /\ x.link = v.link
    BY <2>1, <2>6, <2>7 DEF SameStand, SameLock, SameSheet, SamePage, SameText, SameLight
  <2>9. TurnSound(x)
    BY <2>4, <2>6, <2>8 DEF TurnSound, SameLock
  <2>10. Fares(v, x)
    BY <2>4, <2>5, <2>6, <2>8, <2>9, TurnKeeps DEF ViewSound
  <2>11. QED
    BY <2>2, <2>10
<1>2. ASSUME v.phase = "WaitRotated"
      PROVE  Fares(v, [v EXCEPT !.phase = "FadeIn", !.curtain = "fading", !.anims = @ \union {"turn"}])
  <2> DEFINE some == v.anims \union {"turn"}
             x == [v EXCEPT !.phase = "FadeIn", !.curtain = "fading", !.anims = some]
  <2>2. [v EXCEPT !.phase = "FadeIn", !.curtain = "fading", !.anims = @ \union {"turn"}] = x
    BY <1>0 DEF Views
  <2>3. some \in SUBSET {"slide", "turn", "sheet", "detail"}
    BY <1>0 DEF Views
  <2>4. some \ {"turn"} = v.anims \ {"turn"} /\ "turn" \in some
    OBVIOUS
  <2> HIDE DEF some
  <2>5. x \in Views
    BY <1>0, <2>3, ZenonT(60) DEF Views
  <2>6. /\ x.phase = "FadeIn" /\ x.curtain = "fading" /\ x.anims = some /\ x.link = v.link
        /\ SameLock(v, x) /\ SameSheet(v, x) /\ SamePage(v, x)
    BY <1>0 DEF Views, SameLock, SameSheet, SamePage
  <2>7. SameText(v, x) /\ SameLight(v, x)
    BY <1>0 DEF Views, SameText, SameLight
  <2> HIDE DEF x
  <2>9. TurnSound(x)
    BY <2>4, <2>6 DEF TurnSound, SameLock
  <2>10. Fares(v, x)
    BY <2>4, <2>5, <2>6, <2>7, <2>9, TurnKeeps DEF ViewSound
  <2>11. QED
    BY <2>2, <2>10
<1>3. ASSUME v.phase = "WaitBlack"
      PROVE  \A o \in Screen!Turn(v) : Fares(v, o)
  <2> DEFINE c == Screen!NoTouch(v)
             t == ~c.turned
             x == [c EXCEPT !.turned = t, !.phase = "WaitRotated", !.noted = FALSE]
  <2>1. c \in Views /\ SameStand(v, c) /\ SameText(v, c)
    BY <1>0, NoTouchIs
  <2>2. Screen!Turn(v) = {x, Screen!CancelTurn(v), Screen!CancelTurn([v EXCEPT !.healthy = FALSE, !.fault = TRUE])}
    <3>1. x = [c EXCEPT !.turned = ~@, !.phase = "WaitRotated", !.noted = FALSE]
      BY <2>1 DEF Views
    <3>2. QED
      BY <3>1 DEF Screen!Turn
  <2>3. t \in BOOLEAN
    OBVIOUS
  <2> HIDE DEF c, t
  <2>5. x \in Views
    BY <2>1, <2>3, ZenonT(60) DEF Views
  <2>6. /\ x.phase = "WaitRotated" /\ x.curtain = c.curtain /\ x.anims = c.anims /\ x.link = c.link
        /\ SameLock(c, x) /\ SameSheet(c, x) /\ SamePage(c, x)
    BY <2>1 DEF Views, SameLock, SameSheet, SamePage
  <2>7. SameText(c, x) /\ SameLight(c, x)
    BY <2>1 DEF Views, SameText, SameLight
  <2> HIDE DEF x
  <2>8. SameLock(v, x) /\ SameSheet(v, x) /\ SamePage(v, x) /\ SameText(v, x) /\ SameLight(v, x) /\ x.link = v.link
    BY <2>1, <2>6, <2>7 DEF SameStand, SameLock, SameSheet, SamePage, SameText, SameLight
  <2>9. TurnSound(x) /\ x.anims = v.anims
    BY <1>0, <1>3, <2>1, <2>6, <2>8 DEF TurnSound, SameLock, SameStand, SameTurn
  <2>10. Fares(v, x)
    BY <2>5, <2>6, <2>8, <2>9, TurnKeeps DEF ViewSound
  <2>11. Fares(v, Screen!CancelTurn(v))
    BY CancelTurnKeeps DEF Fares, ViewSound, ViewFramed
  <2>12. QED
    BY <2>2, <2>10, <2>11, FaultIs
<1> QED BY <1>1, <1>2, <1>3

(* updateOrientation, whichever way it goes.                               *)
LEMMA OrientKeeps ==
  ASSUME NEW v, ViewSound(v), NEW tilted \in BOOLEAN, NEW o \in Screen!Orient(v, tilted)
  PROVE  Fares(v, o)
<1> DEFINE on == [v EXCEPT !.still = TRUE]
           w == [v EXCEPT !.still = FALSE]
           f == Screen!CancelTurn([v EXCEPT !.fault = TRUE])
           g == [f EXCEPT !.still = TRUE]
           fadeIn == [w EXCEPT !.phase = "FadeIn", !.curtain = "fading", !.anims = @ \union {"turn"}]
<1>1. CASE v.fault \/ ~v.healthy
  <2>1. o = g
    BY <1>1 DEF Screen!Orient
  <2>2. Fares(v, f)
    BY FaultIs
  <2> HIDE DEF f
  <2>3. Fares(f, g)
    BY <2>2, StillKeeps DEF Fares
  <2>4. QED
    BY <2>1, <2>2, <2>3, FaresOn
<1>2. CASE ~(v.fault \/ ~v.healthy) /\ (v.locked \/ v.suppressed \/ Screen!OtaBusy(v))
  <2>1. o = Screen!CancelTurn(on)
    BY <1>2 DEF Screen!Orient
  <2>2. Fares(v, on)
    BY StillKeeps
  <2> HIDE DEF on
  <2>3. Fares(on, Screen!CancelTurn(on))
    BY <2>2, CancelTurnKeeps DEF Fares, ViewSound, ViewFramed
  <2>4. QED
    BY <2>1, <2>2, <2>3, FaresOn
<1>3. CASE ~(v.fault \/ ~v.healthy) /\ ~(v.locked \/ v.suppressed \/ Screen!OtaBusy(v))
  <2>2. \/ o = Screen!CancelTurn(w) \/ o = w
        \/ v.phase = "WaitBlack" /\ o \in Screen!Turn(w)
        \/ v.phase = "WaitRotated" /\ o = fadeIn
        \/ v.phase = "Idle" /\ o = Screen!FadeOut(w)
    <3> HIDE DEF w, fadeIn
    <3>1. o \in IF v.phase # "Idle" /\ (hand.down \/ v.slide # <<>> \/ v.moving) THEN {Screen!CancelTurn(w)}
                ELSE CASE v.phase = "WaitBlack" /\ v.noted -> Screen!Turn(w)
                       [] v.phase = "WaitRotated" /\ v.noted -> {fadeIn}
                       [] v.phase = "Idle" /\ tilted /\ ~Screen!Interacting(v) /\ ~v.tracking -> {Screen!FadeOut(w)}
                       [] OTHER -> {w}
      BY <1>3 DEF Screen!Orient, w, fadeIn
    <3>2. QED
      BY <3>1, Zenon
  <2>3. Fares(v, w)
    BY <1>3, StillKeeps
  <2>4. w.phase = v.phase /\ ~w.locked /\ ~w.fault
    BY <1>3 DEF ViewSound, ViewFramed, Core, Views
  <2> HIDE DEF w
  <2>5. Fares(w, Screen!CancelTurn(w))
    BY <2>3, CancelTurnKeeps DEF Fares, ViewSound, ViewFramed
  <2>6. /\ v.phase = "Idle" => Fares(w, Screen!FadeOut(w))
        /\ v.phase = "WaitRotated" => Fares(w, fadeIn)
        /\ v.phase = "WaitBlack" => \A x \in Screen!Turn(w) : Fares(w, x)
    BY <2>3, <2>4, PhaseKeeps DEF Fares
  <2> HIDE DEF fadeIn
  <2>7. Fares(w, o) \/ o = w
    BY <2>2, <2>5, <2>6
  <2>8. QED
    BY <2>3, <2>7, FaresOn
<1> QED BY <1>1, <1>2, <1>3

LEMMA RefreshDisplayKeeps ==
  ASSUME NEW v, ViewSound(v), NEW expired \in BOOLEAN
  PROVE  Fares(v, Screen!RefreshDisplay(v, expired))
<1> DEFINE w == IF v.dim /\ (expired \/ ~Screen!Eligible(v)) THEN Screen!ClearDim(v) ELSE v
<1>1. Fares(v, Screen!ClearDim(v))
  BY ClearDimKeeps DEF Fares, ViewSound, ViewFramed
<1>2. Fares(v, w)
  BY <1>1, FaresStill
<1>3. Screen!RefreshDisplay(v, expired) = IF ~w.fault /\ Screen!Level(w) # w.applied THEN Screen!SetLight(w, Screen!Level(w)) ELSE w
  BY DEF Screen!RefreshDisplay
<1> HIDE DEF w
<1>4. (w.dim => w.locked) /\ (w.due => w.light # "bright")
  BY <1>2 DEF Fares, ViewSound, ViewFramed, LightSound
<1>5. Fares(w, Screen!SetLight(w, Screen!Level(w)))
  BY <1>2, <1>4, SetLightKeeps DEF Fares, ViewSound, ViewFramed
<1>6. Fares(v, Screen!SetLight(w, Screen!Level(w)))
  BY <1>2, <1>5, FaresOn
<1> QED BY <1>2, <1>3, <1>6

(* The editor opens on the open Wi-Fi sheet, and nowhere else.             *)
LEMMA ServicePendingKeeps ==
  ASSUME NEW v, ViewSound(v)
  PROVE  Fares(v, Screen!ServicePending(v))
<1> DEFINE w == Screen!DropPending(v)
           x == [w EXCEPT !.editor = v.pending]
<1>1. Screen!ServicePending(v) \in {w, v} \/ (~Screen!EditorGuards(v) /\ Screen!ServicePending(v) = x)
  BY Zenon DEF Screen!ServicePending
<1>2. v \in Views /\ v.pending \in Screen!Fields \cup {Screen!None}
  BY DEF ViewSound, ViewFramed, Core, Views
<1>3. Fares(v, w) /\ w \in Views /\ SameStand(v, w) /\ w.detail = v.detail
  BY <1>2, DroppedFares, DropPendingIs
<1> HIDE DEF w
<1>4. ASSUME ~Screen!EditorGuards(v)
      PROVE  Fares(w, x)
  <2>1. w.open /\ w.detail = 4 /\ SecretSound(w)
    BY <1>3, <1>4 DEF Screen!EditorGuards, SameStand, SameSheet, Fares, ViewSound, ViewFramed, Core
  <2>2. x \in Views
    BY <1>2, <1>3, ZenonT(60) DEF Views
  <2>3. SameLock(w, x) /\ SameSheet(w, x) /\ SameTurn(w, x) /\ SamePage(w, x) /\ x.anims = w.anims
    BY <1>3 DEF Views, SameLock, SameSheet, SameTurn, SamePage
  <2>4. SameLight(w, x) /\ SameOta(w, x) /\ x.link = w.link /\ x.secret = w.secret /\ x.pending = w.pending /\ x.detail = w.detail
    BY <1>3 DEF Views, SameLight, SameOta
  <2> HIDE DEF x
  <2>5. SecretSound(x)
    BY <2>1, <2>3, <2>4 DEF SecretSound, SameSheet
  <2>6. QED
    BY <1>3, <2>2, <2>3, <2>4, <2>5, TouchKeeps DEF SameStand, Fares
<1> HIDE DEF x
<1> QED BY <1>1, <1>3, <1>4, FaresStill, FaresOn

LEMMA RestKeeps ==
  ASSUME NEW v, ViewSound(v), NEW working
  PROVE  Fares(v, Screen!TerminalReturn(v, working)) /\ Fares(v, Screen!AutoLock(v, working))
<1>1. Fares(v, Screen!ShowPage(v, "Command"))
  BY ShowPageKeeps DEF Pages
<1>2. Fares(v, v) /\ Fares(v, Screen!Lock(v))
  BY FaresStill, LockKeeps
<1> QED BY <1>1, <1>2, Zenon DEF Screen!TerminalReturn, Screen!AutoLock

-----------------------------------------------------------------------------
(* The steps.                                                              *)
LEMMA TouchableIs ==
  ASSUME NEW v \in Views
  PROVE  Screen!Touchable(v) \subseteq Touched
<1>1. v.editor \in Screen!Fields \cup {Screen!None}
  BY DEF Views
<1> QED BY <1>1 DEF Screen!Touchable, Touched, Screen!Fields

\* the view is whole and the light follows
Shown == ViewSound(view) /\ (view.light = "bright" => world.drawn # "lock")

LEMMA ShownStays ==
  ASSUME Shown, Fares(view, view'), UNCHANGED world
  PROVE  Shown'
<1>1. ViewSound(view)'
  BY DEF Fares, ViewSound, ViewFramed, Core, SlideSound, SheetSound, RestSound, IdleSound, SecretSound, LinkSound,
         LightSound, Screen!Level, TurnSound, Views
<1> QED BY <1>1 DEF Shown, Fares

(* What becomes of a contact keeps its record.                             *)
LEMMA HandTyped ==
  ASSUME hand \in Hands, NEW down \in BOOLEAN, NEW stale \in BOOLEAN, NEW more \in {0, 1}
  PROVE  /\ [hand EXCEPT !.down = down, !.stale = stale, !.deeds = @ + more] \in Hands
         /\ [hand EXCEPT !.down = down, !.stale = stale] \in Hands
         /\ [hand EXCEPT !.down = down, !.deeds = @ + more] \in Hands
         /\ [hand EXCEPT !.deeds = @ + more] \in Hands
         /\ [hand EXCEPT !.down = down] \in Hands
<1> DEFINE n == hand.deeds + more
<1>1. /\ [hand EXCEPT !.down = down, !.stale = stale, !.deeds = @ + more]
              = [hand EXCEPT !.down = down, !.stale = stale, !.deeds = n]
      /\ [hand EXCEPT !.down = down, !.deeds = @ + more] = [hand EXCEPT !.down = down, !.deeds = n]
      /\ [hand EXCEPT !.deeds = @ + more] = [hand EXCEPT !.deeds = n]
  BY DEF Hands
<1>2. n \in Nat
  BY DEF Hands
<1> HIDE DEF n
<1>3. [hand EXCEPT !.down = down, !.stale = stale, !.deeds = n] \in Hands
  BY <1>2 DEF Hands
<1>4. [hand EXCEPT !.down = down, !.stale = stale] \in Hands /\ [hand EXCEPT !.down = down] \in Hands
  BY DEF Hands
<1>5. [hand EXCEPT !.down = down, !.deeds = n] \in Hands /\ [hand EXCEPT !.deeds = n] \in Hands
  BY <1>2 DEF Hands
<1> QED BY <1>1, <1>3, <1>4, <1>5

LEMMA UnderTyped ==
  ASSUME hand \in Hands, Screen!Under(view')
  PROVE  hand' \in Hands
<1> DEFINE down == hand.down /\ view'.idle = view.idle /\ view'.turned = view.turned
           stale == hand.stale \/ Screen!Screen(view') # Screen!Screen(view)
<1>1. hand' = [hand EXCEPT !.down = down, !.stale = stale]
  BY DEF Screen!Under, Hands
<1>2. down \in BOOLEAN /\ stale \in BOOLEAN
  BY DEF Hands
<1> HIDE DEF down, stale
<1> QED BY <1>1, <1>2, HandTyped

LEMMA LeftTyped ==
  ASSUME left \in 0 .. MaxEvents, Screen!Touch \/ Screen!Event \/ UNCHANGED left
  PROVE  left' \in 0 .. MaxEvents
BY ViewConstants DEF Screen!Touch, Screen!Event

LEMMA HandSteps ==
  ASSUME ViewTyped, Shown, Screen!Hand
  PROVE  Shown' /\ ViewTyped'
<1>0. ViewSound(view) /\ view \in Views /\ hand \in Hands /\ hand.deeds \in Nat /\ left \in 0 .. MaxEvents
  BY DEF Shown, ViewSound, ViewFramed, Core, ViewTyped, Hands
<1>1. ASSUME NEW v, ViewSound(v)
      PROVE  /\ \A on \in Screen!Fields : Fares(v, Screen!FieldPress(v, on)) /\ Fares(v, Screen!FieldRelease(v, on))
             /\ \A on : Fares(v, Screen!RootPress(v, on))
             /\ \A way : Fares(v, Screen!RootDrag(v, way))
             /\ \A lost \in BOOLEAN : Fares(v, Screen!RootEnd(v, lost))
             /\ Fares(v, Screen!DropPending([v EXCEPT !.consumed = TRUE]))
  <2>1. Fares(v, [v EXCEPT !.consumed = TRUE])
    BY <1>1, FollowKeeps
  <2> DEFINE u == [v EXCEPT !.consumed = TRUE]
  <2>2. Fares(v, u)
    BY <2>1
  <2> HIDE DEF u
  <2>3. Fares(v, Screen!DropPending(u))
    BY <2>2, DroppedFares, FaresOn DEF Fares
  <2>4. Fares(v, Screen!DropPending([v EXCEPT !.consumed = TRUE]))
    BY <2>3 DEF u
  <2>5. QED
    BY <1>1, <2>4, FieldKeeps, RootPressKeeps, RootDragKeeps, RootEndKeeps
<1>2. ASSUME NEW on \in Screen!Touchable(view), Screen!Press(on)
      PROVE  Shown' /\ ViewTyped'
  <2> DEFINE v == IF on \in Screen!Fields THEN Screen!FieldPress(view, on) ELSE view
  <2>1. view' = (IF Screen!Bubbles(view, on) THEN Screen!RootPress(v, on) ELSE v)
    BY <1>2 DEF Screen!Press
  <2>2. Fares(view, v)
    BY <1>0, <1>1, FaresStill
  <2> HIDE DEF v
  <2>3. Fares(view, Screen!RootPress(v, on))
    BY <1>1, <2>2, FaresOn DEF Fares
  <2>4. Fares(view, view')
    BY <2>1, <2>2, <2>3
  <2>5. /\ hand' = [down |-> TRUE, on |-> on, stale |-> FALSE, deeds |-> 0] /\ Screen!Touch
        /\ UNCHANGED <<world, ota, keys, loop>>
    BY <1>2 DEF Screen!Press
  <2>6. on \in Touched
    BY <1>0, TouchableIs
  <2>7. hand' \in Hands
    BY <2>5, <2>6 DEF Hands
  <2>8. left' \in 0 .. MaxEvents
    BY <1>0, <2>5, LeftTyped
  <2>9. QED
    BY <2>4, <2>5, <2>7, <2>8, ShownStays DEF ViewTyped
<1>3. ASSUME NEW way \in {"some", "up", "down", "left", "right"}, Screen!Drag(way)
      PROVE  Shown' /\ ViewTyped'
  <2> DEFINE more == IF <<view.open, view.page>> # <<view'.open, view'.page>> THEN 1 ELSE 0
  <2>1. /\ view' = IF Screen!Bubbles(view, hand.on) THEN Screen!RootDrag(view, way) ELSE view
        /\ hand' = [hand EXCEPT !.deeds = @ + more] /\ Screen!Touch
        /\ UNCHANGED <<world, ota, keys, loop>>
    BY <1>3 DEF Screen!Drag
  <2>2. Fares(view, view')
    BY <1>0, <1>1, <2>1, FaresStill
  <2>3. more \in {0, 1}
    OBVIOUS
  <2> HIDE DEF more
  <2>4. hand' \in Hands
    BY <1>0, <2>1, <2>3, HandTyped
  <2>5. left' \in 0 .. MaxEvents
    BY <1>0, <2>1, LeftTyped
  <2>6. QED
    BY <2>1, <2>2, <2>4, <2>5, ShownStays DEF ViewTyped
<1>4. ASSUME Screen!Release
      PROVE  Shown' /\ ViewTyped'
  <2> DEFINE f == IF hand.on \in Screen!Fields THEN Screen!FieldRelease(view, hand.on) ELSE view
             v == IF Screen!Bubbles(view, hand.on) THEN Screen!RootEnd(f, FALSE) ELSE f
  <2>1. PICK o \in Screen!Clicks(v, hand.on) : view' = o[1] /\ hand' = [hand EXCEPT !.down = FALSE, !.deeds = @ + o[2]]
    BY <1>4 DEF Screen!Release
  <2>2. UNCHANGED <<world, ota, keys, loop, left>>
    BY <1>4 DEF Screen!Release
  <2>3. Fares(view, f)
    BY <1>0, <1>1, FaresStill
  <2> HIDE DEF f
  <2>4. Fares(f, Screen!RootEnd(f, FALSE))
    BY <1>1, <2>3 DEF Fares
  <2>5. Fares(view, v)
    BY <2>3, <2>4, FaresOn
  <2> HIDE DEF v
  <2>6. Fares(v, view') /\ o[2] \in {0, 1}
    BY <2>1, <2>5, ClicksKeep DEF Fares, Clicked
  <2>7. Fares(view, view')
    BY <2>5, <2>6, FaresOn
  <2>8. hand' \in Hands
    <3>1. [hand EXCEPT !.down = FALSE, !.deeds = @ + o[2]] \in Hands
      BY <1>0, <2>6, HandTyped
    <3>2. QED
      BY <2>1, <3>1
  <2>9. QED
    BY <1>0, <2>2, <2>7, <2>8, ShownStays DEF ViewTyped
<1>5. ASSUME Screen!Lose
      PROVE  Shown' /\ ViewTyped'
  <2> DEFINE v == IF hand.on \in Screen!Fields THEN Screen!DropPending([view EXCEPT !.consumed = TRUE]) ELSE view
  <2>1. /\ view' = IF Screen!Bubbles(view, hand.on) THEN Screen!RootEnd(v, TRUE) ELSE v
        /\ hand' = [hand EXCEPT !.down = FALSE] /\ Screen!Touch
        /\ UNCHANGED <<world, ota, keys, loop>>
    BY <1>5 DEF Screen!Lose
  <2>2. Fares(view, v)
    BY <1>0, <1>1, FaresStill
  <2> HIDE DEF v
  <2>3. Fares(view, Screen!RootEnd(v, TRUE))
    BY <1>1, <2>2, FaresOn DEF Fares
  <2>4. Fares(view, view')
    BY <2>1, <2>2, <2>3
  <2>5. hand' \in Hands
    BY <1>0, <2>1, HandTyped
  <2>6. left' \in 0 .. MaxEvents
    BY <1>0, <2>1, LeftTyped
  <2>7. QED
    BY <2>1, <2>4, <2>5, <2>6, ShownStays DEF ViewTyped
<1> QED BY <1>2, <1>3, <1>4, <1>5 DEF Screen!Hand

LEMMA LvglSteps ==
  ASSUME ViewTyped, Shown, Screen!Lvgl
  PROVE  Shown' /\ ViewTyped'
<1>0. ViewSound(view) /\ view \in Views /\ hand \in Hands
  BY DEF Shown, ViewSound, ViewFramed, Core, ViewTyped
<1>1. CASE Screen!Hand
  BY <1>1, HandSteps
<1>2. CASE Screen!Frame
  <2> DEFINE w == [view EXCEPT !.noted = TRUE, !.due = FALSE, !.light = IF view.due THEN "bright" ELSE @]
             d == IF view.curtain = "black" THEN "black" ELSE IF view.locked THEN "lock" ELSE "open"
  <2>1. /\ world' = [world EXCEPT !.drawn = d] /\ view' = w /\ UNCHANGED <<ota, hand, keys, loop, left>>
    BY <1>2 DEF Screen!Frame
  <2>2. ViewSound(w) /\ (w.light = "bright" => ~view.locked)
    BY <1>0, FrameKeeps
  <2>3. d \in {"open", "lock", "black"} /\ (d = "lock" => view.locked)
    OBVIOUS
  <2> HIDE DEF w, d
  <2>4. world' \in Worlds /\ world'.asleep = world.asleep /\ world'.drawn = d
    BY <2>1, <2>3 DEF ViewTyped, Worlds
  <2>5. ViewSound(view)'
    BY <2>1, <2>2, <2>4 DEF ViewSound, ViewFramed, Core, SlideSound, SheetSound, RestSound, IdleSound, SecretSound, LinkSound,
         LightSound, Screen!Level, TurnSound, Views
  <2>6. QED
    BY <2>1, <2>2, <2>3, <2>4, <2>5 DEF Shown, ViewTyped
<1>3. ASSUME NEW a \in view.anims, Screen!AnimationEnds(a)
      PROVE  Shown' /\ ViewTyped'
  <2> DEFINE v == [view EXCEPT !.anims = @ \ {a}]
  <2>1. a \in {"slide", "turn", "sheet", "detail"}
    BY <1>0 DEF Views
  <2>2. /\ view' = CASE a = "slide" -> Screen!SlideCompleted(v) [] a = "turn" -> Screen!Turned(v) [] OTHER -> Screen!SheetMoved(v)
        /\ Screen!Under(view') /\ UNCHANGED <<world, ota, keys, loop, left>>
    BY <1>3 DEF Screen!AnimationEnds
  <2>3. CASE a = "slide"
    <3>1. view' = Screen!SlideCompleted(v)
      BY <2>2, <2>3
    <3>2. Fares(view, Screen!SlideCompleted(v))
      BY <1>0, <2>3, SlideEnds
    <3> HIDE DEF v
    <3>3. QED
      BY <1>0, <2>2, <3>1, <3>2, UnderTyped, ShownStays DEF ViewTyped
  <2>4. CASE a = "turn"
    <3>1. view' = Screen!Turned(v)
      BY <2>2, <2>4
    <3>2. Fares(view, Screen!Turned(v))
      BY <1>0, <2>4, TurnEnds
    <3> HIDE DEF v
    <3>3. QED
      BY <1>0, <2>2, <3>1, <3>2, UnderTyped, ShownStays DEF ViewTyped
  <2>5. CASE a \in {"sheet", "detail"}
    <3>1. view' = Screen!SheetMoved(v)
      BY <2>2, <2>5
    <3>2. Fares(view, Screen!SheetMoved(v))
      BY <1>0, <2>5, SheetEnds
    <3> HIDE DEF v
    <3>3. QED
      BY <1>0, <2>2, <3>1, <3>2, UnderTyped, ShownStays DEF ViewTyped
  <2>6. QED
    BY <2>1, <2>3, <2>4, <2>5
<1> QED BY <1>1, <1>2, <1>3 DEF Screen!Lvgl

(* KeyManager::update: what it takes of the keys for granted, and what it  *)
(* makes of keys pressed in the dark.                                      *)
LEMMA KeyUpdateIs ==
  ASSUME keys \in KeyStates, NEW late \in BOOLEAN
  PROVE  LET k == Screen!KeyUpdate(late)
         IN /\ k.keys \in KeyStates /\ k.keys.down = keys.down /\ k.keys.was = keys.was /\ k.keys.dark = keys.dark
            /\ k.toggle \in BOOLEAN /\ k.event \in BOOLEAN
            /\ (keys.combo => keys.pend = Screen!None) => (k.keys.combo => k.keys.pend = Screen!None)
            /\ (keys.combo => keys.pend = Screen!None) /\ keys.down = {} => k.keys.pend = Screen!None
            /\ k.toggle /\ keys.down = {} => keys.pend # Screen!None
<1> DEFINE pend == IF keys.pend # Screen!None \/ Screen!Pressed = {} THEN keys.pend ELSE IF "A" \in Screen!Pressed THEN "A" ELSE "B"
           done == pend # Screen!None /\ (pend \notin keys.down \/ late)
           gone == keys.active \intersect (keys.was \ keys.down)
           chord == keys.down = {"A", "B"}
           p1 == IF chord THEN Screen!None ELSE keys.pend
           a1 == IF chord THEN {} ELSE keys.active
           c1 == keys.down # {}
           k1 == [keys EXCEPT !.pend = p1, !.active = a1, !.combo = c1]
           p2 == IF done THEN Screen!None ELSE pend
           a2 == (keys.active \ gone) \union (IF done /\ pend \in keys.down THEN {pend} ELSE {})
           k2 == [keys EXCEPT !.pend = p2, !.active = a2]
           t1 == chord /\ ~keys.combo
           e1 == chord /\ (~keys.combo \/ keys.active # {})
           t2 == done /\ pend = "B"
           e2 == done \/ gone # {}
<1>0. /\ keys.down \in SUBSET {"A", "B"} /\ keys.was \in SUBSET {"A", "B"} /\ keys.active \in SUBSET {"A", "B"}
      /\ keys.pend \in {"A", "B", Screen!None} /\ keys.combo \in BOOLEAN /\ keys.dark \in BOOLEAN
  BY DEF KeyStates
<1>1. Screen!KeyUpdate(late) = IF chord \/ keys.combo THEN [keys |-> k1, toggle |-> t1, event |-> e1]
                        ELSE [keys |-> k2, toggle |-> t2, event |-> e2]
  <2>1. /\ k1 = [keys EXCEPT !.pend = IF chord THEN Screen!None ELSE @, !.active = IF chord THEN {} ELSE @, !.combo = keys.down # {}]
        /\ k2 = [keys EXCEPT !.pend = IF done THEN Screen!None ELSE pend,
                             !.active = (@ \ gone) \union (IF done /\ pend \in keys.down THEN {pend} ELSE {})]
    <3> HIDE DEF done, pend, gone, chord
    <3>1. QED
      BY DEF KeyStates
  <2>2. QED
    BY <2>1 DEF Screen!KeyUpdate
<1>2. /\ pend \in {"A", "B", Screen!None} /\ done \in BOOLEAN /\ gone \in SUBSET {"A", "B"} /\ chord \in BOOLEAN
      /\ (keys.down = {} => ~chord /\ pend = keys.pend)
      /\ (keys.down = {} => (done <=> pend # Screen!None))
  BY <1>0 DEF Screen!Pressed
<1>3. p1 \in {"A", "B", Screen!None} /\ a1 \in SUBSET {"A", "B"} /\ c1 \in BOOLEAN /\ t1 \in BOOLEAN /\ e1 \in BOOLEAN
  BY <1>0, <1>2
<1>4. p2 \in {"A", "B", Screen!None} /\ a2 \in SUBSET {"A", "B"} /\ t2 \in BOOLEAN /\ e2 \in BOOLEAN
  <2> HIDE DEF pend, done, gone, chord
  <2>1. p2 \in {"A", "B", Screen!None} /\ t2 \in BOOLEAN /\ e2 \in BOOLEAN
    BY <1>2
  <2>2. done /\ pend \in keys.down => pend \in {"A", "B"}
    BY <1>0
  <2>3. a2 \in SUBSET {"A", "B"}
    BY <1>0, <2>2
  <2>4. QED
    BY <2>1, <2>3
<1>5. CASE chord \/ keys.combo
  <2>1. Screen!KeyUpdate(late) = [keys |-> k1, toggle |-> t1, event |-> e1]
    BY <1>1, <1>5
  <2>2. keys.down = {} => ~t1
    BY <1>2
  <2>3. (keys.combo => keys.pend = Screen!None) => p1 = Screen!None
    BY <1>5
  <2> HIDE DEF pend, done, gone, chord, p1, a1, c1, t1, e1
  <2>4. k1 \in KeyStates
    BY <1>3 DEF KeyStates
  <2>5. k1.pend = p1 /\ k1.combo = c1 /\ k1.down = keys.down /\ k1.was = keys.was /\ k1.dark = keys.dark
    BY DEF KeyStates
  <2> HIDE DEF k1
  <2>6. QED
    BY <1>3, <2>1, <2>2, <2>3, <2>4, <2>5
<1>6. CASE ~(chord \/ keys.combo)
  <2>1. Screen!KeyUpdate(late) = [keys |-> k2, toggle |-> t2, event |-> e2]
    BY <1>1, <1>6
  <2>2. keys.down = {} => p2 = Screen!None /\ (t2 => keys.pend # Screen!None)
    BY <1>2
  <2> HIDE DEF pend, done, gone, p2, a2, t2, e2
  <2>4. k2 \in KeyStates
    BY <1>4 DEF KeyStates
  <2>5. k2.pend = p2 /\ k2.combo = keys.combo /\ k2.down = keys.down /\ k2.was = keys.was /\ k2.dark = keys.dark
    BY DEF KeyStates
  <2> HIDE DEF k2
  <2>6. ~keys.combo
    BY <1>6
  <2>7. QED
    BY <1>4, <2>1, <2>2, <2>4, <2>5, <2>6
<1> QED BY <1>5, <1>6

(* onRunning polls the keys: a key that finds the display locked wakes it, *)
(* and is held to that until both are up.                                  *)
LEMMA PollSteps ==
  ASSUME ViewTyped, Shown, KeysSound, NEW late \in BOOLEAN, NEW due \in BOOLEAN, Screen!Poll(late, due)
  PROVE  Shown' /\ ViewTyped' /\ KeysSound'
<1> DEFINE idle == [keys |-> keys, toggle |-> FALSE, event |-> FALSE]
           k == IF loop.capture THEN idle ELSE Screen!KeyUpdate(late)
           wake == view.locked /\ (k.event \/ Screen!Pressed # {})
           held == loop.held \/ wake
           dark == IF loop.capture THEN FALSE ELSE IF Screen!Pressed = {} THEN keys.dark
                   ELSE view.locked \/ (keys.dark /\ keys.was # {})
           at == IF k.event \/ due \/ Screen!Pressed # {} THEN "run" ELSE "poll"
           on == held /\ keys.down # {}
           ev == k.event /\ ~held
           tg == k.toggle /\ ~held
<1>0. /\ ViewSound(view) /\ view \in Views /\ view.locked \in BOOLEAN /\ hand \in Hands /\ keys \in KeyStates /\ loop \in Loops
      /\ world \in Worlds
      /\ keys.down \in SUBSET {"A", "B"} /\ keys.was \in SUBSET {"A", "B"} /\ keys.dark \in BOOLEAN
      /\ loop.held \in BOOLEAN /\ loop.capture \in BOOLEAN
  BY DEF Shown, ViewSound, ViewFramed, Core, ViewTyped, Views, KeyStates, Loops
<1>1. /\ view' = IF wake THEN Screen!Wake(view) ELSE view
      /\ keys' = [k.keys EXCEPT !.was = keys.down, !.dark = IF loop.capture THEN FALSE
                                           ELSE IF Screen!Pressed = {} THEN @
                                           ELSE view.locked \/ (@ /\ keys.was # {})]
      /\ loop' = [loop EXCEPT !.held = on, !.event = ev, !.toggle = tg, !.at = at]
      /\ Screen!Under(view') /\ UNCHANGED <<world, ota, left>>
  BY DEF Screen!Poll
<1>2. /\ k.keys \in KeyStates /\ k.keys.down = keys.down /\ k.keys.was = keys.was /\ k.keys.dark = keys.dark
      /\ k.toggle \in BOOLEAN /\ k.event \in BOOLEAN
      /\ (keys.combo => keys.pend = Screen!None) => (k.keys.combo => k.keys.pend = Screen!None)
      /\ (~loop.capture /\ (keys.combo => keys.pend = Screen!None) /\ keys.down = {} => k.keys.pend = Screen!None)
      /\ (~loop.capture /\ k.toggle /\ keys.down = {} => keys.pend # Screen!None)
      /\ (loop.capture => ~k.toggle)
  <2>1. CASE loop.capture
    <3>1. k = idle
      BY <2>1
    <3> HIDE DEF k
    <3>2. QED
      BY <1>0, <2>1, <3>1
  <2>2. CASE ~loop.capture
    <3>1. k = Screen!KeyUpdate(late)
      BY <2>2
    <3> HIDE DEF k
    <3>2. QED
      BY <1>0, <2>2, <3>1, KeyUpdateIs
  <2>3. QED
    BY <2>1, <2>2
<1> HIDE DEF k, idle
<1>3. keys' = [k.keys EXCEPT !.was = keys.down, !.dark = dark]
  BY <1>1, <1>2 DEF KeyStates
<1>4. dark \in BOOLEAN /\ wake \in BOOLEAN /\ held \in BOOLEAN /\ on \in BOOLEAN /\ ev \in BOOLEAN /\ tg \in BOOLEAN /\ at \in {"poll", "run"}
  BY <1>0, <1>2
<1>5. dark /\ keys.down # {} => held
  BY <1>0, <1>2 DEF Screen!Pressed, KeysSound
<1>6. dark /\ keys.down = {} => ~loop.capture /\ Screen!Pressed = {} /\ keys.dark
  BY <1>0 DEF Screen!Pressed
<1>7. dark => ~tg
  <2>1. CASE keys.down # {}
    BY <1>5, <2>1
  <2>2. CASE keys.down = {}
    BY <1>2, <1>6, <2>2 DEF KeysSound
  <2>3. QED
    BY <2>1, <2>2
<1> HIDE DEF dark, wake, held, ev, tg, at
<1>8. keys' \in KeyStates
  BY <1>0, <1>2, <1>3, <1>4 DEF KeyStates
<1>9. keys'.was = keys.down /\ keys'.dark = dark /\ keys'.pend = k.keys.pend /\ keys'.combo = k.keys.combo
  BY <1>2, <1>3 DEF KeyStates
<1>10. loop' \in Loops /\ loop'.held = on /\ loop'.toggle = tg
  <2> HIDE DEF on
  <2>1. QED
    BY <1>0, <1>1, <1>4 DEF Loops
<1>11. KeysSound'
  <2>1. keys'.dark /\ keys'.was # {} => loop'.held
    BY <1>5, <1>9, <1>10
  <2>2. keys'.dark /\ keys'.was = {} => keys'.pend = Screen!None
    BY <1>2, <1>6, <1>9 DEF KeysSound
  <2>3. (keys'.combo => keys'.pend = Screen!None) /\ (loop'.toggle => ~keys'.dark)
    BY <1>2, <1>7, <1>9, <1>10 DEF KeysSound
  <2>4. QED
    BY <2>1, <2>2, <2>3 DEF KeysSound
<1>12. Fares(view, view')
  BY <1>0, <1>1, WakeKeeps, FaresStill
<1>13. Shown'
  BY <1>1, <1>12, ShownStays
<1>14. hand' \in Hands
  BY <1>0, <1>1, UnderTyped
<1> QED BY <1>1, <1>8, <1>10, <1>11, <1>13, <1>14 DEF ViewTyped

(* onRunning updates the view, part by part.                               *)
LEMMA RunSteps ==
  ASSUME ViewTyped, Shown, KeysSound, NEW seen \in BOOLEAN, NEW other \in BOOLEAN, NEW tilted \in BOOLEAN, NEW expired \in BOOLEAN,
         NEW timeout \in {"none", "result", "idle"}, Screen!Run(seen, other, tilted, expired, timeout)
  PROVE  Shown' /\ ViewTyped' /\ KeysSound'
<1> DEFINE awake == IF loop.event THEN Screen!Wake(view) ELSE view
           copied == Screen!Copied(awake, seen, other)
           fresh == Screen!RefreshOta(copied)
           shown == Screen!Lease(fresh)
           working == Screen!Interacting(shown)
<1>0. /\ ViewSound(view) /\ view \in Views /\ hand \in Hands /\ keys \in KeyStates /\ loop \in Loops /\ world \in Worlds
      /\ ota \in Snapshots /\ left \in 0 .. MaxEvents
  BY DEF Shown, ViewSound, ViewFramed, Core, ViewTyped
<1>1. PICK o \in Screen!Orient(shown, tilted) :
         LET lit == Screen!RefreshDisplay(o, expired)
             rest == CASE timeout = "result" -> Screen!TerminalReturn(lit, working)
                       [] timeout = "idle" -> Screen!AutoLock(lit, working)
                       [] OTHER -> lit
             done == Screen!ServicePending(rest)
         IN /\ view' = IF loop.toggle THEN Screen!Toggle(done) ELSE done
            /\ ota' = [ota EXCEPT !.news = @ /\ ~seen]
            /\ hand' = [hand EXCEPT !.down = @ /\ view'.idle = view.idle /\ view'.turned = view.turned,
                                    !.stale = @ \/ Screen!Screen(view') # Screen!Screen(view),
                                    !.deeds = @ + (IF done.editor # rest.editor THEN 1 ELSE 0)]
  BY DEF Screen!Run
<1>2. /\ loop' = [loop EXCEPT !.at = "poll", !.event = FALSE, !.toggle = FALSE] /\ UNCHANGED <<world, keys>>
      /\ (tilted => Screen!Event) /\ (~tilted => UNCHANGED left)
  BY DEF Screen!Run
<1> DEFINE lit == Screen!RefreshDisplay(o, expired)
           rest == CASE timeout = "result" -> Screen!TerminalReturn(lit, working)
                     [] timeout = "idle" -> Screen!AutoLock(lit, working)
                     [] OTHER -> lit
           done == Screen!ServicePending(rest)
           down == hand.down /\ view'.idle = view.idle /\ view'.turned = view.turned
           stale == hand.stale \/ Screen!Screen(view') # Screen!Screen(view)
           more == IF done.editor # rest.editor THEN 1 ELSE 0
           news == ota.news /\ ~seen
<1>3. /\ view' = IF loop.toggle THEN Screen!Toggle(done) ELSE done
      /\ ota' = [ota EXCEPT !.news = news]
      /\ hand' = [hand EXCEPT !.down = down, !.stale = stale, !.deeds = @ + more]
  <2>1. /\ view' = IF loop.toggle THEN Screen!Toggle(done) ELSE done
        /\ ota' = [ota EXCEPT !.news = @ /\ ~seen]
        /\ hand' = [hand EXCEPT !.down = @ /\ view'.idle = view.idle /\ view'.turned = view.turned,
                                !.stale = @ \/ Screen!Screen(view') # Screen!Screen(view),
                                !.deeds = @ + more]
    BY <1>1
  <2> HIDE DEF lit, rest, done, more
  <2>2. QED
    BY <1>0, <2>1 DEF Hands, Snapshots
<1>4. down \in BOOLEAN /\ stale \in BOOLEAN /\ more \in {0, 1} /\ news \in BOOLEAN
  BY <1>0 DEF Hands, Snapshots
<1>5. Fares(view, awake)
  BY <1>0, WakeKeeps, FaresStill
<1> HIDE DEF awake
<1>6. Fares(view, copied)
  BY <1>0, <1>5, CopiedKeeps, FaresOn DEF Fares
<1> HIDE DEF copied
<1>7. Fares(view, fresh)
  BY <1>0, <1>6, RefreshOtaKeeps, FaresOn DEF Fares
<1> HIDE DEF fresh
<1>8. Fares(view, shown)
  BY <1>7, LeaseKeeps DEF Fares, ViewSound, ViewFramed
<1> HIDE DEF shown
<1>9. Fares(view, o)
  BY <1>1, <1>8, OrientKeeps, FaresOn DEF Fares
<1>10. Fares(view, lit)
  BY <1>9, RefreshDisplayKeeps, FaresOn DEF Fares
<1> HIDE DEF lit, working
<1>11. Fares(lit, Screen!TerminalReturn(lit, working)) /\ Fares(lit, Screen!AutoLock(lit, working))
  BY <1>10, RestKeeps DEF Fares
<1>12. Fares(view, rest)
  BY <1>10, <1>11, FaresOn
<1> HIDE DEF rest
<1>13. Fares(view, done)
  BY <1>12, ServicePendingKeeps, FaresOn DEF Fares
<1> HIDE DEF done
<1>14. Fares(view, Screen!Toggle(done))
  BY <1>0, <1>13, ToggleKeeps, FaresOn DEF Fares
<1>15. Fares(view, view')
  BY <1>3, <1>13, <1>14
<1>16. Shown'
  BY <1>2, <1>15, ShownStays
<1> HIDE DEF down, stale, more, news
<1>17. hand' \in Hands
  BY <1>0, <1>3, <1>4, HandTyped
<1>18. ota' \in Snapshots
  BY <1>0, <1>3, <1>4 DEF Snapshots
<1>19. loop' \in Loops /\ loop'.held = loop.held /\ loop'.toggle = FALSE
  BY <1>0, <1>2 DEF Loops
<1>20. left' \in 0 .. MaxEvents
  BY <1>0, <1>2, LeftTyped
<1>21. KeysSound'
  BY <1>2, <1>19 DEF KeysSound
<1> QED BY <1>0, <1>2, <1>16, <1>17, <1>18, <1>19, <1>20, <1>21 DEF ViewTyped

(* Console commands and captures.                                          *)
LEMMA CommandSteps ==
  ASSUME ViewTyped, Shown, KeysSound, Screen!Command(view) \/ Screen!Capture
  PROVE  Shown' /\ ViewTyped' /\ KeysSound'
<1>0. /\ ViewSound(view) /\ view \in Views /\ hand \in Hands /\ loop \in Loops /\ world \in Worlds /\ left \in 0 .. MaxEvents
  BY DEF Shown, ViewSound, ViewFramed, Core, ViewTyped
<1>1. CASE Screen!Command(view)
  <2> DEFINE x == [view EXCEPT !.dim = TRUE]
             z == Screen!SetLight(x, "dim")
  <2>1. /\ view' \in {Screen!SetPage(view, "Command"), Screen!SetPage(view, "History"), Screen!Lock(view), Screen!Wake(view), Screen!ClearDim(view)}
                     \/ (Screen!Eligible(view) /\ view' = z)
        /\ Screen!Under(view') /\ UNCHANGED <<world, ota, keys, loop>> /\ Screen!Event
    BY <1>1 DEF Screen!Command
  <2>2. ASSUME Screen!Eligible(view)
        PROVE  Fares(view, z)
    <3>1. x \in Views
      BY <1>0, ZenonT(60) DEF Views
    <3>2. x.dim = TRUE /\ x.light = view.light /\ x.due = view.due /\ x.link = view.link
      BY <1>0 DEF Views
    <3>3. SameLock(view, x) /\ SameSheet(view, x) /\ SameTurn(view, x) /\ SamePage(view, x)
      BY <1>0 DEF Views, SameLock, SameSheet, SameTurn, SamePage
    <3>4. SameOta(view, x) /\ SameText(view, x) /\ x.anims = view.anims
      BY <1>0 DEF Views, SameOta, SameText
    <3> HIDE DEF x
    <3>5. SameBody(view, x)
      BY <3>1, <3>3, <3>4 DEF SameBody
    <3>6. Core(x) /\ TurnSound(x) /\ LinkSound(x)
      BY <1>0, <3>2, <3>5, BodyCore DEF ViewSound, ViewFramed
    <3>7. x.locked /\ (x.due => x.light # "bright") /\ Screen!Level(x) = "dim"
      BY <1>0, <2>2, <3>2, <3>3 DEF Screen!Eligible, SameLock, Screen!Level, ViewSound, ViewFramed, LightSound
    <3>8. Core(z) /\ LightSound(z) /\ TurnSound(z) /\ LinkSound(z) /\ (z.light = "bright" => x.light = "bright")
      BY <3>6, <3>7, SetLightKeeps
    <3> HIDE DEF z
    <3>9. QED
      BY <3>2, <3>8 DEF Fares, ViewSound, ViewFramed
  <2> HIDE DEF z
  <2>3. /\ Fares(view, Screen!SetPage(view, "Command")) /\ Fares(view, Screen!SetPage(view, "History")) /\ Fares(view, Screen!Lock(view))
        /\ Fares(view, Screen!Wake(view))
    BY <1>0, SetPageKeeps, LockKeeps, WakeKeeps DEF Pages
  <2>4. Fares(view, Screen!ClearDim(view))
    BY <1>0, ClearDimKeeps DEF Fares, ViewSound, ViewFramed
  <2>5. Fares(view, view')
    BY <2>1, <2>2, <2>3, <2>4
  <2>6. hand' \in Hands /\ left' \in 0 .. MaxEvents
    BY <1>0, <2>1, UnderTyped, LeftTyped
  <2>7. QED
    BY <2>1, <2>5, <2>6, ShownStays DEF ViewTyped, KeysSound
<1>2. CASE Screen!Capture
  <2> DEFINE on == ~loop.capture
  <2>1. /\ loop' = [loop EXCEPT !.capture = on] /\ view' = Screen!Suppress(view, on)
        /\ Screen!Under(view') /\ UNCHANGED <<world, ota, keys>> /\ Screen!Event
    BY <1>0, <1>2 DEF Screen!Capture, Loops
  <2>2. on \in BOOLEAN
    OBVIOUS
  <2> HIDE DEF on
  <2>3. Fares(view, view')
    BY <1>0, <2>1, <2>2, SuppressKeeps
  <2>4. hand' \in Hands /\ left' \in 0 .. MaxEvents
    BY <1>0, <2>1, UnderTyped, LeftTyped
  <2>5. loop' \in Loops /\ loop'.held = loop.held /\ loop'.toggle = loop.toggle
    BY <1>0, <2>1, <2>2 DEF Loops
  <2>6. QED
    BY <2>1, <2>3, <2>4, <2>5, ShownStays DEF ViewTyped, KeysSound
<1> QED BY <1>1, <1>2

(* Keys, the updater, the gauge trial and the touch controller.            *)
LEMMA OtherSteps ==
  ASSUME ViewTyped, Shown, KeysSound, Screen!Others
  PROVE  Shown' /\ ViewTyped' /\ KeysSound'
<1>0. /\ ViewSound(view) /\ view \in Views /\ hand \in Hands /\ loop \in Loops /\ world \in Worlds /\ keys \in KeyStates
      /\ left \in 0 .. MaxEvents
  BY DEF Shown, ViewSound, ViewFramed, Core, ViewTyped
<1>1. ASSUME NEW b \in {"A", "B"}, Screen!Key(b)
      PROVE  Shown' /\ ViewTyped' /\ KeysSound'
  <2> DEFINE some == IF b \in keys.down THEN keys.down \ {b} ELSE keys.down \union {b}
  <2>1. keys' = [keys EXCEPT !.down = some] /\ Screen!Event /\ UNCHANGED <<view, world, ota, hand, loop>>
    BY <1>0, <1>1 DEF Screen!Key, KeyStates
  <2>2. some \in SUBSET {"A", "B"}
    BY <1>0 DEF KeyStates
  <2> HIDE DEF some
  <2>3. /\ keys' \in KeyStates /\ keys'.was = keys.was /\ keys'.dark = keys.dark /\ keys'.pend = keys.pend
        /\ keys'.combo = keys.combo
    BY <1>0, <2>1, <2>2 DEF KeyStates
  <2>4. Shown' /\ left' \in 0 .. MaxEvents
    BY <1>0, <2>1, FaresStill, ShownStays, LeftTyped
  <2>5. QED
    BY <2>1, <2>3, <2>4 DEF ViewTyped, KeysSound
<1>2. ASSUME NEW stage \in {"offer", "ready", "work", "ended"}, Screen!Backend(stage)
      PROVE  Shown' /\ ViewTyped' /\ KeysSound'
  <2>1. ota' = [stage |-> stage, news |-> TRUE] /\ Screen!Event /\ UNCHANGED <<view, world, hand, keys, loop>>
    BY <1>2 DEF Screen!Backend
  <2>2. ota' \in Snapshots
    BY <2>1 DEF Snapshots, Stages
  <2>3. Shown' /\ left' \in 0 .. MaxEvents
    BY <1>0, <2>1, FaresStill, ShownStays, LeftTyped
  <2>4. QED
    BY <2>1, <2>2, <2>3 DEF ViewTyped, KeysSound
<1>3. ASSUME Screen!Trial
      PROVE  Shown' /\ ViewTyped' /\ KeysSound'
  <2>1. /\ world' = [world EXCEPT !.trial = ~@] /\ Screen!Event /\ UNCHANGED <<view, ota, hand, keys, loop>>
    BY <1>3 DEF Screen!Trial
  <2>2. world' \in Worlds /\ world'.asleep = world.asleep /\ world'.drawn = world.drawn
    BY <1>0, <2>1 DEF Worlds
  <2>3. ViewSound(view)'
    BY <1>0, <2>1, <2>2
       DEF ViewSound, ViewFramed, Core, SlideSound, SheetSound, RestSound, IdleSound, SecretSound, LinkSound,
           LightSound, Screen!Level, TurnSound, Views
  <2>4. left' \in 0 .. MaxEvents
    BY <1>0, <2>1, LeftTyped
  <2>5. QED
    BY <2>1, <2>2, <2>3, <2>4 DEF Shown, ViewTyped, KeysSound
<1>4. ASSUME Screen!TouchSleeps
      PROVE  Shown' /\ ViewTyped' /\ KeysSound'
  <2> DEFINE idle == IF world.asleep THEN view.locked ELSE TRUE
             w == [view EXCEPT !.idle = idle]
  <2>1. /\ world' = [world EXCEPT !.asleep = ~@] /\ Screen!Event /\ UNCHANGED <<ota, keys, loop>> /\ Screen!Under(view')
        /\ view' = w /\ (~world.asleep => view.locked)
    BY <1>4 DEF Screen!TouchSleeps, Screen!Eligible
  <2>2. idle \in BOOLEAN /\ (idle => view.locked) /\ (view.locked => idle)
    BY <1>0, <2>1 DEF Views
  <2> HIDE DEF idle
  <2>3. world' \in Worlds /\ world'.drawn = world.drawn
    BY <1>0, <2>1 DEF Worlds
  <2>4. w \in Views
    BY <1>0, <2>2, ZenonT(60) DEF Views
  <2>5. /\ w.idle = idle /\ w.locked = view.locked /\ w.suppressed = view.suppressed /\ w.fault = view.fault
        /\ w.radio = view.radio /\ w.still = view.still /\ w.anims = view.anims /\ w.link = view.link
    BY <1>0 DEF Views
  <2>6. SameSheet(view, w) /\ SameTurn(view, w) /\ SamePage(view, w) /\ SameText(view, w) /\ SameLight(view, w)
    BY <1>0 DEF Views, SameSheet, SameTurn, SamePage, SameText, SameLight
  <2> HIDE DEF w
  <2>7. SlideSound(w) /\ SheetSound(w) /\ SecretSound(w)
    BY <1>0, <2>5, <2>6 DEF ViewSound, ViewFramed, Core, SlideSound, SheetSound, SecretSound, SamePage, SameSheet, SameText
  <2>8. RestSound(w) /\ (w.idle => w.locked)
    BY <1>0, <2>2, <2>5, <2>6 DEF ViewSound, ViewFramed, Core, RestSound, SameSheet, SamePage, SameTurn
  <2>9. LinkSound(w) /\ LightSound(w) /\ w.light = view.light
    BY <1>0, <2>5, <2>6 DEF ViewSound, ViewFramed, LinkSound, LightSound, Screen!Level, SameLight, SamePage
  <2>10. TurnSound(w)
    BY <1>0, <2>5, <2>6 DEF ViewSound, TurnSound, SameTurn
  <2>11. ViewSound(view)'
    BY <2>1, <2>4, <2>7, <2>8, <2>9, <2>10
       DEF ViewSound, ViewFramed, Core, SlideSound, SheetSound, RestSound, IdleSound, SecretSound, LinkSound,
           LightSound, Screen!Level, TurnSound, Views
  <2>12. hand' \in Hands /\ left' \in 0 .. MaxEvents
    BY <1>0, <2>1, UnderTyped, LeftTyped
  <2>13. (view'.light = "bright" => world'.drawn # "lock")
    BY <2>1, <2>3, <2>9 DEF Shown
  <2>14. QED
    BY <2>1, <2>3, <2>11, <2>12, <2>13 DEF Shown, ViewTyped, KeysSound
<1> QED BY <1>1, <1>2, <1>3, <1>4 DEF Screen!Others

LEMMA ViewStarts ==
  ASSUME Screen!Init
  PROVE  ViewInv
<1> DEFINE none == <<>>
           start == {"Command"}
           empty == {}
<1>1. view = [page |-> "Command", panels |-> start, slide |-> none,
             locked |-> FALSE, suppressed |-> FALSE, fault |-> FALSE,
             phase |-> "Idle", curtain |-> "off", noted |-> FALSE, turned |-> FALSE,
             healthy |-> TRUE, open |-> FALSE, closing |-> FALSE, moving |-> FALSE,
             sheet |-> FALSE, detail |-> 0, anims |-> empty,
             tracking |-> FALSE, consumed |-> FALSE, onEditor |-> FALSE, plot |-> FALSE,
             editor |-> Screen!None, pending |-> Screen!None, released |-> FALSE, secret |-> FALSE,
             stage |-> "idle", approved |-> FALSE, offered |-> FALSE,
             dim |-> FALSE, applied |-> "bright", light |-> "bright", due |-> FALSE,
             link |-> FALSE, radio |-> FALSE, idle |-> FALSE, still |-> FALSE]
  BY DEF Screen!Init
<1>2. none \in Seq(Pages) /\ start \in SUBSET Pages /\ empty \in SUBSET {"slide", "turn", "sheet", "detail"}
  BY DEF Pages
<1>3. /\ world = [trial |-> FALSE, asleep |-> FALSE, drawn |-> "open"]
      /\ ota = [stage |-> "idle", news |-> FALSE]
      /\ hand = [down |-> FALSE, on |-> Screen!None, stale |-> FALSE, deeds |-> 0]
      /\ keys = [down |-> {}, was |-> {}, pend |-> Screen!None, combo |-> FALSE, active |-> {}, dark |-> FALSE]
      /\ loop = [at |-> "poll", toggle |-> FALSE, event |-> FALSE, held |-> FALSE, capture |-> FALSE]
      /\ left = MaxEvents
  BY DEF Screen!Init
<1>4. none = <<>> /\ start = {"Command"} /\ empty = {}
  OBVIOUS
<1> HIDE DEF none, start, empty
<1>5. view \in Views
  BY <1>1, <1>2 DEF Views, Pages, Levels
<1>6. SlideSound(view) /\ SheetSound(view) /\ TurnSound(view)
  BY <1>1, <1>4 DEF SlideSound, SheetSound, TurnSound
<1>7. RestSound(view) /\ LinkSound(view) /\ IdleSound(view)
  BY <1>1 DEF RestSound, LinkSound, IdleSound
<1>8. LightSound(view) /\ SecretSound(view)
  BY <1>1 DEF LightSound, SecretSound, Screen!Level
<1>9. ViewTyped
  BY <1>3, ViewConstants DEF ViewTyped, Worlds, Snapshots, Stages, Hands, Touched, KeyStates, Loops
<1>10. KeysSound
  BY <1>3 DEF KeysSound
<1> QED BY <1>3, <1>5, <1>6, <1>7, <1>8, <1>9, <1>10 DEF ViewInv, ViewSound, ViewFramed, Core

LEMMA ViewSteps ==
  ASSUME ViewInv, Screen!Next
  PROVE  ViewInv'
<1>1. ViewTyped /\ Shown /\ KeysSound
  BY DEF ViewInv, Shown
<1>2. ASSUME Screen!Lvgl
      PROVE  Shown' /\ ViewTyped' /\ KeysSound'
  <2>1. Shown' /\ ViewTyped'
    BY <1>1, <1>2, LvglSteps
  <2>2. UNCHANGED <<keys, loop>>
    BY <1>2 DEF Screen!Lvgl, Screen!Hand, Screen!Press, Screen!Drag, Screen!Release, Screen!Lose, Screen!Frame, Screen!AnimationEnds
  <2>3. QED
    BY <1>1, <2>1, <2>2 DEF KeysSound
<1>3. ASSUME Screen!Main
      PROVE  Shown' /\ ViewTyped' /\ KeysSound'
  BY <1>1, <1>3, PollSteps, RunSteps, CommandSteps DEF Screen!Main
<1>4. ASSUME Screen!Others
      PROVE  Shown' /\ ViewTyped' /\ KeysSound'
  BY <1>1, <1>4, OtherSteps
<1> QED BY <1>2, <1>3, <1>4 DEF Screen!Next, ViewInv, Shown

LEMMA ViewIdles ==
  ASSUME ViewInv, UNCHANGED Screen!vars
  PROVE  ViewInv'
<1>1. UNCHANGED <<view, world, ota, hand, keys, loop, left>>
  BY DEF Screen!vars
<1>2. ViewSound(view)'
  BY <1>1 DEF ViewInv, ViewSound, ViewFramed, Core, SlideSound, SheetSound, RestSound, IdleSound, SecretSound, LinkSound,
           LightSound, Screen!Level, TurnSound, Views
<1> QED BY <1>1, <1>2 DEF ViewInv, ViewTyped, KeysSound

(* The run's property, from what is kept.                                  *)
LEMMA RingPages == Screen!Range(Screen!Ring) = Pages
<1>1. /\ DOMAIN Screen!Ring = {1, 2, 3, 4} /\ Screen!Ring[1] = "Command" /\ Screen!Ring[2] = "History" /\ Screen!Ring[3] = "OTA" /\ Screen!Ring[4] = "Sessions"
  BY DEF Screen!Ring
<1>2. Screen!Range(Screen!Ring) = {Screen!Ring[1], Screen!Ring[2], Screen!Ring[3], Screen!Ring[4]}
  BY <1>1 DEF Screen!Range
<1> QED BY <1>1, <1>2 DEF Pages

LEMMA ViewHolds ==
  ASSUME ViewInv
  PROVE  Screen!ViewIsWhole
<1>0. /\ view \in Views /\ SlideSound(view) /\ SheetSound(view) /\ RestSound(view) /\ IdleSound(view) /\ SecretSound(view)
      /\ LinkSound(view) /\ LightSound(view) /\ TurnSound(view) /\ KeysSound /\ ViewTyped
  BY DEF ViewInv, ViewSound, ViewFramed, Core
<1>1. Screen!TypeOK
  <2>1. /\ view.page \in Pages /\ view.panels \subseteq Pages /\ view.slide \in Seq(Pages)
        /\ view.phase \in {"Idle", "FadeOut", "WaitBlack", "WaitRotated", "FadeIn"}
        /\ view.curtain \in {"off", "fading", "black"} /\ view.anims \subseteq {"slide", "turn", "sheet", "detail"}
        /\ view.detail \in 0..4 /\ view.editor \in Screen!Fields \cup {Screen!None} /\ view.pending \in Screen!Fields \cup {Screen!None}
        /\ view.applied \in {"bright", "lock", "dim"} /\ view.light \in {"bright", "lock", "dim"}
    BY <1>0 DEF Views, Levels
  <2>2. hand.deeds \in Nat /\ keys.down \subseteq {"A", "B"} /\ loop.at \in {"poll", "run"} /\ left \in 0..MaxEvents
    BY <1>0 DEF ViewTyped, Hands, KeyStates, Loops
  <2>3. QED
    BY <2>1, <2>2, RingPages DEF Screen!TypeOK
<1>2. Screen!OneScreen
  <2>1. view.panels = {view.page} \union Screen!Range(view.slide)
    <3>1. CASE view.slide = <<>> /\ view.panels = {view.page}
      <4>1. Screen!Range(<< >>) = {}
        BY DEF Screen!Range
      <4>2. QED
        BY <3>1, <4>1
    <3>2. CASE \E p \in Pages \ {view.page} : view.slide = <<p, view.page>> /\ view.panels = {p, view.page}
      BY <3>2, TwoPanels
    <3>3. QED
      BY <1>0, <3>1, <3>2 DEF SlideSound
  <2>2. QED
    BY <1>0, <2>1 DEF Screen!OneScreen, SlideSound, SheetSound, TurnSound
<1>3. Screen!LockIsAtRest
  BY <1>0 DEF Screen!LockIsAtRest, RestSound, IdleSound, LinkSound
<1>4. Screen!LightFollows
  BY <1>0 DEF Screen!LightFollows, LightSound, ViewInv
<1>5. Screen!SecretsLeave
  BY <1>0 DEF Screen!SecretsLeave, SecretSound
<1> QED BY <1>0, <1>1, <1>2, <1>3, <1>4, <1>5 DEF Screen!ViewIsWhole, KeysSound

(* The screen stays whole for any number of events: its pages, slides, the *)
(* sheet, the turn of the panel, its light and its editor agree whatever    *)
(* touches, keys, ends of animations and news of the updater arrive and in *)
(* which order (view_mosaico.cpp's callbacks, update, lockDisplay and      *)
(* wakeDisplay, driven by app_codex_micro.cpp's onRunning).                *)
THEOREM ScreenIsWhole == StandbySpec => []ViewIsWhole
<1>1. StandbyInit => ViewInv
  BY ViewStarts DEF StandbyInit
<1>2. ViewInv /\ [StandbyNext]_<<part, vars, viewVars>> => ViewInv'
  <2> SUFFICES ASSUME ViewInv, [StandbyNext]_<<part, vars, viewVars>> PROVE ViewInv'
    OBVIOUS
  <2>1. CASE Screen!Next
    BY <2>1, ViewSteps
  <2>2. CASE UNCHANGED viewVars
    <3>1. UNCHANGED Screen!vars
      BY <2>2 DEF viewVars, Screen!vars
    <3> QED BY <3>1, ViewIdles
  <2> QED BY <2>1, <2>2 DEF StandbyNext
<1>3. ViewInv => ViewIsWhole
  BY ViewHolds DEF ViewIsWhole
<1> QED BY <1>1, <1>2, <1>3, PTL DEF StandbySpec

-----------------------------------------------------------------------------
(* Touches.  What a contact may still bring about it holds in the view:    *)
(* that the root follows it (tracking), or that an editor is asked for     *)
(* (pending).  Whatever changes the screen takes both away and lets the    *)
(* contact do no more (consumed), so a contact that holds either met the   *)
(* screen there is, and has done nothing yet.                              *)
\* where a contact does not scroll to the root
Inert == {"curtain", "key", "control"}
\* what cannot be touched tracks no contact
GestureQuiet(v) ==
  /\ v.idle \/ v.locked \/ v.suppressed => ~v.tracking
  /\ v.locked \/ v.suppressed => ~v.open
\* a contact that may still act has not acted, and the screen is the one it met
GestureInv ==
  /\ GestureQuiet(view)
  /\ hand.down => ~view.idle
  /\ view.tracking => /\ hand.down /\ ~hand.stale /\ hand.deeds = 0
                      /\ hand.on \notin Inert /\ view.editor = Screen!None
  /\ hand.down /\ hand.on \notin Inert \cup Screen!Fields => view.tracking \/ view.consumed
  /\ hand.down /\ hand.on \in Screen!Fields =>
       view.tracking \/ view.consumed \/ view.editor # Screen!None \/ ~view.open
  /\ hand.down /\ hand.on \in {"key", "control"} =>
       hand.deeds = 0 /\ (hand.stale => ~view.open) /\ view.phase = "Idle"
  /\ view.pending # Screen!None => /\ view.editor = Screen!None /\ view.pending = hand.on /\ (hand.down \/ view.released)
                            /\ ~hand.stale /\ hand.deeds = 0 /\ view.phase = "Idle" /\ ~view.fault
  /\ view.phase = "WaitBlack" => view.curtain = "black" /\ (view.noted => world.drawn = "black")

SameSight(v, w) == /\ w.page = v.page /\ w.open = v.open /\ w.detail = v.detail /\ w.locked = v.locked
                   /\ w.suppressed = v.suppressed /\ w.fault = v.fault /\ w.turned = v.turned
                   /\ w.curtain = "off" <=> v.curtain = "off"
SameGesture(v, w) == /\ w.page = v.page /\ w.open = v.open /\ w.detail = v.detail /\ w.locked = v.locked
                     /\ w.suppressed = v.suppressed /\ w.fault = v.fault /\ w.turned = v.turned
                     /\ w.curtain = v.curtain /\ w.phase = v.phase /\ w.noted = v.noted
                     /\ w.tracking = v.tracking /\ w.consumed = v.consumed /\ w.idle = v.idle
                     /\ w.editor = v.editor /\ w.pending = v.pending /\ w.released = v.released
(* What all but a touch may do to a contact under way: it forgets what was *)
(* begun, and what changes the screen leaves nothing of it.                *)
Tame(v, w) ==
  /\ GestureQuiet(v) => GestureQuiet(w)
  /\ w.pending \in {v.pending, Screen!None} /\ w.editor \in {v.editor, Screen!None}
  /\ (w.open => v.open) /\ (w.tracking => v.tracking) /\ w.turned = v.turned
  /\ v.tracking \/ v.consumed => w.tracking \/ w.consumed
  /\ w.phase \in {v.phase, "Idle"}
  /\ w.phase = "WaitBlack" => w.curtain = v.curtain /\ w.noted = v.noted
  /\ (w.pending # Screen!None => w.released = v.released) /\ (v.editor # Screen!None /\ w.editor = Screen!None => ~w.open)
  /\ (w.idle # v.idle => ~w.tracking) /\ (w.idle => v.idle \/ w.pending = Screen!None)
  /\ ~SameSight(v, w) => ~w.tracking /\ (v.phase = "Idle" => w.pending = Screen!None /\ ~w.open)
Neat(v, w) == Tame(v, w) /\ (w.phase = v.phase \/ w.pending = Screen!None)

LEMMA SightIs ==
  ASSUME NEW v, NEW w, SameSight(v, w)
  PROVE  Screen!Screen(v) = Screen!Screen(w)
<1>1. (v.curtain # "off") = (w.curtain # "off")
  BY DEF SameSight
<1> QED BY <1>1 DEF SameSight, Screen!Screen

LEMMA TameOn ==
  ASSUME NEW u, NEW v, NEW w, Tame(u, v), Tame(v, w)
  PROVE  Tame(u, w)
<1>1. v.phase \in {u.phase, "Idle"} /\ w.phase \in {v.phase, "Idle"}
  BY DEF Tame
<1>2. w.phase = "WaitBlack" => v.phase = "WaitBlack"
  BY <1>1
<1>3. ~SameSight(u, w) => ~SameSight(u, v) \/ ~SameSight(v, w)
  BY DEF SameSight
<1>4. ~SameSight(u, w) => ~w.tracking /\ (u.phase = "Idle" => w.pending = Screen!None /\ ~w.open)
  BY <1>1, <1>3 DEF Tame
<1>5. w.idle # u.idle => ~w.tracking
  BY DEF Tame
<1> QED BY <1>1, <1>2, <1>4, <1>5 DEF Tame

LEMMA NeatOn ==
  ASSUME NEW u, NEW v, NEW w, Neat(u, v), Neat(v, w)
  PROVE  Neat(u, w)
<1>1. Tame(u, w)
  BY TameOn DEF Neat
<1>2. w.pending \in {v.pending, Screen!None}
  BY DEF Neat, Tame
<1> QED BY <1>1, <1>2 DEF Neat

LEMMA SameTame ==
  ASSUME NEW v, NEW w, SameGesture(v, w)
  PROVE  Neat(v, w)
BY DEF Neat, Tame, SameGesture, SameSight, GestureQuiet

LEMMA SameGestureOn ==
  ASSUME NEW u, NEW v, NEW w, SameGesture(u, v), SameGesture(v, w)
  PROVE  SameGesture(u, w)
BY DEF SameGesture

LEMMA NoTouchTame ==
  ASSUME NEW v \in Views
  PROVE  LET w == Screen!NoTouch(v) IN Neat(v, w) /\ ~w.tracking /\ w.consumed /\ w.pending = v.pending /\ w.editor = v.editor /\ w.open = v.open
<1> DEFINE w == Screen!NoTouch(v)
<1>1. /\ w.page = v.page /\ w.open = v.open /\ w.detail = v.detail /\ w.locked = v.locked
      /\ w.suppressed = v.suppressed /\ w.fault = v.fault /\ w.turned = v.turned
      /\ w.curtain = v.curtain /\ w.phase = v.phase /\ w.noted = v.noted
      /\ w.tracking = FALSE /\ w.consumed = TRUE /\ w.idle = v.idle
      /\ w.editor = v.editor /\ w.pending = v.pending /\ w.released = v.released
  BY DEF Screen!NoTouch, Views
<1> HIDE DEF w
<1>2. SameSight(v, w)
  BY <1>1 DEF SameSight
<1> QED BY <1>1, <1>2 DEF Neat, Tame, GestureQuiet, w

LEMMA DropPendingTame ==
  ASSUME NEW v \in Views
  PROVE  LET w == Screen!DropPending(v) IN Neat(v, w) /\ w.pending = Screen!None /\ w.tracking = v.tracking /\ w.consumed = v.consumed
                                    /\ w.editor = v.editor /\ w.open = v.open /\ w.page = v.page /\ w.phase = v.phase
<1> DEFINE w == Screen!DropPending(v)
<1>1. /\ w.page = v.page /\ w.open = v.open /\ w.detail = v.detail /\ w.locked = v.locked
      /\ w.suppressed = v.suppressed /\ w.fault = v.fault /\ w.turned = v.turned
      /\ w.curtain = v.curtain /\ w.phase = v.phase /\ w.noted = v.noted
      /\ w.tracking = v.tracking /\ w.consumed = v.consumed /\ w.idle = v.idle
      /\ w.editor = v.editor /\ w.pending = Screen!None
  BY DEF Screen!DropPending, Views
<1> HIDE DEF w
<1>2. SameSight(v, w)
  BY <1>1 DEF SameSight
<1> QED BY <1>1, <1>2 DEF Neat, Tame, GestureQuiet, w

LEMMA CancelSlideSame ==
  ASSUME NEW v \in Views
  PROVE  SameGesture(v, Screen!CancelSlide(v))
BY DEF Screen!CancelSlide, Views, SameGesture

LEMMA SetLightSame ==
  ASSUME NEW v \in Views, NEW level
  PROVE  SameGesture(v, Screen!SetLight(v, level))
BY DEF Screen!SetLight, Views, SameGesture

LEMMA ClearDimSame ==
  ASSUME NEW v, Core(v), LightSound(v)
  PROVE  SameGesture(v, Screen!ClearDim(v))
<1>1. v \in Views
  BY DEF Core
<1> DEFINE u == [v EXCEPT !.dim = FALSE]
<1>2. CASE v.dim
  <2>1. u \in Views
    BY <1>1, ZenonT(60) DEF Views
  <2>2. SameGesture(v, u)
    BY <1>1 DEF SameGesture, Views
  <2>3. Screen!ClearDim(v) = Screen!SetLight(u, Screen!Level(u))
    BY <1>2 DEF Screen!ClearDim
  <2> HIDE DEF u
  <2> QED BY <2>1, <2>2, <2>3, SetLightSame, SameGestureOn
<1>3. CASE ~v.dim
  BY <1>3 DEF Screen!ClearDim, SameGesture
<1> QED BY <1>2, <1>3

LEMMA LeaseSame ==
  ASSUME NEW v \in Views
  PROVE  SameGesture(v, Screen!Lease(v))
BY DEF Screen!Lease, Views, SameGesture

LEMMA CloseSheetTame ==
  ASSUME NEW v, Core(v), NEW animate \in BOOLEAN
  PROVE  LET w == Screen!CloseSheet(v, animate)
         IN Neat(v, w) /\ w.pending = Screen!None /\ ~w.open /\ (v.editor # Screen!None => w.editor = Screen!None /\ v.open)
<1> DEFINE w == Screen!CloseSheet(v, animate)
<1>1. v \in Views
  BY DEF Core
<1>2. CASE ~v.open /\ ~v.moving
  <2>1. w = Screen!DropPending(v) /\ v.editor = Screen!None
    BY <1>2 DEF Screen!CloseSheet, Core, SecretSound
  <2> HIDE DEF w
  <2> QED BY <1>1, <1>2, <2>1, DropPendingTame DEF w
<1>3. CASE ~(~v.open /\ ~v.moving)
  <2>1. /\ w.page = v.page /\ ~w.open /\ w.detail = v.detail /\ w.locked = v.locked
        /\ w.suppressed = v.suppressed /\ w.fault = v.fault /\ w.turned = v.turned
        /\ w.curtain = v.curtain /\ w.phase = v.phase /\ w.noted = v.noted
        /\ w.tracking = FALSE /\ w.consumed = TRUE /\ w.idle = v.idle
        /\ w.editor = Screen!None /\ w.pending = Screen!None
    BY <1>1, <1>3 DEF Screen!CloseSheet, Screen!NoTouch, Screen!RestoreEditor, Screen!DropPending, Views
  <2>2. v.editor # Screen!None => v.open
    BY DEF Core, SecretSound
  <2> HIDE DEF w
  <2> QED BY <2>1, <2>2 DEF Neat, Tame, GestureQuiet, SameSight, w
<1> QED BY <1>2, <1>3

LEMMA CancelTurnTame ==
  ASSUME NEW v, Core(v)
  PROVE  LET w == Screen!CancelTurn(v)
         IN Tame(v, w) /\ (v.fault => w.pending = Screen!None /\ ~w.open /\ ~w.tracking /\ w.consumed)
<1>1. v \in Views
  BY DEF Core
<1>2. CASE v.fault
  <2> DEFINE a == Screen!CloseSheet(v, FALSE)
             b == Screen!CancelSlide(a)
             c == Screen!NoTouch(b)
             some == c.anims \ {"turn"}
             d == [c EXCEPT !.anims = some, !.curtain = "black", !.phase = "Idle"]
  <2>1. Screen!CancelTurn(v) = [c EXCEPT !.anims = @ \ {"turn"}, !.curtain = "black", !.phase = "Idle"]
    BY <1>2 DEF Screen!CancelTurn
  <2>2. Core(a) /\ Tame(v, a) /\ a.pending = Screen!None /\ ~a.open
    BY CloseSheetKeeps, CloseSheetTame DEF Neat
  <2> HIDE DEF a
  <2>3. Core(b) /\ Tame(a, b) /\ b.pending = Screen!None /\ ~b.open
    <3>1. Core(b)
      BY <2>2, CancelSlideKeeps
    <3>2. SameGesture(a, b)
      BY <2>2, CancelSlideSame DEF Core
    <3> HIDE DEF b
    <3> QED BY <2>2, <3>1, <3>2, SameTame DEF Neat, SameGesture
  <2> HIDE DEF b
  <2>4. c \in Views /\ Tame(b, c) /\ c.pending = Screen!None /\ ~c.open /\ ~c.tracking /\ c.consumed
    <3>1. b \in Views
      BY <2>3 DEF Core
    <3>2. c \in Views
      BY <3>1, NoTouchIs
    <3> HIDE DEF c
    <3> QED BY <2>3, <3>1, <3>2, NoTouchTame DEF Neat, c
  <2> HIDE DEF c
  <2>5. Tame(v, c)
    BY <2>2, <2>3, <2>4, TameOn
  <2> DEFINE w == Screen!CancelTurn(v)
  <2>6. /\ w.open = c.open /\ w.locked = c.locked
        /\ w.suppressed = c.suppressed /\ w.turned = c.turned /\ w.phase = "Idle"
        /\ w.tracking = FALSE /\ w.consumed = TRUE /\ w.idle = c.idle
        /\ w.editor = c.editor /\ w.pending = Screen!None
    BY <2>1, <2>4 DEF Views
  <2> HIDE DEF w
  <2> QED BY <2>4, <2>5, <2>6 DEF Tame, GestureQuiet, w
<1>3. CASE ~v.fault /\ v.phase = "Idle"
  <2>1. Screen!CancelTurn(v) = v
    BY <1>3 DEF Screen!CancelTurn
  <2> QED BY <1>3, <2>1 DEF Tame, SameSight
<1>4. CASE ~v.fault /\ v.phase # "Idle"
  <2> DEFINE c == Screen!NoTouch(v)
             w == Screen!CancelTurn(v)
  <2>1. w = [c EXCEPT !.anims = @ \ {"turn"}, !.curtain = "off", !.phase = "Idle"]
    BY <1>4 DEF Screen!CancelTurn
  <2>2. c \in Views /\ Tame(v, c) /\ ~c.tracking /\ c.consumed
    <3>1. c \in Views
      BY <1>1, NoTouchIs
    <3> HIDE DEF c
    <3> QED BY <1>1, <3>1, NoTouchTame DEF Neat, c
  <2> HIDE DEF c
  <2>3. /\ w.open = c.open /\ w.locked = c.locked
        /\ w.suppressed = c.suppressed /\ w.turned = c.turned /\ w.phase = "Idle"
        /\ w.tracking = FALSE /\ w.consumed = TRUE /\ w.idle = c.idle
        /\ w.editor = c.editor /\ w.pending = c.pending /\ w.released = c.released
    BY <2>1, <2>2 DEF Views
  <2> HIDE DEF w
  <2> QED BY <1>4, <2>2, <2>3 DEF Tame, GestureQuiet, w
<1> QED BY <1>2, <1>3, <1>4

LEMMA ShowPageTame ==
  ASSUME NEW v, ViewSound(v), NEW page \in Pages
  PROVE  Neat(v, Screen!ShowPage(v, page))
<1> DEFINE w == Screen!ShowPage(v, page)
<1>1. CASE v.fault \/ (Screen!OtaBusy(v) /\ page # "OTA")
  <2>1. w = v
    BY <1>1 DEF Screen!ShowPage
  <2> QED BY <2>1, SameTame DEF SameGesture
<1>2. CASE ~(v.fault \/ (Screen!OtaBusy(v) /\ page # "OTA"))
  <2> DEFINE a == Screen!CloseSheet(v, FALSE)
             b == Screen!CancelTurn(a)
             c == Screen!CancelSlide(b)
             x == [c EXCEPT !.consumed = @ \/ c.tracking, !.plot = FALSE, !.tracking = FALSE,
                            !.page = page, !.panels = {page}]
             y == Screen!Lease(x)
  <2>1. w = y
    BY <1>2 DEF Screen!ShowPage
  <2>2. ViewSound(a) /\ Tame(v, a) /\ a.pending = Screen!None /\ ~a.open
    BY CloseSheetKeeps, CloseSheetTame DEF ViewSound, ViewFramed, Neat
  <2> HIDE DEF a
  <2>3. ViewSound(b) /\ Tame(a, b)
    BY <2>2, CancelTurnKeeps, CancelTurnTame DEF ViewSound, ViewFramed
  <2> HIDE DEF b
  <2>4. ViewSound(c) /\ c \in Views
    BY <2>3, CancelSlideKeeps DEF ViewSound, ViewFramed, Core
  <2>5. SameGesture(b, c)
    BY <2>3, CancelSlideSame DEF ViewSound, ViewFramed, Core
  <2> HIDE DEF c
  <2>6. Tame(v, c) /\ c.pending = Screen!None /\ ~c.open
    <3>1. Tame(b, c)
      BY <2>5, SameTame DEF Neat
    <3>2. Tame(a, c)
      BY <2>3, <3>1, TameOn
    <3> QED BY <2>2, <3>2, TameOn DEF Tame
  <2>7. x \in Views
    <3> DEFINE on == c.consumed \/ c.tracking
               one == {page}
    <3>1. on \in BOOLEAN /\ one \in SUBSET Pages
      OBVIOUS
    <3>2. x = [c EXCEPT !.consumed = on, !.plot = FALSE, !.tracking = FALSE, !.page = page, !.panels = one]
      BY <2>4 DEF Views
    <3> HIDE DEF on, x, one
    <3>3. [c EXCEPT !.consumed = on, !.plot = FALSE, !.tracking = FALSE, !.page = page, !.panels = one] \in Views
      BY <2>4, <3>1, ZenonT(60) DEF Views
    <3> QED BY <3>2, <3>3
  <2>8. /\ x.open = c.open /\ x.locked = c.locked /\ x.suppressed = c.suppressed /\ x.turned = c.turned
        /\ x.phase = c.phase /\ x.curtain = c.curtain /\ x.noted = c.noted
        /\ x.tracking = FALSE /\ (c.tracking \/ c.consumed => x.consumed) /\ x.idle = c.idle
        /\ x.editor = c.editor /\ x.pending = c.pending
    BY <2>4 DEF Views
  <2> HIDE DEF x
  <2>9. Tame(v, x) /\ x.pending = Screen!None
    BY <2>6, <2>8 DEF Tame, GestureQuiet
  <2>10. SameGesture(x, y)
    BY <2>7, LeaseSame
  <2> HIDE DEF y
  <2>11. Tame(x, y) /\ y.pending = Screen!None
    BY <2>9, <2>10, SameTame DEF Neat, SameGesture
  <2>12. Tame(v, y)
    BY <2>9, <2>11, TameOn
  <2> QED BY <2>1, <2>11, <2>12 DEF Neat
<1> QED BY <1>1, <1>2

(* Waking finds nothing begun: a dark screen was touched by nobody.        *)
LEMMA RousedTame ==
  ASSUME NEW v, ViewSound(v), world \in Worlds, GestureQuiet(v)
  PROVE  Neat(v, Screen!ClearDim(v)) /\ Neat(v, Roused(v)) /\ Neat(v, Taken(Roused(v)))
<1> DEFINE w == Screen!ClearDim(v)
           still == w.suppressed \/ Screen!OtaBusy(w)
           idle == w.idle /\ world.asleep
           x == [w EXCEPT !.locked = FALSE, !.radio = FALSE, !.idle = idle, !.still = still]
           y == Screen!SetLight(x, "bright")
           z == Taken(y)
<1>1. Core(w)
  BY ClearDimKeeps DEF ViewSound, ViewFramed
<1>2. SameGesture(v, w)
  BY ClearDimSame DEF ViewSound, ViewFramed
<1>3. Roused(v) = y
  BY DEF Roused
<1>4. idle \in BOOLEAN /\ (idle => w.idle) /\ still \in BOOLEAN
  BY <1>1 DEF Worlds, Core, Views
<1>5. GestureQuiet(w) /\ Neat(v, w)
  BY <1>2, SameTame DEF Neat, Tame
<1>6. w.locked => ~w.open /\ w.pending = Screen!None
  BY <1>1 DEF Core, RestSound, SecretSound
<1>7. w \in Views
  BY <1>1 DEF Core
<1> HIDE DEF w
<1> HIDE DEF idle, still
<1>8. x \in Views
  BY <1>4, <1>7, ZenonT(60) DEF Views
<1>9. /\ x.page = w.page /\ x.open = w.open /\ x.detail = w.detail /\ x.locked = FALSE
      /\ x.suppressed = w.suppressed /\ x.fault = w.fault /\ x.turned = w.turned
      /\ x.curtain = w.curtain /\ x.phase = w.phase /\ x.noted = w.noted
      /\ x.tracking = w.tracking /\ x.consumed = w.consumed /\ x.idle = idle
      /\ x.editor = w.editor /\ x.pending = w.pending /\ x.released = w.released
  BY <1>7 DEF Views
<1> HIDE DEF x
<1>10. Neat(w, x)
  <2>1. ~SameSight(w, x) => w.locked
    BY <1>7, <1>9 DEF SameSight, Views
  <2>2. x.idle # w.idle => w.idle
    BY <1>4, <1>7, <1>9 DEF Views
  <2>3. GestureQuiet(x)
    BY <1>4, <1>5, <1>9 DEF GestureQuiet
  <2>4. (w.locked \/ w.idle) => ~x.tracking
    BY <1>5, <1>9 DEF GestureQuiet
  <2> QED BY <1>6, <1>9, <2>1, <2>2, <2>3, <2>4 DEF Neat, Tame
<1>11. SameGesture(x, y)
  BY <1>8, SetLightSame
<1>12. y \in Views
  BY <1>8, SetLightIs DEF SameBody, Levels
<1> HIDE DEF y
<1>13. SameGesture(y, z)
  BY <1>12 DEF SameGesture, Views, Taken
<1> HIDE DEF z
<1>14. Neat(x, y) /\ Neat(y, z)
  BY <1>11, <1>13, SameTame
<1> QED BY <1>3, <1>5, <1>10, <1>14, NeatOn DEF w, z

LEMMA WakeTame ==
  ASSUME NEW v, ViewSound(v), world \in Worlds, GestureQuiet(v)
  PROVE  Neat(v, Screen!Wake(v))
<1>1. /\ Screen!ClearDim(v) \in Views /\ Fares(v, Roused(v)) /\ Fares(v, Taken(Roused(v)))
  BY RousedKeeps
<1>2. Neat(v, Screen!ClearDim(v)) /\ Neat(v, Roused(v)) /\ Neat(v, Taken(Roused(v)))
  BY RousedTame
<1>3. Neat(v, Screen!ShowPage(Taken(Roused(v)), "OTA"))
  <2>1. Neat(Taken(Roused(v)), Screen!ShowPage(Taken(Roused(v)), "OTA"))
    BY <1>1, ShowPageTame DEF Pages, Fares
  <2> QED BY <1>2, <2>1, NeatOn
<1>4. Neat(v, Screen!Lease(Roused(v)))
  <2>1. Neat(Roused(v), Screen!Lease(Roused(v)))
    BY <1>1, LeaseSame, SameTame DEF Fares, ViewSound, ViewFramed, Core
  <2> QED BY <1>2, <2>1, NeatOn
<1>5. Neat(v, v)
  BY SameTame DEF SameGesture
<1> QED BY <1>1, <1>2, <1>3, <1>4, <1>5, WakeIs

LEMMA SetPageTame ==
  ASSUME NEW v, ViewSound(v), world \in Worlds, NEW page \in Pages, GestureQuiet(v)
  PROVE  Neat(v, Screen!SetPage(v, page))
<1> DEFINE w == Screen!ShowPage(v, page)
<1>1. ViewSound(w) /\ Neat(v, w)
  BY ShowPageKeeps, ShowPageTame DEF Fares
<1>2. Screen!SetPage(v, page) = IF w.page = "OTA" /\ page = "OTA" /\ w.locked THEN Screen!Wake(w) ELSE w
  BY DEF Screen!SetPage
<1> HIDE DEF w
<1>3. GestureQuiet(w)
  BY <1>1 DEF Neat, Tame
<1>4. Neat(w, Screen!Wake(w))
  BY <1>1, <1>3, WakeTame
<1> QED BY <1>1, <1>2, <1>4, NeatOn

LEMMA LockTame ==
  ASSUME NEW v, ViewSound(v)
  PROVE  Neat(v, Screen!Lock(v))
<1>1. CASE v.fault \/ v.locked \/ Screen!KeepAwake(v)
  <2>1. Screen!Lock(v) = v
    BY <1>1 DEF Screen!Lock
  <2> QED BY <2>1, SameTame DEF SameGesture
<1>2. CASE ~(v.fault \/ v.locked \/ Screen!KeepAwake(v))
  <2> DEFINE a == Screen!CancelTurn(v)
             b == Screen!CloseSheet(a, FALSE)
             c == Screen!CancelSlide(b)
             d == Screen!NoTouch(c)
             x == [d EXCEPT !.still = TRUE, !.locked = TRUE, !.radio = TRUE, !.idle = TRUE]
             y == Screen!Lease(x)
             z == Screen!SetLight(y, "lock")
  <2>1. Screen!Lock(v) = z
    BY <1>2 DEF Screen!Lock
  <2>2. Core(a) /\ Tame(v, a)
    BY CancelTurnKeeps, CancelTurnTame DEF ViewSound, ViewFramed
  <2> HIDE DEF a
  <2>3. Core(b) /\ Tame(a, b) /\ b.pending = Screen!None /\ ~b.open
    BY <2>2, CloseSheetKeeps, CloseSheetTame DEF Neat
  <2> HIDE DEF b
  <2>4. Core(c) /\ SameGesture(b, c)
    BY <2>3, CancelSlideKeeps, CancelSlideSame DEF Core
  <2> HIDE DEF c
  <2>5. Tame(b, c) /\ c.pending = Screen!None /\ ~c.open /\ c \in Views
    BY <2>3, <2>4, SameTame DEF Neat, SameGesture, Core
  <2>6. Tame(c, d) /\ d.pending = Screen!None /\ ~d.open /\ ~d.tracking /\ d.consumed
    BY <2>5, NoTouchTame DEF Neat
  <2>7. d \in Views
    BY <2>5, NoTouchIs
  <2> HIDE DEF d
  <2>8. Tame(v, d)
    <3>1. Tame(v, b)
      BY <2>2, <2>3, TameOn
    <3>2. Tame(b, d)
      BY <2>5, <2>6, TameOn
    <3> QED BY <3>1, <3>2, TameOn
  <2>9. x \in Views
    BY <2>7 DEF Views
  <2>10. /\ x.open = d.open /\ x.locked = TRUE /\ x.suppressed = d.suppressed /\ x.turned = d.turned
         /\ x.phase = d.phase /\ x.curtain = d.curtain /\ x.noted = d.noted
         /\ x.tracking = d.tracking /\ x.consumed = d.consumed
         /\ x.editor = d.editor /\ x.pending = d.pending
    BY <2>7 DEF Views
  <2> HIDE DEF x
  <2>11. Neat(v, x)
    BY <2>6, <2>8, <2>10 DEF Neat, Tame, GestureQuiet
  <2>12. SameGesture(x, y) /\ y \in Views
    BY <2>9, LeaseSame, LeaseIs DEF SameBody
  <2> HIDE DEF y
  <2>13. SameGesture(y, z)
    BY <2>12, SetLightSame
  <2> HIDE DEF z
  <2>14. Neat(x, y) /\ Neat(y, z)
    BY <2>12, <2>13, SameTame
  <2> QED BY <2>1, <2>11, <2>14, NeatOn
<1> QED BY <1>1, <1>2

LEMMA SuppressTame ==
  ASSUME NEW v, ViewSound(v), NEW on \in BOOLEAN, GestureQuiet(v)
  PROVE  Tame(v, Screen!Suppress(v, on))
<1> DEFINE x == [v EXCEPT !.suppressed = on]
<1>1. v \in Views
  BY DEF ViewSound, ViewFramed, Core
<1>2. x \in Views
  BY <1>1, ZenonT(60) DEF Views
<1>3. SameSheet(v, x) /\ SameTurn(v, x) /\ SamePage(v, x) /\ SameText(v, x) /\ SameLight(v, x)
  BY <1>1 DEF Views, SameSheet, SameTurn, SamePage, SameText, SameLight
<1>4. /\ x.anims = v.anims /\ x.link = v.link /\ x.locked = v.locked /\ x.radio = v.radio /\ x.idle = v.idle
      /\ x.still = v.still /\ x.suppressed = on /\ x.fault = v.fault
  BY <1>1 DEF Views
<1>5. /\ x.page = v.page /\ x.open = v.open /\ x.detail = v.detail /\ x.turned = v.turned
      /\ x.curtain = v.curtain /\ x.phase = v.phase /\ x.noted = v.noted
      /\ x.tracking = v.tracking /\ x.consumed = v.consumed
      /\ x.editor = v.editor /\ x.pending = v.pending /\ x.released = v.released
  BY <1>1 DEF Views
<1>6. Core(x) /\ LightSound(x) /\ TurnSound(x)
  <2>1. x.locked => x.still
    BY <1>4 DEF ViewSound, ViewFramed, Core, RestSound
  <2> HIDE DEF x
  <2> QED BY <1>2, <1>3, <1>4, <2>1, FlagKeeps DEF ViewSound, ViewFramed
<1>7. CASE on = TRUE
  <2> DEFINE y == Screen!ClearDim(x)
             w == Screen!Lease(y)
             a == Screen!CloseSheet(w, FALSE)
             b == Screen!NoTouch(a)
             c == Screen!CancelTurn(b)
             d == Screen!CancelSlide(c)
             e == [d EXCEPT !.still = TRUE]
  <2>1. Screen!Suppress(v, on) = e
    BY <1>7 DEF Screen!Suppress
  <2> HIDE DEF x
  <2>2. Core(y) /\ LightSound(y) /\ TurnSound(y) /\ SameGesture(x, y)
    BY <1>6, ClearDimKeeps, ClearDimSame
  <2> HIDE DEF y
  <2>3. ViewSound(w) /\ SameGesture(y, w)
    BY <2>2, LeaseKeeps, LeaseSame DEF Core
  <2> HIDE DEF w
  <2>4. ViewSound(a) /\ Tame(w, a) /\ a.pending = Screen!None /\ ~a.open
    BY <2>3, CloseSheetKeeps, CloseSheetTame DEF Neat, ViewSound, ViewFramed
  <2> HIDE DEF a
  <2>5. ViewSound(b) /\ Tame(a, b) /\ ~b.tracking /\ b.consumed /\ ~b.open /\ b.pending = Screen!None
    BY <2>4, NoTouchKeeps, NoTouchTame DEF Neat, ViewSound, ViewFramed, Core
  <2> HIDE DEF b
  <2>6. ViewSound(c) /\ Tame(b, c)
    BY <2>5, CancelTurnTame, CancelTurnKeeps DEF ViewSound, ViewFramed
  <2> HIDE DEF c
  <2>7. SameGesture(c, d) /\ d \in Views
    BY <2>6, CancelSlideSame, CancelSlideKeeps DEF ViewSound, ViewFramed, Core
  <2> HIDE DEF d
  <2>8. SameGesture(d, e)
    BY <2>7 DEF SameGesture, Views
  <2> HIDE DEF e
  <2>9. Tame(x, e) /\ Tame(b, e)
    <3>1. Tame(x, y) /\ Tame(y, w) /\ Tame(c, d) /\ Tame(d, e)
      BY <2>2, <2>3, <2>7, <2>8, SameTame DEF Neat
    <3>2. Tame(b, d) /\ Tame(x, w) /\ Tame(w, b)
      BY <2>4, <2>5, <2>6, <3>1, TameOn
    <3>3. Tame(b, e) /\ Tame(x, b)
      BY <3>1, <3>2, TameOn
    <3> QED BY <3>3, TameOn
  <2>10. ~e.tracking /\ e.consumed /\ ~e.open /\ e.pending = Screen!None
    BY <2>5, <2>9 DEF Tame
  <2>11. Tame(v, e)
    BY <1>4, <1>5, <2>9, <2>10 DEF Tame, GestureQuiet
  <2> QED BY <2>1, <2>11
<1>8. CASE on = FALSE
  <2>1. Screen!Suppress(v, on) = Screen!Lease(x)
    BY <1>8 DEF Screen!Suppress
  <2>2. v.suppressed => ~v.open /\ ~v.tracking /\ v.pending = Screen!None
    BY DEF GestureQuiet, ViewSound, ViewFramed, Core, SecretSound
  <2> HIDE DEF x
  <2>3. ~SameSight(v, x) => v.suppressed
    BY <1>1, <1>4, <1>5, <1>8 DEF SameSight, Views
  <2>4. Tame(v, x)
    BY <1>4, <1>5, <1>8, <2>2, <2>3 DEF Tame, GestureQuiet
  <2>5. Tame(x, Screen!Lease(x))
    BY <1>2, LeaseSame, SameTame DEF Neat
  <2> QED BY <2>1, <2>4, <2>5, TameOn
<1> QED BY <1>7, <1>8

LEMMA NavigateTame ==
  ASSUME NEW v, ViewSound(v), NEW step \in {1, 3}
  PROVE  Neat(v, Screen!Navigate(v, step))
<1>1. CASE Screen!Blocked(v) \/ v.open
  <2>1. Screen!Navigate(v, step) = v
    BY <1>1 DEF Screen!Navigate
  <2> QED BY <2>1, SameTame DEF SameGesture
<1>2. CASE ~(Screen!Blocked(v) \/ v.open)
  <2> DEFINE here == CHOOSE i \in 1 .. 4 : Screen!Ring[i] = v.page
             next == Screen!Ring[((here - 1 + step) % 4) + 1]
             w == Screen!ShowPage(v, next)
             way == <<v.page, next>>
             both == {v.page, next}
             some == w.anims \union {"slide"}
             x == [w EXCEPT !.slide = way, !.panels = both, !.anims = some]
  <2>1. Screen!Navigate(v, step) = x
    BY <1>2 DEF Screen!Navigate
  <2>2. next \in Pages
    BY NextPage DEF ViewSound, ViewFramed, Core, Views
  <2> HIDE DEF next
  <2>3. Neat(v, w) /\ w \in Views
    BY <2>2, ShowPageTame, ShowPageKeeps DEF Fares, ViewSound, ViewFramed, Core
  <2> HIDE DEF w, way, both, some
  <2>4. SameGesture(w, x)
    BY <2>3 DEF SameGesture, Views
  <2> HIDE DEF x
  <2> QED BY <2>1, <2>3, <2>4, SameTame, NeatOn
<1> QED BY <1>1, <1>2

LEMMA ToggleTame ==
  ASSUME NEW v, ViewSound(v), world \in Worlds, GestureQuiet(v)
  PROVE  Neat(v, Screen!Toggle(v))
<1>1. Neat(v, v) /\ Neat(v, Screen!Wake(v)) /\ Neat(v, Screen!Navigate(v, 1))
  BY SameTame, WakeTame, NavigateTame DEF SameGesture
<1>2. Neat(v, Screen!CloseSheet(v, TRUE))
  BY CloseSheetTame DEF ViewSound, ViewFramed
<1> QED BY <1>1, <1>2, Zenon DEF Screen!Toggle

LEMMA CopiedTame ==
  ASSUME NEW v \in Views, NEW seen \in BOOLEAN, NEW other \in BOOLEAN
  PROVE  Neat(v, Screen!Copied(v, seen, other))
<1>1. SameGesture(v, Screen!Copied(v, seen, other))
  BY DEF Screen!Copied, SameGesture, Views
<1> QED BY <1>1, SameTame

LEMMA StillSame ==
  ASSUME NEW v \in Views, NEW b
  PROVE  SameGesture(v, [v EXCEPT !.still = b])
BY DEF SameGesture, Views

LEMMA RefreshOtaTame ==
  ASSUME NEW v, ViewSound(v), world \in Worlds, GestureQuiet(v)
  PROVE  Tame(v, Screen!RefreshOta(v))
<1> DEFINE a == Screen!CancelTurn(v)
           b == [a EXCEPT !.still = TRUE]
           c == Screen!CloseSheet(b, FALSE)
           d == Screen!CancelSlide(c)
           freed == Screen!NoTouch(d)
           lit == IF v.locked THEN Screen!Wake(freed) ELSE freed
           x == [v EXCEPT !.offered = FALSE]
<1>1. Screen!RefreshOta(v) \in {Screen!SetPage(lit, "OTA"), lit, Screen!ShowPage(x, "OTA"), v}
  BY Zenon DEF Screen!RefreshOta
<1>2. ViewSound(x) /\ SameGesture(v, x)
  <2>0. v \in Views
    BY DEF ViewSound, ViewFramed, Core
  <2>1. x \in Views
    BY <2>0, ZenonT(60) DEF Views
  <2>2. SameLock(v, x) /\ SameSheet(v, x) /\ SameTurn(v, x) /\ SamePage(v, x)
    BY <2>0 DEF Views, SameLock, SameSheet, SameTurn, SamePage
  <2>3. SameText(v, x) /\ SameLight(v, x) /\ x.anims = v.anims /\ x.link = v.link
    BY <2>0 DEF Views, SameText, SameLight
  <2>4. SameGesture(v, x)
    BY <2>0 DEF Views, SameGesture
  <2> HIDE DEF x
  <2>5. QED
    BY <2>1, <2>2, <2>3, <2>4, OfferKeeps
<1> HIDE DEF x
<1>3. Tame(v, Screen!ShowPage(x, "OTA"))
  <2>1. Tame(v, x) /\ Tame(x, Screen!ShowPage(x, "OTA"))
    BY <1>2, SameTame, ShowPageTame DEF Pages, Neat
  <2>2. QED
    BY <2>1, TameOn
<1>4. ViewSound(a) /\ Tame(v, a)
  BY CancelTurnKeeps, CancelTurnTame DEF ViewSound, ViewFramed
<1> HIDE DEF a
<1>5. ViewSound(b) /\ Tame(a, b)
  BY <1>4, StillKeeps, StillSame, SameTame DEF Fares, Neat, ViewSound, ViewFramed, Core
<1> HIDE DEF b
<1>6. ViewSound(c) /\ Tame(b, c)
  BY <1>5, CloseSheetKeeps, CloseSheetTame DEF Neat, ViewSound, ViewFramed
<1> HIDE DEF c
<1>7. ViewSound(d) /\ Tame(c, d)
  BY <1>6, CancelSlideKeeps, CancelSlideSame, SameTame DEF Neat, ViewSound, ViewFramed, Core
<1> HIDE DEF d
<1>8. ViewSound(freed) /\ Tame(d, freed)
  BY <1>7, DroppedFares, NoTouchTame DEF Fares, Neat, ViewSound, ViewFramed, Core
<1> HIDE DEF freed
<1>9. Tame(v, freed)
  <2>1. Tame(v, b) /\ Tame(b, d)
    BY <1>4, <1>5, <1>6, <1>7, TameOn
  <2>2. Tame(v, d)
    BY <2>1, TameOn
  <2> QED BY <2>2, <1>8, TameOn
<1>10. GestureQuiet(freed)
  BY <1>9 DEF Tame
<1>11. Tame(v, lit) /\ ViewSound(lit)
  <2>1. Tame(freed, Screen!Wake(freed)) /\ ViewSound(Screen!Wake(freed))
    BY <1>8, <1>10, WakeTame, WakeKeeps DEF Neat, Fares
  <2> QED BY <1>8, <1>9, <2>1, TameOn
<1> HIDE DEF lit
<1>12. GestureQuiet(lit)
  BY <1>11 DEF Tame
<1>13. Tame(lit, Screen!SetPage(lit, "OTA"))
  BY <1>11, <1>12, SetPageTame DEF Pages, Neat
<1>14. Tame(v, Screen!SetPage(lit, "OTA"))
  BY <1>11, <1>13, TameOn
<1>15. Tame(v, v)
  BY SameTame DEF SameGesture, Neat
<1> QED BY <1>1, <1>3, <1>11, <1>14, <1>15

LEMMA RefreshDisplayTame ==
  ASSUME NEW v, ViewSound(v), NEW expired \in BOOLEAN
  PROVE  Neat(v, Screen!RefreshDisplay(v, expired))
<1> DEFINE w == IF v.dim /\ (expired \/ ~Screen!Eligible(v)) THEN Screen!ClearDim(v) ELSE v
<1>1. w \in Views /\ SameGesture(v, w)
  <2>1. Screen!ClearDim(v) \in Views /\ v \in Views /\ SameGesture(v, Screen!ClearDim(v)) /\ SameGesture(v, v)
    BY ClearDimKeeps, ClearDimSame DEF SameGesture, ViewSound, ViewFramed, Core
  <2> QED BY <2>1
<1>2. Screen!RefreshDisplay(v, expired) = IF ~w.fault /\ Screen!Level(w) # w.applied THEN Screen!SetLight(w, Screen!Level(w)) ELSE w
  BY DEF Screen!RefreshDisplay
<1> HIDE DEF w
<1>3. SameGesture(w, Screen!SetLight(w, Screen!Level(w)))
  BY <1>1, SetLightSame
<1> QED BY <1>1, <1>2, <1>3, SameGestureOn, SameTame

LEMMA RestTame ==
  ASSUME NEW v, ViewSound(v), NEW working
  PROVE  Neat(v, Screen!TerminalReturn(v, working)) /\ Neat(v, Screen!AutoLock(v, working))
<1>1. Neat(v, Screen!ShowPage(v, "Command"))
  BY ShowPageTame DEF Pages
<1>2. Neat(v, v) /\ Neat(v, Screen!Lock(v))
  BY SameTame, LockTame DEF SameGesture
<1> QED BY <1>1, <1>2, Zenon DEF Screen!TerminalReturn, Screen!AutoLock

(* What a turn of the panel may do, and only without a contact.            *)
Swings(v, w) ==
  /\ ~hand.down
  /\ GestureQuiet(v) => GestureQuiet(w)
  /\ w.pending \in {v.pending, Screen!None} /\ w.editor \in {v.editor, Screen!None}
  /\ (w.open => v.open) /\ (w.tracking => v.tracking)
  /\ w.phase \notin {"Idle", "WaitBlack"}
  /\ w.turned # v.turned => v.phase = "WaitBlack" /\ v.noted

LEMMA FaultTame ==
  ASSUME NEW v, ViewSound(v), NEW x \in Views, SameSheet(v, x), SameTurn(v, x), SamePage(v, x), SameText(v, x),
         SameLight(v, x), x.anims = v.anims, x.link = v.link, x.locked = v.locked, x.radio = v.radio, x.idle = v.idle,
         x.still = v.still, x.suppressed = v.suppressed, x.fault,
         x.turned = v.turned, x.noted = v.noted, x.tracking = v.tracking, x.consumed = v.consumed
  PROVE  Tame(v, Screen!CancelTurn(x))
<1>1. v.locked => x.still
  BY DEF ViewSound, ViewFramed, Core, RestSound
<1>2. Core(x)
  BY <1>1, FlagKeeps DEF ViewSound, ViewFramed
<1> DEFINE w == Screen!CancelTurn(x)
<1>3. Tame(x, w) /\ w.pending = Screen!None /\ ~w.open /\ ~w.tracking /\ w.consumed
  BY <1>2, CancelTurnTame
<1> HIDE DEF w
<1>4. Tame(v, w)
  BY <1>3 DEF Tame, GestureQuiet, SameText, SameSheet, SameTurn
<1> QED BY <1>4 DEF w

LEMMA FaultsTame ==
  ASSUME NEW v, ViewSound(v)
  PROVE  /\ Tame(v, Screen!CancelTurn([v EXCEPT !.fault = TRUE]))
         /\ Tame(v, Screen!CancelTurn([v EXCEPT !.healthy = FALSE, !.fault = TRUE]))
<1> DEFINE x == [v EXCEPT !.fault = TRUE]
           y == [v EXCEPT !.healthy = FALSE, !.fault = TRUE]
<1>0. v \in Views
  BY DEF ViewSound, ViewFramed, Core
<1>1. x \in Views
  BY <1>0, ZenonT(60) DEF Views
<1>2. y \in Views
  BY <1>0, ZenonT(60) DEF Views
<1>3. SameSheet(v, x) /\ SameTurn(v, x) /\ SamePage(v, x) /\ SameText(v, x) /\ SameLight(v, x)
  BY <1>0 DEF Views, SameSheet, SameTurn, SamePage, SameText, SameLight
<1>4. SameSheet(v, y) /\ SameTurn(v, y) /\ SamePage(v, y) /\ SameText(v, y) /\ SameLight(v, y)
  BY <1>0 DEF Views, SameSheet, SameTurn, SamePage, SameText, SameLight
<1>5. /\ x.anims = v.anims /\ x.link = v.link /\ x.locked = v.locked /\ x.radio = v.radio /\ x.idle = v.idle
      /\ x.still = v.still /\ x.suppressed = v.suppressed /\ x.fault = TRUE
      /\ x.turned = v.turned /\ x.noted = v.noted /\ x.tracking = v.tracking /\ x.consumed = v.consumed
  BY <1>0 DEF Views
<1>6. /\ y.anims = v.anims /\ y.link = v.link /\ y.locked = v.locked /\ y.radio = v.radio /\ y.idle = v.idle
      /\ y.still = v.still /\ y.suppressed = v.suppressed /\ y.fault = TRUE
      /\ y.turned = v.turned /\ y.noted = v.noted /\ y.tracking = v.tracking /\ y.consumed = v.consumed
  BY <1>0 DEF Views
<1> HIDE DEF x, y
<1>7. Tame(v, Screen!CancelTurn(x)) /\ Tame(v, Screen!CancelTurn(y))
  BY <1>1, <1>2, <1>3, <1>4, <1>5, <1>6, FaultTame
<1> QED BY <1>7 DEF x, y

LEMMA PhaseTame ==
  ASSUME NEW v, ViewSound(v), ~hand.down
  PROVE  /\ Swings(v, Screen!FadeOut(v))
         /\ Swings(v, [v EXCEPT !.phase = "FadeIn", !.curtain = "fading", !.anims = @ \union {"turn"}])
         /\ v.phase = "WaitBlack" /\ v.noted => \A o \in Screen!Turn(v) : Swings(v, o) \/ Tame(v, o)
<1>0. v \in Views
  BY DEF ViewSound, ViewFramed, Core
<1> DEFINE c == Screen!NoTouch(v)
           f == Screen!FadeOut(v)
           i == [v EXCEPT !.phase = "FadeIn", !.curtain = "fading", !.anims = @ \union {"turn"}]
           x == [c EXCEPT !.turned = ~@, !.phase = "WaitRotated", !.noted = FALSE]
<1>1. /\ f.phase = "FadeOut" /\ ~f.tracking /\ f.open = v.open /\ f.pending = v.pending /\ f.editor = v.editor
      /\ f.locked = v.locked /\ f.suppressed = v.suppressed /\ f.turned = v.turned
  BY <1>0 DEF Screen!FadeOut, Screen!NoTouch, Views
<1>2. /\ i.phase = "FadeIn" /\ i.tracking = v.tracking /\ i.open = v.open /\ i.pending = v.pending /\ i.editor = v.editor
      /\ i.locked = v.locked /\ i.suppressed = v.suppressed /\ i.turned = v.turned /\ i.idle = v.idle
  BY <1>0 DEF Views
<1>3. /\ x.phase = "WaitRotated" /\ ~x.tracking /\ x.open = v.open /\ x.pending = v.pending /\ x.editor = v.editor
      /\ x.locked = v.locked /\ x.suppressed = v.suppressed
  BY <1>0 DEF Screen!NoTouch, Views
<1>4. Tame(v, Screen!CancelTurn(v)) /\ Tame(v, Screen!CancelTurn([v EXCEPT !.healthy = FALSE, !.fault = TRUE]))
  BY CancelTurnTame, FaultsTame DEF ViewSound, ViewFramed
<1>5. Screen!Turn(v) = {x, Screen!CancelTurn(v), Screen!CancelTurn([v EXCEPT !.healthy = FALSE, !.fault = TRUE])}
  BY DEF Screen!Turn
<1> HIDE DEF f, i, x
<1>6. Swings(v, f) /\ Swings(v, i) /\ (v.phase = "WaitBlack" /\ v.noted => Swings(v, x))
  BY <1>1, <1>2, <1>3 DEF Swings, GestureQuiet
<1> QED BY <1>4, <1>5, <1>6 DEF f, i

LEMMA SwingsOn ==
  ASSUME NEW u, NEW v, NEW w, SameGesture(u, v), Swings(v, w)
  PROVE  Swings(u, w)
<1>1. GestureQuiet(u) => GestureQuiet(v)
  BY DEF SameGesture, GestureQuiet
<1> QED BY <1>1 DEF SameGesture, Swings

LEMMA OrientTame ==
  ASSUME NEW v, ViewSound(v), NEW tilted \in BOOLEAN, NEW o \in Screen!Orient(v, tilted)
  PROVE  Tame(v, o) \/ Swings(v, o)
<1> DEFINE on == [v EXCEPT !.still = TRUE]
           w == [v EXCEPT !.still = FALSE]
           f == Screen!CancelTurn([v EXCEPT !.fault = TRUE])
           g == [f EXCEPT !.still = TRUE]
           fadeIn == [w EXCEPT !.phase = "FadeIn", !.curtain = "fading", !.anims = @ \union {"turn"}]
<1>0. v \in Views
  BY DEF ViewSound, ViewFramed, Core
<1>1. CASE v.fault \/ ~v.healthy
  <2>1. o = g
    BY <1>1 DEF Screen!Orient
  <2>2. Tame(v, f) /\ f \in Views
    BY FaultsTame, FaultIs DEF Fares, ViewSound, ViewFramed, Core
  <2> HIDE DEF f
  <2>3. Tame(f, g)
    BY <2>2, StillSame, SameTame DEF Neat
  <2>4. QED
    BY <2>1, <2>2, <2>3, TameOn
<1>2. CASE ~(v.fault \/ ~v.healthy) /\ (v.locked \/ v.suppressed \/ Screen!OtaBusy(v))
  <2>1. o = Screen!CancelTurn(on)
    BY <1>2 DEF Screen!Orient
  <2>2. Fares(v, on) /\ Tame(v, on)
    BY <1>0, StillKeeps, StillSame, SameTame DEF Neat
  <2> HIDE DEF on
  <2>3. Tame(on, Screen!CancelTurn(on))
    BY <2>2, CancelTurnTame DEF Fares, ViewSound, ViewFramed
  <2>4. QED
    BY <2>1, <2>2, <2>3, TameOn
<1>3. CASE ~(v.fault \/ ~v.healthy) /\ ~(v.locked \/ v.suppressed \/ Screen!OtaBusy(v))
  <2>2. \/ o = Screen!CancelTurn(w) \/ o = w
        \/ ~hand.down /\ v.phase = "WaitBlack" /\ v.noted /\ o \in Screen!Turn(w)
        \/ ~hand.down /\ o = fadeIn
        \/ ~hand.down /\ o = Screen!FadeOut(w)
    <3> HIDE DEF w, fadeIn
    <3>1. o \in IF v.phase # "Idle" /\ (hand.down \/ v.slide # <<>> \/ v.moving) THEN {Screen!CancelTurn(w)}
                ELSE CASE v.phase = "WaitBlack" /\ v.noted -> Screen!Turn(w)
                       [] v.phase = "WaitRotated" /\ v.noted -> {fadeIn}
                       [] v.phase = "Idle" /\ tilted /\ ~Screen!Interacting(v) /\ ~v.tracking -> {Screen!FadeOut(w)}
                       [] OTHER -> {w}
      BY <1>3 DEF Screen!Orient, w, fadeIn
    <3>2. ~Screen!Interacting(v) => ~hand.down
      BY DEF Screen!Interacting
    <3>3. CASE v.phase # "Idle" /\ (hand.down \/ v.slide # <<>> \/ v.moving)
      BY <3>1, <3>3
    <3>4. CASE ~(v.phase # "Idle" /\ (hand.down \/ v.slide # <<>> \/ v.moving))
      <4>1. o \in CASE v.phase = "WaitBlack" /\ v.noted -> Screen!Turn(w)
                    [] v.phase = "WaitRotated" /\ v.noted -> {fadeIn}
                    [] v.phase = "Idle" /\ tilted /\ ~Screen!Interacting(v) /\ ~v.tracking -> {Screen!FadeOut(w)}
                    [] OTHER -> {w}
        BY <3>1, <3>4
      <4>2. v.phase # "Idle" => ~hand.down
        BY <3>4
      <4>3. CASE v.phase = "WaitBlack" /\ v.noted
        BY <4>1, <4>2, <4>3
      <4>4. CASE v.phase = "WaitRotated" /\ v.noted
        BY <4>1, <4>2, <4>4
      <4>5. CASE v.phase = "Idle" /\ tilted /\ ~Screen!Interacting(v) /\ ~v.tracking
        BY <3>2, <4>1, <4>5
      <4>6. CASE /\ ~(v.phase = "WaitBlack" /\ v.noted) /\ ~(v.phase = "WaitRotated" /\ v.noted)
                 /\ ~(v.phase = "Idle" /\ tilted /\ ~Screen!Interacting(v) /\ ~v.tracking)
        BY <4>1, <4>6
      <4> QED BY <4>3, <4>4, <4>5, <4>6
    <3>5. QED
      BY <3>3, <3>4
  <2>3. ViewSound(w) /\ SameGesture(v, w) /\ Tame(v, w)
    BY <1>0, <1>3, StillKeeps, StillSame, SameTame DEF Neat, Fares
  <2> HIDE DEF w
  <2>4. Tame(w, Screen!CancelTurn(w))
    BY <2>3, CancelTurnTame DEF ViewSound, ViewFramed
  <2>5. w.phase = v.phase /\ w.noted = v.noted
    BY <2>3 DEF SameGesture
  <2>6. ~hand.down => /\ Swings(w, Screen!FadeOut(w)) /\ Swings(w, fadeIn)
                      /\ v.phase = "WaitBlack" /\ v.noted => \A x \in Screen!Turn(w) : Swings(w, x) \/ Tame(w, x)
    BY <2>3, <2>5, PhaseTame
  <2> HIDE DEF fadeIn
  <2>7. Tame(w, o) \/ Swings(w, o) \/ o = w
    BY <2>2, <2>4, <2>6
  <2>8. QED
    BY <2>3, <2>7, TameOn, SwingsOn
<1> QED BY <1>1, <1>2, <1>3

(* A step that tames the view keeps what a contact may still do.           *)
LEMMA StepTame ==
  ASSUME GestureInv, Tame(view, view'), hand'.on = hand.on, hand'.deeds = hand.deeds, world'.drawn = world.drawn,
         hand'.stale => hand.stale \/ ~SameSight(view, view'),
         hand'.down => hand.down /\ view'.idle = view.idle,
         view'.tracking => hand'.down, view'.pending # Screen!None => hand'.down \/ view'.released,
         hand.down \in BOOLEAN
  PROVE  GestureInv'
<1>1. GestureQuiet(view') /\ (hand'.down => ~view'.idle)
  BY DEF GestureInv, Tame
<1>2. view'.tracking => /\ hand'.down /\ ~hand'.stale /\ hand'.deeds = 0
                        /\ hand'.on \notin Inert /\ view'.editor = Screen!None
  BY DEF GestureInv, Tame
<1>3. hand'.down /\ hand'.on \notin Inert \cup Screen!Fields => view'.tracking \/ view'.consumed
  BY DEF GestureInv, Tame
<1>4. hand'.down /\ hand'.on \in Screen!Fields =>
        view'.tracking \/ view'.consumed \/ view'.editor # Screen!None \/ ~view'.open
  BY DEF GestureInv, Tame
<1>5. hand'.down /\ hand'.on \in {"key", "control"} =>
        hand'.deeds = 0 /\ (hand'.stale => ~view'.open) /\ view'.phase = "Idle"
  BY DEF GestureInv, Tame
<1>6. view'.pending # Screen!None =>
        /\ view'.editor = Screen!None /\ view'.pending = hand'.on /\ (hand'.down \/ view'.released)
        /\ ~hand'.stale /\ hand'.deeds = 0 /\ view'.phase = "Idle" /\ ~view'.fault
  <2> SUFFICES ASSUME view'.pending # Screen!None
               PROVE  /\ view'.editor = Screen!None /\ view'.pending = hand'.on
                      /\ ~hand'.stale /\ hand'.deeds = 0 /\ view'.phase = "Idle" /\ ~view'.fault
    OBVIOUS
  <2>1. view'.pending = view.pending
    BY DEF Tame
  <2>2. view.phase = "Idle" /\ view.editor = Screen!None /\ ~hand.stale /\ hand.deeds = 0 /\ view.pending = hand.on /\ ~view.fault
    BY <2>1 DEF GestureInv
  <2>3. SameSight(view, view')
    BY <2>2 DEF Tame
  <2> QED BY <2>1, <2>2, <2>3 DEF Tame, SameSight
<1>7. view'.phase = "WaitBlack" => view'.curtain = "black" /\ (view'.noted => world'.drawn = "black")
  BY DEF GestureInv, Tame
<1> HIDE DEF Inert, Screen!Fields
<1> QED BY <1>1, <1>2, <1>3, <1>4, <1>5, <1>6, <1>7 DEF GestureInv

LEMMA HandReads ==
  ASSUME hand \in Hands, NEW down, NEW stale, NEW deeds
  PROVE  LET h == [hand EXCEPT !.down = down, !.stale = stale]
             k == [hand EXCEPT !.down = down, !.deeds = deeds]
             g == [hand EXCEPT !.down = down, !.stale = stale, !.deeds = deeds]
         IN /\ h.down = down /\ h.stale = stale /\ h.on = hand.on /\ h.deeds = hand.deeds
            /\ k.down = down /\ k.stale = hand.stale /\ k.on = hand.on /\ k.deeds = deeds
            /\ g.down = down /\ g.stale = stale /\ g.on = hand.on /\ g.deeds = deeds
            /\ [hand EXCEPT !.deeds = deeds].down = hand.down /\ [hand EXCEPT !.deeds = deeds].stale = hand.stale
            /\ [hand EXCEPT !.deeds = deeds].on = hand.on /\ [hand EXCEPT !.deeds = deeds].deeds = deeds
            /\ [hand EXCEPT !.down = down].down = down /\ [hand EXCEPT !.down = down].stale = hand.stale
            /\ [hand EXCEPT !.down = down].on = hand.on /\ [hand EXCEPT !.down = down].deeds = hand.deeds
BY DEF Hands

\* what a step of a contact, and only one, may do
HonestStep ==
  /\ hand'.deeds > hand.deeds => ~hand.stale /\ hand'.deeds <= 1
  /\ view'.turned # view.turned => world.drawn = "black" /\ ~hand.down

(* What others do to the view under a contact.                             *)
LEMMA FieldsTame ==
  ASSUME GestureInv, ViewTyped, view \in Views, view' \in Views, Tame(view, view'), world'.drawn = world.drawn,
         hand'.down = (hand.down /\ view'.idle = view.idle /\ view'.turned = view.turned),
         hand'.stale = (hand.stale \/ Screen!Screen(view') # Screen!Screen(view)),
         hand'.on = hand.on, hand'.deeds = hand.deeds
  PROVE  GestureInv' /\ HonestStep
<1>1. hand.down \in BOOLEAN /\ hand.deeds \in Nat
  BY DEF ViewTyped, Hands
<1>3. Screen!Screen(view') # Screen!Screen(view) => ~SameSight(view, view')
  BY SightIs
<1>4. view'.turned = view.turned
  BY DEF Tame
<1>5. view'.tracking => hand'.down
  <2>1. view'.tracking => view.tracking /\ view'.idle = view.idle
    BY DEF Tame
  <2> QED BY <1>4, <2>1 DEF GestureInv
<1>6. view'.pending # Screen!None => hand'.down \/ view'.released
  <2> SUFFICES ASSUME view'.pending # Screen!None, ~view'.released PROVE hand'.down
    OBVIOUS
  <2>1. view.pending # Screen!None /\ ~view.released
    BY DEF Tame
  <2>2. hand.down
    BY <2>1 DEF GestureInv
  <2>3. ~view.idle
    BY <2>2 DEF GestureInv
  <2>4. ~view'.idle
    BY <2>3 DEF Tame
  <2>5. view'.idle = view.idle
    BY <2>3, <2>4 DEF Views
  <2> QED BY <1>4, <2>2, <2>5
<1>7. GestureInv'
  BY <1>1, <1>3, <1>5, <1>6, StepTame
<1>8. HonestStep
  BY <1>1, <1>4 DEF HonestStep
<1> QED BY <1>7, <1>8

LEMMA UnderTame ==
  ASSUME GestureInv, ViewTyped, view \in Views, view' \in Views, Tame(view, view'), Screen!Under(view'), world'.drawn = world.drawn
  PROVE  GestureInv' /\ HonestStep
<1>1. hand \in Hands
  BY DEF ViewTyped
<1>2. /\ hand'.down = (hand.down /\ view'.idle = view.idle /\ view'.turned = view.turned)
      /\ hand'.stale = (hand.stale \/ Screen!Screen(view') # Screen!Screen(view))
      /\ hand'.on = hand.on /\ hand'.deeds = hand.deeds
  BY <1>1, HandReads DEF Screen!Under
<1> QED BY <1>2, FieldsTame

\* all of the view that a contact with the root leaves alone
SamePlace(v, w) == /\ w.page = v.page /\ w.open = v.open /\ w.detail = v.detail /\ w.locked = v.locked
                   /\ w.suppressed = v.suppressed /\ w.fault = v.fault /\ w.turned = v.turned
                   /\ w.curtain = v.curtain /\ w.phase = v.phase /\ w.noted = v.noted
                   /\ w.idle = v.idle /\ w.editor = v.editor

LEMMA RootPressDoes ==
  ASSUME NEW v \in Views, NEW on
  PROVE  LET w == Screen!RootPress(v, on)
         IN /\ SamePlace(v, w)
            /\ w.tracking \/ w.consumed
            /\ w.tracking => ~Screen!Blocked(v)
            /\ w.pending # Screen!None => w.pending = v.pending /\ ~v.released /\ ~w.released
<1> DEFINE a == Screen!DropPending(v)
           u == IF v.released THEN a ELSE v
           b == Screen!NoTouch(v)
           c == Screen!DropPending(b)
           x == Screen!NoTouch(u)
           d == [x EXCEPT !.plot = TRUE]
           on4 == u.open /\ u.detail = 4 /\ on \in Screen!Fields \union {"profiles"}
           e == [u EXCEPT !.plot = FALSE, !.tracking = TRUE, !.consumed = FALSE, !.onEditor = on4]
<1>1. Screen!RootPress(v, on) \in {c, d, e} /\ (Screen!RootPress(v, on) = e => ~Screen!Blocked(v) \/ Screen!RootPress(v, on) = c)
  BY Zenon DEF Screen!RootPress
<1>2. a \in Views /\ SamePlace(v, a) /\ a.pending = Screen!None /\ a.tracking = v.tracking /\ a.consumed = v.consumed
  <2>1. a \in Views
    BY DropPendingIs
  <2>2. SamePlace(v, a) /\ a.pending = Screen!None /\ a.tracking = v.tracking /\ a.consumed = v.consumed
    BY DEF Screen!DropPending, Views, SamePlace
  <2> QED BY <2>1, <2>2
<1>3. u \in Views /\ SamePlace(v, u) /\ (u.pending # Screen!None => u.pending = v.pending /\ ~v.released /\ ~u.released)
  BY <1>2 DEF SamePlace, Views
<1>4. b \in Views /\ SamePlace(v, b) /\ ~b.tracking /\ b.consumed
  <2>1. b \in Views
    BY NoTouchIs
  <2>2. SamePlace(v, b) /\ ~b.tracking /\ b.consumed
    BY DEF Screen!NoTouch, Views, SamePlace
  <2> QED BY <2>1, <2>2
<1>5. x \in Views /\ SamePlace(u, x) /\ ~x.tracking /\ x.consumed /\ x.pending = u.pending /\ x.released = u.released
  <2> HIDE DEF u
  <2>1. x \in Views
    BY <1>3, NoTouchIs
  <2>2. SamePlace(u, x) /\ ~x.tracking /\ x.consumed /\ x.pending = u.pending /\ x.released = u.released
    BY <1>3 DEF Screen!NoTouch, Views, SamePlace
  <2> QED BY <2>1, <2>2
<1> HIDE DEF a, u, b, x, on4
<1>6. SamePlace(v, c) /\ ~c.tracking /\ c.consumed /\ c.pending = Screen!None
  BY <1>4 DEF Screen!DropPending, Views, SamePlace
<1>7. SamePlace(v, d) /\ ~d.tracking /\ d.consumed /\ d.pending = u.pending /\ d.released = u.released
  BY <1>3, <1>5 DEF Views, SamePlace
<1>8. SamePlace(v, e) /\ e.tracking /\ ~e.consumed /\ e.pending = u.pending /\ e.released = u.released
  BY <1>3 DEF Views, SamePlace
<1> HIDE DEF c, d, e
<1> QED BY <1>1, <1>3, <1>6, <1>7, <1>8

LEMMA FieldPressDoes ==
  ASSUME NEW v \in Views, NEW field \in Screen!Fields
  PROVE  LET w == Screen!FieldPress(v, field)
         IN /\ w \in Views /\ SamePlace(v, w) /\ w.tracking = v.tracking /\ w.consumed = v.consumed /\ ~w.released
            /\ w.pending # Screen!None => w.pending = field /\ w.editor = Screen!None /\ ~Screen!EditorGuards(v)
<1> DEFINE w == Screen!DropPending(v)
           x == [w EXCEPT !.pending = field]
<1>1. w \in Views
  BY DropPendingIs
<1>2. SamePlace(v, w) /\ w.tracking = v.tracking /\ w.consumed = v.consumed /\ ~w.released /\ w.pending = Screen!None
  BY DEF Screen!DropPending, Views, SamePlace
<1>3. Screen!EditorGuards(w) = Screen!EditorGuards(v)
  BY DEF Screen!DropPending, Views, Screen!EditorGuards, Screen!Blocked, Screen!OtaBusy
<1>4. Screen!FieldPress(v, field) = IF Screen!EditorGuards(w) \/ w.editor # Screen!None THEN w ELSE x
  BY DEF Screen!FieldPress
<1> HIDE DEF w
<1>5. x \in Views
  BY <1>1, ZenonT(60) DEF Views
<1>6. SamePlace(w, x) /\ x.tracking = w.tracking /\ x.consumed = w.consumed /\ x.released = w.released /\ x.pending = field
  BY <1>1 DEF Views, SamePlace
<1> HIDE DEF x
<1> QED BY <1>1, <1>2, <1>3, <1>4, <1>5, <1>6, Zenon DEF SamePlace

LEMMA PressHonest ==
  ASSUME ViewInv, GestureInv, NEW on, Screen!Press(on)
  PROVE  GestureInv' /\ HonestStep
<1> DEFINE v == IF on \in Screen!Fields THEN Screen!FieldPress(view, on) ELSE view
<1>1. /\ ~hand.down /\ on \in Screen!Touchable(view) /\ world' = world
      /\ hand'.down = TRUE /\ hand'.on = on /\ hand'.stale = FALSE /\ hand'.deeds = 0
      /\ view' = IF Screen!Bubbles(view, on) THEN Screen!RootPress(v, on) ELSE v
  BY DEF Screen!Press
<1>2. view \in Views /\ hand.deeds \in Nat /\ TurnSound(view) /\ SecretSound(view)
  BY DEF ViewInv, ViewTyped, Hands, ViewSound, ViewFramed, Core
<1>3. ~view.tracking /\ (view.pending # Screen!None => view.released /\ view.editor = Screen!None /\ view.phase = "Idle" /\ ~view.fault)
  BY <1>1 DEF GestureInv
<1>4. ~view.idle /\ (on # "curtain" => view.phase = "Idle" /\ ~view.fault)
  <2>1. Screen!Readable(view)
    BY <1>1 DEF Screen!Touchable
  <2>2. view.curtain # "off" => on = "curtain"
    BY <1>1, <2>1 DEF Screen!Touchable
  <2> QED BY <1>2, <2>1, <2>2 DEF Screen!Readable, TurnSound
<1>5. /\ Screen!Bubbles(view, on) => on \notin Inert /\ view.editor = Screen!None
      /\ on \notin Inert \cup Screen!Fields => Screen!Bubbles(view, on)
      /\ on \in Screen!Fields => Screen!Bubbles(view, on) \/ view.editor # Screen!None
      /\ on \in {"key", "control"} => view.editor # Screen!None
  <2>1. view.curtain = "off" /\ view.editor # Screen!None => on \in {view.editor, "key", "control"}
    BY <1>1 DEF Screen!Touchable
  <2>2. view.editor \in Screen!Fields \cup {Screen!None}
    BY <1>2 DEF Views
  <2>3. view.curtain # "off" => on = "curtain"
    BY <1>1 DEF Screen!Touchable
  <2>4. on \in {"key", "control"} => view.editor # Screen!None
    <3> SUFFICES ASSUME view.editor = Screen!None, on \in {"key", "control"} PROVE FALSE
      OBVIOUS
    <3>1. on \in {"root"} \union
             (IF view.sheet THEN CASE view.detail = 0 -> {"tile"}
                                [] view.detail = 1 -> {"row"}
                                [] OTHER -> Screen!Fields \union {"row", "action", "profiles"}
              ELSE (IF "History" \in view.panels THEN {"cell", "mode", "plot"} ELSE {}) \union
                   (IF "OTA" \in view.panels THEN {"ota"} ELSE {}))
      BY <1>1, <2>3 DEF Screen!Touchable
    <3> QED BY <3>1 DEF Screen!Fields
  <2> QED BY <2>1, <2>2, <2>3, <2>4 DEF Screen!Bubbles, Inert, Screen!Fields
<1>6. /\ v \in Views /\ SamePlace(view, v) /\ v.tracking = view.tracking /\ v.consumed = view.consumed
      /\ v.pending # Screen!None => /\ v.editor = Screen!None /\ v.phase = "Idle" /\ ~v.fault
                             /\ IF on \in Screen!Fields THEN v.pending = on /\ ~v.released ELSE v.released
  <2>1. CASE on \in Screen!Fields
    <3>1. ~Screen!EditorGuards(view) => view.phase = "Idle" /\ ~view.fault
      BY DEF Screen!EditorGuards, Screen!Blocked
    <3> HIDE DEF Screen!Fields
    <3> QED BY <1>2, <2>1, <3>1, FieldPressDoes DEF SamePlace
  <2>2. CASE on \notin Screen!Fields
    BY <1>2, <1>3, <2>2 DEF SamePlace
  <2> QED BY <2>1, <2>2
<1> HIDE DEF v
<1>7. CASE Screen!Bubbles(view, on)
  <2> DEFINE w == Screen!RootPress(v, on)
  <2>1. /\ SamePlace(v, w) /\ (w.tracking \/ w.consumed) /\ (w.tracking => ~Screen!Blocked(v))
        /\ w.pending # Screen!None => w.pending = v.pending /\ ~v.released /\ ~w.released
    BY <1>6, RootPressDoes
  <2>2. view' = w
    BY <1>1, <1>7
  <2> HIDE DEF w
  <2>3. SamePlace(view, w)
    BY <1>6, <2>1 DEF SamePlace
  <2>4. w.tracking => ~view.locked /\ ~view.suppressed
    BY <1>6, <2>1 DEF Screen!Blocked, SamePlace
  <2>5. on \notin Inert /\ view.editor = Screen!None
    BY <1>5, <1>7
  <2>6. w.pending # Screen!None => w.pending = on /\ on \in Screen!Fields /\ view.phase = "Idle" /\ ~view.fault
    BY <1>6, <2>1 DEF SamePlace
  <2>7. GestureQuiet(w)
    BY <1>4, <2>3, <2>4 DEF SamePlace, GestureInv, GestureQuiet
  <2>8. on \notin {"key", "control"}
    BY <2>5 DEF Inert
  <2>9. w.phase = "WaitBlack" => w.curtain = "black" /\ (w.noted => world.drawn = "black")
    BY <2>3 DEF SamePlace, GestureInv
  <2> HIDE DEF Screen!Fields, Inert
  <2>10. GestureInv'
    BY <1>1, <1>4, <2>1, <2>2, <2>3, <2>5, <2>6, <2>7, <2>8, <2>9 DEF GestureInv, SamePlace
  <2> QED BY <1>1, <1>2, <2>2, <2>3, <2>10 DEF HonestStep, SamePlace
<1>8. CASE ~Screen!Bubbles(view, on)
  <2>1. view' = v
    BY <1>1, <1>8
  <2>2. v.pending = Screen!None
    <3>1. on \in Screen!Fields => view.editor # Screen!None
      BY <1>5, <1>8
    <3>2. on \notin Screen!Fields => v = view
      BY DEF v
    <3>3. CASE on \in Screen!Fields
      BY <1>6, <3>1, <3>3 DEF SamePlace
    <3>4. CASE on \notin Screen!Fields
      <4>1. on \in Inert
        BY <1>5, <1>8, <3>4
      <4>2. view.pending # Screen!None => on # "curtain"
        <5> SUFFICES ASSUME view.pending # Screen!None, on = "curtain" PROVE FALSE
          OBVIOUS
        <5>1. view.curtain = "off" /\ view.editor = Screen!None
          BY <1>2, <1>3 DEF TurnSound
        <5>2. on \in {"root"} \union
                 (IF view.sheet THEN CASE view.detail = 0 -> {"tile"}
                                    [] view.detail = 1 -> {"row"}
                                    [] OTHER -> Screen!Fields \union {"row", "action", "profiles"}
                  ELSE (IF "History" \in view.panels THEN {"cell", "mode", "plot"} ELSE {}) \union
                       (IF "OTA" \in view.panels THEN {"ota"} ELSE {}))
          BY <1>1, <5>1 DEF Screen!Touchable
        <5> QED BY <5>2 DEF Screen!Fields
      <4>3. view.pending # Screen!None => view.editor = Screen!None
        BY <1>3
      <4> QED BY <1>5, <3>2, <3>4, <4>1, <4>2, <4>3 DEF Inert
    <3> QED BY <3>3, <3>4
  <2>3. on \in {"key", "control"} => v.phase = "Idle"
    BY <1>4, <1>6 DEF SamePlace
  <2>4. on \in Screen!Fields => v.editor # Screen!None
    BY <1>5, <1>6, <1>8 DEF SamePlace
  <2>5. on \in Inert \cup Screen!Fields
    BY <1>5, <1>8
  <2>6. GestureQuiet(v) /\ ~v.tracking /\ ~v.idle
    BY <1>3, <1>4, <1>6 DEF SamePlace, GestureInv, GestureQuiet
  <2>7. v.phase = "WaitBlack" => v.curtain = "black" /\ (v.noted => world.drawn = "black")
    BY <1>6 DEF SamePlace, GestureInv
  <2> HIDE DEF Screen!Fields, Inert
  <2>8. GestureInv'
    BY <1>1, <2>1, <2>2, <2>3, <2>4, <2>5, <2>6, <2>7 DEF GestureInv
  <2> QED BY <1>1, <1>2, <1>6, <2>1, <2>8 DEF HonestStep, SamePlace
<1> QED BY <1>7, <1>8

\* what ends a contact with the root by a swipe
Ended(v, w) == /\ ~w.tracking /\ w.consumed /\ w.pending = Screen!None /\ w.idle = v.idle
               /\ GestureQuiet(w) /\ w.phase = "Idle" /\ w.turned = v.turned

LEMMA SwipeEnds ==
  ASSUME NEW v, ViewSound(v), GestureQuiet(v), ~Screen!Blocked(v), ~v.tracking, v.consumed, v.pending = Screen!None
  PROVE  /\ Ended(v, v) /\ Ended(v, Screen!OpenSheet(v)) /\ Ended(v, Screen!CloseSheet(v, TRUE))
         /\ \A step \in {1, 3} : Ended(v, Screen!Navigate(v, step))
<1>0. v \in Views /\ v.phase = "Idle" /\ ~v.locked /\ ~v.suppressed
  BY DEF ViewSound, ViewFramed, Core, Screen!Blocked
<1>1. Ended(v, v)
  BY <1>0 DEF Ended
<1>2. Ended(v, Screen!OpenSheet(v))
  <2>1. CASE v.open
    BY <1>1, <2>1 DEF Screen!OpenSheet
  <2>2. CASE ~v.open
    <3> DEFINE d == Screen!ShowDetail(v, 0)
               u == Screen!NoTouch(d)
               some == u.anims \union {"sheet"}
               w == Screen!OpenSheet(v)
    <3>1. w = [u EXCEPT !.open = TRUE, !.closing = FALSE, !.moving = TRUE, !.sheet = TRUE, !.anims = some]
      BY <2>2 DEF Screen!OpenSheet
    <3>2. d \in Views /\ SameStand(v, d) /\ d.pending = Screen!None
      BY <1>0, ShowDetailIs
    <3>3. d.turned = v.turned
      BY <1>0 DEF Screen!ShowDetail, Screen!RestoreEditor, Screen!DropPending, Views
    <3> HIDE DEF d
    <3>4. /\ u \in Views /\ ~u.tracking /\ u.consumed /\ u.pending = Screen!None /\ u.idle = d.idle /\ u.phase = d.phase
          /\ u.turned = d.turned /\ u.locked = d.locked /\ u.suppressed = d.suppressed
      <4>1. u \in Views /\ SameStand(d, u) /\ SameText(d, u)
        BY <3>2, NoTouchIs
      <4>2. ~u.tracking /\ u.consumed /\ u.turned = d.turned
        BY <3>2 DEF Screen!NoTouch, Views
      <4> QED BY <3>2, <4>1, <4>2 DEF SameStand, SameText, SameLock, SameTurn
    <3> HIDE DEF u, some
    <3>5. /\ w.tracking = u.tracking /\ w.consumed = u.consumed /\ w.pending = u.pending /\ w.idle = u.idle
          /\ w.phase = u.phase /\ w.turned = u.turned /\ w.locked = u.locked /\ w.suppressed = u.suppressed
      <4> HIDE DEF w
      <4> QED BY <3>1, <3>4 DEF Views
    <3> HIDE DEF w
    <3>6. Ended(v, w)
      BY <1>0, <3>2, <3>3, <3>4, <3>5 DEF Ended, GestureQuiet, SameStand, SameLock, SameTurn
    <3> QED BY <3>6 DEF w
  <2> QED BY <2>1, <2>2
<1>3. Ended(v, Screen!CloseSheet(v, TRUE))
  <2> DEFINE w == Screen!CloseSheet(v, TRUE)
  <2>1. Tame(v, w) /\ w.pending = Screen!None
    BY CloseSheetTame DEF Neat, ViewSound, ViewFramed
  <2>2. w.idle = v.idle
    BY <1>0 DEF Screen!CloseSheet, Screen!NoTouch, Screen!RestoreEditor, Screen!DropPending, Views
  <2> HIDE DEF w
  <2>3. Ended(v, w)
    BY <1>0, <2>1, <2>2 DEF Ended, Tame
  <2> QED BY <2>3 DEF w
<1>4. ASSUME NEW step \in {1, 3}
      PROVE  Ended(v, Screen!Navigate(v, step))
  <2> DEFINE w == Screen!Navigate(v, step)
  <2>1. Tame(v, w)
    BY NavigateTame DEF Neat
  <2>2. w.idle = v.idle
    <3>1. CASE v.open
      BY <3>1 DEF Screen!Navigate
    <3>2. CASE ~v.open
      <4> DEFINE here == CHOOSE i \in 1 .. 4 : Screen!Ring[i] = v.page
                 next == Screen!Ring[((here - 1 + step) % 4) + 1]
                 x == Screen!ShowPage(v, next)
      <4>1. w = [x EXCEPT !.slide = <<v.page, next>>, !.panels = {v.page, next}, !.anims = @ \union {"slide"}]
        BY <3>2 DEF Screen!Navigate
      <4>2. next \in Pages
        BY <1>0, NextPage DEF Views
      <4> HIDE DEF next
      <4>3. x \in Views /\ x.idle = v.idle
        BY <4>2, ShowPageKeeps DEF Fares, ViewSound, ViewFramed, Core, SameLock
      <4> HIDE DEF x
      <4> QED BY <4>1, <4>3 DEF Views
    <3> QED BY <3>1, <3>2
  <2> HIDE DEF w
  <2>3. Ended(v, w)
    <3>1. w.pending = Screen!None /\ ~w.tracking /\ w.consumed
      BY <2>1 DEF Tame
    <3> QED BY <1>0, <2>1, <2>2, <3>1 DEF Ended, Tame
  <2> QED BY <2>3 DEF w
<1> QED BY <1>1, <1>2, <1>3, <1>4

LEMMA RootDragDoes ==
  ASSUME NEW v, ViewSound(v), GestureQuiet(v), NEW way
  PROVE  LET w == Screen!RootDrag(v, way)
         IN \/ Tame(v, w) /\ SameSight(v, w) /\ w.idle = v.idle /\ (w.pending # Screen!None => w = v)
            \/ v.tracking /\ Ended(v, w)
<1> DEFINE u == [v EXCEPT !.consumed = TRUE]
           w == Screen!DropPending(u)
           end == [w EXCEPT !.tracking = FALSE]
           out == {Screen!OpenSheet(end), Screen!CloseSheet(end, TRUE), Screen!Navigate(end, 1), Screen!Navigate(end, 3), end}
           b == Screen!NoTouch(v)
           c == Screen!DropPending(b)
<1>0. v \in Views
  BY DEF ViewSound, ViewFramed, Core
<1>1. \/ Screen!RootDrag(v, way) \in {c, v, w}
      \/ ~Screen!Blocked(v) /\ v.tracking /\ Screen!RootDrag(v, way) \in out
  <2> HIDE DEF end
  <2>1. Screen!RootDrag(v, way) = IF Screen!Blocked(v) THEN c
                           ELSE IF v.plot \/ ~v.tracking THEN v
                           ELSE IF w.onEditor \/ way = "some" THEN w
                           ELSE IF way = "up" /\ ~v.open THEN Screen!OpenSheet(end)
                           ELSE IF way = "down" /\ v.open THEN Screen!CloseSheet(end, TRUE)
                           ELSE IF way \in {"left", "right"} THEN Screen!Navigate(end, IF way = "left" THEN 1 ELSE 3)
                           ELSE end
    BY DEF Screen!RootDrag, end
  <2> HIDE DEF w, c
  <2> QED BY <2>1
<1>2. u \in Views
  BY <1>0, ZenonT(60) DEF Views
<1>3. SamePlace(v, u) /\ u.tracking = v.tracking /\ u.consumed = TRUE /\ Screen!Blocked(u) = Screen!Blocked(v)
  BY <1>0 DEF Views, SamePlace, Screen!Blocked, Screen!OtaBusy
<1>4. Fares(v, u)
  BY FollowKeeps
<1> HIDE DEF u
<1>5. w \in Views /\ SamePlace(u, w) /\ w.tracking = u.tracking /\ w.consumed = u.consumed /\ w.pending = Screen!None
  <2>1. w \in Views
    BY <1>2, DropPendingIs
  <2>2. SamePlace(u, w) /\ w.tracking = u.tracking /\ w.consumed = u.consumed /\ w.pending = Screen!None
    BY <1>2 DEF Screen!DropPending, Views, SamePlace
  <2> QED BY <2>1, <2>2
<1>6. Screen!Blocked(w) = Screen!Blocked(u)
  BY <1>2 DEF Screen!DropPending, Views, Screen!Blocked, Screen!OtaBusy
<1>7. ViewSound(w)
  BY <1>4, DroppedFares DEF Fares
<1> HIDE DEF w
<1>8. SamePlace(w, end) /\ ~end.tracking /\ end.consumed = w.consumed /\ end.pending = w.pending /\ Screen!Blocked(end) = Screen!Blocked(w)
  BY <1>5 DEF Views, SamePlace, Screen!Blocked, Screen!OtaBusy
<1>9. ViewSound(end)
  BY <1>7, FollowKeeps DEF Fares
<1> HIDE DEF end
<1>10. Tame(v, w) /\ SameSight(v, w) /\ w.idle = v.idle
  <2>1. SameSight(v, w)
    BY <1>3, <1>5 DEF SamePlace, SameSight
  <2> QED BY <1>3, <1>5, <2>1 DEF SamePlace, Tame, GestureQuiet
<1>11. Tame(v, c) /\ SameSight(v, c) /\ c.idle = v.idle /\ c.pending = Screen!None
  <2>1. b \in Views
    BY <1>0, NoTouchIs
  <2>2. SamePlace(v, b)
    BY <1>0 DEF Screen!NoTouch, Views, SamePlace
  <2>3. Tame(v, b)
    BY <1>0, NoTouchTame DEF Neat
  <2> HIDE DEF b
  <2>4. SamePlace(b, c) /\ c.pending = Screen!None
    BY <2>1 DEF Screen!DropPending, Views, SamePlace
  <2>5. Tame(b, c)
    BY <2>1, DropPendingTame DEF Neat
  <2> HIDE DEF c
  <2> QED BY <2>2, <2>3, <2>4, <2>5, TameOn DEF SamePlace, SameSight
<1> HIDE DEF c
<1>12. Tame(v, v) /\ SameSight(v, v)
  BY SameTame DEF SameGesture, Neat, SameSight
<1>13. ASSUME ~Screen!Blocked(v), v.tracking, Screen!RootDrag(v, way) \in out
       PROVE  Ended(v, Screen!RootDrag(v, way))
  <2>1. GestureQuiet(end)
    BY <1>3, <1>5, <1>8 DEF SamePlace, GestureQuiet
  <2>2. /\ Ended(end, end) /\ Ended(end, Screen!OpenSheet(end)) /\ Ended(end, Screen!CloseSheet(end, TRUE))
        /\ \A step \in {1, 3} : Ended(end, Screen!Navigate(end, step))
    BY <1>3, <1>5, <1>6, <1>8, <1>9, <1>13, <2>1, SwipeEnds
  <2>3. Ended(end, Screen!RootDrag(v, way))
    BY <1>13, <2>2
  <2>4. end.idle = v.idle /\ end.turned = v.turned
    BY <1>3, <1>5, <1>8 DEF SamePlace
  <2> QED BY <2>3, <2>4 DEF Ended
<1> QED BY <1>1, <1>5, <1>10, <1>11, <1>12, <1>13

(* A drag moves the screen under a contact that the root tracks, once.     *)
LEMMA DragHonest ==
  ASSUME ViewInv, GestureInv, NEW way, Screen!Drag(way)
  PROVE  GestureInv' /\ HonestStep
<1> DEFINE more == IF <<view.open, view.page>> # <<view'.open, view'.page>> THEN 1 ELSE 0
           w == Screen!RootDrag(view, way)
<1>1. /\ hand \in Hands /\ hand.down \in BOOLEAN /\ hand.deeds \in Nat /\ ViewSound(view) /\ GestureQuiet(view)
  BY DEF ViewInv, ViewTyped, Hands, GestureInv
<1>2. /\ hand.down /\ world' = world /\ view' = IF Screen!Bubbles(view, hand.on) THEN w ELSE view
  BY DEF Screen!Drag
<1>3. hand'.down /\ hand'.stale = hand.stale /\ hand'.on = hand.on /\ hand'.deeds = hand.deeds + more
  <2>1. hand' = [hand EXCEPT !.deeds = hand.deeds + more]
    BY <1>1 DEF Screen!Drag, Hands
  <2> HIDE DEF more
  <2> QED BY <1>1, <1>2, <2>1, HandReads
<1>4. CASE Tame(view, view') /\ SameSight(view, view') /\ view'.idle = view.idle /\ (view'.pending # Screen!None => view' = view)
  <2>1. more = 0 /\ view'.turned = view.turned
    BY <1>4 DEF SameSight
  <2> HIDE DEF more
  <2>2. hand'.deeds = hand.deeds
    BY <1>1, <1>3, <2>1
  <2>3. GestureInv'
    BY <1>1, <1>2, <1>3, <1>4, <2>2, StepTame
  <2> QED BY <1>1, <2>1, <2>2, <2>3 DEF HonestStep
<1>5. CASE view.tracking /\ Ended(view, view')
  <2>1. ~hand.stale /\ hand.deeds = 0 /\ hand.on \notin Inert /\ ~view.idle
    BY <1>2, <1>5 DEF GestureInv
  <2>2. more \in {0, 1}
    OBVIOUS
  <2> HIDE DEF more
  <2>3. hand'.deeds <= 1
    BY <1>3, <2>1, <2>2
  <2>4. hand.on \notin {"key", "control"}
    BY <2>1 DEF Inert
  <2> HIDE DEF Inert, Screen!Fields
  <2>5. GestureInv'
    BY <1>3, <1>5, <2>1, <2>4 DEF GestureInv, Ended
  <2> QED BY <1>5, <2>1, <2>3, <2>5 DEF HonestStep, Ended
<1>6. \/ Tame(view, view') /\ SameSight(view, view') /\ view'.idle = view.idle /\ (view'.pending # Screen!None => view' = view)
      \/ view.tracking /\ Ended(view, view')
  <2>1. \/ Tame(view, w) /\ SameSight(view, w) /\ w.idle = view.idle /\ (w.pending # Screen!None => w = view)
        \/ view.tracking /\ Ended(view, w)
    BY <1>1, RootDragDoes
  <2>2. Tame(view, view) /\ SameSight(view, view)
    BY SameTame DEF SameGesture, Neat, SameSight
  <2> HIDE DEF w
  <2> QED BY <1>2, <2>1, <2>2
<1> QED BY <1>4, <1>5, <1>6

LEMMA RootEndDoes ==
  ASSUME NEW v \in Views, NEW lost \in BOOLEAN
  PROVE  LET w == Screen!RootEnd(v, lost)
         IN /\ SamePlace(v, w) /\ ~w.tracking /\ (v.consumed \/ lost => w.consumed)
            /\ w.pending # Screen!None => ~lost /\ w.pending = v.pending /\ w.released = v.released
<1> DEFINE u == [v EXCEPT !.consumed = TRUE]
           a == Screen!DropPending(u)
           w == IF lost THEN a ELSE v
           x == [w EXCEPT !.plot = FALSE, !.tracking = FALSE]
           b == Screen!NoTouch(v)
           c == Screen!DropPending(b)
<1>1. Screen!RootEnd(v, lost) = IF Screen!Blocked(v) THEN c ELSE x
  BY DEF Screen!RootEnd
<1>2. u \in Views
  BY ZenonT(60) DEF Views
<1>3. SamePlace(v, u) /\ u.consumed = TRUE
  BY DEF Views, SamePlace
<1> HIDE DEF u
<1>4. a \in Views /\ SamePlace(u, a) /\ a.consumed = u.consumed /\ a.pending = Screen!None
  <2>1. a \in Views
    BY <1>2, DropPendingIs
  <2>2. SamePlace(u, a) /\ a.consumed = u.consumed /\ a.pending = Screen!None
    BY <1>2 DEF Screen!DropPending, Views, SamePlace
  <2> QED BY <2>1, <2>2
<1> HIDE DEF a
<1>5. w \in Views /\ SamePlace(v, w) /\ (v.consumed \/ lost => w.consumed)
      /\ (w.pending # Screen!None => ~lost /\ w = v)
  BY <1>3, <1>4 DEF SamePlace
<1> HIDE DEF w
<1>6. SamePlace(w, x) /\ ~x.tracking /\ x.consumed = w.consumed /\ x.pending = w.pending /\ x.released = w.released
  BY <1>5 DEF Views, SamePlace
<1> HIDE DEF x
<1>7. b \in Views /\ SamePlace(v, b) /\ ~b.tracking /\ b.consumed
  <2>1. b \in Views
    BY NoTouchIs
  <2>2. SamePlace(v, b) /\ ~b.tracking /\ b.consumed
    BY DEF Screen!NoTouch, Views, SamePlace
  <2> QED BY <2>1, <2>2
<1> HIDE DEF b
<1>8. SamePlace(b, c) /\ c.tracking = b.tracking /\ c.consumed = b.consumed /\ c.pending = Screen!None
  BY <1>7 DEF Screen!DropPending, Views, SamePlace
<1> HIDE DEF c
<1> QED BY <1>1, <1>5, <1>6, <1>7, <1>8 DEF SamePlace

LEMMA FieldEndDoes ==
  ASSUME NEW v, ViewSound(v), NEW field \in Screen!Fields
  PROVE  /\ LET w == Screen!FieldRelease(v, field)
            IN /\ SamePlace(v, w) /\ w.tracking = v.tracking /\ w.consumed = v.consumed
               /\ w.pending # Screen!None => w.pending = v.pending /\ (w.pending = field => w.released)
         /\ LET w == Screen!FieldClick(v, field)
            IN /\ SamePlace(v, w) /\ w.tracking = v.tracking /\ w.consumed = v.consumed
               /\ w.pending # Screen!None => \/ w = v /\ v.pending # field
                                      \/ /\ w.pending = field /\ w.released /\ ~Screen!EditorGuards(v) /\ ~v.consumed
                                         /\ v.pending = field \/ v.editor = Screen!None
<1> DEFINE a == Screen!DropPending(v)
           b == [v EXCEPT !.released = TRUE]
           c == [v EXCEPT !.pending = field, !.released = TRUE]
<1>0. v \in Views /\ field # Screen!None
  BY DEF ViewSound, ViewFramed, Core, Screen!Fields, Screen!None
<1>1. Screen!FieldRelease(v, field) = IF Screen!EditorGuards(v) \/ v.consumed THEN a ELSE IF v.pending = field THEN b ELSE v
  BY DEF Screen!FieldRelease
<1>2. Screen!FieldClick(v, field) = IF Screen!EditorGuards(v) \/ v.consumed THEN a
                             ELSE IF v.pending = field \/ v.editor = Screen!None THEN c ELSE v
  BY DEF Screen!FieldClick
<1>3. SamePlace(v, a) /\ a.tracking = v.tracking /\ a.consumed = v.consumed /\ a.pending = Screen!None
  BY <1>0 DEF Screen!DropPending, Views, SamePlace
<1>4. SamePlace(v, b) /\ b.tracking = v.tracking /\ b.consumed = v.consumed /\ b.pending = v.pending /\ b.released
  BY <1>0 DEF Views, SamePlace
<1>5. SamePlace(v, c) /\ c.tracking = v.tracking /\ c.consumed = v.consumed /\ c.pending = field /\ c.released
  BY <1>0 DEF Views, SamePlace
<1>6. SamePlace(v, v)
  BY DEF SamePlace
<1> HIDE DEF a, b, c, Screen!Fields
<1>7. LET w == Screen!FieldRelease(v, field)
      IN /\ SamePlace(v, w) /\ w.tracking = v.tracking /\ w.consumed = v.consumed
         /\ w.pending # Screen!None => w.pending = v.pending /\ (w.pending = field => w.released)
  BY <1>1, <1>3, <1>4, <1>6
<1>8. LET w == Screen!FieldClick(v, field)
      IN /\ SamePlace(v, w) /\ w.tracking = v.tracking /\ w.consumed = v.consumed
         /\ w.pending # Screen!None => \/ w = v /\ v.pending # field
                                \/ /\ w.pending = field /\ w.released /\ ~Screen!EditorGuards(v) /\ ~v.consumed
                                   /\ v.pending = field \/ v.editor = Screen!None
  BY <1>0, <1>2, <1>3, <1>5, <1>6
<1> QED BY <1>7, <1>8

\* what a click leaves of a contact, and when it is a deed
Mild(v, w) == /\ w.pending \in {v.pending, Screen!None} /\ (w.tracking => v.tracking) /\ w.turned = v.turned
              /\ GestureQuiet(v) => GestureQuiet(w)
              /\ w.phase = "WaitBlack" => v.phase = "WaitBlack" /\ w.curtain = v.curtain /\ w.noted = v.noted
Deed(v, on) == \/ on \in {"key", "control"} /\ v.open
               \/ on \notin Inert \cup Screen!Fields /\ ~v.consumed
Milded(v, on, S) == \A o \in S : Mild(v, o[1]) /\ (o[2] # 0 => Deed(v, on))

LEMMA MildOn ==
  ASSUME NEW u, NEW v, NEW w, Mild(u, v), Mild(v, w)
  PROVE  Mild(u, w)
BY DEF Mild

LEMMA TameMild ==
  ASSUME NEW v, NEW w, Tame(v, w)
  PROVE  Mild(v, w)
<1>1. w.phase = "WaitBlack" => v.phase = "WaitBlack"
  BY DEF Tame
<1> QED BY <1>1 DEF Tame, Mild

LEMMA MildOne ==
  ASSUME NEW v, NEW w, NEW on, Mild(v, w)
  PROVE  Milded(v, on, {Screen!Nothing(w)}) /\ (Deed(v, on) => Milded(v, on, {Screen!Did(w)}))
<1>1. Screen!Did(w)[1] = w /\ Screen!Did(w)[2] = 1 /\ Screen!Nothing(w)[1] = w /\ Screen!Nothing(w)[2] = 0
  BY DEF Screen!Did, Screen!Nothing
<1> HIDE DEF Deed, Mild
<1> QED BY <1>1 DEF Milded

LEMMA MildBoth ==
  ASSUME NEW v, NEW on, NEW S, NEW T, Milded(v, on, S), Milded(v, on, T)
  PROVE  Milded(v, on, S \cup T)
BY DEF Milded

LEMMA WipeMild ==
  ASSUME NEW v \in Views, NEW b
  PROVE  /\ Mild(v, v) /\ Mild(v, [v EXCEPT !.secret = b]) /\ Mild(v, [v EXCEPT !.approved = b])
         /\ Screen!DropPending(v) \in Views /\ Mild(v, Screen!DropPending(v))
         /\ Screen!RestoreEditor(v) \in Views /\ Mild(v, Screen!RestoreEditor(v))
<1> DEFINE w == [v EXCEPT !.secret = b]
           x == [v EXCEPT !.approved = b]
           y == Screen!RestoreEditor(v)
<1>1. SameGesture(v, w) /\ SameGesture(v, x) /\ SameGesture(v, v)
  BY DEF SameGesture, Views
<1> HIDE DEF w, x
<1>2. Mild(v, w) /\ Mild(v, x) /\ Mild(v, v)
  BY <1>1, SameTame, TameMild DEF Neat
<1>3. Screen!DropPending(v) \in Views /\ Mild(v, Screen!DropPending(v))
  BY DropPendingIs, DropPendingTame, TameMild DEF Neat
<1>4. y \in Views
  BY RestoreEditorIs
<1>5. /\ y.pending = v.pending /\ y.tracking = v.tracking /\ y.turned = v.turned /\ y.phase = v.phase /\ y.curtain = v.curtain
      /\ y.noted = v.noted /\ y.idle = v.idle /\ y.locked = v.locked /\ y.suppressed = v.suppressed /\ y.open = v.open
  BY DEF Screen!RestoreEditor, Views
<1> HIDE DEF y
<1>6. Mild(v, y)
  BY <1>5 DEF Mild, GestureQuiet
<1> QED BY <1>2, <1>3, <1>4, <1>6 DEF w, x, y

LEMMA TileMild ==
  ASSUME NEW v \in Views, NEW detail \in 0 .. 4
  PROVE  Mild(v, [Screen!ShowDetail(v, detail) EXCEPT !.moving = TRUE, !.anims = @ \union {"detail"}])
<1> DEFINE a == Screen!RestoreEditor(Screen!DropPending(v))
           u == Screen!ShowDetail(v, detail)
           some == u.anims \union {"detail"}
           x == [u EXCEPT !.moving = TRUE, !.anims = some]
<1>1. a \in Views /\ Mild(v, a)
  BY WipeMild, MildOn
<1>2. u = [a EXCEPT !.detail = detail] /\ u \in Views
  BY ShowDetailIs DEF Screen!ShowDetail
<1> HIDE DEF a
<1>3. /\ u.pending = a.pending /\ u.tracking = a.tracking /\ u.turned = a.turned /\ u.phase = a.phase /\ u.curtain = a.curtain
      /\ u.noted = a.noted /\ u.idle = a.idle /\ u.locked = a.locked /\ u.suppressed = a.suppressed /\ u.open = a.open
  <2> HIDE DEF u
  <2> QED BY <1>1, <1>2 DEF Views
<1> HIDE DEF u
<1>4. [u EXCEPT !.moving = TRUE, !.anims = @ \union {"detail"}] = x
  BY <1>2 DEF Views
<1> HIDE DEF some
<1>5. /\ x.pending = u.pending /\ x.tracking = u.tracking /\ x.turned = u.turned /\ x.phase = u.phase /\ x.curtain = u.curtain
      /\ x.noted = u.noted /\ x.idle = u.idle /\ x.locked = u.locked /\ x.suppressed = u.suppressed /\ x.open = u.open
  BY <1>2 DEF Views
<1> HIDE DEF x
<1>6. Mild(a, u) /\ Mild(u, x)
  BY <1>3, <1>5 DEF Mild, GestureQuiet
<1>7. Mild(v, x)
  BY <1>1, <1>6, MildOn
<1> QED BY <1>4, <1>7 DEF u

(* A click on anything but a field.                                        *)
LEMMA ClicksMild ==
  ASSUME NEW v, ViewSound(v), NEW on, on \notin Screen!Fields
  PROVE  Milded(v, on, Screen!Clicks(v, on))
<1>0. v \in Views
  BY DEF ViewSound, ViewFramed, Core
<1>1. Mild(v, v) /\ Milded(v, on, {Screen!Nothing(v)}) /\ (Deed(v, on) => Milded(v, on, {Screen!Did(v)}))
  BY <1>0, WipeMild, MildOne
<1> DEFINE a == Screen!DropPending(v)
           w == Screen!RestoreEditor(a)
           a0 == [a EXCEPT !.secret = FALSE]
           v0 == [v EXCEPT !.secret = FALSE]
           w0 == [w EXCEPT !.secret = FALSE]
           vp == [v EXCEPT !.secret = v.secret /\ v.editor # "password"]
           typed == v.secret \/ v.editor = "password"
           vt == [v EXCEPT !.secret = typed]
<1>2. a \in Views /\ Mild(v, a) /\ Mild(v, v0) /\ Mild(v, vp) /\ Mild(v, vt) /\ Mild(v, [v EXCEPT !.approved = TRUE])
  BY <1>0, WipeMild
<1> HIDE DEF a
<1>3. w \in Views /\ Mild(v, w) /\ Mild(v, a0)
  BY <1>2, WipeMild, MildOn
<1> HIDE DEF w
<1>4. Mild(v, w0)
  BY <1>3, WipeMild, MildOn
<1> HIDE DEF a0, v0, w0, vp
<1>5. on \in {"cell", "mode"} => Milded(v, on, Screen!HistoryClick(v, on))
  <2> DEFINE x == IF on = "mode" THEN Screen!ShowPage(v, "History") ELSE v
  <2>1. Mild(v, x)
    BY <1>1, ShowPageTame, TameMild DEF Pages, Neat
  <2>2. Screen!HistoryClick(v, on) = IF Screen!Blocked(v) \/ v.consumed \/ v.open THEN {Screen!Nothing(v)} ELSE {Screen!Did(x)}
    BY DEF Screen!HistoryClick
  <2> HIDE DEF x
  <2>3. on \in {"cell", "mode"} /\ ~v.consumed => Deed(v, on)
    BY DEF Deed, Inert
  <2>4. Deed(v, on) => Milded(v, on, {Screen!Did(x)})
    BY <2>1, MildOne
  <2> HIDE DEF Inert, Deed
  <2> QED BY <1>1, <2>2, <2>3, <2>4
<1>6. on \in {"tile", "row", "action", "profiles", "ota"} /\ ~v.consumed => Deed(v, on)
  BY DEF Deed, Inert
<1>7. on \in {"key", "control"} /\ ~Screen!EditorGuards(v) => Deed(v, on)
  BY DEF Deed, Screen!EditorGuards
<1>8. on = "tile" => Milded(v, on, Screen!TileClick(v))
  <2> DEFINE tile(d) == [Screen!ShowDetail(v, d) EXCEPT !.moving = TRUE, !.anims = @ \union {"detail"}]
  <2>1. Screen!TileClick(v) = {Screen!Nothing(v)} \/ (~v.consumed /\ Screen!TileClick(v) = {Screen!Did(tile(d)) : d \in {1, 4}})
    BY Zenon DEF Screen!TileClick
  <2>2. 1 \in 0 .. 4 /\ 4 \in 0 .. 4
    OBVIOUS
  <2>3. Mild(v, tile(1)) /\ Mild(v, tile(4))
    BY <1>0, <2>2, TileMild, Zenon
  <2> HIDE DEF tile
  <2>4. Deed(v, on) => Milded(v, on, {Screen!Did(tile(1))}) /\ Milded(v, on, {Screen!Did(tile(4))})
    BY <2>3, MildOne
  <2>5. {Screen!Did(tile(d)) : d \in {1, 4}} = {Screen!Did(tile(1))} \cup {Screen!Did(tile(4))}
    OBVIOUS
  <2>6. Deed(v, on) => Milded(v, on, {Screen!Did(tile(d)) : d \in {1, 4}})
    BY <2>4, <2>5, MildBoth
  <2> QED BY <1>1, <1>6, <2>1, <2>6
<1>9. on = "row" => Milded(v, on, Screen!RowClick(v))
  <2>1. Screen!RowClick(v) = {Screen!Nothing(v)} \/ (~v.consumed /\ Screen!RowClick(v) = {Screen!Did(v)})
    BY Zenon DEF Screen!RowClick
  <2> QED BY <1>1, <1>6, <2>1
<1>10. on = "action" => Milded(v, on, Screen!ActionClick(v))
  <2>1. Screen!ActionClick(v) = {Screen!Nothing(v)} \/ (~v.consumed /\ Screen!ActionClick(v) = {Screen!Did(a0), Screen!Did(v0), Screen!Did(v), Screen!Nothing(v)})
    BY Zenon DEF Screen!ActionClick, a0, v0, a
  <2>2. Deed(v, on) => Milded(v, on, {Screen!Did(a0)}) /\ Milded(v, on, {Screen!Did(v0)})
    BY <1>2, <1>3, MildOne
  <2>3. Deed(v, on) => Milded(v, on, {Screen!Did(a0), Screen!Did(v0), Screen!Did(v), Screen!Nothing(v)})
    BY <1>1, <2>2 DEF Milded
  <2> QED BY <1>1, <1>6, <2>1, <2>3
<1>11. on = "profiles" => Milded(v, on, Screen!ProfilesClick(v))
  <2>1. Screen!ProfilesClick(v) = {Screen!Nothing(v)} \/ (~v.consumed /\ Screen!ProfilesClick(v) = {Screen!Did(a0), Screen!Nothing(v)})
    BY Zenon DEF Screen!ProfilesClick, a0, a
  <2>2. Deed(v, on) => Milded(v, on, {Screen!Did(a0)})
    BY <1>3, MildOne
  <2>3. Deed(v, on) => Milded(v, on, {Screen!Did(a0), Screen!Nothing(v)})
    BY <1>1, <2>2 DEF Milded
  <2> QED BY <1>1, <1>6, <2>1, <2>3
<1>12. on = "ota" => Milded(v, on, Screen!OtaClick(v))
  <2> DEFINE x == [v EXCEPT !.approved = TRUE]
  <2>1. Screen!OtaClick(v) = {Screen!Nothing(v)} \/ (~v.consumed /\ Screen!OtaClick(v) = {Screen!Did(x), Screen!Nothing(v)})
    BY Zenon DEF Screen!OtaClick
  <2> HIDE DEF x
  <2>2. Deed(v, on) => Milded(v, on, {Screen!Did(x)})
    BY <1>2, MildOne DEF x
  <2>3. Deed(v, on) => Milded(v, on, {Screen!Did(x), Screen!Nothing(v)})
    BY <1>1, <2>2 DEF Milded
  <2> QED BY <1>1, <1>6, <2>1, <2>3
<1>13. on = "control" => Milded(v, on, Screen!ControlClick(v))
  <2>1. Screen!ControlClick(v) = {Screen!Nothing(v)} \/ (~Screen!EditorGuards(v) /\ Screen!ControlClick(v) = {Screen!Did(w0), Screen!Did(vp), Screen!Did(v)})
    BY Zenon DEF Screen!ControlClick, w0, vp, w, a
  <2>2. Deed(v, on) => Milded(v, on, {Screen!Did(w0)}) /\ Milded(v, on, {Screen!Did(vp)})
    BY <1>2, <1>4, MildOne
  <2>3. Deed(v, on) => Milded(v, on, {Screen!Did(w0), Screen!Did(vp), Screen!Did(v)})
    BY <1>1, <2>2 DEF Milded
  <2> QED BY <1>1, <1>7, <2>1, <2>3
<1>14. on = "key" => Milded(v, on, Screen!KeyClick(v))
  <2>1. vt = [v EXCEPT !.secret = @ \/ v.editor = "password"]
    BY <1>0 DEF Views
  <2>2. Screen!KeyClick(v) = {Screen!Nothing(vt)} \union (IF Screen!EditorGuards(v) THEN {Screen!Nothing(a)} ELSE {Screen!Did(w), Screen!Did(w0)})
    BY <2>1, Zenon DEF Screen!KeyClick, w0, w, a
  <2> HIDE DEF vt
  <2>3. /\ Milded(v, on, {Screen!Nothing(vt)}) /\ Milded(v, on, {Screen!Nothing(a)})
        /\ Deed(v, on) => Milded(v, on, {Screen!Did(w)}) /\ Milded(v, on, {Screen!Did(w0)})
    BY <1>2, <1>3, <1>4, MildOne
  <2>4. Deed(v, on) => Milded(v, on, {Screen!Did(w), Screen!Did(w0)})
    BY <2>3 DEF Milded
  <2> QED BY <1>7, <2>2, <2>3, <2>4, MildBoth
<1> HIDE DEF Screen!Fields
<1> QED BY <1>1, <1>5, <1>8, <1>9, <1>10, <1>11, <1>12, <1>13, <1>14, Zenon DEF Screen!Clicks

(* A contact that is lifted clicks, and nothing of it stays but a wish.    *)
LEMMA ReleaseHonest ==
  ASSUME ViewInv, GestureInv, Screen!Release
  PROVE  GestureInv' /\ HonestStep
<1> DEFINE on == hand.on
           f == IF on \in Screen!Fields THEN Screen!FieldRelease(view, on) ELSE view
           v == IF Screen!Bubbles(view, on) THEN Screen!RootEnd(f, FALSE) ELSE f
<1>1. PICK o \in Screen!Clicks(v, on) : view' = o[1] /\ hand' = [hand EXCEPT !.down = FALSE, !.deeds = @ + o[2]]
  BY DEF Screen!Release
<1>2. hand.down /\ world' = world
  BY DEF Screen!Release
<1>3. hand \in Hands /\ hand.deeds \in Nat /\ ViewSound(view) /\ view \in Views
  BY DEF ViewInv, ViewTyped, Hands, ViewSound, ViewFramed, Core
<1>4. hand'.down = FALSE /\ hand'.stale = hand.stale /\ hand'.on = on /\ hand'.deeds = hand.deeds + o[2]
  <2>1. hand' = [hand EXCEPT !.down = FALSE, !.deeds = hand.deeds + o[2]]
    BY <1>1, <1>3 DEF Hands
  <2> QED BY <1>3, <2>1, HandReads
<1>5. Fares(view, f) /\ f \in Views
  BY <1>3, FieldKeeps, FaresStill DEF Fares, ViewSound, ViewFramed, Core
<1>6. /\ SamePlace(view, f) /\ f.tracking = view.tracking /\ f.consumed = view.consumed
      /\ f.pending # Screen!None => on \in Screen!Fields /\ f.released /\ view.pending # Screen!None /\ f.pending = view.pending
  <2>1. view.pending # Screen!None => view.pending = on /\ view.pending \in Screen!Fields
    BY <1>3 DEF GestureInv, Views
  <2>2. CASE on \in Screen!Fields
    <3> HIDE DEF Screen!Fields
    <3> QED BY <1>3, <2>1, <2>2, FieldEndDoes
  <2>3. CASE on \notin Screen!Fields
    BY <2>1, <2>3 DEF SamePlace
  <2> QED BY <2>2, <2>3
<1> HIDE DEF f
<1>7. /\ SamePlace(view, v) /\ ~v.tracking /\ (~v.consumed => ~view.consumed)
      /\ v.pending # Screen!None => on \in Screen!Fields /\ v.released /\ view.pending # Screen!None /\ v.pending = view.pending
      /\ ViewSound(v)
  <2>1. CASE Screen!Bubbles(view, on)
    <3>1. SamePlace(f, v) /\ ~v.tracking /\ (f.consumed => v.consumed)
          /\ (v.pending # Screen!None => v.pending = f.pending /\ v.released = f.released)
      BY <1>5, <2>1, RootEndDoes
    <3>2. ViewSound(v)
      BY <1>5, <2>1, RootEndKeeps DEF Fares
    <3> HIDE DEF v
    <3> QED BY <1>6, <3>1, <3>2 DEF SamePlace
  <2>2. CASE ~Screen!Bubbles(view, on)
    <3>1. ~view.tracking
      BY <2>2 DEF GestureInv, Screen!Bubbles, Inert
    <3> QED BY <1>5, <1>6, <2>2, <3>1 DEF Fares
  <2> QED BY <2>1, <2>2
<1> HIDE DEF v
<1>8. ~view.consumed /\ on \notin Inert \cup Screen!Fields => ~hand.stale /\ hand.deeds = 0
  BY <1>2 DEF GestureInv
<1>9. on \in {"key", "control"} /\ view.open => ~hand.stale /\ hand.deeds = 0
  BY <1>2 DEF GestureInv
<1>10. Deed(v, on) => ~hand.stale /\ hand.deeds = 0
  <2> HIDE DEF Screen!Fields, Inert
  <2> QED BY <1>7, <1>8, <1>9 DEF Deed, SamePlace
<1>11. GestureQuiet(v)
  BY <1>7 DEF SamePlace, GestureInv, GestureQuiet
<1>12. v.phase = "WaitBlack" => v.curtain = "black" /\ (v.noted => world.drawn = "black")
  BY <1>7 DEF SamePlace, GestureInv
<1>13. CASE on \notin Screen!Fields
  <2>1. Mild(v, view') /\ (o[2] # 0 => Deed(v, on)) /\ o[2] \in {0, 1}
    BY <1>1, <1>7, <1>13, ClicksMild, ClicksKeep DEF Milded, Clicked
  <2>2. view'.pending = Screen!None /\ ~view'.tracking
    BY <1>7, <1>13, <2>1 DEF Mild
  <2>3. GestureQuiet(view')
    BY <1>11, <2>1 DEF Mild
  <2>4. view'.phase = "WaitBlack" => view'.curtain = "black" /\ (view'.noted => world'.drawn = "black")
    BY <1>2, <1>12, <2>1 DEF Mild
  <2>5. hand'.deeds > hand.deeds => ~hand.stale /\ hand'.deeds <= 1
    BY <1>3, <1>4, <1>10, <2>1
  <2>6. view'.turned = view.turned
    BY <1>7, <2>1 DEF Mild, SamePlace
  <2>7. GestureInv'
    BY <1>4, <2>2, <2>3, <2>4 DEF GestureInv
  <2> QED BY <2>5, <2>6, <2>7 DEF HonestStep
<1>14. CASE on \in Screen!Fields
  <2> DEFINE w == Screen!FieldClick(v, on)
  <2>1. Screen!Clicks(v, on) = {Screen!Nothing(w)}
    <3>1. /\ on \notin {"cell", "mode"} /\ on # "tile" /\ on # "row" /\ on # "action" /\ on # "profiles" /\ on # "ota"
          /\ on # "control" /\ on # "key"
      BY <1>14 DEF Screen!Fields
    <3> HIDE DEF Screen!Fields, w, on
    <3> QED BY <1>14, <3>1 DEF Screen!Clicks, w
  <2>2. view' = w /\ o[2] = 0
    BY <1>1, <2>1 DEF Screen!Nothing
  <2>3. /\ SamePlace(v, w) /\ ~w.tracking
        /\ w.pending # Screen!None => \/ w = v /\ v.pending # on
                               \/ /\ w.pending = on /\ w.released /\ ~Screen!EditorGuards(v) /\ ~v.consumed
                                  /\ v.pending = on \/ v.editor = Screen!None
    <3> HIDE DEF Screen!Fields
    <3> QED BY <1>7, <1>14, FieldEndDoes
  <2> HIDE DEF w
  <2>4. SamePlace(view, w)
    BY <1>7, <2>3 DEF SamePlace
  <2>5. ASSUME w.pending # Screen!None
        PROVE  /\ w.editor = Screen!None /\ w.pending = on /\ w.released /\ ~hand.stale /\ hand.deeds = 0
               /\ w.phase = "Idle" /\ ~w.fault
    <3>1. CASE view.pending # Screen!None
      <4>1. /\ view.editor = Screen!None /\ view.pending = on /\ ~hand.stale /\ hand.deeds = 0 /\ view.phase = "Idle" /\ ~view.fault
        BY <3>1 DEF GestureInv
      <4>2. w.pending = on /\ w.released
        <5>1. ~(w = v /\ v.pending # on)
          BY <1>7, <2>5, <4>1
        <5> QED BY <2>3, <2>5, <5>1
      <4> QED BY <2>4, <4>1, <4>2 DEF SamePlace
    <3>2. CASE view.pending = Screen!None
      <4>1. v.pending = Screen!None
        BY <1>7, <3>2
      <4>2. /\ w.pending = on /\ w.released /\ ~Screen!EditorGuards(v) /\ ~v.consumed /\ v.editor = Screen!None
        BY <1>14, <2>3, <2>5, <4>1 DEF Screen!Fields, Screen!None
      <4>3. view.open /\ view.editor = Screen!None /\ ~view.consumed
        BY <1>7, <4>2 DEF SamePlace, Screen!EditorGuards
      <4>4. view.tracking
        BY <1>2, <1>14, <4>3 DEF GestureInv
      <4>5. ~hand.stale /\ hand.deeds = 0
        BY <4>4 DEF GestureInv
      <4>6. v.phase = "Idle" /\ ~v.fault
        BY <4>2 DEF Screen!EditorGuards, Screen!Blocked
      <4> QED BY <2>3, <4>2, <4>5, <4>6 DEF SamePlace
    <3> QED BY <3>1, <3>2
  <2>6. hand'.deeds = hand.deeds
    BY <1>3, <1>4, <2>2
  <2>7. GestureQuiet(w)
    BY <2>3, <2>4 DEF SamePlace, GestureInv, GestureQuiet
  <2>8. w.phase = "WaitBlack" => w.curtain = "black" /\ (w.noted => world'.drawn = "black")
    BY <1>2, <1>12, <2>3 DEF SamePlace
  <2>9. GestureInv'
    <3> HIDE DEF on
    <3> QED BY <1>4, <2>2, <2>3, <2>5, <2>6, <2>7, <2>8 DEF GestureInv
  <2> QED BY <1>3, <2>2, <2>4, <2>6, <2>9 DEF HonestStep, SamePlace
<1> QED BY <1>13, <1>14

LEMMA LoseHonest ==
  ASSUME ViewInv, GestureInv, Screen!Lose
  PROVE  GestureInv' /\ HonestStep
<1> DEFINE u == [view EXCEPT !.consumed = TRUE]
           a == Screen!DropPending(u)
           v == IF hand.on \in Screen!Fields THEN a ELSE view
<1>1. /\ view' = IF Screen!Bubbles(view, hand.on) THEN Screen!RootEnd(v, TRUE) ELSE v
      /\ hand.down /\ hand' = [hand EXCEPT !.down = FALSE] /\ world' = world
  BY DEF Screen!Lose
<1>2. hand \in Hands /\ hand.down \in BOOLEAN /\ hand.deeds \in Nat /\ view \in Views
  BY DEF ViewInv, ViewTyped, Hands, ViewSound, ViewFramed, Core
<1>3. hand'.down = FALSE /\ hand'.stale = hand.stale /\ hand'.on = hand.on /\ hand'.deeds = hand.deeds
  BY <1>1, <1>2, HandReads
<1>4. u \in Views
  BY <1>2, ZenonT(60) DEF Views
<1>5. SamePlace(view, u) /\ u.tracking = view.tracking
  BY <1>2 DEF Views, SamePlace
<1> HIDE DEF u
<1>6. a \in Views /\ SamePlace(u, a) /\ a.tracking = u.tracking /\ a.pending = Screen!None
  <2>1. a \in Views
    BY <1>4, DropPendingIs
  <2>2. SamePlace(u, a) /\ a.tracking = u.tracking /\ a.pending = Screen!None
    BY <1>4 DEF Screen!DropPending, Views, SamePlace
  <2> QED BY <2>1, <2>2
<1> HIDE DEF a
<1>7. v \in Views /\ SamePlace(view, v) /\ v.tracking = view.tracking /\ v.pending = Screen!None
  <2>1. hand.on \notin Screen!Fields => view.pending = Screen!None
    BY <1>2 DEF GestureInv, Views
  <2> QED BY <1>2, <1>5, <1>6, <2>1 DEF SamePlace
<1> HIDE DEF v
<1>8. SamePlace(view, view') /\ ~view'.tracking /\ view'.pending = Screen!None
  <2>1. CASE Screen!Bubbles(view, hand.on)
    <3>1. SamePlace(v, view') /\ ~view'.tracking /\ view'.pending = Screen!None
      BY <1>1, <1>7, <2>1, RootEndDoes
    <3> QED BY <1>7, <3>1 DEF SamePlace
  <2>2. CASE ~Screen!Bubbles(view, hand.on)
    <3>1. ~view.tracking
      BY <2>2 DEF GestureInv, Screen!Bubbles, Inert
    <3> QED BY <1>1, <1>7, <2>2, <3>1
  <2> QED BY <2>1, <2>2
<1>9. GestureQuiet(view')
  BY <1>8 DEF SamePlace, GestureInv, GestureQuiet
<1>10. GestureInv'
  BY <1>1, <1>3, <1>8, <1>9 DEF SamePlace, GestureInv
<1> QED BY <1>2, <1>3, <1>8, <1>10 DEF HonestStep, SamePlace

(* A frame drawn behind the curtain is black.                              *)
LEMMA FrameHonest ==
  ASSUME ViewInv, GestureInv, Screen!Frame
  PROVE  GestureInv' /\ HonestStep
<1> DEFINE w == [view EXCEPT !.noted = TRUE, !.due = FALSE, !.light = IF view.due THEN "bright" ELSE @]
           d == IF view.curtain = "black" THEN "black" ELSE IF view.locked THEN "lock" ELSE "open"
<1>1. /\ world' = [world EXCEPT !.drawn = d] /\ view' = w /\ hand' = hand
  BY DEF Screen!Frame
<1>2. view \in Views /\ world \in Worlds /\ hand \in Hands /\ hand.deeds \in Nat
  BY DEF ViewInv, ViewTyped, Hands, ViewSound, ViewFramed, Core
<1>4. /\ w.locked = view.locked /\ w.suppressed = view.suppressed /\ w.open = view.open /\ w.fault = view.fault
      /\ w.turned = view.turned /\ w.curtain = view.curtain /\ w.phase = view.phase /\ w.idle = view.idle
      /\ w.editor = view.editor /\ w.tracking = view.tracking /\ w.consumed = view.consumed /\ w.pending = view.pending
      /\ w.released = view.released
  BY <1>2 DEF Views
<1> HIDE DEF w
<1>5. world'.drawn = d
  BY <1>1, <1>2 DEF Worlds
<1>6. view'.phase = "WaitBlack" => view'.curtain = "black" /\ (view'.noted => world'.drawn = "black")
  BY <1>1, <1>4, <1>5 DEF GestureInv
<1> HIDE DEF d
<1>7. GestureInv'
  BY <1>1, <1>4, <1>6 DEF GestureInv, GestureQuiet
<1> QED BY <1>1, <1>2, <1>4, <1>7 DEF HonestStep

\* the fade-out is over, and the curtain hangs black until a frame shows it
Hangs(v, w) ==
  /\ SameSight(v, w) /\ w.tracking = v.tracking /\ w.consumed = v.consumed /\ w.idle = v.idle
  /\ w.editor = v.editor /\ w.pending = v.pending /\ w.released = v.released
  /\ v.phase = "FadeOut" /\ w.phase = "WaitBlack" /\ w.curtain = "black" /\ ~w.noted

LEMMA DroppedSame ==
  ASSUME NEW v \in Views, NEW a
  PROVE  SameGesture(v, [v EXCEPT !.anims = @ \ {a}])
<1> DEFINE some == v.anims \ {a}
           u == [v EXCEPT !.anims = some]
<1>1. [v EXCEPT !.anims = @ \ {a}] = u
  BY DEF Views
<1> HIDE DEF some
<1>2. SameGesture(v, u)
  BY DEF SameGesture, Views
<1> QED BY <1>1, <1>2

LEMMA TurnedTame ==
  ASSUME NEW v, ViewSound(v), "turn" \in v.anims
  PROVE  LET w == Screen!Turned([v EXCEPT !.anims = @ \ {"turn"}]) IN Tame(v, w) \/ Hangs(v, w)
<1> DEFINE u == [v EXCEPT !.anims = @ \ {"turn"}]
<1>0. /\ v \in Views /\ SlideSound(v) /\ SheetSound(v) /\ RestSound(v) /\ IdleSound(v) /\ SecretSound(v) /\ TurnSound(v)
  BY DEF ViewSound, ViewFramed, Core
<1>1. /\ u \in Views /\ u.anims = v.anims \ {"turn"} /\ SameLock(v, u) /\ SameSheet(v, u)
      /\ SameTurn(v, u) /\ SamePage(v, u) /\ SameText(v, u)
  BY <1>0, AnimDropped
<1>2. SameGesture(v, u) /\ Tame(v, u)
  BY <1>0, DroppedSame, SameTame DEF Neat
<1>3. v.phase \in {"FadeOut", "FadeIn"} /\ ~v.locked
  BY <1>0 DEF TurnSound, RestSound
<1> HIDE DEF u
<1>4. CASE u.fault
  <2>1. SlideSound(u) /\ SheetSound(u)
    BY <1>0, <1>1 DEF SlideSound, SheetSound, SamePage, SameSheet
  <2>2. RestSound(u) /\ IdleSound(u) /\ SecretSound(u)
    BY <1>0, <1>1, <1>3 DEF RestSound, IdleSound, SecretSound, SameLock, SameSheet, SamePage, SameText
  <2>3. Tame(u, Screen!CancelTurn(u))
    BY <1>1, <2>1, <2>2, CancelTurnTame DEF Core
  <2>4. Screen!Turned(u) = Screen!CancelTurn(u)
    BY <1>4 DEF Screen!Turned
  <2>5. Tame(v, Screen!Turned(u))
    BY <1>2, <2>3, <2>4, TameOn
  <2> QED BY <2>5 DEF u
<1>5. CASE ~u.fault /\ u.phase = "FadeOut"
  <2> DEFINE x == [u EXCEPT !.phase = "WaitBlack", !.curtain = "black", !.noted = FALSE]
  <2>1. Screen!Turned(u) = x
    BY <1>5 DEF Screen!Turned
  <2>2. /\ x.page = u.page /\ x.open = u.open /\ x.detail = u.detail /\ x.locked = u.locked /\ x.suppressed = u.suppressed
        /\ x.fault = u.fault /\ x.turned = u.turned /\ x.tracking = u.tracking /\ x.consumed = u.consumed /\ x.idle = u.idle
        /\ x.editor = u.editor /\ x.pending = u.pending /\ x.released = u.released
        /\ x.phase = "WaitBlack" /\ x.curtain = "black" /\ x.noted = FALSE
    BY <1>1 DEF Views
  <2> HIDE DEF x
  <2>3. v.curtain # "off" /\ v.phase = "FadeOut"
    BY <1>0, <1>2, <1>5 DEF TurnSound, SameGesture
  <2>4. Hangs(v, x)
    BY <1>2, <2>2, <2>3 DEF Hangs, SameGesture, SameSight
  <2> QED BY <2>1, <2>4 DEF u
<1>6. CASE ~u.fault /\ u.phase # "FadeOut"
  <2> DEFINE c == Screen!NoTouch(u)
             x == [c EXCEPT !.phase = "Idle", !.curtain = "off"]
  <2>1. Screen!Turned(u) = x
    BY <1>6 DEF Screen!Turned
  <2>2. c \in Views /\ Tame(u, c) /\ ~c.tracking /\ c.consumed
    <3>1. c \in Views
      BY <1>1, NoTouchIs
    <3> HIDE DEF c
    <3> QED BY <1>1, <3>1, NoTouchTame DEF Neat, c
  <2> HIDE DEF c
  <2>3. /\ x.open = c.open /\ x.locked = c.locked /\ x.suppressed = c.suppressed /\ x.turned = c.turned
        /\ x.phase = "Idle" /\ x.tracking = c.tracking /\ x.consumed = c.consumed /\ x.idle = c.idle
        /\ x.editor = c.editor /\ x.pending = c.pending /\ x.released = c.released
    BY <2>2 DEF Views
  <2> HIDE DEF x
  <2>4. Tame(v, c)
    BY <1>2, <2>2, TameOn
  <2>5. Tame(v, x)
    BY <1>3, <2>2, <2>3, <2>4 DEF Tame, GestureQuiet
  <2> QED BY <2>1, <2>5 DEF u
<1> QED BY <1>4, <1>5, <1>6

LEMMA EndsHonest ==
  ASSUME ViewInv, ViewInv', GestureInv, NEW a \in view.anims, Screen!AnimationEnds(a)
  PROVE  GestureInv' /\ HonestStep
<1> DEFINE v == [view EXCEPT !.anims = @ \ {a}]
<1>0. /\ ViewTyped /\ ViewSound(view) /\ view \in Views /\ view' \in Views /\ world' = world /\ Screen!Under(view')
      /\ hand \in Hands /\ hand.down \in BOOLEAN /\ hand.deeds \in Nat
      /\ view' = CASE a = "slide" -> Screen!SlideCompleted(v) [] a = "turn" -> Screen!Turned(v) [] OTHER -> Screen!SheetMoved(v)
  BY DEF ViewInv, ViewTyped, Hands, ViewSound, ViewFramed, Core, Screen!AnimationEnds
<1>1. v \in Views /\ SameGesture(view, v)
  BY <1>0, AnimDropped, DroppedSame
<1>2. CASE a = "turn"
  <2>1. view' = Screen!Turned([view EXCEPT !.anims = @ \ {"turn"}])
    BY <1>0, <1>2
  <2>2. Tame(view, view') \/ Hangs(view, view')
    BY <1>0, <1>2, <2>1, TurnedTame
  <2>3. CASE Tame(view, view')
    BY <1>0, <2>3, UnderTame
  <2>4. CASE Hangs(view, view')
    <3>1. Screen!Screen(view') = Screen!Screen(view) /\ view'.idle = view.idle /\ view'.turned = view.turned
      BY <2>4, SightIs DEF Hangs, SameSight
    <3>2. hand'.down = hand.down /\ hand'.stale = hand.stale /\ hand'.on = hand.on /\ hand'.deeds = hand.deeds
      <4>1. /\ hand'.down = (hand.down /\ view'.idle = view.idle /\ view'.turned = view.turned)
            /\ hand'.stale = (hand.stale \/ Screen!Screen(view') # Screen!Screen(view))
            /\ hand'.on = hand.on /\ hand'.deeds = hand.deeds
        BY <1>0, HandReads DEF Screen!Under
      <4>2. hand.stale \in BOOLEAN
        BY <1>0 DEF Hands
      <4> QED BY <1>0, <3>1, <4>1, <4>2
    <3>3. view'.pending = Screen!None
      BY <2>4 DEF Hangs, GestureInv
    <3>4. ~(hand.down /\ hand.on \in {"key", "control"})
      BY <2>4 DEF Hangs, GestureInv
    <3> HIDE DEF Screen!Fields, Inert
    <3>5. GestureInv'
      BY <2>4, <3>2, <3>3, <3>4 DEF Hangs, SameSight, GestureInv, GestureQuiet
    <3> QED BY <1>0, <3>1, <3>2, <3>5 DEF HonestStep
  <2> QED BY <2>2, <2>3, <2>4
<1>3. CASE a # "turn"
  <2>1. SameGesture(v, view')
    <3>1. view' \in {Screen!SlideCompleted(v), Screen!SheetMoved(v)}
      BY <1>0, <1>3
    <3> HIDE DEF v
    <3>2. SameGesture(v, Screen!SlideCompleted(v))
      BY <1>1 DEF Screen!SlideCompleted, SameGesture, Views
    <3>3. SameGesture(v, Screen!SheetMoved(v))
      BY <1>1 DEF Screen!SheetMoved, SameGesture, Views
    <3> QED BY <3>1, <3>2, <3>3
  <2> HIDE DEF v
  <2>2. Tame(view, view')
    BY <1>1, <2>1, SameGestureOn, SameTame DEF Neat
  <2> QED BY <1>0, <2>2, UnderTame
<1> QED BY <1>2, <1>3

LEMMA PollHonest ==
  ASSUME ViewInv, ViewInv', GestureInv, NEW late \in BOOLEAN, NEW due \in BOOLEAN, Screen!Poll(late, due)
  PROVE  GestureInv' /\ HonestStep
<1>1. view' \in {view, Screen!Wake(view)} /\ Screen!Under(view') /\ world' = world
  BY DEF Screen!Poll
<1>2. ViewTyped /\ ViewSound(view) /\ view \in Views /\ view' \in Views /\ world \in Worlds /\ GestureQuiet(view)
  BY DEF ViewInv, ViewTyped, ViewSound, ViewFramed, Core, GestureInv
<1>3. Tame(view, view) /\ Tame(view, Screen!Wake(view))
  BY <1>2, WakeTame, SameTame DEF Neat, SameGesture
<1> QED BY <1>1, <1>2, <1>3, UnderTame

LEMMA CommandHonest ==
  ASSUME ViewInv, ViewInv', GestureInv, Screen!Command(view) \/ Screen!Capture
  PROVE  GestureInv' /\ HonestStep
<1>0. ViewTyped /\ ViewSound(view) /\ view \in Views /\ view' \in Views /\ world \in Worlds /\ GestureQuiet(view)
  BY DEF ViewInv, ViewTyped, ViewSound, ViewFramed, Core, GestureInv
<1>1. CASE Screen!Command(view)
  <2> DEFINE x == [view EXCEPT !.dim = TRUE]
             z == Screen!SetLight(x, "dim")
  <2>1. /\ view' \in {Screen!SetPage(view, "Command"), Screen!SetPage(view, "History"), Screen!Lock(view), Screen!Wake(view), Screen!ClearDim(view), z}
        /\ Screen!Under(view') /\ world' = world
    BY <1>1 DEF Screen!Command
  <2>2. x \in Views
    BY <1>0, ZenonT(60) DEF Views
  <2>3. SameGesture(view, x)
    BY <1>0 DEF SameGesture, Views
  <2> HIDE DEF x
  <2>4. SameGesture(x, z)
    BY <2>2, SetLightSame
  <2> HIDE DEF z
  <2>5. Tame(view, z)
    BY <2>3, <2>4, SameGestureOn, SameTame DEF Neat
  <2>6. /\ Tame(view, Screen!SetPage(view, "Command")) /\ Tame(view, Screen!SetPage(view, "History"))
        /\ Tame(view, Screen!Lock(view)) /\ Tame(view, Screen!Wake(view))
    BY <1>0, SetPageTame, LockTame, WakeTame DEF Pages, Neat
  <2>7. Tame(view, Screen!ClearDim(view))
    BY <1>0, ClearDimSame, SameTame DEF Neat, ViewSound, ViewFramed
  <2>8. Tame(view, view')
    BY <2>1, <2>5, <2>6, <2>7
  <2> QED BY <1>0, <2>1, <2>8, UnderTame
<1>2. CASE Screen!Capture
  <2> DEFINE on == ~loop.capture
  <2>1. view' = Screen!Suppress(view, on) /\ Screen!Under(view') /\ world' = world
    BY <1>2 DEF Screen!Capture
  <2>2. on \in BOOLEAN
    OBVIOUS
  <2> HIDE DEF on
  <2>3. Tame(view, view')
    BY <1>0, <2>1, <2>2, SuppressTame
  <2> QED BY <1>0, <2>1, <2>3, UnderTame
<1> QED BY <1>1, <1>2

LEMMA OthersHonest ==
  ASSUME ViewInv, ViewInv', GestureInv, Screen!Others
  PROVE  GestureInv' /\ HonestStep
<1>0. /\ ViewTyped /\ ViewSound(view) /\ view \in Views /\ view' \in Views /\ world \in Worlds /\ GestureQuiet(view)
      /\ hand.deeds \in Nat
  BY DEF ViewInv, ViewTyped, ViewSound, ViewFramed, Core, GestureInv, Hands
<1>1. CASE ~Screen!TouchSleeps
  <2>1. view' = view /\ hand' = hand
    BY <1>1 DEF Screen!Others, Screen!Key, Screen!Backend, Screen!Trial
  <2>2. world'.drawn = world.drawn
    BY <1>0, <1>1 DEF Screen!Others, Screen!Key, Screen!Backend, Screen!Trial, Worlds
  <2>3. GestureInv'
    BY <2>1, <2>2 DEF GestureInv
  <2> QED BY <1>0, <2>1, <2>3 DEF HonestStep
<1>2. CASE Screen!TouchSleeps
  <2> DEFINE idle == IF world.asleep THEN view.locked ELSE TRUE
             w == [view EXCEPT !.idle = idle]
  <2>1. /\ view' = w /\ Screen!Under(view') /\ (~world.asleep => view.locked)
        /\ world' = [world EXCEPT !.asleep = ~@]
    BY <1>2 DEF Screen!TouchSleeps, Screen!Eligible
  <2>2. world'.drawn = world.drawn
    BY <1>0, <2>1 DEF Worlds
  <2>3. (idle => view.locked) /\ idle \in BOOLEAN
    BY <1>0, <2>1 DEF Views
  <2> HIDE DEF idle
  <2>4. /\ w.page = view.page /\ w.open = view.open /\ w.detail = view.detail /\ w.locked = view.locked
        /\ w.suppressed = view.suppressed /\ w.fault = view.fault /\ w.turned = view.turned
        /\ w.curtain = view.curtain /\ w.phase = view.phase /\ w.noted = view.noted
        /\ w.tracking = view.tracking /\ w.consumed = view.consumed /\ w.idle = idle
        /\ w.editor = view.editor /\ w.pending = view.pending /\ w.released = view.released
    BY <1>0 DEF Views
  <2> HIDE DEF w
  <2>5. view.locked => view.idle /\ ~view.tracking /\ view.pending = Screen!None
    BY <1>0 DEF ViewSound, ViewFramed, Core, RestSound, SecretSound, GestureQuiet
  <2>6. w.idle # view.idle => view.idle
    BY <1>0, <2>3, <2>4, <2>5 DEF Views
  <2>7. SameSight(view, w)
    BY <2>4 DEF SameSight
  <2>8. Tame(view, w)
    BY <1>0, <2>3, <2>4, <2>5, <2>6, <2>7 DEF Tame, GestureQuiet
  <2> QED BY <1>0, <2>1, <2>2, <2>8, UnderTame
<1> QED BY <1>1, <1>2

LEMMA ServiceDoes ==
  ASSUME NEW v \in Views
  PROVE  LET w == Screen!ServicePending(v)
         IN \/ Neat(v, w) /\ w.editor = v.editor /\ w.pending = Screen!None
            \/ w = v /\ ~Screen!EditorGuards(v) /\ (v.pending # Screen!None => hand.down \/ ~v.released)
            \/ ~hand.down /\ v.pending # Screen!None /\ Mild(v, w) /\ w.pending = Screen!None
<1> DEFINE a == Screen!DropPending(v)
           x == [a EXCEPT !.editor = v.pending]
<1>1. Screen!ServicePending(v) = IF Screen!EditorGuards(v) \/ v.consumed THEN a
                          ELSE IF v.pending # Screen!None /\ v.released /\ ~hand.down THEN x ELSE v
  BY DEF Screen!ServicePending
<1>2. Neat(v, a) /\ a.editor = v.editor /\ a.pending = Screen!None /\ a \in Views
  BY DropPendingTame, DropPendingIs
<1> HIDE DEF a
<1>3. /\ x.pending = a.pending /\ x.tracking = a.tracking /\ x.turned = a.turned /\ x.phase = a.phase /\ x.curtain = a.curtain
      /\ x.noted = a.noted /\ x.idle = a.idle /\ x.locked = a.locked /\ x.suppressed = a.suppressed /\ x.open = a.open
  BY <1>2 DEF Views
<1> HIDE DEF x
<1>4. Mild(a, x)
  BY <1>3 DEF Mild, GestureQuiet
<1>5. Mild(v, x) /\ x.pending = Screen!None
  BY <1>2, <1>3, <1>4, TameMild, MildOn DEF Neat
<1> QED BY <1>1, <1>2, <1>5

(* An update opens the editor that was asked for, and turns the panel.     *)
LEMMA RunHonest ==
  ASSUME ViewInv, ViewInv', GestureInv, NEW seen \in BOOLEAN, NEW other \in BOOLEAN, NEW tilted \in BOOLEAN, NEW expired \in BOOLEAN,
         NEW timeout \in {"none", "result", "idle"}, Screen!Run(seen, other, tilted, expired, timeout)
  PROVE  GestureInv' /\ HonestStep
<1> DEFINE awake == IF loop.event THEN Screen!Wake(view) ELSE view
           copied == Screen!Copied(awake, seen, other)
           fresh == Screen!RefreshOta(copied)
           shown == Screen!Lease(fresh)
           working == Screen!Interacting(shown)
<1>0. /\ ViewTyped /\ ViewSound(view) /\ view \in Views /\ view' \in Views /\ hand \in Hands /\ world \in Worlds
      /\ ota \in Snapshots /\ GestureQuiet(view) /\ hand.down \in BOOLEAN /\ hand.deeds \in Nat
  BY DEF ViewInv, ViewTyped, ViewSound, ViewFramed, Core, GestureInv, Hands
<1>1. PICK o \in Screen!Orient(shown, tilted) :
         LET lit == Screen!RefreshDisplay(o, expired)
             rest == CASE timeout = "result" -> Screen!TerminalReturn(lit, working)
                       [] timeout = "idle" -> Screen!AutoLock(lit, working)
                       [] OTHER -> lit
             done == Screen!ServicePending(rest)
         IN /\ view' = IF loop.toggle THEN Screen!Toggle(done) ELSE done
            /\ hand' = [hand EXCEPT !.down = @ /\ view'.idle = view.idle /\ view'.turned = view.turned,
                                    !.stale = @ \/ Screen!Screen(view') # Screen!Screen(view),
                                    !.deeds = @ + (IF done.editor # rest.editor THEN 1 ELSE 0)]
  BY DEF Screen!Run
<1>2. world' = world
  BY DEF Screen!Run
<1> DEFINE lit == Screen!RefreshDisplay(o, expired)
           rest == CASE timeout = "result" -> Screen!TerminalReturn(lit, working)
                     [] timeout = "idle" -> Screen!AutoLock(lit, working)
                     [] OTHER -> lit
           done == Screen!ServicePending(rest)
           more == IF done.editor # rest.editor THEN 1 ELSE 0
<1>3. /\ view' = IF loop.toggle THEN Screen!Toggle(done) ELSE done
      /\ hand'.down = (hand.down /\ view'.idle = view.idle /\ view'.turned = view.turned)
      /\ hand'.stale = (hand.stale \/ Screen!Screen(view') # Screen!Screen(view))
      /\ hand'.on = hand.on /\ hand'.deeds = hand.deeds + more
  <2>1. /\ view' = IF loop.toggle THEN Screen!Toggle(done) ELSE done
        /\ hand' = [hand EXCEPT !.down = @ /\ view'.idle = view.idle /\ view'.turned = view.turned,
                                !.stale = @ \/ Screen!Screen(view') # Screen!Screen(view),
                                !.deeds = @ + more]
    BY <1>1
  <2> HIDE DEF lit, rest, done, more
  <2>2. hand' = [hand EXCEPT !.down = hand.down /\ view'.idle = view.idle /\ view'.turned = view.turned,
                             !.stale = hand.stale \/ Screen!Screen(view') # Screen!Screen(view),
                             !.deeds = hand.deeds + more]
    BY <1>0, <2>1 DEF Hands
  <2> QED BY <1>0, <2>1, <2>2, HandReads
<1>4. Fares(view, awake) /\ Tame(view, awake)
  BY <1>0, WakeKeeps, FaresStill, WakeTame, SameTame DEF Neat, SameGesture
<1> HIDE DEF awake
<1>5. Fares(view, copied) /\ Tame(view, copied)
  <2>1. Fares(awake, copied) /\ Tame(awake, copied)
    BY <1>0, <1>4, CopiedKeeps, CopiedTame DEF Fares, Neat, ViewSound, ViewFramed, Core
  <2> QED BY <1>4, <2>1, FaresOn, TameOn
<1> HIDE DEF copied
<1>6. Fares(view, fresh) /\ Tame(view, fresh)
  <2>1. GestureQuiet(copied)
    BY <1>0, <1>5 DEF Tame
  <2>2. Fares(copied, fresh) /\ Tame(copied, fresh)
    BY <1>0, <1>5, <2>1, RefreshOtaKeeps, RefreshOtaTame DEF Fares
  <2> QED BY <1>5, <2>2, FaresOn, TameOn
<1> HIDE DEF fresh
<1>7. ViewSound(shown) /\ Tame(view, shown)
  <2>1. ViewSound(shown)
    BY <1>6, LeaseKeeps DEF Fares, ViewSound, ViewFramed
  <2>2. Tame(fresh, shown)
    BY <1>6, LeaseSame, SameTame DEF Fares, ViewSound, ViewFramed, Core, Neat
  <2> QED BY <1>6, <2>1, <2>2, TameOn
<1> HIDE DEF shown
<1>8. ViewSound(o) /\ (Tame(shown, o) \/ Swings(shown, o))
  BY <1>1, <1>7, OrientKeeps, OrientTame DEF Fares
<1>9. ViewSound(lit) /\ Neat(o, lit)
  BY <1>8, RefreshDisplayKeeps, RefreshDisplayTame DEF Fares
<1> HIDE DEF lit, working
<1>10. ViewSound(rest) /\ Neat(o, rest)
  <2>1. /\ ViewSound(Screen!TerminalReturn(lit, working)) /\ Neat(o, Screen!TerminalReturn(lit, working))
        /\ ViewSound(Screen!AutoLock(lit, working)) /\ Neat(o, Screen!AutoLock(lit, working))
    BY <1>9, RestKeeps, RestTame, NeatOn DEF Fares
  <2> QED BY <1>9, <2>1
<1> HIDE DEF rest
<1>11. /\ \/ Neat(rest, done) /\ done.editor = rest.editor /\ done.pending = Screen!None
          \/ done = rest /\ ~Screen!EditorGuards(rest) /\ (rest.pending # Screen!None => hand.down \/ ~rest.released)
          \/ ~hand.down /\ rest.pending # Screen!None /\ Mild(rest, done) /\ done.pending = Screen!None
       /\ ViewSound(done)
  BY <1>10, ServiceDoes, ServicePendingKeeps DEF Fares, ViewSound, ViewFramed, Core
<1> HIDE DEF done
<1>12. Tame(rest, rest) /\ Tame(done, done)
  BY SameTame DEF Neat, SameGesture
<1>13. GestureQuiet(o)
  <2>1. GestureQuiet(shown)
    BY <1>0, <1>7 DEF Tame
  <2> QED BY <1>8, <2>1 DEF Tame, Swings
<1>14. GestureQuiet(done) /\ Mild(rest, done)
  <2>1. GestureQuiet(rest)
    BY <1>10, <1>13 DEF Neat, Tame
  <2>2. Mild(rest, done)
    BY <1>11, <1>12, TameMild DEF Neat
  <2> QED BY <2>1, <2>2 DEF Mild
<1>15. Tame(done, view')
  BY <1>0, <1>3, <1>11, <1>12, <1>14, ToggleTame DEF Neat
<1>16. more \in {0, 1} /\ (more = 1 => done.editor # rest.editor)
  OBVIOUS
<1> HIDE DEF more
<1>17. Tame(o, rest)
  BY <1>10 DEF Neat
<1>18. CASE hand.down
  <2>1. Tame(shown, o)
    BY <1>8, <1>18 DEF Swings
  <2>2. Tame(rest, done) /\ done.editor = rest.editor
    BY <1>11, <1>12, <1>18 DEF Neat
  <2>3. Tame(view, rest)
    BY <1>7, <1>17, <2>1, TameOn
  <2>4. Tame(view, view')
    BY <1>15, <2>2, <2>3, TameOn
  <2>5. hand'.deeds = hand.deeds
    BY <1>0, <1>3, <1>16, <2>2
  <2> QED BY <1>0, <1>2, <1>3, <2>4, <2>5, FieldsTame
<1>19. CASE ~hand.down
  <2>1. ~hand'.down
    BY <1>3, <1>19
  <2>2. Mild(o, view')
    BY <1>14, <1>15, <1>17, TameMild, MildOn
  <2>3. o.pending \in {view.pending, Screen!None} /\ (o.tracking => view.tracking)
    BY <1>7, <1>8 DEF Tame, Swings
  <2>4. ~view'.tracking /\ GestureQuiet(view')
    BY <1>13, <1>19, <2>2, <2>3 DEF Mild, GestureInv
  <2>5. view'.pending = Screen!None
    <3> SUFFICES ASSUME view'.pending # Screen!None PROVE FALSE
      OBVIOUS
    <3>1. done.pending # Screen!None
      BY <1>15 DEF Tame
    <3>2. done = rest /\ ~Screen!EditorGuards(rest) /\ ~rest.released /\ rest.pending # Screen!None
      BY <1>11, <1>19, <3>1
    <3>3. rest.phase = "Idle"
      BY <3>2 DEF Screen!EditorGuards, Screen!Blocked
    <3>4. o.phase = "Idle"
      BY <1>10, <3>2, <3>3 DEF Neat
    <3>5. Tame(shown, o)
      BY <1>8, <3>4 DEF Swings
    <3>6. Tame(view, rest)
      BY <1>7, <1>17, <3>5, TameOn
    <3>7. view.pending # Screen!None /\ ~view.released
      BY <3>2, <3>6 DEF Tame
    <3> QED BY <1>19, <3>7 DEF GestureInv
  <2>6. view'.phase = "WaitBlack" => view'.curtain = "black" /\ (view'.noted => world'.drawn = "black")
    <3> SUFFICES ASSUME view'.phase = "WaitBlack"
                 PROVE  view'.curtain = "black" /\ (view'.noted => world.drawn = "black")
      BY <1>2
    <3>1. o.phase = "WaitBlack" /\ view'.curtain = o.curtain /\ view'.noted = o.noted
      BY <2>2 DEF Mild
    <3>2. Mild(view, o)
      BY <1>7, <1>8, <3>1, TameMild, MildOn DEF Swings
    <3>3. view.phase = "WaitBlack" /\ view'.curtain = view.curtain /\ view'.noted = view.noted
      BY <3>1, <3>2 DEF Mild
    <3> QED BY <3>3 DEF GestureInv
  <2>7. GestureInv'
    BY <2>1, <2>4, <2>5, <2>6 DEF GestureInv
  <2>8. hand'.deeds > hand.deeds => ~hand.stale /\ hand'.deeds <= 1
    <3> SUFFICES ASSUME more = 1 PROVE ~hand.stale /\ hand.deeds = 0
      BY <1>0, <1>3, <1>16
    <3>1. rest.pending # Screen!None
      BY <1>11, <1>16
    <3>2. view.pending # Screen!None
      BY <1>17, <2>3, <3>1 DEF Tame
    <3> QED BY <3>2 DEF GestureInv
  <2>9. view'.turned # view.turned => world.drawn = "black"
    <3> SUFFICES ASSUME view'.turned # view.turned PROVE world.drawn = "black"
      OBVIOUS
    <3>1. o.turned # shown.turned
      BY <1>7, <2>2 DEF Mild, Tame
    <3>2. shown.phase = "WaitBlack" /\ shown.noted
      BY <1>8, <3>1 DEF Tame, Swings
    <3>3. Mild(view, shown)
      BY <1>7, TameMild
    <3> QED BY <3>2, <3>3 DEF Mild, GestureInv
  <2> QED BY <1>19, <2>7, <2>8, <2>9 DEF HonestStep
<1> QED BY <1>0, <1>18, <1>19

LEMMA GestureStarts ==
  ASSUME Screen!Init
  PROVE  GestureInv
BY DEF Screen!Init, GestureInv, GestureQuiet

LEMMA GestureSteps ==
  ASSUME ViewInv, ViewInv', GestureInv, Screen!Next
  PROVE  GestureInv' /\ HonestStep
<1>1. CASE Screen!Lvgl
  BY <1>1, PressHonest, DragHonest, ReleaseHonest, LoseHonest, FrameHonest, EndsHonest DEF Screen!Lvgl, Screen!Hand
<1>2. CASE Screen!Main
  BY <1>2, PollHonest, RunHonest, CommandHonest DEF Screen!Main
<1>3. CASE Screen!Others
  BY <1>3, OthersHonest
<1> QED BY <1>1, <1>2, <1>3 DEF Screen!Next

LEMMA GestureIdles ==
  ASSUME GestureInv, UNCHANGED Screen!vars
  PROVE  GestureInv'
<1>1. UNCHANGED <<view, world, hand>>
  BY DEF Screen!vars
<1> QED BY <1>1 DEF GestureInv

(* A contact does at most one thing, and only to the screen it was put     *)
(* down on; and the panel is turned only behind a frame that was drawn     *)
(* black, with no finger on it: for any number of touches, keys, ends of   *)
(* animations, commands and news of the updater, in any order (touchEvent, *)
(* the click callbacks, serviceWifiEditorPending and updateOrientation of  *)
(* view_mosaico.cpp).                                                      *)
THEOREM GesturesStayHonest == StandbySpec => GesturesAreHonest
<1> DEFINE Both == ViewInv /\ GestureInv
<1>1. StandbyInit => Both
  BY ViewStarts, GestureStarts DEF StandbyInit
<1>2. Both /\ [StandbyNext]_<<part, vars, viewVars>> => Both' /\ [HonestStep]_(Screen!vars)
  <2> SUFFICES ASSUME ViewInv, GestureInv, [StandbyNext]_<<part, vars, viewVars>>
               PROVE  Both' /\ [HonestStep]_(Screen!vars)
    OBVIOUS
  <2>1. CASE Screen!Next
    BY <2>1, ViewSteps, GestureSteps
  <2>2. CASE UNCHANGED viewVars
    <3>1. UNCHANGED Screen!vars
      BY <2>2 DEF viewVars, Screen!vars
    <3> QED BY <3>1, ViewIdles, GestureIdles
  <2> QED BY <2>1, <2>2 DEF StandbyNext
<1>3. [HonestStep]_(Screen!vars) =>
        [/\ hand'.deeds > hand.deeds => ~hand.stale /\ hand'.deeds <= 1
         /\ view'.turned # view.turned => world.drawn = "black" /\ ~hand.down]_(Screen!vars)
  BY DEF HonestStep
<1> QED BY <1>1, <1>2, <1>3, PTL DEF StandbySpec, GesturesAreHonest, Screen!GesturesAreHonest
=============================================================================

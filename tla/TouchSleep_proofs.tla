-------------------------- MODULE TouchSleep_proofs --------------------------
(* Proofs about the touch trial and its fence, for every set of tasks, and *)
(* about the gauge's journals in NVS, for every behaviour of their part.   *)
EXTENDS MCTouchSleep, TLAPS

LEMMA ToType ==
  ASSUME NEW m \in Models, NEW p \in Phases
  PROVE  /\ To(m, p) \in Models
         /\ To(m, p).phase = p
         /\ To(m, p).flags = m.flags \ {"due"}
  BY DEF To, Models

LEMMA FlagsType ==
  ASSUME NEW m \in Models, NEW F \in SUBSET Flags
  PROVE  /\ [m EXCEPT !.flags = F] \in Models
         /\ [m EXCEPT !.flags = F].phase = m.phase
         /\ [m EXCEPT !.flags = F].flags = F
  BY DEF Models

-----------------------------------------------------------------------------
(* The functions of struct Model keep what is known of the controller.     *)
LEMMA RestoreKeeps ==
  ASSUME NEW m \in Models, NEW c, Known(m, c)
  PROVE  RestoreModel(m) \in Models /\ Known(RestoreModel(m), c)
<1>1. To(m, "Complete") \in Models /\ To(m, "Complete").phase = "Complete"
      /\ To(m, "Complete").flags = m.flags \ {"due"}
  BY ToType DEF Phases
<1>2. To(m, "Handshake1") \in Models /\ To(m, "Handshake1").phase = "Handshake1"
      /\ To(m, "Handshake1").flags = m.flags \ {"due"}
  BY ToType DEF Phases
<1> DEFINE F == (To(m, "Handshake1").flags \ {"restoreDue"}) \cup {"restoring"}
<1>3. F \in SUBSET Flags
  BY <1>2 DEF Models, Flags
<1>4. /\ [To(m, "Handshake1") EXCEPT !.flags = F] \in Models
      /\ [To(m, "Handshake1") EXCEPT !.flags = F].phase = "Handshake1"
      /\ [To(m, "Handshake1") EXCEPT !.flags = F].flags = F
  BY <1>2, <1>3, FlagsType
<1>5. CASE ~Critical(m) \/ "restoring" \in m.flags
  BY <1>5 DEF RestoreModel
<1>6. CASE ~(~Critical(m) \/ "restoring" \in m.flags) /\ "dirty" \notin m.flags
  BY <1>1, <1>6 DEF RestoreModel, Known, Critical
<1>7. CASE ~(~Critical(m) \/ "restoring" \in m.flags) /\ "dirty" \in m.flags
  <2>1. RestoreModel(m) = [To(m, "Handshake1") EXCEPT !.flags = F]
    BY <1>7 DEF RestoreModel
  <2>2. Known([To(m, "Handshake1") EXCEPT !.flags = F], c)
    BY <1>2, <1>4, <1>7 DEF Known, Critical
  <2> QED BY <2>1, <2>2, <1>4
<1> QED BY <1>5, <1>6, <1>7

LEMMA FailKeeps ==
  ASSUME NEW m \in Models, NEW c, Known(m, c), Critical(m)
  PROVE  FailModel(m) \in Models /\ Known(FailModel(m), c)
<1> DEFINE failed == [m EXCEPT !.flags = @ \cup {"failed"}]
<1>1. failed \in Models /\ failed.phase = m.phase /\ failed.flags = m.flags \cup {"failed"}
  BY DEF Models, Flags
<1>2. Known(failed, c)
  BY <1>1 DEF Known, Critical
<1>3. CASE "restoring" \in m.flags
  <2>1. To(failed, "RebootPending") \in Models
        /\ To(failed, "RebootPending").phase = "RebootPending"
        /\ To(failed, "RebootPending").flags = failed.flags \ {"due"}
    BY <1>1, ToType DEF Phases
  <2>2. FailModel(m) = To(failed, "RebootPending")
    BY <1>3 DEF FailModel
  <2>3. Known(To(failed, "RebootPending"), c)
    BY <2>1, <1>1, <1>3 DEF Known, Critical
  <2> QED BY <2>1, <2>2, <2>3
<1>4. CASE "restoring" \notin m.flags /\ "dirty" \in m.flags
  <2>1. FailModel(m) = RestoreModel(failed)
    BY <1>4 DEF FailModel
  <2> QED BY <2>1, <1>1, <1>2, RestoreKeeps
<1>5. CASE "restoring" \notin m.flags /\ "dirty" \notin m.flags
  <2>1. To(failed, "FailedRestored") \in Models
        /\ To(failed, "FailedRestored").phase = "FailedRestored"
        /\ To(failed, "FailedRestored").flags = failed.flags \ {"due"}
    BY <1>1, ToType DEF Phases
  <2>2. FailModel(m) = To(failed, "FailedRestored")
    BY <1>5 DEF FailModel
  <2>3. Known(To(failed, "FailedRestored"), c)
    BY <2>1, <1>1, <1>5 DEF Known, Critical
  <2> QED BY <2>1, <2>2, <2>3
<1> QED BY <1>3, <1>4, <1>5

LEMMA GiveUpKeeps ==
  ASSUME NEW m \in Models, NEW c, Known(m, c), Late(m)
  PROVE  GiveUp(m) \in Models /\ Known(GiveUp(m), c)
<1>1. CASE m.phase = "VerifyRelease" /\ {"normalVerified", "normalReportValid"} \subseteq m.flags
  <2>1. To(m, "HeldClosed") \in Models /\ To(m, "HeldClosed").phase = "HeldClosed"
        /\ To(m, "HeldClosed").flags = m.flags \ {"due"}
    BY ToType DEF Phases
  <2>2. Known(To(m, "HeldClosed"), c)
    BY <1>1, <2>1 DEF Known, Critical, Late
  <2> QED BY <1>1, <2>1, <2>2 DEF GiveUp
<1>2. CASE ~(m.phase = "VerifyRelease" /\ {"normalVerified", "normalReportValid"} \subseteq m.flags)
  BY <1>2, FailKeeps DEF GiveUp, Late
<1> QED BY <1>1, <1>2

(* A tick never makes a trial out of none.                                 *)
LEMMA TickCritical ==
  ASSUME NEW m \in Models, NEW wanted \in BOOLEAN, Critical(Tick(m, wanted))
  PROVE  Critical(m)
<1> SUFFICES ASSUME ~Critical(m) PROVE ~Critical(Tick(m, wanted))
  OBVIOUS
<1>1. RestoreModel(m) = m
  BY DEF RestoreModel
<1>2. ~Late(m) /\ m.phase # "Settle"
  BY DEF Late, Critical
<1>3. Tick(m, wanted) = m
  BY <1>1, <1>2 DEF Tick
<1> QED BY <1>3

LEMMA TickKeeps ==
  ASSUME NEW m \in Models, NEW c, Known(m, c), NEW wanted \in BOOLEAN
  PROVE  Tick(m, wanted) \in Models /\ Known(Tick(m, wanted), c)
<1> DEFINE asked  == IF wanted \/ (m.phase = "SleepRequested" /\ "due" \in m.flags)
                     THEN RestoreModel(m) ELSE m
           intime == IF Late(asked) THEN GiveUp(asked) ELSE asked
<1>1. asked \in Models /\ Known(asked, c)
  BY RestoreKeeps
<1>2. intime \in Models /\ Known(intime, c)
  <2> HIDE DEF asked
  <2> QED BY <1>1, GiveUpKeeps
<1>3. /\ To(intime, "VerifyRelease") \in Models
      /\ To(intime, "VerifyRelease").phase = "VerifyRelease"
      /\ To(intime, "VerifyRelease").flags = intime.flags \ {"due"}
      /\ To(intime, "SleepWrite") \in Models
      /\ To(intime, "SleepWrite").phase = "SleepWrite"
      /\ To(intime, "SleepWrite").flags = intime.flags \ {"due"}
  <2> HIDE DEF intime
  <2> QED BY <1>2, ToType DEF Phases
<1>4. Tick(m, wanted) = IF intime.phase = "Settle" /\ "due" \in intime.flags
                        THEN To(intime, IF "restoring" \in intime.flags THEN "VerifyRelease"
                                                                         ELSE "SleepWrite")
                        ELSE intime
  BY DEF Tick
<1> HIDE DEF intime, asked
<1>5. CASE intime.phase = "Settle" /\ "due" \in intime.flags /\ "restoring" \in intime.flags
  <2>1. Known(To(intime, "VerifyRelease"), c)
    BY <1>2, <1>3, <1>5 DEF Known, Critical
  <2> QED BY <1>3, <1>4, <1>5, <2>1
<1>6. CASE intime.phase = "Settle" /\ "due" \in intime.flags /\ "restoring" \notin intime.flags
  <2>1. Known(To(intime, "SleepWrite"), c)
    BY <1>2, <1>3, <1>6 DEF Known, Critical
  <2> QED BY <1>3, <1>4, <1>6, <2>1
<1>7. CASE ~(intime.phase = "Settle" /\ "due" \in intime.flags)
  BY <1>2, <1>4, <1>7
<1> QED BY <1>5, <1>6, <1>7

(* An I2C action returns: c2 is the mode it leaves the controller in.      *)
LEMMA CompleteOkKeeps ==
  ASSUME NEW m \in Models, NEW c, NEW c2, Known(m, c), m.phase \in I2cPhases,
         NEW echo \in BOOLEAN, NEW released \in BOOLEAN,
         m.phase \in Commands => "dirty" \in m.flags,
         m.phase \notin {"ModeWrite", "SleepWrite"} => c2 = c,
         echo /\ m.phase = "ModeEcho" /\ "restoring" \in m.flags => c = "normal"
  PROVE  CompleteOk(m, echo, released) \in Models /\ Known(CompleteOk(m, echo, released), c2)
<1>1. Critical(m) /\ "consumed" \in m.flags
  BY DEF Known, Critical, I2cPhases, Commands
<1>2. Known(m, c2)
  BY <1>1 DEF Known, Commands
<1>3. ASSUME NEW p \in {"Handshake1", "Handshake2", "HandshakeEcho", "ModeWrite", "ModeEcho"},
             m.phase \notin {"VerifyRelease"}
      PROVE  To(m, p) \in Models /\ Known(To(m, p), c2)
  <2>1. To(m, p) \in Models /\ To(m, p).phase = p /\ To(m, p).flags = m.flags \ {"due"}
    BY ToType DEF Phases
  <2> QED BY <2>1, <1>1, <1>2 DEF Known, Critical
<1>4. CASE m.phase = "Probe"
  <2>1. CompleteOk(m, echo, released) = To(m, "Handshake1")
    BY <1>4 DEF CompleteOk
  <2> QED BY <2>1, <1>3, <1>4
<1>5. CASE m.phase = "Handshake1"
  <2>1. CompleteOk(m, echo, released) = To(m, "Handshake2")
    BY <1>5 DEF CompleteOk
  <2> QED BY <2>1, <1>3, <1>5
<1>6. CASE m.phase = "Handshake2"
  <2>1. CompleteOk(m, echo, released) = To(m, "HandshakeEcho")
    BY <1>6 DEF CompleteOk
  <2> QED BY <2>1, <1>3, <1>6
<1>7. CASE m.phase = "HandshakeEcho"
  <2>1. CompleteOk(m, echo, released) = IF echo THEN To(m, "ModeWrite") ELSE FailModel(m)
    BY <1>7 DEF CompleteOk
  <2> QED BY <2>1, <1>1, <1>2, <1>3, <1>7, FailKeeps
<1>8. CASE m.phase = "ModeWrite"
  <2>1. CompleteOk(m, echo, released) = To(m, "ModeEcho")
    BY <1>8 DEF CompleteOk
  <2> QED BY <2>1, <1>3, <1>8
<1>9. CASE m.phase = "ModeEcho"
  <2> DEFINE F == IF "restoring" \in m.flags THEN To(m, "Settle").flags \cup {"normalVerified"}
                                              ELSE To(m, "Settle").flags \ {"normalVerified"}
  <2>1. CASE ~echo
    <3>1. CompleteOk(m, echo, released) = FailModel(m)
      BY <1>9, <2>1 DEF CompleteOk
    <3> QED BY <3>1, <1>1, <1>2, FailKeeps
  <2>2. CASE echo
    <3>1. /\ To(m, "Settle") \in Models /\ To(m, "Settle").phase = "Settle"
          /\ To(m, "Settle").flags = m.flags \ {"due"}
      BY ToType DEF Phases
    <3>2. F \in SUBSET Flags
      BY <3>1 DEF Models, Flags
    <3>3. /\ [To(m, "Settle") EXCEPT !.flags = F] \in Models
          /\ [To(m, "Settle") EXCEPT !.flags = F].phase = "Settle"
          /\ [To(m, "Settle") EXCEPT !.flags = F].flags = F
      BY <3>1, <3>2, FlagsType
    <3>4. CompleteOk(m, echo, released) = [To(m, "Settle") EXCEPT !.flags = F]
      BY <1>9, <2>2 DEF CompleteOk
    <3>5. Known([To(m, "Settle") EXCEPT !.flags = F], c2)
      BY <1>1, <1>2, <1>9, <2>2, <3>1, <3>3 DEF Known, Critical
    <3> QED BY <3>3, <3>4, <3>5
  <2> QED BY <2>1, <2>2
<1>10. CASE m.phase = "SleepWrite"
  <2>1. CompleteOk(m, echo, released) = To(m, "SleepRequested")
    BY <1>10 DEF CompleteOk
  <2>2. /\ To(m, "SleepRequested") \in Models /\ To(m, "SleepRequested").phase = "SleepRequested"
        /\ To(m, "SleepRequested").flags = m.flags \ {"due"}
    BY ToType DEF Phases
  <2>3. Known(To(m, "SleepRequested"), c2)
    BY <2>2, <1>1, <1>2, <1>10 DEF Known, Critical, Commands
  <2> QED BY <2>1, <2>2, <2>3
<1>11. CASE m.phase = "VerifyRelease"
  <2> DEFINE told == [m EXCEPT !.flags = @ \cup {"normalReportValid"}]
             next == IF "failed" \in m.flags THEN "FailedRestored" ELSE "Complete"
  <2>1. told \in Models /\ told.phase = m.phase /\ told.flags = m.flags \cup {"normalReportValid"}
    BY DEF Models, Flags
  <2>2. Known(told, c2)
    BY <2>1, <1>1, <1>2 DEF Known, Critical
  <2>3. CompleteOk(m, echo, released) = IF ~released THEN told ELSE To(told, next)
    BY <1>11 DEF CompleteOk
  <2>4. To(told, next) \in Models /\ To(told, next).phase = next
        /\ To(told, next).flags = told.flags \ {"due"}
    BY <2>1, ToType DEF Phases
  <2>5. Known(To(told, next), c2)
    BY <2>1, <2>4, <1>1, <1>2, <1>11 DEF Known, Critical
  <2> HIDE DEF told, next
  <2> QED BY <2>1, <2>2, <2>3, <2>4, <2>5
<1> QED BY <1>4, <1>5, <1>6, <1>7, <1>8, <1>9, <1>10, <1>11 DEF I2cPhases, Commands

LEMMA CompleteKeeps ==
  ASSUME NEW m \in Models, NEW c, NEW c2, Known(m, c), m.phase \in I2cPhases,
         NEW ok \in BOOLEAN, NEW echo \in BOOLEAN, NEW released \in BOOLEAN,
         m.phase \in Commands => "dirty" \in m.flags,
         m.phase \notin {"ModeWrite", "SleepWrite"} => c2 = c,
         echo /\ m.phase = "ModeEcho" /\ "restoring" \in m.flags => c = "normal"
  PROVE  CompleteModel(m, ok, echo, released) \in Models
         /\ Known(CompleteModel(m, ok, echo, released), c2)
<1>1. Critical(m) /\ Known(m, c2)
  BY DEF Known, Critical, I2cPhases, Commands
<1>2. CASE ~ok
  BY <1>1, <1>2, FailKeeps DEF CompleteModel
<1>3. CASE ok /\ Late(m)
  BY <1>1, <1>3, GiveUpKeeps DEF CompleteModel
<1>4. CASE ok /\ ~Late(m)
  <2>1. CompleteModel(m, ok, echo, released) = CompleteOk(m, echo, released)
    BY <1>4 DEF CompleteModel
  <2>2. CompleteOk(m, echo, released) \in Models /\ Known(CompleteOk(m, echo, released), c2)
    BY CompleteOkKeeps
  <2> QED BY <2>1, <2>2
<1> QED BY <1>2, <1>3, <1>4

-----------------------------------------------------------------------------
LEMMA InitTrial == Init => TrialInv
<1> SUFFICES ASSUME Init PROVE TrialInv
  OBVIOUS
<1>1. model.phase = "Off" /\ model.flags = {} /\ model \in Models
  BY DEF Init, Models, Phases, Flags
<1>2. nesting \in [Tasks -> 0 .. MaxNesting] /\ ~InFlight
  BY TouchSleepAssumption DEF Init, InFlight
<1>3. TypeOK
  BY <1>1, <1>2 DEF Init, TypeOK
<1>4. FenceInv
  BY <1>1 DEF Init, FenceInv, TrialExcludesOta, Critical
<1>5. ControllerInv
  BY <1>1 DEF Init, ControllerInv, Known, Critical
<1> QED BY <1>3, <1>4, <1>5 DEF TrialInv

LEMMA NextTrial == TrialInv /\ [Next]_vars => TrialInv'
<1> SUFFICES ASSUME TrialInv, [Next]_vars PROVE TrialInv'
  OBVIOUS
<1> USE DEF TrialInv
<1>1. CASE RequestCheck
  <2>1. TypeOK'
    BY <1>1 DEF RequestCheck, TypeOK, ota
  <2>2. FenceInv'
    BY <1>1 DEF RequestCheck, FenceInv, TrialExcludesOta, InFlight, Busy, Critical, ota
  <2>3. ControllerInv'
    BY <1>1 DEF RequestCheck, ControllerInv, Known, Critical
  <2> QED BY <2>1, <2>2, <2>3
<1>2. CASE Reserve
  <2> DEFINE probe == [To(model, "Probe") EXCEPT !.flags = @ \cup {"consumed"}]
  <2>1. CASE "consumed" \in model.flags \/ Busy \/ reserved \/ InFlight
    <3>1. UNCHANGED <<model, reserved, needRestore, ota, controller>> /\ pc' = "service"
          /\ pc = "reserve"
      BY <1>2, <2>1 DEF Reserve
    <3>2. TypeOK'
      BY <3>1 DEF TypeOK, ota
    <3>3. FenceInv'
      BY <3>1 DEF FenceInv, TrialExcludesOta, InFlight, Busy, Critical, ota
    <3>4. ControllerInv'
      BY <3>1 DEF ControllerInv, Known, Critical
    <3> QED BY <3>2, <3>3, <3>4
  <2>2. CASE ~("consumed" \in model.flags \/ Busy \/ reserved \/ InFlight)
    <3>1. /\ pc = "reserve" /\ pc' = "service" /\ reserved' = TRUE /\ needRestore' = FALSE
          /\ model' = probe /\ UNCHANGED <<ota, controller>>
      BY <1>2, <2>2 DEF Reserve
    <3>2. /\ To(model, "Probe") \in Models /\ To(model, "Probe").phase = "Probe"
          /\ To(model, "Probe").flags = model.flags \ {"due"}
      BY ToType DEF TypeOK, Phases
    <3>3. probe \in Models /\ probe.phase = "Probe"
          /\ probe.flags = (model.flags \ {"due"}) \cup {"consumed"}
      BY <3>2 DEF Models, Flags
    <3>4. TypeOK'
      BY <3>1, <3>3 DEF TypeOK, ota
    <3>5. FenceInv'
      BY <3>1, <2>2 DEF FenceInv, TrialExcludesOta, InFlight, Busy, Critical, ota
    <3>6. Known(model, controller) /\ "consumed" \notin model.flags
      BY <2>2 DEF ControllerInv
    <3>7. Known(probe, controller)
      BY <3>3, <3>6 DEF Known, Critical
    <3>8. ControllerInv'
      BY <3>1, <3>7 DEF ControllerInv
    <3> QED BY <3>4, <3>5, <3>8
  <2> QED BY <2>1, <2>2
<1>3. ASSUME NEW locked \in BOOLEAN, Service(locked) PROVE TrialInv'
  <2> DEFINE wanted == needRestore \/ ~locked \/ Busy
             m == Tick(model, wanted)
             quiet == ~Critical(m) \/ m.phase \in {"SleepRequested", "Settle", "RebootPending"}
  <2>1. wanted \in BOOLEAN
    BY DEF TypeOK, Busy
  <2>2. m \in Models /\ Known(m, controller)
    BY <2>1, TickKeeps DEF TypeOK, ControllerInv
  <2>3. CASE Restart
    <3>1. model'.phase = "Off" /\ model'.flags = {} /\ model' \in Models
      BY <2>3 DEF Restart, Models, Phases, Flags
    <3>2. nesting' \in [Tasks -> 0 .. MaxNesting] /\ ~InFlight'
      BY <2>3, TouchSleepAssumption DEF Restart, InFlight
    <3>3. TypeOK'
      BY <2>3, <3>1, <3>2 DEF Restart, TypeOK
    <3>4. FenceInv'
      BY <2>3, <3>1 DEF Restart, FenceInv, TrialExcludesOta, Critical
    <3>5. ControllerInv'
      BY <2>3, <3>1 DEF Restart, ControllerInv, Known, Critical
    <3> QED BY <3>3, <3>4, <3>5
  <2>4. CASE /\ needRestore' = FALSE
             /\ reserved' = (reserved /\ Critical(m))
             /\ quiet /\ model' = m /\ pc' = "loop"
             /\ UNCHANGED <<ota, controller>>
    <3>1. reserved' \in BOOLEAN
      BY <2>4 DEF TypeOK, Critical
    <3>2. TypeOK'
      BY <2>2, <2>4, <3>1 DEF TypeOK, ota
    <3>3. FenceInv'
      <4>1. Critical(m) => Critical(model)
        BY <2>1, TickCritical DEF TypeOK
      <4> HIDE DEF m
      <4> QED BY <2>4, <4>1 DEF FenceInv, TrialExcludesOta, InFlight, Busy, ota
    <3>4. ControllerInv'
      BY <2>2, <2>4 DEF ControllerInv
    <3> QED BY <3>2, <3>3, <3>4
  <2>5. CASE /\ needRestore' = FALSE
             /\ reserved' = (reserved /\ Critical(m))
             /\ ~quiet /\ pc' = "i2c"
             /\ model' = IF m.phase \in Commands
                         THEN [m EXCEPT !.flags = @ \cup {"dirty"}] ELSE m
             /\ UNCHANGED <<ota, controller>>
    <3> DEFINE written == [m EXCEPT !.flags = @ \cup {"dirty"}]
    <3>1. written \in Models /\ written.phase = m.phase /\ written.flags = m.flags \cup {"dirty"}
      <4> HIDE DEF m
      <4> QED BY <2>2 DEF Models, Flags
    <3>2. model' \in Models /\ model'.phase = m.phase
      <4> HIDE DEF m
      <4> QED BY <2>2, <2>5, <3>1
    <3>3. Known(written, controller)
      <4> HIDE DEF m
      <4> QED BY <2>2, <2>5, <3>1 DEF Known, Critical
    <3>4. Known(model', controller)
      <4> HIDE DEF m
      <4> QED BY <2>2, <2>5, <3>3
    <3>5. TypeOK'
      <4>1. reserved' \in BOOLEAN
        BY <2>5 DEF TypeOK, Critical
      <4> HIDE DEF m
      <4> QED BY <2>5, <3>2, <4>1 DEF TypeOK, ota
    <3>6. FenceInv'
      <4>1. Critical(m) => Critical(model)
        BY <2>1, TickCritical DEF TypeOK
      <4> HIDE DEF m
      <4>2. Critical(model') = Critical(m)
        BY <3>2 DEF Critical
      <4> QED BY <2>5, <4>1, <4>2 DEF FenceInv, TrialExcludesOta, InFlight, Busy, ota
    <3>7. m.phase \in I2cPhases
      <4> HIDE DEF m
      <4> QED BY <2>2, <2>5 DEF Models, Phases, Critical, I2cPhases, Commands
    <3>8. m.phase \in Commands => "dirty" \in model'.flags
      <4> HIDE DEF m
      <4> QED BY <2>5, <3>1
    <3>9. ControllerInv'
      <4> HIDE DEF m
      <4> QED BY <2>5, <3>2, <3>4, <3>7, <3>8 DEF ControllerInv
    <3> QED BY <3>5, <3>6, <3>9
  <2> HIDE DEF m
  <2>6. \/ Restart
        \/ /\ needRestore' = FALSE
           /\ reserved' = (reserved /\ Critical(m))
           /\ quiet /\ model' = m /\ pc' = "loop"
           /\ UNCHANGED <<ota, controller>>
        \/ /\ needRestore' = FALSE
           /\ reserved' = (reserved /\ Critical(m))
           /\ ~quiet /\ pc' = "i2c"
           /\ model' = IF m.phase \in Commands
                       THEN [m EXCEPT !.flags = @ \cup {"dirty"}] ELSE m
           /\ UNCHANGED <<ota, controller>>
    BY <1>3 DEF Service, m
  <2> QED BY <2>3, <2>4, <2>5, <2>6
<1>4. ASSUME NEW ok \in BOOLEAN, NEW echo \in BOOLEAN, NEW released \in BOOLEAN,
             Complete(ok, echo, released)
      PROVE  TrialInv'
  <2>1. /\ pc = "i2c" /\ pc' = "loop"
        /\ controller' \in {controller, Commanded(model)}
        /\ model' = CompleteModel(model, ok, echo, released)
        /\ UNCHANGED <<reserved, needRestore, ota>>
    BY <1>4 DEF Complete
  <2>2. /\ model \in Models /\ Known(model, controller) /\ model.phase \in I2cPhases
        /\ model.phase \in Commands => "dirty" \in model.flags
    BY <2>1 DEF TypeOK, ControllerInv
  <2>3. model.phase \notin {"ModeWrite", "SleepWrite"} => controller' = controller
    BY <2>1 DEF Commanded
  <2>4. echo /\ model.phase = "ModeEcho" /\ "restoring" \in model.flags => controller = "normal"
    BY <1>4 DEF Complete
  <2>5. model' \in Models /\ Known(model', controller')
    BY <2>1, <2>2, <2>3, <2>4, CompleteKeeps
  <2>6. controller' \in {"normal", "trial", "asleep"}
    BY <2>1 DEF Commanded, TypeOK
  <2>7. TypeOK'
    BY <2>1, <2>5, <2>6 DEF TypeOK, ota
  <2>8. Critical(model)
    BY <2>2 DEF Critical, I2cPhases, Commands
  <2>9. FenceInv'
    BY <2>1, <2>8 DEF FenceInv, TrialExcludesOta, InFlight, Busy, ota
  <2>10. ControllerInv'
    BY <2>1, <2>5 DEF ControllerInv
  <2> QED BY <2>7, <2>9, <2>10
<1>5. CASE WantRestore
  <2>1. TypeOK'
    BY <1>5 DEF WantRestore, TypeOK, ota
  <2>2. FenceInv'
    BY <1>5 DEF WantRestore, FenceInv, TrialExcludesOta, InFlight, Busy, Critical, ota
  <2>3. ControllerInv'
    BY <1>5 DEF WantRestore, ControllerInv, Known, Critical
  <2> QED BY <2>1, <2>2, <2>3
<1>6. CASE Elapse
  <2>1. PICK timer \in {"due", "restoreDue"} :
          /\ Critical(model)
          /\ model' = [model EXCEPT !.flags = @ \cup {timer}]
    BY <1>6 DEF Elapse
  <2>2. model' \in Models /\ model'.phase = model.phase /\ model'.flags = model.flags \cup {timer}
    BY <2>1 DEF TypeOK, Models, Flags
  <2>3. UNCHANGED <<pc, reserved, needRestore, ota, controller>>
    BY <1>6 DEF Elapse
  <2>4. TypeOK'
    BY <2>2, <2>3 DEF TypeOK, ota
  <2>5. FenceInv'
    BY <2>2, <2>3 DEF FenceInv, TrialExcludesOta, InFlight, Busy, Critical, ota
  <2>6. ControllerInv'
    BY <2>2, <2>3 DEF ControllerInv, Known, Critical
  <2> QED BY <2>4, <2>5, <2>6
<1>7. ASSUME NEW t \in Tasks, EnterOta(t) \/ LeaveOta(t) \/ OtaWork(t)
      PROVE  TrialInv'
  <2>1. UNCHANGED <<model, pc, reserved, health, controller>> /\ needRestore' \in BOOLEAN
    BY <1>7 DEF EnterOta, LeaveOta, OtaWork, TypeOK
  <2>2. nesting' \in [Tasks -> 0 .. MaxNesting] /\ working' \in BOOLEAN /\ staged' \in BOOLEAN
    BY <1>7, TouchSleepAssumption DEF EnterOta, LeaveOta, OtaWork, TypeOK
  <2>3. TypeOK'
    BY <2>1, <2>2 DEF TypeOK
  <2>4. TrialExcludesOta'
    <3>1. CASE EnterOta(t)
      BY <1>7, <2>1, <3>1 DEF EnterOta, FenceInv, TrialExcludesOta, InFlight, Busy
    <3>2. CASE LeaveOta(t)
      BY <2>1, <3>2 DEF LeaveOta, FenceInv, TrialExcludesOta, InFlight, Busy
    <3>3. CASE OtaWork(t)
      BY <2>1, <3>3 DEF OtaWork, FenceInv, TrialExcludesOta, InFlight, Busy
    <3> QED BY <1>7, <3>1, <3>2, <3>3
  <2>5. FenceInv'
    BY <2>1, <2>4 DEF FenceInv, Critical
  <2>6. ControllerInv'
    BY <2>1 DEF ControllerInv, Known, Critical
  <2> QED BY <2>3, <2>5, <2>6
<1>8. CASE OtaEnds
  <2>1. TypeOK'
    BY <1>8 DEF OtaEnds, TypeOK
  <2>2. FenceInv'
    <3>1. UNCHANGED <<model, pc, reserved, nesting, health>>
      BY <1>8 DEF OtaEnds
    <3>2. working' = working \/ working' = FALSE
      BY <1>8 DEF OtaEnds
    <3>3. Busy' => Busy
      <4>1. CASE working' = working
        BY <3>1, <4>1 DEF Busy
      <4>2. CASE working' = FALSE
        BY <3>1, <4>2 DEF Busy
      <4> QED BY <3>2, <4>1, <4>2
    <3>4. InFlight' = InFlight /\ Critical(model') = Critical(model)
      BY <3>1 DEF InFlight, Critical
    <3>5. TrialExcludesOta'
      BY <3>1, <3>3, <3>4 DEF FenceInv, TrialExcludesOta
    <3> QED BY <3>1, <3>4, <3>5 DEF FenceInv
  <2>3. ControllerInv'
    BY <1>8 DEF OtaEnds, ControllerInv, Known, Critical
  <2> QED BY <2>1, <2>2, <2>3
<1>9. CASE HealthPoll
  <2>1. TypeOK'
    BY <1>9 DEF HealthPoll, TypeOK
  <2>2. FenceInv'
    BY <1>9 DEF HealthPoll, FenceInv, TrialExcludesOta, InFlight, Busy, Critical
  <2>3. ControllerInv'
    BY <1>9 DEF HealthPoll, ControllerInv, Known, Critical
  <2> QED BY <2>1, <2>2, <2>3
<1>10. CASE UNCHANGED vars
  <2>1. UNCHANGED <<model, pc, reserved, needRestore, nesting, working, staged, health, controller>>
    BY <1>10 DEF vars, ota
  <2>2. TypeOK'
    BY <2>1 DEF TypeOK
  <2>3. FenceInv'
    BY <2>1 DEF FenceInv, TrialExcludesOta, InFlight, Busy, Critical
  <2>4. ControllerInv'
    BY <2>1 DEF ControllerInv, Known, Critical
  <2> QED BY <2>2, <2>3, <2>4
<1> QED BY <1>1, <1>2, <1>3, <1>4, <1>5, <1>6, <1>7, <1>8, <1>9, <1>10 DEF Next

(* The strengthened invariant of the trial holds for every set of tasks    *)
(* and every depth of nested OtaAdmission guards.                          *)
THEOREM TrialInvariant == Spec => []TrialInv
  BY InitTrial, NextTrial, PTL DEF Spec

(* Every variable of the trial and its fence keeps its type.               *)
THEOREM TouchTypeCorrect == Spec => []TypeOK
<1>1. TrialInv => TypeOK
  BY DEF TrialInv
<1> QED BY <1>1, TrialInvariant, PTL

(* However many tasks call the updater, and however their guards nest,     *)
(* none is inside it and no transaction is under way while the touch       *)
(* controller is reserved (AdmissionModel, request120, OtaAdmission).      *)
THEOREM TrialAndOtaExclude == Spec => []TrialExcludesOta
<1>1. TrialInv => TrialExcludesOta
  BY DEF TrialInv, FenceInv
<1> QED BY <1>1, TrialInvariant, PTL

(* Touch input is given back only by a controller in its normal mode,      *)
(* whatever errors and delays the I2C actions meet (struct Model).         *)
THEOREM ReleasedIsNormal == Spec => []ControllerNormalWhenReleased
<1>1. TrialInv => ControllerNormalWhenReleased
  BY DEF TrialInv, FenceInv, ControllerInv, Known, ControllerNormalWhenReleased
<1> QED BY <1>1, TrialInvariant, PTL

-----------------------------------------------------------------------------
(* The journals of the gauge's single fields (GaugeFields): the backup of a *)
(* field is on record before the field is written, and until it is back.   *)
RepairFlags == {"Unseal", "Full", "Enter", "Config", "Fcc", "TargetVerified", "RestoreConfig", "RestoreFcc", "Exit", "Seal"}
Repairs == {"intent", "do", "backup", "roll", "roll-fcc", "check", "verify", "final"}
Nears == {"n-open", "n-before", "n-save", "n-enter", "n-write", "n-after", "n-roll", "n-exit", "n-close", "n-final"}
RepairJournals == [state : {"Pending", "Failed", "Verified"}, intents : SUBSET RepairFlags, full : BOOLEAN,
             backup : BOOLEAN, fcc : {0, Fields!Target, Fields!Before}]
Thresholds == [state : {"Pending", "Active", "Restored", "Failed"}, target : {Fields!Normal, Fields!Early}]
FieldChips == [sec : 1 .. 3, cfg : BOOLEAN, lim : BOOLEAN, fcc : {Fields!Target, Fields!Before, Fields!Factory},
          std : {Fields!Target, Fields!Before, Fields!Factory}, near : {Fields!Normal, Fields!Early}]
FieldStores == [fcc : {Fields!None} \cup RepairJournals, near : {Fields!None} \cup Thresholds]
FieldOps == [at : {"idle"} \cup Repairs \cup Nears, flag : RepairFlags \cup {"none", "set", "restore"},
        j : {Fields!None} \cup RepairJournals \cup Thresholds, want : {0, Fields!Normal, Fields!Early}, was : {0, Fields!Normal, Fields!Early},
        good : BOOLEAN]
FieldHistories == [sent : SUBSET RepairFlags, replay : BOOLEAN, fcc : {Fields!Target, Fields!Before, Fields!Factory}, cold : SUBSET {"limit", "near"}]
FieldsType ==
  /\ chip \in FieldChips /\ nvs \in FieldStores /\ op \in FieldOps /\ seen \in FieldHistories

\* an operation holds the record that it is about
FieldTyped ==
  /\ op.at \in Repairs => op.j \in RepairJournals
  /\ op.at \in {"intent", "do"} => op.flag \in RepairFlags
  /\ op.at = "do" => op.flag # "TargetVerified"
  /\ op.at \in Nears => /\ op.j = Fields!None \/ op.j \in Thresholds
                        /\ op.want \in {Fields!Normal, Fields!Early} /\ op.flag \in {"set", "restore"}
                        /\ op.flag = "restore" => op.want = Fields!Normal
  /\ op.at \in {"n-roll", "n-save", "n-enter", "n-write", "n-after"} => op.was \in {Fields!Normal, Fields!Early}
\* a gauge without its memory is closed, and knows only its own capacity
Emptied ==
  /\ chip.std = Fields!Factory <=> chip.fcc = Fields!Factory
  /\ chip.sec = 1 => chip.std # Fields!Factory
  /\ chip.cfg => chip.sec = 1
  /\ chip.fcc \in {seen.fcc, Fields!Target}
  /\ chip.std = Fields!Factory => seen.fcc = Fields!Factory /\ "limit" \in seen.cold

\* the commands that may have been sent where the repair stands
RepairOpening == {"Unseal", "Full"}
Forward == RepairOpening \cup {"Enter", "Config", "Fcc"}
Ahead ==
  CASE op.at = "backup" -> RepairOpening
    [] op.at = "check" -> Forward
    [] op.at = "roll" -> Forward \cup {"TargetVerified"}
    [] op.at = "roll-fcc" -> Forward \cup {"TargetVerified", "RestoreConfig"}
    [] op.at \in {"verify", "final"} -> RepairFlags
    [] op.at \in {"intent", "do"} ->
         CASE op.flag = "Unseal" -> {}
           [] op.flag = "Full" -> {"Unseal"}
           [] op.flag = "Enter" -> RepairOpening
           [] op.flag = "Config" -> RepairOpening \cup {"Enter"}
           [] op.flag = "Fcc" -> RepairOpening \cup {"Enter", "Config"}
           [] op.flag = "TargetVerified" -> Forward
           [] op.flag = "RestoreConfig" -> Forward \cup {"TargetVerified"}
           [] op.flag = "RestoreFcc" -> Forward \cup {"TargetVerified", "RestoreConfig"}
           [] OTHER -> RepairFlags
Current == IF op.at = "do" THEN {op.flag} ELSE {}
Stored == IF nvs.fcc = Fields!None THEN {} ELSE nvs.fcc.intents

\* what has been sent is on record, in the order of the repair
InOrder ==
  /\ seen.sent \subseteq Stored
  /\ op.at \in Repairs =>
       /\ seen.sent \subseteq Ahead /\ Stored \subseteq op.j.intents
       /\ op.j.intents \subseteq Ahead \cup Current
       /\ nvs.fcc = Fields!None <=> op.at = "intent" /\ op.flag = "Unseal"
       /\ nvs.fcc # Fields!None => nvs.fcc.state = "Pending" /\ (nvs.fcc.backup => op.j.backup /\ op.j.fcc = nvs.fcc.fcc)
       /\ op.at # "final" => op.j.state = "Pending"
  /\ op.at = "do" /\ op.flag \notin {"Exit", "Seal"} => nvs.fcc = op.j /\ op.flag \in op.j.intents

\* where the repair needs a backup, and where it cannot have one yet
Backs == op.at \in {"check", "roll-fcc"}
           \/ (op.at \in {"intent", "do"} /\ op.flag \notin {"Unseal", "Full", "Exit", "Seal"})
Opens == op.at = "backup" \/ (op.at \in {"intent", "do"} /\ op.flag \in RepairOpening)

\* the backup is of the gauge as it was, or the gauge has lost its memory since
BackedUp ==
  op.at \in Repairs =>
    /\ op.j.backup => op.j.fcc # 0 /\ (chip.std = Fields!Factory \/ op.j.fcc = seen.fcc)
    /\ Backs => op.j.backup
    /\ Opens => ~op.j.backup

Shutting == op.at = "verify" \/ (op.at \in {"intent", "do"} /\ op.flag \in {"Exit", "Seal"})
Checked ==
  \/ op.at = "intent" /\ op.flag = "TargetVerified"
  \/ Shutting /\ op.good
  \/ op.at = "final" /\ op.j.state = "Verified"
Limited == (chip.lim /\ chip.fcc = Fields!Target) \/ "limit" \in seen.cold
Confirmed == Checked => Limited

\* a threshold is written under its own record, and its gauge had its memory when it was asked for
Noted ==
  /\ op.at = "n-open" => ~chip.cfg /\ (chip.sec = 3 => chip.std # Fields!Factory)
  /\ op.at \in {"n-enter", "n-write", "n-after", "n-roll", "n-exit"} =>
       op.j # Fields!None /\ nvs.near = op.j /\ op.j.state = "Pending" /\ op.j.target = op.want
  /\ op.at = "n-save" => op.j # Fields!None /\ op.j.state = "Pending" /\ op.j.target = op.want
  /\ op.at = "n-roll" => ~op.good
  /\ op.at = "n-final" => op.j # Fields!None /\ op.j.state = "Pending"
  /\ op.at \in {"n-exit", "n-close", "n-final"} /\ op.good =>
       /\ op.j # Fields!None /\ op.j.target = op.want
       /\ chip.near = op.want \/ ("near" \in seen.cold /\ chip.near = Fields!Normal)

\* a capacity that is not the gauge's own has its backup on record
Based == chip.fcc # seen.fcc => nvs.fcc # Fields!None /\ nvs.fcc.backup

FieldsInv ==
  /\ FieldsType /\ FieldTyped /\ Emptied /\ InOrder /\ BackedUp /\ Confirmed /\ Noted /\ Based
  /\ Fields!RepairOnRecord /\ Fields!VerifiedIsTrue /\ Fields!NearOnRecord
LEMMA FieldsGo ==
  ASSUME op \in FieldOps, NEW a \in {"idle"} \cup Repairs \cup Nears
  PROVE /\ Fields!Go(a) \in FieldOps /\ Fields!Go(a).at = a /\ Fields!Go(a).flag = op.flag /\ Fields!Go(a).j = op.j
        /\ Fields!Go(a).want = op.want /\ Fields!Go(a).was = op.was /\ Fields!Go(a).good = op.good
BY DEF FieldOps, Fields!Go

LEMMA FieldsAsk ==
  ASSUME op \in FieldOps, NEW f \in RepairFlags
  PROVE /\ Fields!Ask(f) \in FieldOps /\ Fields!Ask(f).at = "intent" /\ Fields!Ask(f).flag = f /\ Fields!Ask(f).j = op.j
        /\ Fields!Ask(f).want = op.want /\ Fields!Ask(f).was = op.was /\ Fields!Ask(f).good = op.good
BY DEF FieldOps, Fields!Ask, Repairs

LEMMA FieldsRoll ==
  ASSUME op \in FieldOps
  PROVE /\ Fields!Roll \in FieldOps /\ Fields!Roll.at = "roll" /\ Fields!Roll.j = op.j /\ Fields!Roll.good = FALSE
        /\ Fields!Shut \in FieldOps /\ Fields!Shut.at = "intent" /\ Fields!Shut.flag = "Exit" /\ Fields!Shut.j = op.j /\ Fields!Shut.good = FALSE
BY DEF FieldOps, Fields!Ask, Fields!Go, Repairs, Fields!Roll, Fields!Shut, RepairFlags

\* a turn of the repair, after the first intent of which nothing else was stored
LEMMA FieldsTurn ==
  ASSUME FieldsInv,
         op.at \in Repairs \ {"final"}, op.at = "intent" => op.flag # "Unseal",
         op' \in FieldOps, op'.at \in Repairs \ {"final"},
         op'.at = "do" => op'.flag \in {"Exit", "Seal"},
         op'.at = "intent" => op'.flag \in RepairFlags \ {"Unseal"},
         op'.j \in RepairJournals, op'.j.intents = op.j.intents, op'.j.state = op.j.state,
         op.j.backup => op'.j.backup /\ op'.j.fcc = op.j.fcc,
         op'.j.backup => op'.j.fcc # 0 /\ (chip'.std = Fields!Factory \/ op'.j.fcc = seen'.fcc),
         Backs' => op'.j.backup, Opens' => ~op'.j.backup,
         Ahead \cup Current \subseteq Ahead', seen'.sent \subseteq seen.sent \cup Current,
         seen'.sent = seen.sent \/ op.flag \in Stored, nvs' = nvs
  PROVE FieldTyped' /\ InOrder' /\ BackedUp' /\ Noted'
<1> USE DEF FieldsInv
<1>1. op.j \in RepairJournals /\ op.at \in Repairs /\ op'.at \in Repairs
  BY DEF FieldTyped
<1>2. FieldTyped'
  BY DEF FieldTyped, Repairs, Nears, RepairFlags
<1>3. /\ seen.sent \subseteq Stored /\ seen.sent \subseteq Ahead /\ Stored \subseteq op.j.intents
      /\ op.j.intents \subseteq Ahead \cup Current /\ nvs.fcc # Fields!None
      /\ nvs.fcc.state = "Pending" /\ (nvs.fcc.backup => op.j.backup /\ op.j.fcc = nvs.fcc.fcc)
      /\ op.j.state = "Pending"
  BY <1>1 DEF InOrder
<1>4. Stored' = Stored
  BY DEF Stored
<1>5. seen'.sent \subseteq Stored' /\ seen'.sent \subseteq Ahead' /\ op'.j.intents \subseteq Ahead'
  BY <1>3, <1>4 DEF Current
<1>6. InOrder'
  BY <1>1, <1>3, <1>4, <1>5 DEF InOrder
<1>7. BackedUp'
  BY DEF BackedUp
<1>8. Noted'
  BY DEF Noted, Repairs
<1>9. QED BY <1>2, <1>6, <1>7, <1>8

LEMMA FieldsFail ==
  ASSUME NEW a \in FieldOps
  PROVE LET b == [a EXCEPT !.good = FALSE] IN
          /\ b \in FieldOps /\ b.at = a.at /\ b.flag = a.flag /\ b.j = a.j /\ b.want = a.want /\ b.was = a.was
          /\ ~b.good
BY DEF FieldOps

LEMMA FieldsIdle == Fields!Idle \in FieldOps /\ Fields!Idle.at = "idle"
BY DEF FieldOps, Fields!Idle

\* what the gauge and the records are required to be is untouched by a step of neither
LEMMA FieldsQuiet ==
  ASSUME FieldsInv, UNCHANGED <<chip, nvs, seen>>
  PROVE /\ chip' \in FieldChips /\ nvs' \in FieldStores /\ seen' \in FieldHistories /\ Emptied'
        /\ Based' /\ Fields!RepairOnRecord' /\ Fields!VerifiedIsTrue' /\ Fields!NearOnRecord' /\ Limited' = Limited
BY DEF FieldsInv, FieldsType, Emptied, Based, Fields!RepairOnRecord, Fields!VerifiedIsTrue, Fields!NearOnRecord, Limited

LEMMA FieldsBackup == ASSUME FieldsInv, Fields!Backup PROVE FieldsInv'
<1>1. /\ op \in FieldOps /\ op.at = "backup" /\ op.j \in RepairJournals /\ UNCHANGED <<chip, nvs, seen>>
      /\ op.at \in Repairs \ {"final"} /\ chip \in FieldChips
  BY DEF FieldsInv, FieldsType, FieldTyped, Fields!Backup, Fields!At, Repairs
<1>2. CASE op' = Fields!Roll
  <2>1. op' \in FieldOps /\ op'.at = "roll" /\ op'.j = op.j /\ op'.good = FALSE
    BY <1>1, <1>2, FieldsRoll
  <2>2. Ahead \cup Current \subseteq Ahead'
    BY <1>1, <2>1 DEF Ahead, Current, Forward
  <2>3. FieldTyped' /\ InOrder' /\ BackedUp' /\ Noted'
    BY <1>1, <2>1, <2>2, FieldsTurn DEF Repairs, Backs, Opens, FieldsInv, BackedUp
  <2>4. Confirmed'
    BY <2>1 DEF Confirmed, Checked, Shutting
  <2>5. QED BY <1>1, <2>1, <2>3, <2>4, FieldsQuiet DEF FieldsInv, FieldsType
<1>3. CASE op' # Fields!Roll
  <2>1. /\ op' \in FieldOps /\ op'.at = "intent" /\ op'.flag = "Enter" /\ op'.good = op.good
        /\ op'.j \in RepairJournals /\ op'.j.intents = op.j.intents /\ op'.j.state = op.j.state
        /\ op'.j.backup = TRUE /\ op'.j.fcc = chip.fcc
        /\ chip.sec = 1 /\ chip.fcc \in {Fields!Target, Fields!Before}
    <3>1. PICK a \in {Fields!Ask("Enter")} : op' = [a EXCEPT !.j.backup = TRUE, !.j.fcc = chip.fcc]
      BY <1>3 DEF Fields!Backup
    <3>2. a \in FieldOps /\ a.at = "intent" /\ a.flag = "Enter" /\ a.good = op.good /\ a.j = op.j
      BY <1>1, <3>1, FieldsAsk DEF RepairFlags
    <3>3. chip.sec = 1 /\ chip.fcc \in {Fields!Target, Fields!Before}
      BY <1>3 DEF Fields!Backup
    <3>4. QED BY <1>1, <3>1, <3>2, <3>3 DEF FieldOps, RepairJournals
  <2>2. Ahead \cup Current \subseteq Ahead'
    BY <1>1, <2>1 DEF Ahead, Current
  <2>3. ~op.j.backup /\ op.j.intents \subseteq RepairOpening /\ nvs.fcc.intents \subseteq op.j.intents
    BY <1>1 DEF FieldsInv, InOrder, BackedUp, Opens, Ahead, Current, Stored
  <2>4. chip.fcc # 0 /\ chip.fcc = seen.fcc
    BY <2>1, <2>3 DEF FieldsInv, Fields!RepairOnRecord, Emptied, RepairOpening, Fields!Target, Fields!Before
  <2>5. FieldTyped' /\ InOrder' /\ BackedUp' /\ Noted'
    BY <1>1, <2>1, <2>2, <2>3, <2>4, FieldsTurn DEF Repairs, Backs, Opens, RepairOpening, RepairFlags
  <2>6. Confirmed'
    BY <2>1 DEF Confirmed, Checked, Shutting
  <2>7. QED BY <1>1, <2>1, <2>5, <2>6, FieldsQuiet DEF FieldsInv, FieldsType
<1>4. QED BY <1>2, <1>3

LEMMA FieldsCheck == ASSUME FieldsInv, Fields!Check PROVE FieldsInv'
<1>1. /\ op \in FieldOps /\ op.at = "check" /\ op.j \in RepairJournals /\ UNCHANGED <<chip, nvs, seen>>
      /\ op.at \in Repairs \ {"final"} /\ chip \in FieldChips
  BY DEF FieldsInv, FieldsType, FieldTyped, Fields!Check, Fields!At, Repairs
<1>2. /\ op' \in FieldOps /\ op'.j = op.j
      /\ \/ op'.at = "roll" /\ op'.good = FALSE
         \/ op'.at = "intent" /\ op'.flag = "TargetVerified" /\ chip.lim /\ chip.fcc = Fields!Target
  BY <1>1, FieldsRoll, FieldsAsk DEF Fields!Check, RepairFlags
<1>3. Ahead \cup Current \subseteq Ahead'
  BY <1>1, <1>2 DEF Ahead, Current
<1>4. op.j.backup /\ op.j.fcc # 0 /\ (chip.std = Fields!Factory \/ op.j.fcc = seen.fcc)
  BY <1>1 DEF FieldsInv, BackedUp, Backs
<1>5. FieldTyped' /\ InOrder' /\ BackedUp' /\ Noted'
  BY <1>1, <1>2, <1>3, <1>4, FieldsTurn DEF Repairs, Backs, Opens, RepairOpening, RepairFlags
<1>6. Confirmed'
  BY <1>1, <1>2 DEF Confirmed, Checked, Shutting, Limited
<1>7. QED BY <1>1, <1>2, <1>5, <1>6, FieldsQuiet DEF FieldsInv, FieldsType

LEMMA FieldsFccRoll == ASSUME FieldsInv, Fields!FccRoll PROVE FieldsInv'
<1>1. /\ op \in FieldOps /\ op.at \in {"roll", "roll-fcc"} /\ op.j \in RepairJournals /\ UNCHANGED <<chip, nvs, seen>>
      /\ op.at \in Repairs \ {"final"} /\ chip \in FieldChips
  BY DEF FieldsInv, FieldsType, FieldTyped, Fields!FccRoll, Fields!At, Repairs
<1>2. /\ op' \in FieldOps /\ op'.j = op.j
      /\ \/ op'.at = "intent" /\ op'.flag = "Exit" /\ op'.good = FALSE
         \/ op'.at = "intent" /\ op'.flag = "RestoreConfig" /\ op.at = "roll" /\ op.j.backup
         \/ op'.at = "roll-fcc" /\ op.at = "roll" /\ op.j.backup
         \/ op'.at = "intent" /\ op'.flag = "RestoreFcc" /\ op.at = "roll-fcc"
  <2>1. /\ Fields!Ask("RestoreConfig") \in FieldOps /\ Fields!Ask("RestoreConfig").at = "intent" /\ Fields!Ask("RestoreConfig").j = op.j
        /\ Fields!Ask("RestoreConfig").flag = "RestoreConfig"
    BY <1>1, FieldsAsk DEF RepairFlags
  <2>2. /\ Fields!Ask("RestoreFcc") \in FieldOps /\ Fields!Ask("RestoreFcc").at = "intent" /\ Fields!Ask("RestoreFcc").j = op.j
        /\ Fields!Ask("RestoreFcc").flag = "RestoreFcc"
    BY <1>1, FieldsAsk DEF RepairFlags
  <2>3. Fields!Go("roll-fcc") \in FieldOps /\ Fields!Go("roll-fcc").at = "roll-fcc" /\ Fields!Go("roll-fcc").j = op.j
    BY <1>1, FieldsGo DEF Repairs
  <2>4. QED BY <1>1, <2>1, <2>2, <2>3, FieldsRoll DEF Fields!FccRoll, Fields!At
<1>3. Ahead \cup Current \subseteq Ahead'
  BY <1>1, <1>2 DEF Ahead, Current, Forward, RepairOpening, RepairFlags
<1>4. (op.at = "roll-fcc" => op.j.backup) /\ (op.j.backup => op.j.fcc # 0 /\ (chip.std = Fields!Factory \/ op.j.fcc = seen.fcc))
  BY <1>1 DEF FieldsInv, BackedUp, Backs
<1>5. FieldTyped' /\ InOrder' /\ BackedUp' /\ Noted'
  BY <1>1, <1>2, <1>3, <1>4, FieldsTurn DEF Repairs, Backs, Opens, RepairOpening, RepairFlags
<1>6. Confirmed'
  BY <1>1, <1>2 DEF Confirmed, Checked, Shutting
<1>7. QED BY <1>1, <1>2, <1>5, <1>6, FieldsQuiet DEF FieldsInv, FieldsType

LEMMA FieldsSent ==
  ASSUME FieldsInv, NEW f, op.at = "do", op.flag = f, f \notin {"Exit", "Seal"}, Fields!Sent(f)
  PROVE /\ seen' \in FieldHistories /\ seen'.sent = seen.sent \cup Current /\ seen'.fcc = seen.fcc
        /\ seen'.cold = seen.cold /\ ~seen'.replay /\ f \in Stored
<1>1. /\ seen \in FieldHistories /\ f \in RepairFlags \ {"TargetVerified"} /\ op.at \in Repairs /\ ~seen.replay
      /\ nvs.fcc = op.j /\ f \in op.j.intents /\ nvs.fcc # Fields!None
  BY DEF FieldsInv, FieldsType, FieldTyped, Repairs, Fields!RepairOnRecord, InOrder
<1>2. f \notin Ahead
  BY <1>1 DEF Ahead, RepairFlags, RepairOpening, Forward
<1>3. f \notin seen.sent
  BY <1>1, <1>2 DEF FieldsInv, InOrder
<1>4. seen' = [seen EXCEPT !.replay = FALSE, !.sent = @ \cup {f}]
  BY <1>1, <1>3 DEF Fields!Sent
<1>5. QED BY <1>1, <1>4 DEF FieldHistories, Current, Stored

\* a command of the repair, sent or not, after which the records are as they were
LEMMA FieldsCommand ==
  ASSUME FieldsInv, op.at = "do", op.flag \notin {"Exit", "Seal"}, nvs' = nvs,
         UNCHANGED seen \/ Fields!Sent(op.flag),
         op' \in FieldOps, op'.at \in {"roll", "roll-fcc", "check", "backup", "intent"},
         op'.at = "intent" => op'.flag \in RepairFlags \ {"Unseal", "TargetVerified"},
         op'.j \in RepairJournals, op'.j.intents = op.j.intents, op'.j.state = op.j.state,
         op'.j.backup = op.j.backup, op'.j.fcc = op.j.fcc,
         Backs' => op.j.backup, Opens' => ~op.j.backup,
         Ahead \cup Current \subseteq Ahead', Checked' => FALSE,
         chip' \in FieldChips, chip'.std = chip.std, chip'.near = chip.near,
         chip'.sec = 1 => chip.std # Fields!Factory, chip'.cfg => chip'.sec = 1,
         chip'.lim => chip.lim \/ (op.flag = "Config" /\ op.j.backup),
         \/ chip'.fcc = chip.fcc
         \/ /\ chip.std # Fields!Factory /\ op.j.backup
            /\ (op.flag = "Fcc" /\ chip'.fcc = Fields!Target) \/ chip'.fcc = op.j.fcc
  PROVE FieldsInv'
<1>1. /\ op.j \in RepairJournals /\ op.at \in Repairs \ {"final"} /\ seen \in FieldHistories /\ op.flag \in RepairFlags
      /\ nvs.fcc = op.j /\ op.flag \in op.j.intents /\ nvs.fcc # Fields!None /\ nvs.fcc.state = "Pending"
  BY DEF FieldsInv, FieldsType, FieldTyped, Repairs, InOrder
<1>2. /\ seen' \in FieldHistories /\ seen'.sent \subseteq seen.sent \cup Current /\ seen'.fcc = seen.fcc
      /\ seen'.cold = seen.cold /\ ~seen'.replay /\ (seen'.sent = seen.sent \/ op.flag \in Stored)
  <2>1. CASE UNCHANGED seen
    BY <1>1, <2>1 DEF FieldsInv, Fields!RepairOnRecord
  <2>2. CASE Fields!Sent(op.flag)
    BY <1>1, <2>2, FieldsSent
  <2>3. QED BY <2>1, <2>2
<1>3. op.j.backup => op.j.fcc \in {Fields!Target, Fields!Before} /\ (chip.std = Fields!Factory \/ op.j.fcc = seen.fcc)
  BY <1>1 DEF FieldsInv, BackedUp, RepairJournals
<1>4. FieldTyped' /\ InOrder' /\ BackedUp' /\ Noted'
  BY <1>1, <1>2, <1>3, FieldsTurn DEF Repairs, Fields!Target, Fields!Before, Opens, RepairOpening
<1>5. Emptied'
  <2>1. /\ chip.std = Fields!Factory <=> chip.fcc = Fields!Factory
        /\ chip.fcc \in {seen.fcc, Fields!Target}
        /\ chip.std = Fields!Factory => seen.fcc = Fields!Factory /\ "limit" \in seen.cold
    BY DEF FieldsInv, Emptied
  <2>2. Fields!Target # Fields!Factory /\ Fields!Before # Fields!Factory
    BY DEF Fields!Target, Fields!Before, Fields!Factory
  <2>3. CASE chip'.fcc = chip.fcc
    BY <1>2, <2>1, <2>3 DEF Emptied
  <2>4. CASE chip'.fcc # chip.fcc
    <3>1. chip.std # Fields!Factory /\ chip'.fcc \in {seen.fcc, Fields!Target} /\ chip'.fcc # Fields!Factory
      BY <1>3, <2>1, <2>2, <2>4
    <3>2. QED BY <1>2, <3>1 DEF Emptied
  <2>5. QED BY <2>3, <2>4
<1>6. Confirmed' /\ Fields!VerifiedIsTrue' /\ Fields!NearOnRecord'
  BY <1>1, <1>2 DEF Confirmed, Fields!VerifiedIsTrue, Fields!NearOnRecord, FieldsInv
<1>7. Based' /\ Fields!RepairOnRecord'
  <2>1. /\ chip.lim => nvs.fcc.backup /\ "Config" \in nvs.fcc.intents
        /\ chip.fcc # seen.fcc => nvs.fcc.backup /\ nvs.fcc.fcc = seen.fcc /\ "Fcc" \in nvs.fcc.intents
    BY DEF FieldsInv, Based, Fields!RepairOnRecord
  <2>2. chip'.lim => nvs.fcc.backup /\ "Config" \in nvs.fcc.intents
    BY <1>1, <2>1
  <2>3. chip'.fcc # seen.fcc => nvs.fcc.backup /\ nvs.fcc.fcc = seen.fcc /\ "Fcc" \in nvs.fcc.intents
    BY <1>1, <1>3, <2>1
  <2>4. QED BY <1>1, <1>2, <2>2, <2>3 DEF Based, Fields!RepairOnRecord
<1>8. QED BY <1>1, <1>2, <1>4, <1>5, <1>6, <1>7 DEF FieldsInv, FieldsType

\* what a command of the repair starts from
LEMMA FieldsAtCommand ==
  ASSUME FieldsInv, NEW f \in RepairFlags, Fields!Do(f)
  PROVE /\ op \in FieldOps /\ op.at = "do" /\ op.flag = f /\ op.j \in RepairJournals /\ chip \in FieldChips
        /\ chip.cfg => chip.sec = 1
        /\ chip.sec = 1 => chip.std # Fields!Factory
        /\ f \in RepairOpening => ~op.j.backup
        /\ f \in {"Enter", "Config", "Fcc", "RestoreConfig", "RestoreFcc"} => op.j.backup /\ op.j.fcc \in {Fields!Target, Fields!Before}
BY DEF FieldsInv, FieldsType, FieldTyped, Fields!Do, Fields!At, Repairs, Emptied, BackedUp, Backs, Opens, RepairJournals, RepairOpening

LEMMA FieldsEnter == ASSUME FieldsInv, Fields!FccEnter PROVE FieldsInv'
<1>1. /\ op \in FieldOps /\ op.at = "do" /\ op.flag = "Enter" /\ op.j \in RepairJournals /\ op.j.backup /\ chip \in FieldChips
      /\ (chip.cfg => chip.sec = 1) /\ (chip.sec = 1 => chip.std # Fields!Factory)
  BY FieldsAtCommand DEF Fields!FccEnter, RepairFlags
<1>2. /\ op' \in FieldOps /\ op'.j = op.j
      /\ \/ op'.at = "roll" /\ op'.good = FALSE
         \/ op'.at = "intent" /\ op'.flag = "Config"
  BY <1>1, FieldsRoll, FieldsAsk DEF Fields!FccEnter, RepairFlags
<1>3. nvs' = nvs /\ (UNCHANGED seen \/ Fields!Sent(op.flag))
  BY <1>1 DEF Fields!FccEnter
<1>4. /\ chip' \in FieldChips /\ chip'.sec = chip.sec /\ chip'.lim = chip.lim /\ chip'.fcc = chip.fcc
      /\ chip'.std = chip.std /\ chip'.near = chip.near /\ (chip'.cfg => chip.sec = 1)
  BY <1>1 DEF Fields!FccEnter, Fields!Entered, FieldChips
<1>5. Ahead \cup Current \subseteq Ahead'
  BY <1>1, <1>2 DEF Ahead, Current, Forward, RepairOpening
<1>6. ~Checked' /\ ~Opens'
  BY <1>2 DEF Checked, Shutting, Opens, RepairOpening
<1>7. QED BY <1>1, <1>2, <1>3, <1>4, <1>5, <1>6, FieldsCommand DEF RepairFlags

LEMMA FieldsConfig == ASSUME FieldsInv, Fields!FccConfig PROVE FieldsInv'
<1>1. /\ op \in FieldOps /\ op.at = "do" /\ op.flag = "Config" /\ op.j \in RepairJournals /\ op.j.backup /\ chip \in FieldChips
      /\ (chip.cfg => chip.sec = 1) /\ (chip.sec = 1 => chip.std # Fields!Factory) /\ op.j.fcc \in {Fields!Target, Fields!Before}
  BY FieldsAtCommand DEF Fields!FccConfig, Fields!Writes, RepairFlags
<1>2. /\ op' \in FieldOps /\ op'.j = op.j
      /\ \/ op'.at = "roll" /\ op'.good = FALSE
         \/ op'.at = "intent" /\ op'.flag = "Fcc"
         \/ op'.at = "check"
  <2>1. Fields!Go("check") \in FieldOps /\ Fields!Go("check").at = "check" /\ Fields!Go("check").j = op.j
    BY <1>1, FieldsGo DEF Repairs
  <2>2. Fields!Ask("Fcc") \in FieldOps /\ Fields!Ask("Fcc").at = "intent" /\ Fields!Ask("Fcc").flag = "Fcc" /\ Fields!Ask("Fcc").j = op.j
    BY <1>1, FieldsAsk DEF RepairFlags
  <2>3. QED BY <1>1, <2>1, <2>2, FieldsRoll DEF Fields!FccConfig, Fields!Writes
<1>3. nvs' = nvs /\ (UNCHANGED seen \/ Fields!Sent(op.flag))
  BY <1>1 DEF Fields!FccConfig, Fields!Writes
<1>4. /\ chip' \in FieldChips /\ chip'.sec = chip.sec /\ chip'.std = chip.std /\ chip'.near = chip.near
      /\ chip'.cfg = chip.cfg /\ chip'.fcc = chip.fcc
  BY <1>1 DEF Fields!FccConfig, Fields!Writes, Fields!Written, FieldChips, Fields!FullCfg
<1>5. Ahead \cup Current \subseteq Ahead'
  BY <1>1, <1>2 DEF Ahead, Current, Forward, RepairOpening, RepairFlags
<1>6. ~Checked' /\ ~Opens'
  BY <1>2 DEF Checked, Shutting, Opens, RepairOpening
<1>7. QED BY <1>1, <1>2, <1>3, <1>4, <1>5, <1>6, FieldsCommand DEF RepairFlags

LEMMA FieldsFcc == ASSUME FieldsInv, Fields!FccFcc PROVE FieldsInv'
<1>1. /\ op \in FieldOps /\ op.at = "do" /\ op.flag = "Fcc" /\ op.j \in RepairJournals /\ op.j.backup /\ chip \in FieldChips
      /\ (chip.cfg => chip.sec = 1) /\ (chip.sec = 1 => chip.std # Fields!Factory) /\ op.j.fcc \in {Fields!Target, Fields!Before}
  BY FieldsAtCommand DEF Fields!FccFcc, Fields!Writes, RepairFlags
<1>2. /\ op' \in FieldOps /\ op'.j = op.j
      /\ \/ op'.at = "roll" /\ op'.good = FALSE
         \/ op'.at = "check"
  <2>1. Fields!Go("check") \in FieldOps /\ Fields!Go("check").at = "check" /\ Fields!Go("check").j = op.j
    BY <1>1, FieldsGo DEF Repairs
  <2>3. QED BY <1>1, <2>1, FieldsRoll DEF Fields!FccFcc, Fields!Writes
<1>3. nvs' = nvs /\ (UNCHANGED seen \/ Fields!Sent(op.flag))
  BY <1>1 DEF Fields!FccFcc, Fields!Writes
<1>4. /\ chip' \in FieldChips /\ chip'.sec = chip.sec /\ chip'.std = chip.std /\ chip'.near = chip.near
      /\ chip'.cfg = chip.cfg /\ chip'.lim = chip.lim /\ (chip'.fcc = chip.fcc \/ (chip.sec = 1 /\ chip'.fcc = Fields!Target))
  BY <1>1 DEF Fields!FccFcc, Fields!Writes, Fields!Written, FieldChips, Fields!FullCfg
<1>5. Ahead \cup Current \subseteq Ahead'
  BY <1>1, <1>2 DEF Ahead, Current, Forward, RepairOpening, RepairFlags
<1>6. ~Checked' /\ ~Opens'
  BY <1>2 DEF Checked, Shutting, Opens, RepairOpening
<1>7. QED BY <1>1, <1>2, <1>3, <1>4, <1>5, <1>6, FieldsCommand DEF RepairFlags

LEMMA FieldsUnconfig == ASSUME FieldsInv, Fields!FccUnconfig PROVE FieldsInv'
<1>1. /\ op \in FieldOps /\ op.at = "do" /\ op.flag = "RestoreConfig" /\ op.j \in RepairJournals /\ op.j.backup /\ chip \in FieldChips
      /\ (chip.cfg => chip.sec = 1) /\ (chip.sec = 1 => chip.std # Fields!Factory) /\ op.j.fcc \in {Fields!Target, Fields!Before}
  BY FieldsAtCommand DEF Fields!FccUnconfig, Fields!Writes, RepairFlags
<1>2. /\ op' \in FieldOps /\ op'.j = op.j
      /\ \/ op'.at = "intent" /\ op'.flag = "Exit" /\ op'.good = FALSE
         \/ op'.at = "roll-fcc"
  <2>1. Fields!Go("roll-fcc") \in FieldOps /\ Fields!Go("roll-fcc").at = "roll-fcc" /\ Fields!Go("roll-fcc").j = op.j
    BY <1>1, FieldsGo DEF Repairs
  <2>3. QED BY <1>1, <2>1, FieldsRoll DEF Fields!FccUnconfig, Fields!Writes
<1>3. nvs' = nvs /\ (UNCHANGED seen \/ Fields!Sent(op.flag))
  BY <1>1 DEF Fields!FccUnconfig, Fields!Writes
<1>4. /\ chip' \in FieldChips /\ chip'.sec = chip.sec /\ chip'.std = chip.std /\ chip'.near = chip.near
      /\ chip'.cfg = chip.cfg /\ chip'.fcc = chip.fcc /\ (chip'.lim => chip.lim)
  BY <1>1 DEF Fields!FccUnconfig, Fields!Writes, Fields!Written, FieldChips, Fields!FullCfg
<1>5. Ahead \cup Current \subseteq Ahead'
  BY <1>1, <1>2 DEF Ahead, Current, Forward, RepairOpening, RepairFlags
<1>6. ~Checked' /\ ~Opens'
  BY <1>2 DEF Checked, Shutting, Opens, RepairOpening
<1>7. QED BY <1>1, <1>2, <1>3, <1>4, <1>5, <1>6, FieldsCommand DEF RepairFlags

LEMMA FieldsUnfcc == ASSUME FieldsInv, Fields!FccUnfcc PROVE FieldsInv'
<1>1. /\ op \in FieldOps /\ op.at = "do" /\ op.flag = "RestoreFcc" /\ op.j \in RepairJournals /\ op.j.backup /\ chip \in FieldChips
      /\ (chip.cfg => chip.sec = 1) /\ (chip.sec = 1 => chip.std # Fields!Factory) /\ op.j.fcc \in {Fields!Target, Fields!Before}
  BY FieldsAtCommand DEF Fields!FccUnfcc, Fields!Writes, RepairFlags
<1>2. /\ op' \in FieldOps /\ op'.j = op.j
      /\ \/ op'.at = "intent" /\ op'.flag = "Exit" /\ op'.good = FALSE
  BY <1>1, FieldsRoll DEF Fields!FccUnfcc, Fields!Writes
<1>3. nvs' = nvs /\ (UNCHANGED seen \/ Fields!Sent(op.flag))
  BY <1>1 DEF Fields!FccUnfcc, Fields!Writes
<1>4. /\ chip' \in FieldChips /\ chip'.sec = chip.sec /\ chip'.std = chip.std /\ chip'.near = chip.near
      /\ chip'.cfg = chip.cfg /\ chip'.lim = chip.lim /\ (chip'.fcc = chip.fcc \/ (chip.sec = 1 /\ chip'.fcc = op.j.fcc))
  BY <1>1 DEF Fields!FccUnfcc, Fields!Writes, Fields!Written, FieldChips, Fields!FullCfg
<1>5. Ahead \cup Current \subseteq Ahead'
  BY <1>1, <1>2 DEF Ahead, Current, Forward, RepairOpening, RepairFlags
<1>6. ~Checked' /\ ~Opens'
  BY <1>2 DEF Checked, Shutting, Opens, RepairOpening
<1>7. QED BY <1>1, <1>2, <1>3, <1>4, <1>5, <1>6, FieldsCommand DEF RepairFlags

LEMMA FieldsUnseal == ASSUME FieldsInv, Fields!FccUnseal PROVE FieldsInv'
<1>1. /\ op \in FieldOps /\ op.at = "do" /\ op.flag = "Unseal" /\ op.j \in RepairJournals /\ ~op.j.backup /\ chip \in FieldChips
      /\ (chip.cfg => chip.sec = 1) /\ (chip.sec = 1 => chip.std # Fields!Factory)
  BY FieldsAtCommand DEF Fields!FccUnseal, Fields!Words, RepairFlags, RepairOpening
<1>2. /\ op' \in FieldOps
      /\ op'.j \in RepairJournals /\ op'.j.intents = op.j.intents /\ op'.j.state = op.j.state
      /\ op'.j.backup = op.j.backup /\ op'.j.fcc = op.j.fcc
      /\ \/ op'.at = "roll" /\ op'.good = FALSE
         \/ op'.at = "intent" /\ op'.flag = "Full" /\ op'.j = op.j
  <2>1. /\ Fields!Ask("Full") \in FieldOps /\ Fields!Ask("Full").at = "intent" /\ Fields!Ask("Full").flag = "Full" /\ Fields!Ask("Full").j = op.j
    BY <1>1, FieldsAsk DEF RepairFlags
  <2>2. QED BY <1>1, <2>1, FieldsRoll DEF Fields!FccUnseal, Fields!Words
<1>3. nvs' = nvs /\ (UNCHANGED seen \/ Fields!Sent(op.flag))
  BY <1>1 DEF Fields!FccUnseal, Fields!Words
<1>4. /\ chip' \in FieldChips /\ chip'.std = chip.std /\ chip'.near = chip.near /\ chip'.lim = chip.lim
      /\ chip'.fcc = chip.fcc /\ (chip'.sec = 1 => chip.std # Fields!Factory) /\ (chip'.cfg => chip'.sec = 1)
  BY <1>1 DEF Fields!FccUnseal, Fields!Words, FieldChips
<1>5. Ahead \cup Current \subseteq Ahead'
  BY <1>1, <1>2 DEF Ahead, Current, Forward, RepairOpening, RepairFlags
<1>6. ~Checked' /\ ~Backs'
  BY <1>2 DEF Checked, Shutting, Backs
<1>7. QED BY <1>1, <1>2, <1>3, <1>4, <1>5, <1>6, FieldsCommand DEF RepairFlags

LEMMA FieldsFull == ASSUME FieldsInv, Fields!FccFull PROVE FieldsInv'
<1>1. /\ op \in FieldOps /\ op.at = "do" /\ op.flag = "Full" /\ op.j \in RepairJournals /\ ~op.j.backup /\ chip \in FieldChips
      /\ (chip.cfg => chip.sec = 1) /\ (chip.sec = 1 => chip.std # Fields!Factory)
  BY FieldsAtCommand DEF Fields!FccFull, Fields!Words, RepairFlags, RepairOpening
<1>2. /\ op' \in FieldOps
      /\ op'.j \in RepairJournals /\ op'.j.intents = op.j.intents /\ op'.j.state = op.j.state
      /\ op'.j.backup = op.j.backup /\ op'.j.fcc = op.j.fcc
      /\ \/ op'.at = "roll" /\ op'.good = FALSE
         \/ op'.at = "backup"
  <2>1. /\ Fields!Go("backup") \in FieldOps /\ Fields!Go("backup").at = "backup" /\ Fields!Go("backup").j = op.j
    BY <1>1, FieldsGo DEF Repairs
  <2>2. PICK a \in {Fields!Go("backup")} : op' = Fields!Roll \/ op' = [a EXCEPT !.j.full = TRUE]
    BY DEF Fields!FccFull, Fields!Words
  <2>3. [a EXCEPT !.j.full = TRUE].at = "backup" /\ [a EXCEPT !.j.full = TRUE] \in FieldOps
    BY <1>1, <2>1, <2>2 DEF FieldOps, RepairJournals
  <2>4. LET j == [a EXCEPT !.j.full = TRUE].j IN
          /\ j \in RepairJournals /\ j.intents = op.j.intents /\ j.state = op.j.state
          /\ j.backup = op.j.backup /\ j.fcc = op.j.fcc
    BY <1>1, <2>1, <2>2 DEF FieldOps, RepairJournals
  <2>5. QED BY <1>1, <2>2, <2>3, <2>4, FieldsRoll
<1>3. nvs' = nvs /\ (UNCHANGED seen \/ Fields!Sent(op.flag))
  BY <1>1 DEF Fields!FccFull, Fields!Words
<1>4. /\ chip' \in FieldChips /\ chip'.std = chip.std /\ chip'.near = chip.near /\ chip'.lim = chip.lim
      /\ chip'.fcc = chip.fcc /\ (chip'.sec = 1 => chip.std # Fields!Factory) /\ (chip'.cfg => chip'.sec = 1)
  BY <1>1 DEF Fields!FccFull, Fields!Words, FieldChips
<1>5. Ahead \cup Current \subseteq Ahead'
  BY <1>1, <1>2 DEF Ahead, Current, Forward, RepairOpening, RepairFlags
<1>6. ~Checked' /\ ~Backs'
  BY <1>2 DEF Checked, Shutting, Backs
<1>7. QED BY <1>1, <1>2, <1>3, <1>4, <1>5, <1>6, FieldsCommand DEF RepairFlags

LEMMA FieldsExit == ASSUME FieldsInv, Fields!FccExit PROVE FieldsInv'
<1>1. /\ op \in FieldOps /\ op.at = "do" /\ op.flag = "Exit" /\ op.j \in RepairJournals /\ chip \in FieldChips
      /\ op.at \in Repairs \ {"final"} /\ op.good \in BOOLEAN
      /\ chip.std = Fields!Factory <=> chip.fcc = Fields!Factory
      /\ chip.cfg => chip.sec = 1
      /\ chip.sec = 1 => chip.std # Fields!Factory
  BY DEF FieldsInv, FieldsType, FieldTyped, Fields!FccExit, Fields!Do, Fields!At, Repairs, Emptied, FieldOps
<1>2. /\ op' \in FieldOps /\ op'.at = "intent" /\ op'.flag = "Seal" /\ op'.j = op.j /\ (op'.good => op.good)
      /\ nvs' = nvs /\ seen' = seen
  <2>1. /\ Fields!Ask("Seal") \in FieldOps /\ Fields!Ask("Seal").at = "intent" /\ Fields!Ask("Seal").flag = "Seal" /\ Fields!Ask("Seal").j = op.j
        /\ Fields!Ask("Seal").good = op.good
    BY <1>1, FieldsAsk DEF RepairFlags
  <2>2. PICK a \in {Fields!Ask("Seal")}, ok \in BOOLEAN : op' = [a EXCEPT !.good = @ /\ ok]
    BY DEF Fields!FccExit
  <2>3. QED BY <1>1, <2>1, <2>2 DEF FieldOps, Fields!FccExit
<1>3. /\ chip' \in FieldChips /\ chip'.lim = chip.lim /\ chip'.fcc = chip.fcc /\ chip'.near = chip.near
      /\ chip'.cfg => chip'.sec = 1
      /\ chip'.sec = 1 => chip'.std # Fields!Factory
      /\ chip'.std = Fields!Factory <=> chip.std = Fields!Factory
  <2>1. CASE chip' = chip
    BY <1>1, <2>1
  <2>2. CASE chip' # chip
    <3>1. PICK seals \in BOOLEAN :
            /\ chip.cfg
            /\ chip' = [chip EXCEPT !.cfg = FALSE, !.std = chip.fcc, !.sec = IF seals THEN 3 ELSE 1]
      BY <2>2 DEF Fields!FccExit, Fields!Exited
    <3>5. PICK x \in {IF seals THEN 3 ELSE 1} : chip' = [chip EXCEPT !.cfg = FALSE, !.std = chip.fcc, !.sec = x]
      BY <3>1
    <3>6. x \in 1 .. 3
      BY <3>5
    <3>7. PICK y \in 1 .. 3 : chip' = [chip EXCEPT !.cfg = FALSE, !.std = chip.fcc, !.sec = y]
      BY <3>5, <3>6
    <3>2. /\ chip' \in FieldChips /\ chip'.lim = chip.lim /\ chip'.fcc = chip.fcc /\ chip'.near = chip.near
          /\ chip'.std = chip.fcc /\ ~chip'.cfg
      BY <1>1, <3>7 DEF FieldChips
    <3>3. QED BY <1>1, <3>1, <3>2
  <2>3. QED BY <2>1, <2>2
<1>4. Ahead \cup Current \subseteq Ahead'
  BY <1>1, <1>2 DEF Ahead, Current, RepairFlags
<1>5. op.j.backup => op.j.fcc # 0 /\ (chip.std = Fields!Factory \/ op.j.fcc = seen.fcc)
  BY <1>1 DEF FieldsInv, BackedUp
<1>6. FieldTyped' /\ InOrder' /\ BackedUp' /\ Noted'
  BY <1>1, <1>2, <1>3, <1>4, <1>5, FieldsTurn DEF Backs, Opens, RepairOpening, RepairFlags, Repairs
<1>7. Emptied' /\ Confirmed' /\ Based'
  BY <1>1, <1>2, <1>3 DEF FieldsInv, Emptied, Based, Confirmed, Checked, Shutting, Limited
<1>8. Fields!RepairOnRecord' /\ Fields!VerifiedIsTrue' /\ Fields!NearOnRecord'
  BY <1>2, <1>3 DEF FieldsInv, Fields!RepairOnRecord, Fields!VerifiedIsTrue, Fields!NearOnRecord
<1>9. QED BY <1>2, <1>3, <1>6, <1>7, <1>8 DEF FieldsInv, FieldsType

LEMMA FieldsSeal == ASSUME FieldsInv, Fields!FccSeal PROVE FieldsInv'
<1>1. /\ op \in FieldOps /\ op.at = "do" /\ op.flag = "Seal" /\ op.j \in RepairJournals /\ chip \in FieldChips
      /\ op.at \in Repairs \ {"final"} /\ op.good \in BOOLEAN
      /\ chip.cfg => chip.sec = 1
  BY DEF FieldsInv, FieldsType, FieldTyped, Fields!FccSeal, Fields!Do, Fields!At, Repairs, Emptied, FieldOps
<1>2. /\ op' \in FieldOps /\ op'.at = "verify" /\ op'.j = op.j /\ (op'.good => op.good)
      /\ nvs' = nvs /\ seen' = seen
  <2>1. Fields!Go("verify") \in FieldOps /\ Fields!Go("verify").at = "verify" /\ Fields!Go("verify").j = op.j /\ Fields!Go("verify").good = op.good
    BY <1>1, FieldsGo DEF Repairs
  <2>2. PICK a \in {Fields!Go("verify")}, ok \in BOOLEAN : op' = [a EXCEPT !.good = @ /\ ok]
    BY DEF Fields!FccSeal
  <2>3. QED BY <1>1, <2>1, <2>2 DEF FieldOps, Fields!FccSeal
<1>3. /\ chip' \in FieldChips /\ chip'.lim = chip.lim /\ chip'.fcc = chip.fcc /\ chip'.near = chip.near
      /\ chip'.std = chip.std /\ (chip'.cfg => chip'.sec = 1) /\ (chip'.sec = 1 => chip.sec = 1)
  BY <1>1 DEF Fields!FccSeal, FieldChips
<1>4. Ahead \cup Current \subseteq Ahead'
  BY <1>1, <1>2 DEF Ahead, Current, RepairFlags
<1>5. op.j.backup => op.j.fcc # 0 /\ (chip.std = Fields!Factory \/ op.j.fcc = seen.fcc)
  BY <1>1 DEF FieldsInv, BackedUp
<1>6. FieldTyped' /\ InOrder' /\ BackedUp' /\ Noted'
  BY <1>1, <1>2, <1>3, <1>4, <1>5, FieldsTurn DEF Backs, Opens, Repairs
<1>7. Emptied' /\ Confirmed' /\ Based'
  BY <1>1, <1>2, <1>3 DEF FieldsInv, Emptied, Based, Confirmed, Checked, Shutting, Limited
<1>8. Fields!RepairOnRecord' /\ Fields!VerifiedIsTrue' /\ Fields!NearOnRecord'
  BY <1>2, <1>3 DEF FieldsInv, Fields!RepairOnRecord, Fields!VerifiedIsTrue, Fields!NearOnRecord
<1>9. QED BY <1>2, <1>3, <1>6, <1>7, <1>8 DEF FieldsInv, FieldsType

LEMMA FieldsVerify == ASSUME FieldsInv, Fields!FccVerify PROVE FieldsInv'
<1>1. /\ op \in FieldOps /\ op.at = "verify" /\ op.j \in RepairJournals /\ UNCHANGED <<chip, nvs, seen>>
      /\ op.at \in Repairs /\ op.good \in BOOLEAN
  BY DEF FieldsInv, FieldsType, FieldTyped, Fields!FccVerify, Fields!At, Repairs, FieldOps
<1>2. /\ op' \in FieldOps /\ op'.at = "final"
      /\ op'.j \in RepairJournals /\ op'.j.intents = op.j.intents /\ op'.j.backup = op.j.backup /\ op'.j.fcc = op.j.fcc
      /\ op'.j.state = "Verified" => op.good
  <2>1. Fields!Go("final") \in FieldOps /\ Fields!Go("final").at = "final" /\ Fields!Go("final").j = op.j
    BY <1>1, FieldsGo DEF Repairs
  <2>2. PICK a \in {Fields!Go("final")}, ok \in BOOLEAN :
          (ok => op.good) /\ op' = [a EXCEPT !.j.state = IF ok THEN "Verified" ELSE "Failed"]
    BY DEF Fields!FccVerify
  <2>3. QED BY <1>1, <2>1, <2>2 DEF FieldOps, RepairJournals
<1>3. FieldTyped' /\ Noted'
  BY <1>2 DEF FieldTyped, Noted, Repairs, Nears
<1>4. Ahead \cup Current = Ahead' /\ Current' = {} /\ Stored' = Stored
  BY <1>1, <1>2 DEF Ahead, Current, Stored
<1>5. InOrder'
  BY <1>1, <1>2, <1>4 DEF FieldsInv, InOrder, Repairs, Current
<1>6. BackedUp'
  BY <1>1, <1>2 DEF FieldsInv, BackedUp, Backs, Opens
<1>7. Confirmed'
  BY <1>1, <1>2 DEF FieldsInv, Confirmed, Checked, Shutting, Limited
<1>8. QED BY <1>1, <1>2, <1>3, <1>5, <1>6, <1>7, FieldsQuiet DEF FieldsInv, FieldsType

LEMMA FieldsFinal == ASSUME FieldsInv, Fields!FccFinal PROVE FieldsInv'
<1>1. /\ nvs \in FieldStores /\ op.at = "final" /\ op.j \in RepairJournals /\ UNCHANGED <<chip, seen>> /\ op.at \in Repairs
  BY DEF FieldsInv, FieldsType, FieldTyped, Fields!FccFinal, Fields!At, Repairs
<1>2. /\ op' \in FieldOps /\ op'.at = "idle" /\ nvs' \in FieldStores /\ nvs'.near = nvs.near
      /\ nvs' = nvs \/ nvs'.fcc = op.j
  BY <1>1 DEF Fields!FccFinal, Fields!Store, FieldOps, Fields!Idle, FieldStores
<1>3. FieldTyped' /\ BackedUp' /\ Noted' /\ Confirmed' /\ Emptied'
  BY <1>1, <1>2 DEF FieldTyped, BackedUp, Noted, Confirmed, Checked, Shutting, Repairs, Nears, Emptied, FieldsInv
<1>4. CASE nvs' = nvs
  <2>1. InOrder'
    BY <1>1, <1>2, <1>4 DEF InOrder, FieldsInv, Repairs, Stored
  <2>2. QED BY <1>1, <1>2, <1>3, <1>4, <2>1, FieldsQuiet DEF FieldsInv, FieldsType
<1>5. CASE nvs'.fcc = op.j
  <2>1. /\ seen.sent \subseteq Stored /\ Stored \subseteq op.j.intents /\ nvs.fcc # Fields!None
        /\ nvs.fcc.backup => op.j.backup /\ op.j.fcc = nvs.fcc.fcc
    BY <1>1 DEF FieldsInv, InOrder
  <2>2. nvs'.fcc # Fields!None /\ Stored = nvs.fcc.intents
    BY <1>1, <1>5, <2>1 DEF Fields!None, RepairJournals, Stored
  <2>3. InOrder'
    BY <1>1, <1>2, <1>5, <2>1, <2>2 DEF InOrder, Repairs, Stored
  <2>4. Based' /\ Fields!RepairOnRecord' /\ Fields!NearOnRecord'
    BY <1>1, <1>2, <1>5, <2>1, <2>2 DEF FieldsInv, Based, Fields!RepairOnRecord, Fields!NearOnRecord
  <2>5. Fields!VerifiedIsTrue'
    BY <1>1, <1>5 DEF FieldsInv, Confirmed, Checked, Limited, Fields!VerifiedIsTrue
  <2>6. QED BY <1>1, <1>2, <1>3, <2>3, <2>4, <2>5 DEF FieldsInv, FieldsType
<1>6. QED BY <1>2, <1>4, <1>5

\* nothing is on record of a repair that has not begun
LEMMA FieldsAsked == ASSUME FieldsInv, Fields!FccRepair PROVE FieldsInv'
<1>1. /\ op \in FieldOps /\ op.at = "idle" /\ nvs.fcc = Fields!None /\ UNCHANGED <<chip, nvs, seen>>
  BY DEF FieldsInv, FieldsType, Fields!FccRepair, Fields!At, Fields!Absent
<1>2. Fields!NoJournal \in RepairJournals /\ Fields!NoJournal.intents = {} /\ Fields!NoJournal.state = "Pending" /\ ~Fields!NoJournal.backup
  BY DEF Fields!NoJournal, RepairJournals
<1>3. op' \in FieldOps /\ op'.at = "intent" /\ op'.flag = "Unseal" /\ op'.j = Fields!NoJournal
  <2>1. Fields!Ask("Unseal") \in FieldOps /\ Fields!Ask("Unseal").at = "intent" /\ Fields!Ask("Unseal").flag = "Unseal"
    BY <1>1, FieldsAsk DEF RepairFlags
  <2>2. PICK a \in {Fields!Ask("Unseal")} : op' = [a EXCEPT !.j = Fields!NoJournal]
    BY DEF Fields!FccRepair
  <2>3. QED BY <1>2, <2>1, <2>2 DEF FieldOps
<1>4. FieldTyped' /\ Noted' /\ Confirmed'
  BY <1>2, <1>3 DEF FieldTyped, Noted, Confirmed, Checked, Shutting, Repairs, Nears, RepairFlags
<1>5. InOrder'
  BY <1>1, <1>2, <1>3 DEF FieldsInv, InOrder, Stored, Current, Repairs
<1>6. BackedUp'
  BY <1>2, <1>3 DEF BackedUp, Backs
<1>7. QED BY <1>1, <1>3, <1>4, <1>5, <1>6, FieldsQuiet DEF FieldsInv, FieldsType

LEMMA FieldsIntent == ASSUME FieldsInv, Fields!Intent PROVE FieldsInv'
<1> DEFINE j == [op.j EXCEPT !.intents = @ \cup {op.flag}]
<1>1. /\ op \in FieldOps /\ nvs \in FieldStores /\ op.at = "intent" /\ op.j \in RepairJournals /\ UNCHANGED <<chip, seen>>
      /\ op.flag \in RepairFlags /\ op.at \in Repairs /\ chip \in FieldChips /\ seen \in FieldHistories
  BY DEF FieldsInv, FieldsType, FieldTyped, Fields!Intent, Fields!At, Repairs
<1>2. /\ j \in RepairJournals /\ j.intents = op.j.intents \cup {op.flag} /\ j.state = op.j.state
      /\ j.full = op.j.full /\ j.backup = op.j.backup /\ j.fcc = op.j.fcc
  BY <1>1 DEF RepairJournals
<1>3. /\ nvs' \in FieldStores /\ nvs'.near = nvs.near
      /\ nvs' = nvs \/ nvs'.fcc = j
  BY <1>1, <1>2 DEF Fields!Intent, Fields!Store, FieldStores
<1>4. /\ seen.sent \subseteq Stored /\ seen.sent \subseteq Ahead /\ Stored \subseteq op.j.intents
      /\ op.j.intents \subseteq Ahead
      /\ nvs.fcc = Fields!None <=> op.flag = "Unseal"
      /\ nvs.fcc # Fields!None => nvs.fcc.state = "Pending" /\ (nvs.fcc.backup => op.j.backup /\ op.j.fcc = nvs.fcc.fcc)
      /\ op.j.state = "Pending" /\ j # Fields!None
  BY <1>1, <1>2 DEF FieldsInv, InOrder, Current, Fields!None
<1>5. /\ op' \in FieldOps
      /\ \/ op'.at = "idle"
         \/ op'.j = j /\ nvs'.fcc = j /\ op'.at = "do" /\ op'.flag = op.flag /\ op'.good = op.good /\ op.flag # "TargetVerified"
         \/ op'.j = j /\ nvs'.fcc = j /\ op'.at = "intent" /\ op'.flag = "Exit" /\ op'.good = op.good /\ op.flag = "TargetVerified"
         \/ op'.j = j /\ op'.at = "intent" /\ op'.flag = "Exit" /\ ~op'.good /\ op.flag \in {"RestoreConfig", "RestoreFcc"}
         \/ op'.j = j /\ op'.at = "do" /\ op'.flag = op.flag /\ ~op'.good /\ op.flag \in {"Exit", "Seal"}
         \/ op'.j = j /\ op'.at = "roll" /\ ~op'.good /\ op.flag \in RepairFlags \ {"Unseal", "RestoreConfig", "RestoreFcc", "Exit", "Seal"}
  <2>1. /\ Fields!Go("do") \in FieldOps /\ Fields!Go("do").at = "do" /\ Fields!Go("do").flag = op.flag /\ Fields!Go("do").good = op.good
        /\ Fields!Go("roll") \in FieldOps /\ Fields!Go("roll").at = "roll"
    BY <1>1, FieldsGo DEF Repairs
  <2>2. Fields!Ask("Exit") \in FieldOps /\ Fields!Ask("Exit").at = "intent" /\ Fields!Ask("Exit").flag = "Exit" /\ Fields!Ask("Exit").good = op.good
    BY <1>1, FieldsAsk DEF RepairFlags
  <2>3. ASSUME NEW a \in FieldOps
        PROVE  /\ [a EXCEPT !.j = j] \in FieldOps /\ [a EXCEPT !.j = j].at = a.at /\ [a EXCEPT !.j = j].flag = a.flag
               /\ [a EXCEPT !.j = j].good = a.good /\ [a EXCEPT !.j = j].j = j
               /\ [a EXCEPT !.good = FALSE] \in FieldOps /\ [a EXCEPT !.good = FALSE].at = a.at
               /\ [a EXCEPT !.good = FALSE].flag = a.flag /\ ~[a EXCEPT !.good = FALSE].good
    BY <1>2 DEF FieldOps
  <2>4. [Fields!Idle EXCEPT !.j = Fields!None] \in FieldOps /\ [Fields!Idle EXCEPT !.j = Fields!None].at = "idle"
    BY DEF FieldOps, Fields!Idle
  <2>5. CASE /\ nvs'.fcc = j
             /\ op' = IF op.flag = "TargetVerified" THEN [Fields!Ask("Exit") EXCEPT !.j = j] ELSE [Fields!Go("do") EXCEPT !.j = j]
    BY <2>1, <2>2, <2>3, <2>5
  <2>6. CASE op' = [Fields!Unstored EXCEPT !.j = IF op.flag = "Unseal" THEN Fields!None ELSE j]
    <3>1. CASE op.flag = "Unseal"
      BY <2>4, <2>6, <3>1 DEF Fields!Unstored
    <3>2. CASE op.flag \in {"RestoreConfig", "RestoreFcc"}
      <4>1. op' = [[Fields!Ask("Exit") EXCEPT !.good = FALSE] EXCEPT !.j = j]
        BY <2>6, <3>2 DEF Fields!Unstored
      <4>2. QED BY <2>2, <2>3, <3>2, <4>1
    <3>3. CASE op.flag \in {"Exit", "Seal"}
      <4>1. op' = [[Fields!Go("do") EXCEPT !.good = FALSE] EXCEPT !.j = j]
        BY <2>6, <3>3 DEF Fields!Unstored
      <4>2. QED BY <2>1, <2>3, <3>3, <4>1
    <3>4. CASE op.flag \in RepairFlags \ {"Unseal", "RestoreConfig", "RestoreFcc", "Exit", "Seal"}
      <4>1. op' = [[Fields!Go("roll") EXCEPT !.good = FALSE] EXCEPT !.j = j]
        BY <2>6, <3>4 DEF Fields!Unstored
      <4>2. QED BY <2>1, <2>3, <3>4, <4>1
    <3>5. QED BY <1>1, <3>1, <3>2, <3>3, <3>4
  <2>7. QED BY <1>1, <1>2, <2>5, <2>6 DEF Fields!Intent, Fields!Store, FieldStores
<1>6. FieldTyped' /\ Noted'
  BY <1>1, <1>2, <1>5 DEF FieldTyped, Noted, Repairs, Nears, RepairFlags
<1>7. Confirmed'
  BY <1>1, <1>2, <1>4, <1>5 DEF FieldsInv, Confirmed, Checked, Shutting, Limited
<1>8. op'.at # "idle" => op.j.intents \cup {op.flag} \subseteq Ahead' \cup Current' /\ Ahead \subseteq Ahead'
  BY <1>1, <1>4, <1>5 DEF Ahead, Current, RepairOpening, Forward, RepairFlags
<1>9. seen.sent \subseteq Stored'
  BY <1>2, <1>3, <1>4 DEF Stored
<1>10. op'.at # "idle" => op'.j = j /\ nvs'.fcc # Fields!None /\ Stored' \subseteq j.intents
  BY <1>2, <1>3, <1>4, <1>5 DEF Stored
<1>11. InOrder'
  BY <1>1, <1>2, <1>3, <1>4, <1>5, <1>8, <1>9, <1>10 DEF InOrder, Repairs
<1>12. BackedUp'
  BY <1>1, <1>2, <1>5 DEF FieldsInv, BackedUp, Backs, Opens, RepairOpening, Repairs
<1>13. Fields!VerifiedIsTrue' /\ Fields!NearOnRecord' /\ Emptied'
  BY <1>1, <1>2, <1>3, <1>4 DEF FieldsInv, Fields!VerifiedIsTrue, Fields!NearOnRecord, Emptied
<1>14. Based' /\ Fields!RepairOnRecord'
  <2>1. nvs.fcc # Fields!None => nvs.fcc.intents \subseteq j.intents /\ (nvs.fcc.backup => j.backup /\ j.fcc = nvs.fcc.fcc)
    BY <1>2, <1>4 DEF Stored
  <2>2. QED BY <1>1, <1>3, <1>4, <2>1 DEF FieldsInv, Based, Fields!RepairOnRecord
<1>15. QED BY <1>1, <1>3, <1>5, <1>6, <1>7, <1>11, <1>12, <1>13, <1>14 DEF FieldsInv, FieldsType

\* a step of the threshold's operations leaves the repair as it is
LEMMA FieldsNear ==
  ASSUME FieldsInv, op.at \in {"idle"} \cup Nears, op' \in FieldOps, op'.at \in {"idle"} \cup Nears,
         op'.at \in Nears => /\ op'.j = Fields!None \/ op'.j \in Thresholds
                             /\ op'.want \in {Fields!Normal, Fields!Early} /\ op'.flag \in {"set", "restore"}
                             /\ op'.flag = "restore" => op'.want = Fields!Normal,
         op'.at \in {"n-roll", "n-save", "n-enter", "n-write", "n-after"} => op'.was \in {Fields!Normal, Fields!Early},
         nvs' \in FieldStores, nvs'.fcc = nvs.fcc, seen' \in FieldHistories, seen'.sent = seen.sent,
         seen'.replay = seen.replay, seen'.fcc = seen.fcc,
         "limit" \in seen'.cold <=> "limit" \in seen.cold,
         chip' \in FieldChips, chip'.lim = chip.lim, chip'.fcc = chip.fcc,
         chip'.std = Fields!Factory <=> chip.std = Fields!Factory,
         chip'.sec = 1 => chip'.std # Fields!Factory, chip'.cfg => chip'.sec = 1,
         Noted', Fields!NearOnRecord'
  PROVE FieldsInv'
<1>1. FieldTyped'
  BY DEF FieldTyped, Repairs, Nears
<1>2. Emptied'
  BY DEF FieldsInv, Emptied
<1>3. InOrder' /\ BackedUp' /\ Confirmed'
  BY DEF FieldsInv, InOrder, BackedUp, Confirmed, Checked, Shutting, Repairs, Nears, Stored
<1>4. Based' /\ Fields!RepairOnRecord' /\ Fields!VerifiedIsTrue'
  BY DEF FieldsInv, Based, Fields!RepairOnRecord, Fields!VerifiedIsTrue
<1>5. QED BY <1>1, <1>2, <1>3, <1>4 DEF FieldsInv, FieldsType

\* what such a step starts from
LEMMA FieldsAtNear ==
  ASSUME FieldsInv, NEW a \in Nears, Fields!At(a)
  PROVE /\ op \in FieldOps /\ op.at = a /\ (op.j = Fields!None \/ op.j \in Thresholds)
        /\ op.want \in {Fields!Normal, Fields!Early} /\ op.flag \in {"set", "restore"}
        /\ op.flag = "restore" => op.want = Fields!Normal
        /\ a \in {"n-roll", "n-save", "n-enter", "n-write", "n-after"} => op.was \in {Fields!Normal, Fields!Early}
        /\ chip \in FieldChips /\ nvs \in FieldStores /\ seen \in FieldHistories
        /\ chip.cfg => chip.sec = 1
        /\ chip.sec = 1 => chip.std # Fields!Factory
        /\ chip.std = Fields!Factory <=> chip.fcc = Fields!Factory
BY DEF FieldsInv, FieldsType, FieldTyped, Fields!At, Emptied

LEMMA FieldsNearAsk == ASSUME FieldsInv, Fields!NearAsk PROVE FieldsInv'
<1>1. /\ op \in FieldOps /\ op.at = "idle" /\ UNCHANGED <<chip, nvs, seen>> /\ nvs \in FieldStores
  BY DEF FieldsInv, FieldsType, Fields!NearAsk, Fields!At
<1>2. Fields!Go("n-open") \in FieldOps /\ Fields!Go("n-open").at = "n-open"
  BY <1>1, FieldsGo DEF Nears
<1>3. /\ op' \in FieldOps /\ op'.at = "n-open" /\ op'.j = nvs.near /\ op'.want \in {Fields!Normal, Fields!Early}
      /\ op'.flag \in {"set", "restore"} /\ (op'.flag = "restore" => op'.want = Fields!Normal)
  <2>1. PICK a \in {Fields!Go("n-open")} :
          \/ \E want, was \in {Fields!Normal, Fields!Early} :
               op' = [a EXCEPT !.flag = "set", !.j = nvs.near, !.want = want, !.was = was]
          \/ op' = [a EXCEPT !.flag = "restore", !.j = nvs.near, !.want = Fields!Normal]
    BY DEF Fields!NearAsk
  <2>2. nvs.near \in {Fields!None} \cup Thresholds
    BY <1>1 DEF FieldStores
  <2>3. CASE op' = [a EXCEPT !.flag = "restore", !.j = nvs.near, !.want = Fields!Normal]
    BY <1>2, <2>1, <2>2, <2>3 DEF FieldOps
  <2>4. ASSUME NEW want \in {Fields!Normal, Fields!Early}, NEW was \in {Fields!Normal, Fields!Early},
               op' = [a EXCEPT !.flag = "set", !.j = nvs.near, !.want = want, !.was = was]
        PROVE  /\ op' \in FieldOps /\ op'.at = "n-open" /\ op'.j = nvs.near /\ op'.want = want /\ op'.flag = "set"
    BY <1>2, <2>1, <2>2, <2>4 DEF FieldOps
  <2>5. QED BY <2>1, <2>3, <2>4
<1>4. Noted' /\ Fields!NearOnRecord' /\ nvs.near \in {Fields!None} \cup Thresholds
  BY <1>1, <1>3, FieldsQuiet DEF Noted, FieldStores, Fields!NearAsk, Fields!Sealed, Fields!Target, Fields!Factory
<1>5. QED BY <1>1, <1>3, <1>4, FieldsNear, FieldsQuiet DEF Nears, FieldsInv, FieldsType, Emptied

LEMMA FieldsNearOpen == ASSUME FieldsInv, Fields!NearOpen PROVE FieldsInv'
<1>1. /\ op \in FieldOps /\ op.at = "n-open" /\ chip \in FieldChips /\ UNCHANGED <<nvs, seen>>
  BY FieldsAtNear DEF Fields!NearOpen, Nears
<1>2. Fields!Go("n-before") \in FieldOps /\ Fields!Go("n-before").at = "n-before" /\ Fields!Go("n-before").j = op.j
      /\ Fields!Go("n-before").flag = op.flag /\ Fields!Go("n-before").want = op.want
  BY <1>1, FieldsGo DEF Nears
<1>3. op' \in FieldOps /\ (op' = Fields!Go("n-before") \/ op'.at = "idle")
  BY <1>1, <1>2, FieldsIdle DEF Fields!NearOpen
<1>4. /\ chip' \in FieldChips /\ chip'.lim = chip.lim /\ chip'.fcc = chip.fcc /\ chip'.near = chip.near
      /\ chip'.std = chip.std /\ chip'.cfg = FALSE
      /\ chip'.sec = 1 => chip.sec \in {1, 3}
  <2>1. ~chip.cfg
    BY <1>1 DEF FieldsInv, Noted
  <2>2. PICK s \in 1 .. 3 : chip' = [chip EXCEPT !.sec = s] /\ (s = 1 => chip.sec \in {1, 3})
    BY <1>1 DEF Fields!NearOpen, FieldChips, Fields!Sealed
  <2>3. QED BY <1>1, <2>1, <2>2 DEF FieldChips
<1>5. /\ chip'.sec = 1 => chip.std # Fields!Factory
      /\ op.j = Fields!None \/ op.j \in Thresholds
      /\ op.want \in {Fields!Normal, Fields!Early} /\ op.flag \in {"set", "restore"} /\ (op.flag = "restore" => op.want = Fields!Normal)
  BY <1>1, <1>4, FieldsAtNear DEF FieldsInv, Noted, Nears, Fields!NearOpen
<1>6. Noted' /\ Fields!NearOnRecord'
  BY <1>1, <1>2, <1>3, <1>4 DEF Noted, FieldsInv, Fields!NearOnRecord
<1>7. QED BY <1>1, <1>2, <1>3, <1>4, <1>5, <1>6, FieldsNear DEF Nears, FieldsInv, FieldsType

LEMMA FieldsNearBefore == ASSUME FieldsInv, Fields!NearBefore PROVE FieldsInv'
<1>1. /\ op \in FieldOps /\ op.at = "n-before" /\ chip \in FieldChips /\ UNCHANGED <<chip, nvs, seen>>
      /\ (op.j = Fields!None \/ op.j \in Thresholds)
      /\ op.want \in {Fields!Normal, Fields!Early} /\ op.flag \in {"set", "restore"} /\ (op.flag = "restore" => op.want = Fields!Normal)
  BY FieldsAtNear DEF Fields!NearBefore, Nears
<1>2. /\ op' \in FieldOps /\ op'.flag = op.flag /\ op'.want = op.want
      /\ \/ op'.at = "n-close" /\ ~op'.good /\ op'.j = op.j
         \/ /\ op'.at = "n-save" /\ op'.was = chip.near /\ op'.j \in Thresholds
            /\ op'.j.state = "Pending" /\ op'.j.target = op.want
  <2>1. /\ Fields!Go("n-close") \in FieldOps /\ Fields!Go("n-close").at = "n-close" /\ Fields!Go("n-close").j = op.j
        /\ Fields!Go("n-close").flag = op.flag /\ Fields!Go("n-close").want = op.want
        /\ Fields!Go("n-save") \in FieldOps /\ Fields!Go("n-save").at = "n-save"
        /\ Fields!Go("n-save").flag = op.flag /\ Fields!Go("n-save").want = op.want
    BY <1>1, FieldsGo DEF Nears
  <2>2. PICK a \in {Fields!Go("n-close")}, b \in {Fields!Go("n-save")} :
          \/ op' = [a EXCEPT !.good = FALSE]
          \/ op' = [b EXCEPT !.was = chip.near, !.j = [state |-> "Pending", target |-> op.want]]
    BY DEF Fields!NearBefore
  <2>3. chip.near \in {Fields!Normal, Fields!Early} /\ [state |-> "Pending", target |-> op.want] \in Thresholds
    BY <1>1 DEF FieldChips, Thresholds
  <2>4. CASE op' = [a EXCEPT !.good = FALSE]
    BY <2>1, <2>2, <2>4, FieldsFail
  <2>5. CASE op' = [b EXCEPT !.was = chip.near, !.j = [state |-> "Pending", target |-> op.want]]
    BY <2>1, <2>2, <2>3, <2>5 DEF FieldOps
  <2>6. QED BY <2>2, <2>4, <2>5
<1>3. Noted' /\ chip.near \in {Fields!Normal, Fields!Early}
  BY <1>1, <1>2 DEF Noted, Fields!None, Thresholds, FieldChips
<1>4. QED BY <1>1, <1>2, <1>3, FieldsNear, FieldsQuiet DEF Nears, FieldsInv, FieldsType, Emptied

LEMMA FieldsNearSave == ASSUME FieldsInv, Fields!NearSave PROVE FieldsInv'
<1>1. /\ op \in FieldOps /\ op.at = "n-save" /\ chip \in FieldChips /\ nvs \in FieldStores /\ seen \in FieldHistories /\ chip' = chip
      /\ op.want \in {Fields!Normal, Fields!Early} /\ op.flag \in {"set", "restore"} /\ (op.flag = "restore" => op.want = Fields!Normal)
      /\ op.was \in {Fields!Normal, Fields!Early} /\ (op.j = Fields!None \/ op.j \in Thresholds)
  BY FieldsAtNear DEF Fields!NearSave, Nears
<1>2. op.j \in Thresholds /\ op.j # Fields!None /\ op.j.state = "Pending" /\ op.j.target = op.want
  BY <1>1 DEF FieldsInv, Noted
<1>3. /\ nvs' \in FieldStores /\ nvs'.fcc = nvs.fcc
      /\ op' \in FieldOps /\ op'.flag = op.flag /\ op'.want = op.want /\ op'.j = op.j
      /\ nvs'.near = nvs.near \/ nvs'.near = op.j
      /\ \/ op'.at = "n-enter" /\ nvs'.near = op.j /\ op'.was = op.was
         \/ op'.at = "n-close" /\ ~op'.good
  <2>1. /\ Fields!Go("n-close") \in FieldOps /\ Fields!Go("n-close").at = "n-close" /\ Fields!Go("n-close").j = op.j
        /\ Fields!Go("n-close").flag = op.flag /\ Fields!Go("n-close").want = op.want
        /\ Fields!Go("n-enter") \in FieldOps /\ Fields!Go("n-enter").at = "n-enter" /\ Fields!Go("n-enter").j = op.j
        /\ Fields!Go("n-enter").flag = op.flag /\ Fields!Go("n-enter").want = op.want /\ Fields!Go("n-enter").was = op.was
    BY <1>1, FieldsGo DEF Nears
  <2>2. PICK a \in {Fields!Go("n-close")}, b \in {Fields!Go("n-enter")}, r \in {"ok", "unsure", "lost"} :
          /\ op' = IF r = "ok" THEN b ELSE [a EXCEPT !.good = FALSE]
          /\ nvs' = IF r = "lost" THEN nvs ELSE [nvs EXCEPT !.near = op.j]
    BY DEF Fields!NearSave, Fields!Store
  <2>3. nvs' \in FieldStores /\ nvs'.fcc = nvs.fcc /\ nvs'.near = IF r = "lost" THEN nvs.near ELSE op.j
    BY <1>1, <1>2, <2>2 DEF FieldStores
  <2>4. QED BY <1>1, <2>1, <2>2, <2>3, FieldsFail
<1>4. /\ seen' \in FieldHistories /\ seen'.sent = seen.sent /\ seen'.replay = seen.replay /\ seen'.fcc = seen.fcc
      /\ "limit" \in seen'.cold <=> "limit" \in seen.cold
      /\ seen'.cold = IF nvs' # nvs THEN seen.cold \ {"near"} ELSE seen.cold
  BY <1>1 DEF Fields!NearSave, FieldHistories
<1>5. Noted'
  BY <1>1, <1>2, <1>3 DEF Noted
<1>6. Fields!NearOnRecord'
  BY <1>1, <1>2, <1>3, <1>4 DEF Fields!NearOnRecord, FieldsInv, FieldStores
<1>7. QED BY <1>1, <1>2, <1>3, <1>4, <1>5, <1>6, FieldsNear DEF Nears, FieldsInv, FieldsType, Emptied

LEMMA FieldsNearEnter == ASSUME FieldsInv, Fields!NearEnter PROVE FieldsInv'
<1>1. /\ op \in FieldOps /\ op.at = "n-enter" /\ chip \in FieldChips /\ UNCHANGED <<nvs, seen>> /\ nvs \in FieldStores
      /\ op.want \in {Fields!Normal, Fields!Early} /\ op.flag \in {"set", "restore"} /\ (op.flag = "restore" => op.want = Fields!Normal)
      /\ (op.j = Fields!None \/ op.j \in Thresholds) /\ (op.at \in {"n-enter", "n-write", "n-after"} => op.was \in {Fields!Normal, Fields!Early})
      /\ chip.cfg => chip.sec = 1
      /\ chip.sec = 1 => chip.std # Fields!Factory
      /\ chip.std = Fields!Factory <=> chip.fcc = Fields!Factory
      /\ op.at = "n-roll" => op.was \in {Fields!Normal, Fields!Early}
  BY FieldsAtNear DEF Fields!NearEnter, Nears
<1>2. /\ op' \in FieldOps /\ op'.flag = op.flag /\ op'.want = op.want /\ op'.j = op.j /\ op'.was = op.was
      /\ op'.at = "n-write" \/ (op'.at = "n-exit" /\ ~op'.good)
  <2>1. /\ Fields!Go("n-write") \in FieldOps /\ Fields!Go("n-write").at = "n-write" /\ Fields!Go("n-write").j = op.j /\ Fields!Go("n-write").flag = op.flag
        /\ Fields!Go("n-write").want = op.want /\ Fields!Go("n-write").was = op.was /\ Fields!Go("n-write").good = op.good
        /\ Fields!Go("n-exit") \in FieldOps /\ Fields!Go("n-exit").at = "n-exit" /\ Fields!Go("n-exit").j = op.j /\ Fields!Go("n-exit").flag = op.flag
        /\ Fields!Go("n-exit").want = op.want /\ Fields!Go("n-exit").was = op.was /\ Fields!Go("n-exit").good = op.good
    BY <1>1, FieldsGo DEF Nears
  <2>2. PICK a \in {Fields!Go("n-exit")} : op' = Fields!Go("n-write") \/ op' = [a EXCEPT !.good = FALSE]
    BY DEF Fields!NearEnter
  <2>3. LET b == [a EXCEPT !.good = FALSE] IN
          /\ b \in FieldOps /\ b.at = a.at /\ b.flag = a.flag /\ b.j = a.j /\ b.want = a.want /\ b.was = a.was
          /\ ~b.good
    BY <2>1, <2>2, FieldsFail
  <2>4. QED BY <2>1, <2>2, <2>3
<1>3. /\ chip' \in FieldChips /\ chip'.lim = chip.lim /\ chip'.fcc = chip.fcc
      /\ chip'.near = chip.near /\ chip'.std = chip.std /\ chip'.sec = chip.sec /\ (chip'.cfg => chip.sec = 1)
  BY <1>1 DEF Fields!NearEnter, Fields!Entered, FieldChips
<1>4. Noted'
  BY <1>1, <1>2, <1>3 DEF Noted, FieldsInv
<1>5. Fields!NearOnRecord'
  BY <1>1, <1>2, <1>3 DEF Fields!NearOnRecord, FieldsInv
<1>6. QED BY <1>1, <1>2, <1>3, <1>4, <1>5, FieldsNear DEF Nears, FieldsInv, FieldsType, Emptied

LEMMA FieldsNearWrite == ASSUME FieldsInv, Fields!NearWrite PROVE FieldsInv'
<1>1. /\ op \in FieldOps /\ op.at = "n-write" /\ chip \in FieldChips /\ UNCHANGED <<nvs, seen>> /\ nvs \in FieldStores
      /\ op.want \in {Fields!Normal, Fields!Early} /\ op.flag \in {"set", "restore"} /\ (op.flag = "restore" => op.want = Fields!Normal)
      /\ (op.j = Fields!None \/ op.j \in Thresholds) /\ (op.at \in {"n-enter", "n-write", "n-after"} => op.was \in {Fields!Normal, Fields!Early})
      /\ chip.cfg => chip.sec = 1
      /\ chip.sec = 1 => chip.std # Fields!Factory
      /\ chip.std = Fields!Factory <=> chip.fcc = Fields!Factory
      /\ op.at = "n-roll" => op.was \in {Fields!Normal, Fields!Early}
  BY FieldsAtNear DEF Fields!NearWrite, Nears
<1>2. /\ op' \in FieldOps /\ op'.flag = op.flag /\ op'.want = op.want /\ op'.j = op.j /\ op'.was = op.was
      /\ op'.at = "n-after"
  <2>1. /\ Fields!Go("n-after") \in FieldOps /\ Fields!Go("n-after").at = "n-after" /\ Fields!Go("n-after").j = op.j /\ Fields!Go("n-after").flag = op.flag
        /\ Fields!Go("n-after").want = op.want /\ Fields!Go("n-after").was = op.was /\ Fields!Go("n-after").good = op.good
    BY <1>1, FieldsGo DEF Nears
  <2>2. PICK a \in {Fields!Go("n-after")}, ok \in BOOLEAN : op' = [a EXCEPT !.good = ok]
    BY DEF Fields!NearWrite
  <2>3. QED BY <2>1, <2>2 DEF FieldOps
<1>3. /\ chip' \in FieldChips /\ chip'.lim = chip.lim /\ chip'.fcc = chip.fcc
      /\ chip'.std = chip.std /\ chip'.sec = chip.sec /\ chip'.cfg = chip.cfg
  BY <1>1 DEF Fields!NearWrite, Fields!Written, FieldChips
<1>4. Noted'
  BY <1>1, <1>2, <1>3 DEF Noted, FieldsInv
<1>5. Fields!NearOnRecord'
  BY <1>1, <1>2, <1>3 DEF Fields!NearOnRecord, FieldsInv, Noted
<1>6. QED BY <1>1, <1>2, <1>3, <1>4, <1>5, FieldsNear DEF Nears, FieldsInv, FieldsType, Emptied

LEMMA FieldsNearAfter == ASSUME FieldsInv, Fields!NearAfter PROVE FieldsInv'
<1>1. /\ op \in FieldOps /\ op.at = "n-after" /\ chip \in FieldChips /\ UNCHANGED <<nvs, seen>> /\ nvs \in FieldStores
      /\ op.want \in {Fields!Normal, Fields!Early} /\ op.flag \in {"set", "restore"} /\ (op.flag = "restore" => op.want = Fields!Normal)
      /\ (op.j = Fields!None \/ op.j \in Thresholds) /\ (op.at \in {"n-enter", "n-write", "n-after"} => op.was \in {Fields!Normal, Fields!Early})
      /\ chip.cfg => chip.sec = 1
      /\ chip.sec = 1 => chip.std # Fields!Factory
      /\ chip.std = Fields!Factory <=> chip.fcc = Fields!Factory
      /\ op.at = "n-roll" => op.was \in {Fields!Normal, Fields!Early}
  BY FieldsAtNear DEF Fields!NearAfter, Nears
<1>2. /\ op' \in FieldOps /\ op'.flag = op.flag /\ op'.want = op.want /\ op'.j = op.j /\ op'.was = op.was
      /\ (op'.at = "n-exit" /\ chip.near = op.want) \/ (op'.at = "n-roll" /\ ~op'.good)
  <2>1. /\ Fields!Go("n-exit") \in FieldOps /\ Fields!Go("n-exit").at = "n-exit" /\ Fields!Go("n-exit").j = op.j /\ Fields!Go("n-exit").flag = op.flag
        /\ Fields!Go("n-exit").want = op.want /\ Fields!Go("n-exit").was = op.was /\ Fields!Go("n-exit").good = op.good
        /\ Fields!Go("n-roll") \in FieldOps /\ Fields!Go("n-roll").at = "n-roll" /\ Fields!Go("n-roll").j = op.j /\ Fields!Go("n-roll").flag = op.flag
        /\ Fields!Go("n-roll").want = op.want /\ Fields!Go("n-roll").was = op.was /\ Fields!Go("n-roll").good = op.good
    BY <1>1, FieldsGo DEF Nears
  <2>2. PICK a \in {Fields!Go("n-roll")} :
          (chip.near = op.want /\ op' = Fields!Go("n-exit")) \/ op' = [a EXCEPT !.good = FALSE]
    BY DEF Fields!NearAfter
  <2>3. LET b == [a EXCEPT !.good = FALSE] IN
          /\ b \in FieldOps /\ b.at = a.at /\ b.flag = a.flag /\ b.j = a.j /\ b.want = a.want /\ b.was = a.was
          /\ ~b.good
    BY <2>1, <2>2, FieldsFail
  <2>4. QED BY <2>1, <2>2, <2>3
<1>3. /\ chip' \in FieldChips /\ chip'.lim = chip.lim /\ chip'.fcc = chip.fcc
      /\ chip' = chip
  BY <1>1 DEF Fields!NearAfter
<1>4. Noted'
  BY <1>1, <1>2, <1>3 DEF Noted, FieldsInv
<1>5. Fields!NearOnRecord'
  BY <1>1, <1>2, <1>3 DEF Fields!NearOnRecord, FieldsInv
<1>6. QED BY <1>1, <1>2, <1>3, <1>4, <1>5, FieldsNear DEF Nears, FieldsInv, FieldsType, Emptied

LEMMA FieldsNearRoll == ASSUME FieldsInv, Fields!NearRoll PROVE FieldsInv'
<1>1. /\ op \in FieldOps /\ op.at = "n-roll" /\ chip \in FieldChips /\ UNCHANGED <<nvs, seen>> /\ nvs \in FieldStores
      /\ op.want \in {Fields!Normal, Fields!Early} /\ op.flag \in {"set", "restore"} /\ (op.flag = "restore" => op.want = Fields!Normal)
      /\ (op.j = Fields!None \/ op.j \in Thresholds) /\ (op.at \in {"n-enter", "n-write", "n-after"} => op.was \in {Fields!Normal, Fields!Early})
      /\ chip.cfg => chip.sec = 1
      /\ chip.sec = 1 => chip.std # Fields!Factory
      /\ chip.std = Fields!Factory <=> chip.fcc = Fields!Factory
      /\ op.at = "n-roll" => op.was \in {Fields!Normal, Fields!Early}
  BY FieldsAtNear DEF Fields!NearRoll, Nears
<1>2. /\ op' \in FieldOps /\ op'.flag = op.flag /\ op'.want = op.want /\ op'.j = op.j /\ op'.was = op.was
      /\ op'.at = "n-exit" /\ ~op'.good
  <2>1. /\ Fields!Go("n-exit") \in FieldOps /\ Fields!Go("n-exit").at = "n-exit" /\ Fields!Go("n-exit").j = op.j /\ Fields!Go("n-exit").flag = op.flag
        /\ Fields!Go("n-exit").want = op.want /\ Fields!Go("n-exit").was = op.was /\ Fields!Go("n-exit").good = op.good
    BY <1>1, FieldsGo DEF Nears
  <2>2. ~op.good
    BY <1>1 DEF FieldsInv, Noted
  <2>3. QED BY <2>1, <2>2 DEF Fields!NearRoll
<1>3. /\ chip' \in FieldChips /\ chip'.lim = chip.lim /\ chip'.fcc = chip.fcc
      /\ chip'.std = chip.std /\ chip'.sec = chip.sec /\ chip'.cfg = chip.cfg
  BY <1>1 DEF Fields!NearRoll, Fields!Written, FieldChips
<1>4. Noted'
  BY <1>1, <1>2, <1>3 DEF Noted, FieldsInv
<1>5. Fields!NearOnRecord'
  BY <1>1, <1>2, <1>3 DEF Fields!NearOnRecord, FieldsInv, Noted
<1>6. QED BY <1>1, <1>2, <1>3, <1>4, <1>5, FieldsNear DEF Nears, FieldsInv, FieldsType, Emptied

LEMMA FieldsNearExit == ASSUME FieldsInv, Fields!NearExit PROVE FieldsInv'
<1>1. /\ op \in FieldOps /\ op.at = "n-exit" /\ chip \in FieldChips /\ UNCHANGED <<nvs, seen>> /\ nvs \in FieldStores
      /\ op.want \in {Fields!Normal, Fields!Early} /\ op.flag \in {"set", "restore"} /\ (op.flag = "restore" => op.want = Fields!Normal)
      /\ (op.j = Fields!None \/ op.j \in Thresholds) /\ (op.at \in {"n-enter", "n-write", "n-after"} => op.was \in {Fields!Normal, Fields!Early})
      /\ chip.cfg => chip.sec = 1
      /\ chip.sec = 1 => chip.std # Fields!Factory
      /\ chip.std = Fields!Factory <=> chip.fcc = Fields!Factory
      /\ op.at = "n-roll" => op.was \in {Fields!Normal, Fields!Early}
  BY FieldsAtNear DEF Fields!NearExit, Nears
<1>2. /\ op' \in FieldOps /\ op'.flag = op.flag /\ op'.want = op.want /\ op'.j = op.j /\ op'.was = op.was
      /\ op'.at = "n-close" /\ (op'.good => op.good)
  <2>1. /\ Fields!Go("n-close") \in FieldOps /\ Fields!Go("n-close").at = "n-close" /\ Fields!Go("n-close").j = op.j /\ Fields!Go("n-close").flag = op.flag
        /\ Fields!Go("n-close").want = op.want /\ Fields!Go("n-close").was = op.was /\ Fields!Go("n-close").good = op.good
    BY <1>1, FieldsGo DEF Nears
  <2>2. PICK a \in {Fields!Go("n-close")}, ok \in BOOLEAN : op' = [a EXCEPT !.good = @ /\ ok]
    BY DEF Fields!NearExit
  <2>3. QED BY <1>1, <2>1, <2>2 DEF FieldOps
<1>3. /\ chip' \in FieldChips /\ chip'.lim = chip.lim /\ chip'.fcc = chip.fcc
      /\ chip'.near = chip.near
      /\ chip'.cfg => chip'.sec = 1
      /\ chip'.sec = 1 => chip'.std # Fields!Factory
      /\ chip'.std = Fields!Factory <=> chip.std = Fields!Factory
  <2>1. CASE chip' = chip
    BY <1>1, <2>1
  <2>2. CASE chip' # chip
    <3>1. PICK seals \in BOOLEAN :
            /\ chip.cfg
            /\ chip' = [chip EXCEPT !.cfg = FALSE, !.std = chip.fcc, !.sec = IF seals THEN 3 ELSE 1]
      BY <2>2 DEF Fields!NearExit, Fields!Exited, Fields!FullCfg
    <3>2. PICK x \in {IF seals THEN 3 ELSE 1} : chip' = [chip EXCEPT !.cfg = FALSE, !.std = chip.fcc, !.sec = x]
      BY <3>1
    <3>5. PICK y \in 1 .. 3 : chip' = [chip EXCEPT !.cfg = FALSE, !.std = chip.fcc, !.sec = y]
      <4>1. x \in 1 .. 3
        BY <3>2
      <4>2. QED BY <3>2, <4>1
    <3>3. /\ chip' \in FieldChips /\ chip'.lim = chip.lim /\ chip'.fcc = chip.fcc /\ chip'.near = chip.near
          /\ chip'.std = chip.fcc /\ ~chip'.cfg
      BY <1>1, <3>5 DEF FieldChips
    <3>4. QED BY <1>1, <3>1, <3>3
  <2>3. QED BY <2>1, <2>2
<1>4. Noted'
  BY <1>1, <1>2, <1>3 DEF Noted, FieldsInv
<1>5. Fields!NearOnRecord'
  BY <1>1, <1>2, <1>3 DEF Fields!NearOnRecord, FieldsInv
<1>6. QED BY <1>1, <1>2, <1>3, <1>4, <1>5, FieldsNear DEF Nears, FieldsInv, FieldsType, Emptied

LEMMA FieldsNearClose == ASSUME FieldsInv, Fields!NearClose PROVE FieldsInv'
<1>1. /\ op \in FieldOps /\ op.at = "n-close" /\ chip \in FieldChips /\ UNCHANGED <<nvs, seen>> /\ nvs \in FieldStores
      /\ op.want \in {Fields!Normal, Fields!Early} /\ op.flag \in {"set", "restore"} /\ (op.flag = "restore" => op.want = Fields!Normal)
      /\ (op.j = Fields!None \/ op.j \in Thresholds)
      /\ chip.cfg => chip.sec = 1
      /\ chip.sec = 1 => chip.std # Fields!Factory
  BY FieldsAtNear DEF Fields!NearClose, Nears
<1>2. /\ op' \in FieldOps
      /\ \/ op'.at = "idle"
         \/ /\ op'.at = "n-final" /\ op'.flag = op.flag /\ op'.want = op.want /\ op'.j = op.j /\ (op'.good => op.good)
            /\ op.j # Fields!None /\ op.j.state = "Pending"
  <2>1. /\ Fields!Go("n-final") \in FieldOps /\ Fields!Go("n-final").at = "n-final" /\ Fields!Go("n-final").j = op.j
        /\ Fields!Go("n-final").flag = op.flag /\ Fields!Go("n-final").want = op.want /\ Fields!Go("n-final").good = op.good
    BY <1>1, FieldsGo DEF Nears
  <2>2. PICK a \in {Fields!Go("n-final")}, n \in BOOLEAN :
          op' = IF op.j # Fields!None /\ op.j.state = "Pending" THEN [a EXCEPT !.good = @ /\ n] ELSE Fields!Idle
    BY DEF Fields!NearClose
  <2>3. LET b == [a EXCEPT !.good = @ /\ n] IN
          b \in FieldOps /\ b.at = a.at /\ b.flag = a.flag /\ b.want = a.want /\ b.j = a.j /\ (b.good => a.good)
    BY <2>1, <2>2 DEF FieldOps
  <2>4. QED BY <2>1, <2>2, <2>3, FieldsIdle
<1>3. /\ chip' \in FieldChips /\ chip'.lim = chip.lim /\ chip'.fcc = chip.fcc /\ chip'.near = chip.near
      /\ chip'.std = chip.std /\ chip'.cfg = chip.cfg /\ (chip'.sec = chip.sec \/ (chip'.sec = 3 /\ ~chip.cfg))
  BY <1>1 DEF Fields!NearClose, FieldChips
<1>4. Noted' /\ Fields!NearOnRecord'
  BY <1>1, <1>2, <1>3 DEF Noted, FieldsInv, Fields!NearOnRecord
<1>5. QED BY <1>1, <1>2, <1>3, <1>4, FieldsNear DEF Nears, FieldsInv, FieldsType, Emptied

LEMMA FieldsNearFinal == ASSUME FieldsInv, Fields!NearFinal PROVE FieldsInv'
<1> DEFINE state == IF ~op.good THEN "Failed" ELSE IF op.flag = "restore" THEN "Restored" ELSE "Active"
           k == [op.j EXCEPT !.state = state]
<1>1. /\ op \in FieldOps /\ op.at = "n-final" /\ chip \in FieldChips /\ UNCHANGED <<chip, seen>> /\ nvs \in FieldStores
      /\ op.want \in {Fields!Normal, Fields!Early} /\ (op.flag = "restore" => op.want = Fields!Normal)
      /\ op.j \in Thresholds /\ seen \in FieldHistories
  <2>1. op.j # Fields!None
    BY FieldsAtNear DEF Fields!NearFinal, Nears, FieldsInv, Noted
  <2>2. QED BY <2>1, FieldsAtNear DEF Fields!NearFinal, Nears
<1>2. k \in Thresholds /\ k.target = op.j.target /\ k.state = state /\ k # Fields!None
  BY <1>1 DEF Thresholds, Fields!None
<1>3. /\ op' \in FieldOps /\ op'.at = "idle" /\ nvs' \in FieldStores /\ nvs'.fcc = nvs.fcc
      /\ nvs' = nvs \/ nvs'.near = k
  <2>1. op' = Fields!Idle /\ (nvs' = nvs \/ nvs' = [nvs EXCEPT !.near = k])
    BY DEF Fields!NearFinal, Fields!Store
  <2>2. QED BY <1>1, <1>2, <2>1, FieldsIdle DEF FieldStores
<1>4. Noted'
  BY <1>3 DEF Noted
<1>5. Fields!NearOnRecord'
  <2>1. CASE nvs' = nvs
    BY <1>1, <2>1, FieldsQuiet
  <2>2. CASE nvs'.near = k
    <3>1. op.good => op.j.target = op.want /\ (chip.near = op.want \/ ("near" \in seen.cold /\ chip.near = Fields!Normal))
      BY <1>1 DEF FieldsInv, Noted
    <3>2. chip.near # Fields!Normal => k.target = chip.near \/ k.state = "Failed"
      BY <1>2, <3>1
    <3>3. k.state = "Active" /\ "near" \notin seen.cold => chip.near = k.target
      BY <1>2, <3>1
    <3>4. k.state = "Restored" => chip.near = Fields!Normal
      BY <1>1, <1>2, <3>1
    <3>5. QED BY <1>1, <1>2, <2>2, <3>2, <3>3, <3>4 DEF Fields!NearOnRecord
  <2>3. QED BY <1>3, <2>1, <2>2
<1>6. QED BY <1>1, <1>3, <1>4, <1>5, FieldsNear DEF Nears, FieldsInv, FieldsType, Emptied

LEMMA FieldsSame == ASSUME FieldsInv, UNCHANGED <<chip, nvs, op, seen>> PROVE FieldsInv'
<1>1. FieldsType' /\ FieldTyped' /\ Emptied' /\ BackedUp' /\ Confirmed' /\ Noted' /\ Based'
  BY DEF FieldsInv, FieldsType, FieldTyped, Emptied, BackedUp, Backs, Opens, Confirmed, Checked, Shutting, Limited,
         Noted, Based
<1>2. InOrder'
  BY DEF FieldsInv, InOrder, Ahead, Current, Stored
<1>3. QED BY <1>1, <1>2, FieldsQuiet DEF FieldsInv

\* the board forgets its operation, and nothing else
LEMMA FieldsReset == ASSUME FieldsInv, op' = Fields!Idle, UNCHANGED <<chip, nvs, seen>> PROVE FieldsInv'
<1>1. op' \in FieldOps /\ op'.at = "idle"
  BY FieldsIdle
<1>2. FieldTyped' /\ BackedUp' /\ Confirmed' /\ Noted'
  BY <1>1 DEF FieldTyped, BackedUp, Confirmed, Checked, Shutting, Noted, Repairs, Nears
<1>3. InOrder'
  BY <1>1 DEF FieldsInv, InOrder, Stored, Repairs
<1>4. QED BY <1>1, <1>2, <1>3, FieldsQuiet DEF FieldsInv, FieldsType

LEMMA FieldsCold == ASSUME FieldsInv, Fields!ResetGauge PROVE FieldsInv'
<1>1. /\ UNCHANGED <<nvs, op>> /\ op \in FieldOps /\ nvs \in FieldStores /\ seen \in FieldHistories /\ ~seen.replay
  BY DEF Fields!ResetGauge, FieldsInv, FieldsType, Fields!RepairOnRecord
<1>2. /\ chip' \in FieldChips /\ chip'.sec = 2 /\ ~chip'.cfg /\ ~chip'.lim /\ chip'.fcc = Fields!Factory
      /\ chip'.std = Fields!Factory /\ chip'.near = Fields!Normal
  BY DEF Fields!ResetGauge, FieldChips
<1>3. /\ seen' \in FieldHistories /\ seen'.fcc = Fields!Factory /\ seen'.cold = {"limit", "near"} /\ seen'.sent = seen.sent
      /\ ~seen'.replay
  BY <1>1 DEF Fields!ResetGauge, FieldHistories
<1>4. FieldTyped' /\ InOrder'
  BY <1>1, <1>3 DEF FieldsInv, FieldTyped, InOrder, Stored, Current, Ahead
<1>5. Emptied' /\ BackedUp' /\ Confirmed'
  BY <1>1, <1>2, <1>3 DEF FieldsInv, Emptied, BackedUp, Backs, Opens, Confirmed, Limited
<1>6. Noted'
  BY <1>1, <1>2, <1>3 DEF FieldsInv, Noted
<1>7. Based' /\ Fields!RepairOnRecord' /\ Fields!VerifiedIsTrue'
  BY <1>1, <1>2, <1>3 DEF Based, Fields!RepairOnRecord, Fields!VerifiedIsTrue
<1>8. Fields!NearOnRecord'
  BY <1>1, <1>2, <1>3 DEF FieldsInv, Fields!NearOnRecord
<1>9. QED BY <1>1, <1>2, <1>3, <1>4, <1>5, <1>6, <1>7, <1>8 DEF FieldsInv, FieldsType

LEMMA FieldsProfile == ASSUME FieldsInv, Fields!Profile PROVE FieldsInv'
<1>1. /\ UNCHANGED <<nvs, op>> /\ op.at = "idle" /\ chip \in FieldChips /\ seen \in FieldHistories /\ chip.std = Fields!Factory
      /\ op \in FieldOps /\ nvs \in FieldStores
  BY DEF Fields!Profile, Fields!At, FieldsInv, FieldsType
<1>2. /\ chip' \in FieldChips /\ chip'.sec = 3 /\ ~chip'.cfg /\ chip'.lim = chip.lim /\ chip'.fcc = Fields!Target
      /\ chip'.std = Fields!Target /\ chip'.near = chip.near
  <2>1. chip' = [chip EXCEPT !.sec = 3, !.cfg = FALSE, !.fcc = Fields!Target, !.std = Fields!Target]
    BY DEF Fields!Profile
  <2>2. chip' \in FieldChips
    <3>1. chip' = [sec |-> 3, cfg |-> FALSE, lim |-> chip.lim, fcc |-> Fields!Target, std |-> Fields!Target, near |-> chip.near]
      BY <1>1, <2>1 DEF FieldChips
    <3>2. chip.lim \in BOOLEAN /\ chip.near \in {Fields!Normal, Fields!Early} /\ 3 \in 1 .. 3
      BY <1>1 DEF FieldChips
    <3>3. QED BY <3>1, <3>2 DEF FieldChips
  <2>3. chip'.sec = 3 /\ ~chip'.cfg /\ chip'.fcc = Fields!Target /\ chip'.std = Fields!Target
    BY <1>1, <2>1 DEF FieldChips
  <2>4. chip'.lim = chip.lim /\ chip'.near = chip.near
    BY <1>1, <2>1 DEF FieldChips
  <2>5. QED BY <2>2, <2>3, <2>4
<1>3. /\ seen' \in FieldHistories /\ seen'.fcc = Fields!Target /\ seen'.cold = seen.cold /\ seen'.sent = seen.sent
      /\ seen'.replay = seen.replay
  BY <1>1 DEF Fields!Profile, FieldHistories
<1>4. FieldTyped' /\ InOrder' /\ BackedUp' /\ Confirmed' /\ Noted'
  BY <1>1, <1>3 DEF FieldsInv, FieldTyped, InOrder, Stored, BackedUp, Confirmed, Checked, Shutting, Noted, Repairs, Nears
<1>5. Emptied' /\ Fields!Target # Fields!Factory
  BY <1>2, <1>3 DEF Emptied, Fields!Target, Fields!Factory
<1>6. Based' /\ Fields!RepairOnRecord' /\ Fields!NearOnRecord'
  BY <1>1, <1>2, <1>3 DEF FieldsInv, Based, Fields!RepairOnRecord, Fields!NearOnRecord
<1>7. Fields!VerifiedIsTrue'
  BY <1>1, <1>2, <1>3 DEF FieldsInv, Fields!VerifiedIsTrue, Emptied
<1>8. QED BY <1>1, <1>2, <1>3, <1>4, <1>5, <1>6, <1>7 DEF FieldsInv, FieldsType

\* a gauge before its first repair, which its board has no record of
LEMMA FieldsInit == Fields!Init => FieldsInv
<1> SUFFICES ASSUME Fields!Init PROVE FieldsInv
  OBVIOUS
<1>1. PICK f \in {Fields!Target, Fields!Before}, s \in {Fields!Target, Fields!Before} :
        chip = [sec |-> 3, cfg |-> FALSE, lim |-> FALSE, fcc |-> f, std |-> s, near |-> Fields!Normal]
  BY DEF Fields!Init
<1>2. chip \in FieldChips /\ chip.sec = 3 /\ ~chip.cfg /\ ~chip.lim /\ chip.near = Fields!Normal /\ chip.std = s /\ chip.fcc = f
  BY <1>1 DEF FieldChips
<1>3. nvs = [fcc |-> Fields!None, near |-> Fields!None] /\ nvs \in FieldStores /\ Fields!None.state = "none"
  BY DEF Fields!Init, FieldStores, Fields!None
<1>4. op \in FieldOps /\ op.at = "idle"
  BY FieldsIdle DEF Fields!Init
<1>5. /\ seen \in FieldHistories /\ seen.sent = {} /\ ~seen.replay /\ seen.fcc = f
  BY <1>1, <1>2 DEF Fields!Init, FieldHistories, FieldChips
<1>6. FieldTyped /\ BackedUp /\ Confirmed /\ Noted /\ InOrder
  BY <1>4, <1>5 DEF FieldTyped, BackedUp, Confirmed, Checked, Shutting, Noted, InOrder, Repairs, Nears
<1>7. Emptied /\ Based /\ Fields!RepairOnRecord /\ Fields!VerifiedIsTrue /\ Fields!NearOnRecord
  BY <1>1, <1>2, <1>3, <1>5 DEF Emptied, Based, Fields!RepairOnRecord, Fields!VerifiedIsTrue, Fields!NearOnRecord, Fields!Target, Fields!Before, Fields!Factory
<1>8. QED BY <1>2, <1>3, <1>4, <1>5, <1>6, <1>7 DEF FieldsInv, FieldsType

LEMMA FieldsStep == ASSUME FieldsInv, Fields!Next PROVE FieldsInv'
<1>1. CASE Fields!Repair
  BY <1>1, FieldsAsked, FieldsIntent, FieldsUnseal, FieldsFull, FieldsBackup, FieldsEnter, FieldsConfig,
     FieldsFcc, FieldsCheck, FieldsFccRoll, FieldsUnconfig, FieldsUnfcc, FieldsExit, FieldsSeal,
     FieldsVerify, FieldsFinal DEF Fields!Repair
<1>2. CASE Fields!Near
  BY <1>2, FieldsNearAsk, FieldsNearOpen, FieldsNearBefore, FieldsNearSave, FieldsNearEnter,
     FieldsNearWrite, FieldsNearAfter, FieldsNearRoll, FieldsNearExit, FieldsNearClose, FieldsNearFinal DEF Fields!Near
<1>3. CASE Fields!Status
  BY <1>3, FieldsSame DEF Fields!Status
<1>4. CASE Fields!ResetBoard
  BY <1>4, FieldsReset DEF Fields!ResetBoard
<1>5. QED BY <1>1, <1>2, <1>3, <1>4, FieldsCold, FieldsProfile DEF Fields!Next, Fields!Steps

-----------------------------------------------------------------------------
(* The journals of the access and of the nominal capacity (GaugeNominal).   *)
\* the record types of the gauge, of its journals and of an operation
Opening == {"a-prepare", "a-try", "a-attempt", "unseal", "full", "a-opened", "a-return", "a-final"}
Rewriting == {"n-enter", "n-design", "n-fcc", "n-roll", "n-exit", "n-verify", "n-again"}
Recording == {"n-prepare", "r-prepare", "n-final", "c-store"}
Waiting == {"idle", "a-open", "a-load", "n-check", "c-check", "r-leave", "t-restore", "v-apply", "v-end"}
Caps == {0, 130, Nominal!Nominal, Nominal!Factory, Nominal!Learned}
Pairs == [d : Caps, f : Caps]
Own == [d : {Nominal!Nominal, Nominal!Factory}, f : {Nominal!Nominal, Nominal!Learned, Nominal!Factory}]
Transactions == [state : {"Pending", "ExitFailed", "RollbackFailed", "Committed", "Restored", "RolledBack", "Sealed", "SealedOld"},
                 act : {1, 2}, orig : Own, target : Own]
Accesses == [state : {"Pending", "Opened", "Restored", "Failed"}, prior : 1 .. 3, shut : BOOLEAN,
             ut : BOOLEAN, uv : BOOLEAN, ft : BOOLEAN, fv : BOOLEAN]
Gauges == [sec : 1 .. 3, cfg : BOOLEAN, dm : Pairs, std : Pairs, mine : SUBSET {"cfg", "pair", "keys"}]
Journals == [tx : {Nominal!None} \cup Transactions, acc : {Nominal!None} \cup Accesses, arm : {0, 1}]
Operations == [pc : Opening \cup Rewriting \cup Recording \cup Waiting,
               cmd : {"none", "open", "close", "apply", "restore", "reconcile", "boot", "undo"},
               chain : BOOLEAN, ok : BOOLEAN, tx : {Nominal!None} \cup Transactions, acc : {Nominal!None} \cup Accesses,
               from : Pairs, want : Pairs, td : BOOLEAN, tf : BOOLEAN, fwd : BOOLEAN, roll : BOOLEAN]
Tests == [changed : BOOLEAN, pending : BOOLEAN, tried : BOOLEAN]
Pasts == [lost : SUBSET {"unseal", "full"}, replay : BOOLEAN, base : Pairs, armed : Nat, fired : Nat]
NominalType ==
  /\ chip \in Gauges /\ nvs \in Journals /\ op \in Operations /\ test \in Tests /\ seen \in Pasts
  /\ op.chain => op.cmd \in {"open", "apply", "close"}
  /\ op.pc \in {"idle", "t-restore"} => ~op.chain
  /\ op.pc = "n-check" => op.cmd = "apply"
\* out of CFGUPDATE the registers show the data memory, and an open gauge of ours is not sealed
Shown == (~chip.cfg => chip.std = chip.dm) /\ ("keys" \in chip.mine => chip.sec # 3)

\* words whose success is not on record are on record as attempts
Attempted ==
  /\ "unseal" \in seen.lost => nvs.acc # Nominal!None /\ nvs.acc.ut /\ ~nvs.acc.uv
  /\ "full" \in seen.lost => nvs.acc # Nominal!None /\ nvs.acc.ft /\ ~nvs.acc.fv
  /\ ~seen.replay

\* the journal of the access is kept from before the first word until the gauge is closed
Accessed ==
  /\ op.pc \in Opening => op.acc # Nominal!None
  /\ op.pc \in {"a-prepare", "a-try"} =>
       "keys" \notin chip.mine /\ seen.lost = {} /\ op.acc.state = "Pending" /\ op.acc.prior # 2
  /\ op.pc = "a-prepare" => ~op.acc.ut /\ ~op.acc.uv /\ ~op.acc.ft /\ ~op.acc.fv
  /\ op.pc = "a-try" => nvs.acc = op.acc /\ ~op.acc.uv /\ ~op.acc.ft /\ ~op.acc.fv
  /\ op.pc \in Opening \ {"a-prepare"} =>
       /\ nvs.acc # Nominal!None /\ nvs.acc.prior = op.acc.prior
       /\ (nvs.acc.ut => op.acc.ut) /\ (nvs.acc.ft => op.acc.ft)
  /\ op.pc \in {"a-attempt", "unseal", "full"} =>
       op.acc.state = "Pending" /\ nvs.acc.state = "Pending" /\ op.acc.prior = 3 /\ op.acc.ut /\ ~op.acc.fv
  /\ op.pc = "a-attempt" => (op.acc.uv <=> op.acc.ft) /\ (op.acc.uv \/ seen.lost = {}) /\ "full" \notin seen.lost
  /\ op.pc \in {"unseal", "full"} => nvs.acc = op.acc /\ seen.lost = {}
  /\ op.pc = "unseal" => ~op.acc.uv /\ ~op.acc.ft
  /\ op.pc = "full" => op.acc.uv /\ op.acc.ft
  /\ op.pc = "a-opened" => op.acc.state = "Opened" /\ (seen.lost # {} => op.acc.fv)
  /\ op.pc = "a-final" => op.acc.state \in {"Restored", "Failed"}
  /\ op.pc = "a-final" /\ op.acc.state = "Restored" => "keys" \notin chip.mine
  /\ "keys" \in chip.mine => nvs.acc.state \in {"Pending", "Opened", "Failed"} /\ nvs.acc.prior = 3

\* the pair a transaction starts from and the pair it is to leave
Intended ==
  /\ op.tx # Nominal!None
  /\ \/ /\ op.cmd = "apply" /\ op.from = op.tx.orig /\ op.want = op.tx.target
        /\ op.from.d = Nominal!Factory /\ op.want.d = Nominal!Nominal
        /\ IF op.from = Nominal!Fresh THEN op.want.f = Nominal!Nominal ELSE op.from.f \in {Nominal!Nominal, Nominal!Learned} /\ op.want.f = op.from.f
     \/ /\ op.cmd = "restore" /\ Nominal!Restorable(op.tx, op.from) /\ op.want.d = op.tx.orig.d
        /\ op.want.f = IF Nominal!Changed(op.tx) THEN op.tx.orig.f ELSE op.from.f
SamePairs == nvs.tx # Nominal!None /\ op.tx # Nominal!None /\ nvs.tx.orig = op.tx.orig /\ nvs.tx.target = op.tx.target
Within == chip.dm.d \in {op.from.d, op.want.d} /\ chip.dm.f \in {op.from.f, op.want.f}

\* a transaction is on record as pending from before CFGUPDATE until the gauge is seen out of it
Rewritten ==
  /\ op.pc \in {"n-prepare", "r-prepare"} \cup Rewriting => Intended
  /\ op.pc \in {"n-prepare", "r-prepare"} => op.tx.state = "Pending" /\ ("pair" \in chip.mine => chip.dm = op.from)
  /\ op.pc = "n-prepare" => op.cmd = "apply" /\ ~chip.cfg /\ (nvs.tx # Nominal!None => nvs.tx.orig = op.tx.orig)
  /\ op.pc = "r-prepare" => op.cmd = "restore" /\ SamePairs
  /\ op.pc \in Rewriting => SamePairs /\ nvs.tx.state = "Pending" /\ op.tx.state = "Pending"
  /\ op.pc \in Rewriting \ {"n-enter"} => chip.sec = 2 \/ (seen.base = op.tx.orig /\ Within)
  /\ op.pc \in {"n-final", "c-store"} =>
       /\ SamePairs
       /\ Nominal!Stale(op.tx) \/ (~chip.cfg /\ ("pair" \in chip.mine /\ Nominal!Changed(op.tx) => chip.dm \in {op.tx.orig, op.tx.target}))
  /\ chip.cfg /\ "cfg" \in chip.mine => Nominal!Stale(nvs.tx)
  /\ "pair" \in chip.mine =>
       /\ nvs.tx # Nominal!None /\ nvs.tx.orig = seen.base /\ Nominal!Restorable(nvs.tx, chip.dm)
       /\ Nominal!Stale(nvs.tx) \/ ~Nominal!Changed(nvs.tx) \/ chip.dm \in {nvs.tx.orig, nvs.tx.target}

\* an arm that is spent is counted once, and the capacity of the test waits for its end
Tested ==
  /\ seen.fired + nvs.arm <= seen.armed
  /\ test.changed /\ chip.dm.d = 130 => test.pending
  /\ op.pc = "v-apply" /\ op.want.d = 130 => test.pending
  /\ op.pc \in {"v-apply", "v-end"} => op.cmd \in {"boot", "undo"}
  /\ op.pc \in {"v-apply", "v-end"} /\ op.cmd = "undo" => op.want = Nominal!Pair(Nominal!Nominal, Nominal!Nominal)
  /\ op.pc = "v-end" => "keys" \notin chip.mine

NominalInv == NominalType /\ Shown /\ Attempted /\ Accessed /\ Rewritten /\ Tested
LEMMA NominalGo ==
  ASSUME op \in Operations, NEW a \in Opening \cup Rewriting \cup Recording \cup Waiting
  PROVE /\ Nominal!Go(a) \in Operations /\ Nominal!Go(a).pc = a /\ Nominal!Go(a).cmd = op.cmd /\ Nominal!Go(a).chain = op.chain
        /\ Nominal!Go(a).tx = op.tx /\ Nominal!Go(a).acc = op.acc /\ Nominal!Go(a).from = op.from /\ Nominal!Go(a).want = op.want
BY DEF Operations, Nominal!Go

\* an operation ends at rest, or at the first step of the next one
Rested(o) == /\ o \in Operations /\ o.pc \in {"idle", "n-check", "a-load", "c-check"}
             /\ o.chain => o.cmd \in {"open", "apply", "close"}
             /\ o.pc = "idle" => ~o.chain
             /\ o.pc = "n-check" => o.cmd = "apply"

LEMMA NominalIdle ==
  /\ Rested(Nominal!Idle)
  /\ Rested([Nominal!Idle EXCEPT !.pc = "n-check", !.cmd = "apply", !.chain = TRUE])
  /\ Rested([Nominal!Idle EXCEPT !.pc = "c-check", !.cmd = "reconcile"])
  /\ \A k \in BOOLEAN : Rested([Nominal!Idle EXCEPT !.pc = "a-load", !.cmd = "close", !.chain = TRUE, !.ok = k])
<1>1. Nominal!Idle \in Operations /\ Nominal!Idle.pc = "idle" /\ Nominal!Idle.chain = FALSE
  BY DEF Operations, Nominal!Idle, Waiting, Nominal!Zero, Nominal!Pair, Pairs, Caps
<1>2. "n-check" \in Waiting /\ "a-load" \in Waiting /\ "c-check" \in Waiting
  BY DEF Waiting
<1>3. LET o == [Nominal!Idle EXCEPT !.pc = "n-check", !.cmd = "apply", !.chain = TRUE] IN
        o \in Operations /\ o.pc = "n-check" /\ o.cmd = "apply"
  BY <1>1, <1>2 DEF Operations
<1>4. LET o == [Nominal!Idle EXCEPT !.pc = "c-check", !.cmd = "reconcile"] IN
        o \in Operations /\ o.pc = "c-check" /\ o.chain = FALSE
  BY <1>1, <1>2 DEF Operations
<1>5. ASSUME NEW k \in BOOLEAN
      PROVE  LET o == [Nominal!Idle EXCEPT !.pc = "a-load", !.cmd = "close", !.chain = TRUE, !.ok = k] IN
               o \in Operations /\ o.pc = "a-load" /\ o.cmd = "close"
  BY <1>1, <1>2 DEF Operations
<1>6. QED BY <1>1, <1>3, <1>4, <1>5 DEF Rested

LEMMA NominalAfter ==
  ASSUME NominalType, NEW k \in BOOLEAN
  PROVE Rested(Nominal!After(k)) /\ Rested(Nominal!Idle)
<1>1. op.chain \in BOOLEAN /\ op.ok \in BOOLEAN /\ (op.chain => op.cmd \in {"open", "apply", "close"})
  BY DEF NominalType, Operations
<1>2. CASE ~op.chain
  BY <1>2, NominalIdle DEF Nominal!After
<1>3. CASE op.chain /\ op.cmd = "open"
  BY <1>3, NominalIdle DEF Nominal!After
<1>4. CASE op.chain /\ op.cmd = "apply"
  BY <1>4, NominalIdle DEF Nominal!After
<1>5. CASE op.chain /\ op.cmd = "close"
  BY <1>5, NominalIdle DEF Nominal!After
<1>6. QED BY <1>1, <1>2, <1>3, <1>4, <1>5, NominalIdle

\* a record is stored, or it is not, and what comes next does not know if it was not confirmed
LEMMA NominalStore_acc ==
  ASSUME nvs \in Journals, NEW v \in Accesses, NEW good, NEW bad, Nominal!Store("acc", v, good, bad)
  PROVE /\ nvs' \in Journals /\ nvs'.tx = nvs.tx /\ nvs'.arm = nvs.arm
        /\ (nvs'.acc = v /\ op' = good) \/ (nvs'.acc \in {v, nvs.acc} /\ op' = bad)
BY DEF Nominal!Store, Journals

LEMMA NominalStore_tx ==
  ASSUME nvs \in Journals, NEW v \in Transactions, NEW good, NEW bad, Nominal!Store("tx", v, good, bad)
  PROVE /\ nvs' \in Journals /\ nvs'.acc = nvs.acc /\ nvs'.arm = nvs.arm
        /\ (nvs'.tx = v /\ op' = good) \/ (nvs'.tx \in {v, nvs.tx} /\ op' = bad)
BY DEF Nominal!Store, Journals

LEMMA NominalStore_arm ==
  ASSUME nvs \in Journals, NEW v \in {0, 1}, NEW good, NEW bad, Nominal!Store("arm", v, good, bad)
  PROVE /\ nvs' \in Journals /\ nvs'.acc = nvs.acc /\ nvs'.tx = nvs.tx
        /\ (nvs'.arm = v /\ op' = good) \/ (nvs'.arm \in {v, nvs.arm} /\ op' = bad)
BY DEF Nominal!Store, Journals

\* leaving CFGUPDATE, which may fail, and may seal the gauge
LEMMA NominalExited ==
  ASSUME chip \in Gauges, Shown, NEW ok \in BOOLEAN, Nominal!Exited(ok)
  PROVE /\ chip' \in Gauges /\ Shown' /\ chip'.dm = chip.dm
        /\ chip'.cfg => chip.cfg
        /\ chip'.mine \subseteq chip.mine
        /\ chip.sec = 2 => chip'.sec = 2
        /\ ok => ~chip'.cfg /\ chip'.sec # 2
<1>1. CASE chip' = chip
  BY <1>1 DEF Nominal!Exited, Shown
<1>2. CASE chip' # chip
  <2>1. PICK seals \in BOOLEAN :
          /\ chip.sec = 1
          /\ chip' = [chip EXCEPT !.cfg = FALSE, !.std = chip.dm, !.sec = IF seals THEN 3 ELSE 1,
                        !.mine = @ \ ({"cfg"} \cup (IF seals THEN {"keys"} ELSE {}))]
    BY <1>2 DEF Nominal!Exited
  <2>2. PICK s \in {IF seals THEN 3 ELSE 1}, m \in {chip.mine \ ({"cfg"} \cup (IF seals THEN {"keys"} ELSE {}))} :
          chip' = [chip EXCEPT !.cfg = FALSE, !.std = chip.dm, !.sec = s, !.mine = m]
    BY <2>1
  <2>3. s \in 1 .. 3 /\ s # 2 /\ m \in SUBSET {"cfg", "pair", "keys"} /\ m \subseteq chip.mine /\ (s = 3 => "keys" \notin m)
    BY <2>2 DEF Gauges
  <2>4. PICK t \in 1 .. 3, n \in SUBSET {"cfg", "pair", "keys"} :
          t = s /\ n = m /\ chip' = [chip EXCEPT !.cfg = FALSE, !.std = chip.dm, !.sec = t, !.mine = n]
    BY <2>2, <2>3
  <2>5. /\ chip' \in Gauges /\ chip'.dm = chip.dm /\ ~chip'.cfg /\ chip'.std = chip.dm /\ chip'.sec = t /\ chip'.mine = n
    BY <2>4 DEF Gauges
  <2>6. QED BY <2>1, <2>3, <2>4, <2>5 DEF Shown
<1>3. QED BY <1>1, <1>2

\* what a step of another journal leaves as it is
LEMMA NominalAccFrame ==
  ASSUME NominalInv, nvs'.acc = nvs.acc, seen'.lost = seen.lost, seen'.replay = seen.replay,
         op'.pc \notin Opening, "keys" \in chip'.mine => "keys" \in chip.mine
  PROVE Attempted' /\ Accessed'
BY DEF NominalInv, Attempted, Accessed, Opening

LEMMA NominalTxFrame ==
  ASSUME NominalInv, nvs'.tx = nvs.tx, seen'.base = seen.base,
         op'.pc \notin Rewriting \cup Recording,
         chip'.cfg /\ "cfg" \in chip'.mine => chip.cfg /\ "cfg" \in chip.mine,
         "pair" \in chip'.mine => "pair" \in chip.mine /\ chip'.dm = chip.dm
  PROVE Rewritten'
BY DEF NominalInv, Rewritten, Rewriting, Recording, Nominal!Stale, Nominal!Restorable, Nominal!Changed

LEMMA NominalTestFrame ==
  ASSUME NominalInv, nvs'.arm = nvs.arm, seen'.fired = seen.fired, seen'.armed = seen.armed, test' = test,
         op'.pc \notin {"v-apply", "v-end"}, chip'.dm.d = 130 => chip.dm.d = 130
  PROVE Tested'
BY DEF NominalInv, Tested

\* an operation ends or waits, and nothing is stored
LEMMA NominalPause ==
  ASSUME NominalInv, op' \in Operations, NominalType', op'.pc \in Waiting \ {"v-apply", "v-end"},
         Shown', chip'.dm = chip.dm, chip'.mine \subseteq chip.mine,
         chip'.cfg => chip.cfg, UNCHANGED <<nvs, test, seen>>
  PROVE NominalInv'
<1>1. op'.pc \notin Opening \cup Rewriting \cup Recording \cup {"v-apply", "v-end"}
  BY DEF Waiting, Opening, Rewriting, Recording
<1>2. Attempted' /\ Accessed'
  BY <1>1, NominalAccFrame
<1>3. Rewritten'
  BY <1>1, NominalTxFrame
<1>4. Tested'
  BY <1>1, NominalTestFrame
<1>5. QED BY <1>2, <1>3, <1>4 DEF NominalInv

LEMMA NominalRest ==
  ASSUME NominalInv, Rested(op'), chip' \in Gauges, Shown', chip'.dm = chip.dm, chip'.mine \subseteq chip.mine,
         chip'.cfg => chip.cfg, UNCHANGED <<nvs, test, seen>>
  PROVE NominalInv'
<1>1. op'.pc \in Waiting \ {"v-apply", "v-end"}
  BY DEF Rested, Waiting
<1>2. NominalType'
  BY DEF NominalInv, NominalType, Rested
<1>3. QED BY <1>1, <1>2, NominalPause DEF Rested

\* a step of the access, which writes no pair
LEMMA NominalAccess ==
  ASSUME NominalInv, op' \in Operations, op'.chain => op'.cmd \in {"open", "apply", "close"}, op'.pc \in Opening,
         nvs' \in Journals, nvs'.tx = nvs.tx, nvs'.arm = nvs.arm, test' = test,
         seen' \in Pasts, seen'.base = seen.base, seen'.armed = seen.armed, seen'.fired = seen.fired,
         chip' \in Gauges, Shown', chip'.dm = chip.dm, chip'.cfg => chip.cfg,
         "cfg" \in chip'.mine => "cfg" \in chip.mine, "pair" \in chip'.mine => "pair" \in chip.mine,
         Attempted', Accessed'
  PROVE NominalInv'
<1>1. op'.pc \notin Rewriting \cup Recording \cup {"v-apply", "v-end"}
  BY DEF Opening, Rewriting, Recording
<1>2. Rewritten'
  BY <1>1, NominalTxFrame
<1>3. Tested'
  BY <1>1, NominalTestFrame
<1>4. QED BY <1>2, <1>3 DEF NominalInv, NominalType, Opening

LEMMA NominalAcc ==
  ASSUME NEW o \in Operations, NEW y \in Accesses
  PROVE LET p == [o EXCEPT !.acc = y] IN
          p \in Operations /\ p.pc = o.pc /\ p.cmd = o.cmd /\ p.chain = o.chain /\ p.acc = y
BY DEF Operations

\* what a step starts from
LEMMA NominalFrom ==
  ASSUME NominalInv
  PROVE /\ op \in Operations /\ chip \in Gauges /\ nvs \in Journals /\ seen \in Pasts /\ test \in Tests
        /\ op.chain => op.cmd \in {"open", "apply", "close"}
        /\ nvs.acc = Nominal!None \/ nvs.acc \in Accesses
        /\ nvs.tx = Nominal!None \/ nvs.tx \in Transactions
        /\ op.acc = Nominal!None \/ op.acc \in Accesses
        /\ op.tx = Nominal!None \/ op.tx \in Transactions
        /\ Shown /\ NominalType
        /\ Nominal!None.state = "none" /\ Nominal!None \notin Accesses /\ Nominal!None \notin Transactions
BY DEF NominalInv, NominalType, Journals, Operations, Nominal!None, Accesses, Transactions

LEMMA NominalOpen == ASSUME NominalInv, Nominal!Open PROVE NominalInv'
<1>1. UNCHANGED <<chip, nvs, test, seen>> /\ op.pc \in {"idle", "a-open"}
  BY DEF Nominal!Open, Nominal!Still, Nominal!At
<1>2. CASE op' \in {Nominal!Idle, Nominal!After(TRUE)}
  BY <1>1, <1>2, NominalAfter, NominalFrom, NominalRest DEF Shown
<1>3. CASE op' \notin {Nominal!Idle, Nominal!After(TRUE)}
  <2> DEFINE acc == [state |-> "Pending", prior |-> chip.sec, shut |-> FALSE,
                     ut |-> FALSE, uv |-> FALSE, ft |-> FALSE, fv |-> FALSE]
  <2>1. /\ nvs.acc.state \in {"none", "Restored"} /\ chip.sec # 2
        /\ nvs.acc.state = "Restored" => ~Nominal!FailedAttempt(nvs.acc)
        /\ op' = [Nominal!Go("a-prepare") EXCEPT !.cmd = "open", !.acc = acc]
    BY <1>3 DEF Nominal!Open
  <2>2. acc \in Accesses /\ acc.state = "Pending" /\ acc.prior # 2 /\ ~acc.ut /\ ~acc.uv /\ ~acc.ft /\ ~acc.fv /\ acc # Nominal!None
    BY <2>1, NominalFrom DEF Accesses, Gauges, Nominal!None
  <2>3. Nominal!Go("a-prepare") \in Operations /\ Nominal!Go("a-prepare").pc = "a-prepare"
    BY NominalFrom, NominalGo DEF Opening
  <2>4. op' \in Operations /\ op'.pc = "a-prepare" /\ op'.cmd = "open" /\ op'.acc = acc
    BY <2>1, <2>2, <2>3 DEF Operations
  <2>5. "keys" \notin chip.mine
    BY <2>1 DEF NominalInv, Accessed
  <2>6. seen.lost = {}
    <3>1. nvs.acc = Nominal!None \/ (~(nvs.acc.ut /\ ~nvs.acc.uv) /\ ~(nvs.acc.ft /\ ~nvs.acc.fv))
      BY <2>1, NominalFrom DEF Nominal!FailedAttempt, Accesses
    <3>2. "unseal" \notin seen.lost /\ "full" \notin seen.lost
      BY <3>1 DEF NominalInv, Attempted
    <3>3. QED BY <3>2, NominalFrom DEF Pasts
  <2>7. Attempted'
    BY <1>1 DEF NominalInv, Attempted
  <2>8. Accessed'
    BY <1>1, <2>2, <2>4, <2>5, <2>6 DEF Accessed
  <2>9. QED BY <1>1, <2>4, <2>7, <2>8, NominalFrom, NominalAccess DEF Shown, Opening
<1>4. QED BY <1>2, <1>3

LEMMA NominalOpenPrepare == ASSUME NominalInv, Nominal!OpenPrepare PROVE NominalInv'
<1>1. UNCHANGED <<chip, test, seen>> /\ op.pc = "a-prepare" /\ Nominal!Store("acc", op.acc, Nominal!Go("a-try"), Nominal!After(FALSE))
  BY DEF Nominal!OpenPrepare, Nominal!Still, Nominal!At
<1>2. /\ op.acc \in Accesses /\ op.acc.state = "Pending" /\ op.acc.prior # 2 /\ op.acc # Nominal!None
      /\ ~op.acc.ut /\ ~op.acc.uv /\ ~op.acc.ft /\ ~op.acc.fv /\ "keys" \notin chip.mine /\ seen.lost = {}
      /\ ~seen.replay
  BY <1>1, NominalFrom DEF NominalInv, Accessed, Opening, Attempted
<1>3. /\ nvs' \in Journals /\ nvs'.tx = nvs.tx /\ nvs'.arm = nvs.arm
      /\ (nvs'.acc = op.acc /\ op' = Nominal!Go("a-try")) \/ (nvs'.acc \in {op.acc, nvs.acc} /\ op' = Nominal!After(FALSE))
  BY <1>1, <1>2, NominalFrom, NominalStore_acc
<1>4. /\ Nominal!Go("a-try") \in Operations /\ Nominal!Go("a-try").pc = "a-try" /\ Nominal!Go("a-try").acc = op.acc
      /\ Nominal!Go("a-try").chain = op.chain /\ Nominal!Go("a-try").cmd = op.cmd
  BY NominalFrom, NominalGo DEF Opening
<1>5. Attempted'
  BY <1>1, <1>2 DEF Attempted
<1>6. CASE op' = Nominal!Go("a-try") /\ nvs'.acc = op.acc
  <2>1. Accessed'
    BY <1>1, <1>2, <1>4, <1>6 DEF Accessed
  <2>2. QED BY <1>1, <1>3, <1>4, <1>5, <1>6, <2>1, NominalFrom, NominalAccess DEF Shown, Opening
<1>7. CASE op' = Nominal!After(FALSE)
  <2>1. Rested(op')
    BY <1>7, NominalAfter, NominalFrom
  <2>2. op'.pc \notin Opening \cup Rewriting \cup Recording \cup {"v-apply", "v-end"}
    BY <2>1 DEF Rested, Opening, Rewriting, Recording
  <2>3. Accessed'
    BY <1>1, <1>2, <2>2 DEF Accessed, Opening
  <2>4. Rewritten' /\ Tested'
    BY <1>1, <1>3, <2>2, NominalTxFrame, NominalTestFrame
  <2>5. QED BY <1>1, <1>3, <1>5, <2>1, <2>3, <2>4, NominalFrom DEF NominalInv, NominalType, Rested, Shown
<1>8. QED BY <1>3, <1>6, <1>7

LEMMA NominalOpenTry == ASSUME NominalInv, Nominal!OpenTry PROVE NominalInv'
<1>1. UNCHANGED <<chip, nvs, test, seen>> /\ op.pc = "a-try" /\ chip.sec = op.acc.prior
  BY DEF Nominal!OpenTry, Nominal!Still, Nominal!At
<1>2. /\ op.acc \in Accesses /\ op.acc.state = "Pending" /\ op.acc.prior # 2 /\ op.acc # Nominal!None /\ nvs.acc = op.acc
      /\ ~op.acc.uv /\ ~op.acc.ft /\ ~op.acc.fv /\ "keys" \notin chip.mine /\ seen.lost = {} /\ ~seen.replay
  BY <1>1, NominalFrom DEF NominalInv, Accessed, Opening, Attempted
<1>3. /\ op' \in Operations /\ op'.chain = op.chain /\ op'.cmd = op.cmd /\ op'.acc \in Accesses
      /\ \/ op'.pc = "a-attempt" /\ op.acc.prior = 3 /\ op'.acc.state = "Pending" /\ op'.acc.ut
         \/ op'.pc = "a-opened" /\ op'.acc.state = "Opened" /\ op'.acc.ut = op.acc.ut
      /\ op'.acc.prior = op.acc.prior /\ op'.acc.uv = op.acc.uv /\ op'.acc.ft = op.acc.ft /\ op'.acc.fv = op.acc.fv
  <2>1. /\ Nominal!Go("a-attempt") \in Operations /\ Nominal!Go("a-attempt").pc = "a-attempt" /\ Nominal!Go("a-attempt").acc = op.acc
        /\ Nominal!Go("a-attempt").chain = op.chain /\ Nominal!Go("a-attempt").cmd = op.cmd
    BY NominalFrom, NominalGo DEF Opening
  <2>2. /\ Nominal!Go("a-opened") \in Operations /\ Nominal!Go("a-opened").pc = "a-opened" /\ Nominal!Go("a-opened").acc = op.acc
        /\ Nominal!Go("a-opened").chain = op.chain /\ Nominal!Go("a-opened").cmd = op.cmd
    BY NominalFrom, NominalGo DEF Opening
  <2>3. PICK a \in {Nominal!Go("a-attempt")}, b \in {Nominal!Go("a-opened")} :
          op' = IF op.acc.prior = 3 THEN [a EXCEPT !.acc.ut = TRUE] ELSE [b EXCEPT !.acc.state = "Opened"]
    BY DEF Nominal!OpenTry
  <2>4. CASE op.acc.prior = 3
    <3>1. op' = [a EXCEPT !.acc = [op.acc EXCEPT !.ut = TRUE]]
      BY <2>1, <2>3, <2>4
    <3> DEFINE y == [op.acc EXCEPT !.ut = TRUE]
    <3>2. y \in Accesses
      BY <1>2 DEF Accesses
    <3>5. /\ y.state = op.acc.state /\ y.prior = op.acc.prior /\ y.ut
          /\ y.uv = op.acc.uv /\ y.ft = op.acc.ft /\ y.fv = op.acc.fv
      BY <1>2 DEF Accesses
    <3>3. op' = [a EXCEPT !.acc = y]
      BY <3>1
    <3> HIDE DEF y
    <3>6. LET p == op' IN p \in Operations /\ p.pc = a.pc /\ p.cmd = a.cmd /\ p.chain = a.chain /\ p.acc = y
      <4>1. a \in Operations
        BY <2>1, <2>2, <2>3
      <4>2. QED BY <4>1, <3>2, <3>3, NominalAcc
    <3>4. QED BY <1>2, <2>1, <2>3, <2>4, <3>5, <3>2, <3>6
  <2>5. CASE op.acc.prior # 3
    <3>1. op' = [b EXCEPT !.acc = [op.acc EXCEPT !.state = "Opened"]]
      BY <2>2, <2>3, <2>5
    <3> DEFINE y == [op.acc EXCEPT !.state = "Opened"]
    <3>2. y \in Accesses
      BY <1>2 DEF Accesses
    <3>5. /\ y.state = "Opened" /\ y.prior = op.acc.prior /\ y.ut = op.acc.ut
          /\ y.uv = op.acc.uv /\ y.ft = op.acc.ft /\ y.fv = op.acc.fv
      BY <1>2 DEF Accesses
    <3>3. op' = [b EXCEPT !.acc = y]
      BY <3>1
    <3> HIDE DEF y
    <3>6. LET p == op' IN p \in Operations /\ p.pc = b.pc /\ p.cmd = b.cmd /\ p.chain = b.chain /\ p.acc = y
      <4>1. b \in Operations
        BY <2>1, <2>2, <2>3
      <4>2. QED BY <4>1, <3>2, <3>3, NominalAcc
    <3>4. QED BY <1>2, <2>2, <2>3, <2>5, <3>5, <3>2, <3>6
  <2>6. QED BY <2>4, <2>5
<1>4. Attempted' /\ op'.acc # Nominal!None
  BY <1>1, <1>2, <1>3, NominalFrom DEF Attempted
<1>5. Accessed'
  BY <1>1, <1>2, <1>3, <1>4 DEF Accessed, Opening
<1>6. QED BY <1>1, <1>3, <1>4, <1>5, NominalFrom, NominalAccess DEF Shown, Opening

LEMMA NominalOpenAttempt == ASSUME NominalInv, Nominal!OpenAttempt PROVE NominalInv'
<1> DEFINE w == IF op.acc.ft THEN "full" ELSE "unseal"
<1>1. /\ UNCHANGED <<chip, test>> /\ op.pc = "a-attempt" /\ Nominal!Store("acc", op.acc, Nominal!Go(w), Nominal!Go("a-return"))
      /\ seen' = [seen EXCEPT !.lost = IF nvs'.acc.state # "none" /\ nvs'.acc.uv THEN @ \ {"unseal"} ELSE @]
  BY DEF Nominal!OpenAttempt, Nominal!At
<1>2. /\ op.acc \in Accesses /\ op.acc.state = "Pending" /\ op.acc.prior = 3 /\ op.acc # Nominal!None /\ op.acc.ut /\ ~op.acc.fv
      /\ (op.acc.uv <=> op.acc.ft) /\ (op.acc.uv \/ seen.lost = {}) /\ "full" \notin seen.lost /\ ~seen.replay
      /\ nvs.acc \in Accesses /\ nvs.acc # Nominal!None /\ nvs.acc.state = "Pending" /\ nvs.acc.prior = 3
      /\ (nvs.acc.ut => op.acc.ut) /\ (nvs.acc.ft => op.acc.ft)
      /\ "unseal" \in seen.lost => nvs.acc.ut /\ ~nvs.acc.uv
  BY <1>1, NominalFrom DEF NominalInv, Accessed, Opening, Attempted
<1>3. /\ nvs' \in Journals /\ nvs'.tx = nvs.tx /\ nvs'.arm = nvs.arm
      /\ (nvs'.acc = op.acc /\ op' = Nominal!Go(w)) \/ (nvs'.acc \in {op.acc, nvs.acc} /\ op' = Nominal!Go("a-return"))
  BY <1>1, <1>2, NominalFrom, NominalStore_acc
<1>4. /\ op' \in Operations /\ op'.acc = op.acc /\ op'.chain = op.chain /\ op'.cmd = op.cmd
      /\ (nvs'.acc = op.acc /\ op'.pc = w) \/ (nvs'.acc \in {op.acc, nvs.acc} /\ op'.pc = "a-return")
  <2>1. /\ Nominal!Go(w) \in Operations /\ Nominal!Go(w).pc = w /\ Nominal!Go(w).acc = op.acc
        /\ Nominal!Go(w).chain = op.chain /\ Nominal!Go(w).cmd = op.cmd
    BY NominalFrom, NominalGo DEF Opening
  <2>2. /\ Nominal!Go("a-return") \in Operations /\ Nominal!Go("a-return").pc = "a-return" /\ Nominal!Go("a-return").acc = op.acc
        /\ Nominal!Go("a-return").chain = op.chain /\ Nominal!Go("a-return").cmd = op.cmd
    BY NominalFrom, NominalGo DEF Opening
  <2>3. QED BY <1>3, <2>1, <2>2
<1>5. /\ seen' \in Pasts /\ seen'.replay = seen.replay /\ seen'.base = seen.base /\ seen'.armed = seen.armed
      /\ seen'.fired = seen.fired
      /\ seen'.lost = IF nvs'.acc.uv THEN seen.lost \ {"unseal"} ELSE seen.lost
  BY <1>1, <1>2, <1>3, NominalFrom DEF Pasts, Accesses
<1>6. seen.lost \subseteq {"unseal"}
  BY <1>2, NominalFrom DEF Pasts
<1>7. Attempted'
  BY <1>2, <1>3, <1>5 DEF Attempted
<1>8. Accessed'
  <2>1. CASE nvs'.acc = op.acc /\ op'.pc = w
    <3>1. seen'.lost = {}
      BY <1>2, <1>5, <1>6, <2>1
    <3>2. QED BY <1>1, <1>2, <1>4, <2>1, <3>1 DEF Accessed, Opening
  <2>2. CASE nvs'.acc \in {op.acc, nvs.acc} /\ op'.pc = "a-return"
    BY <1>1, <1>2, <1>4, <2>2 DEF Accessed, Opening
  <2>3. QED BY <1>4, <2>1, <2>2
<1>9. op'.pc \in Opening
  BY <1>4 DEF Opening
<1>10. QED BY <1>1, <1>3, <1>4, <1>5, <1>7, <1>8, <1>9, NominalFrom, NominalAccess DEF Shown

\* what the words do to the gauge and to the history
LEMMA NominalWords ==
  ASSUME NominalInv, NEW w \in {"unseal", "full"}, NEW from, NEW to \in {1, 2}, Nominal!Words(w, from, to)
  PROVE /\ UNCHANGED <<nvs, test>> /\ op.pc = w
        /\ chip' \in Gauges /\ Shown' /\ chip'.dm = chip.dm /\ chip'.cfg = chip.cfg
        /\ "cfg" \in chip'.mine => "cfg" \in chip.mine
        /\ "pair" \in chip'.mine => "pair" \in chip.mine
        /\ seen' \in Pasts /\ ~seen'.replay /\ seen'.base = seen.base
        /\ seen'.armed = seen.armed /\ seen'.fired = seen.fired /\ seen'.lost \subseteq {w}
<1>1. PICK sent, works, ok \in BOOLEAN :
        /\ works => sent /\ chip.sec = from /\ ~chip.cfg
        /\ chip' = IF works THEN [chip EXCEPT !.sec = to, !.mine = @ \cup {"keys"}] ELSE chip
        /\ seen' = IF ~sent THEN seen
                   ELSE [seen EXCEPT !.replay = @ \/ seen.lost # {}, !.lost = @ \cup {w}]
  BY DEF Nominal!Words
<1>2. UNCHANGED <<nvs, test>> /\ op.pc = w
  BY DEF Nominal!Words, Nominal!At
<1>3. seen.lost = {} /\ ~seen.replay
  BY <1>2 DEF NominalInv, Accessed, Attempted
<1>4. /\ seen' \in Pasts /\ ~seen'.replay /\ seen'.base = seen.base
      /\ seen'.armed = seen.armed /\ seen'.fired = seen.fired /\ seen'.lost \subseteq {w}
  <2>1. seen' = seen \/ seen' = [seen EXCEPT !.replay = FALSE, !.lost = {w}]
    BY <1>1, <1>3, NominalFrom DEF Pasts
  <2>2. PICK l \in SUBSET {"unseal", "full"} : seen' = seen \/ (l = {w} /\ seen' = [seen EXCEPT !.replay = FALSE, !.lost = l])
    BY <2>1
  <2>3. QED BY <1>3, <2>2, NominalFrom DEF Pasts
<1>5. CASE chip' = chip
  BY <1>2, <1>4, <1>5, NominalFrom DEF Shown
<1>6. CASE chip' # chip
  <2>1. ~chip.cfg /\ chip' = [chip EXCEPT !.sec = to, !.mine = @ \cup {"keys"}]
    BY <1>1, <1>6
  <2>2. /\ chip' \in Gauges /\ chip'.dm = chip.dm /\ chip'.std = chip.std /\ chip'.cfg = chip.cfg /\ chip'.sec = to
        /\ chip'.mine = chip.mine \cup {"keys"}
    <3>1. PICK m \in SUBSET {"cfg", "pair", "keys"} : m = chip.mine \cup {"keys"} /\ chip' = [chip EXCEPT !.sec = to, !.mine = m]
      BY <2>1, NominalFrom DEF Gauges
    <3>2. PICK t \in 1 .. 3 : t = to
      OBVIOUS
    <3>3. chip' = [chip EXCEPT !.sec = t, !.mine = m]
      BY <3>1, <3>2
    <3>4. QED BY <3>1, <3>2, <3>3, NominalFrom DEF Gauges
  <2>3. QED BY <1>2, <1>4, <2>1, <2>2, NominalFrom DEF Shown
<1>7. QED BY <1>5, <1>6

LEMMA NominalUnseal == ASSUME NominalInv, Nominal!Unseal PROVE NominalInv'
<1>1. /\ UNCHANGED <<nvs, test>> /\ op.pc = "unseal"
      /\ chip' \in Gauges /\ Shown' /\ chip'.dm = chip.dm /\ chip'.cfg = chip.cfg
      /\ "cfg" \in chip'.mine => "cfg" \in chip.mine
      /\ "pair" \in chip'.mine => "pair" \in chip.mine
      /\ seen' \in Pasts /\ ~seen'.replay /\ seen'.base = seen.base
      /\ seen'.armed = seen.armed /\ seen'.fired = seen.fired /\ seen'.lost \subseteq {"unseal"}
  BY NominalWords DEF Nominal!Unseal
<1>2. /\ op.acc \in Accesses /\ op.acc.state = "Pending" /\ op.acc.prior = 3 /\ op.acc # Nominal!None /\ op.acc.ut /\ ~op.acc.fv
      /\ ~op.acc.uv /\ ~op.acc.ft /\ nvs.acc = op.acc
  BY <1>1, NominalFrom DEF NominalInv, Accessed, Opening
<1>3. /\ op' \in Operations /\ op'.chain = op.chain /\ op'.cmd = op.cmd /\ op'.acc \in Accesses
      /\ op'.acc.state = "Pending" /\ op'.acc.prior = 3 /\ op'.acc.ut /\ ~op'.acc.fv
      /\ \/ op'.pc = "a-return"
         \/ op'.pc = "a-attempt" /\ op'.acc.uv /\ op'.acc.ft
  <2>1. /\ Nominal!Go("a-attempt") \in Operations /\ Nominal!Go("a-attempt").pc = "a-attempt" /\ Nominal!Go("a-attempt").acc = op.acc
        /\ Nominal!Go("a-attempt").chain = op.chain /\ Nominal!Go("a-attempt").cmd = op.cmd
        /\ Nominal!Go("a-return") \in Operations /\ Nominal!Go("a-return").pc = "a-return" /\ Nominal!Go("a-return").acc = op.acc
        /\ Nominal!Go("a-return").chain = op.chain /\ Nominal!Go("a-return").cmd = op.cmd
    BY NominalFrom, NominalGo DEF Opening
  <2>2. PICK a \in {Nominal!Go("a-attempt")} : op' = Nominal!Go("a-return") \/ op' = [a EXCEPT !.acc.uv = TRUE, !.acc.ft = TRUE]
    BY DEF Nominal!Unseal, Nominal!Words
  <2>3. CASE op' = Nominal!Go("a-return")
    BY <1>2, <2>1, <2>3
  <2>4. CASE op' = [a EXCEPT !.acc.uv = TRUE, !.acc.ft = TRUE]
    <3>1. op' = [a EXCEPT !.acc = [op.acc EXCEPT !.uv = TRUE, !.ft = TRUE]]
      BY <1>2, <2>1, <2>2, <2>4 DEF Operations, Accesses
    <3> DEFINE y == [op.acc EXCEPT !.uv = TRUE, !.ft = TRUE]
    <3>2. y \in Accesses
      BY <1>2 DEF Accesses
    <3>5. /\ y.state = "Pending" /\ y.prior = 3 /\ y.ut /\ y.uv /\ y.ft /\ ~y.fv
      BY <1>2 DEF Accesses
    <3>3. op' = [a EXCEPT !.acc = y]
      BY <3>1
    <3> HIDE DEF y
    <3>6. LET p == op' IN p \in Operations /\ p.pc = a.pc /\ p.cmd = a.cmd /\ p.chain = a.chain /\ p.acc = y
      BY <2>1, <2>2, <3>2, <3>3, NominalAcc
    <3>4. QED BY <1>2, <2>1, <2>2, <3>5, <3>2, <3>6
  <2>5. QED BY <2>2, <2>3, <2>4
<1>4. Attempted' /\ op'.acc # Nominal!None
  BY <1>1, <1>2, <1>3, NominalFrom DEF Attempted
<1>5. Accessed'
  BY <1>1, <1>2, <1>3, <1>4 DEF Accessed, Opening
<1>6. QED BY <1>1, <1>3, <1>4, <1>5, NominalFrom, NominalAccess DEF Opening

LEMMA NominalFull == ASSUME NominalInv, Nominal!Full PROVE NominalInv'
<1>1. /\ UNCHANGED <<nvs, test>> /\ op.pc = "full"
      /\ chip' \in Gauges /\ Shown' /\ chip'.dm = chip.dm /\ chip'.cfg = chip.cfg
      /\ "cfg" \in chip'.mine => "cfg" \in chip.mine
      /\ "pair" \in chip'.mine => "pair" \in chip.mine
      /\ seen' \in Pasts /\ ~seen'.replay /\ seen'.base = seen.base
      /\ seen'.armed = seen.armed /\ seen'.fired = seen.fired /\ seen'.lost \subseteq {"full"}
  BY NominalWords DEF Nominal!Full
<1>2. /\ op.acc \in Accesses /\ op.acc.state = "Pending" /\ op.acc.prior = 3 /\ op.acc # Nominal!None /\ op.acc.ut /\ ~op.acc.fv
      /\ op.acc.uv /\ op.acc.ft /\ nvs.acc = op.acc
  BY <1>1, NominalFrom DEF NominalInv, Accessed, Opening
<1>3. /\ op' \in Operations /\ op'.chain = op.chain /\ op'.cmd = op.cmd /\ op'.acc \in Accesses
      /\ op'.acc.prior = 3 /\ op'.acc.ut /\ op'.acc.ft
      /\ \/ op'.pc = "a-return"
         \/ op'.pc = "a-opened" /\ op'.acc.fv /\ op'.acc.state = "Opened"
  <2>1. /\ Nominal!Go("a-opened") \in Operations /\ Nominal!Go("a-opened").pc = "a-opened" /\ Nominal!Go("a-opened").acc = op.acc
        /\ Nominal!Go("a-opened").chain = op.chain /\ Nominal!Go("a-opened").cmd = op.cmd
        /\ Nominal!Go("a-return") \in Operations /\ Nominal!Go("a-return").pc = "a-return" /\ Nominal!Go("a-return").acc = op.acc
        /\ Nominal!Go("a-return").chain = op.chain /\ Nominal!Go("a-return").cmd = op.cmd
    BY NominalFrom, NominalGo DEF Opening
  <2>2. PICK a \in {Nominal!Go("a-opened")} : op' = Nominal!Go("a-return") \/ op' = [a EXCEPT !.acc.fv = TRUE, !.acc.state = "Opened"]
    BY DEF Nominal!Full, Nominal!Words
  <2>3. CASE op' = Nominal!Go("a-return")
    BY <1>2, <2>1, <2>3
  <2>4. CASE op' = [a EXCEPT !.acc.fv = TRUE, !.acc.state = "Opened"]
    <3>1. op' = [a EXCEPT !.acc = [op.acc EXCEPT !.fv = TRUE, !.state = "Opened"]]
      BY <1>2, <2>1, <2>2, <2>4 DEF Operations, Accesses
    <3> DEFINE y == [op.acc EXCEPT !.fv = TRUE, !.state = "Opened"]
    <3>2. y \in Accesses
      BY <1>2 DEF Accesses
    <3>5. /\ y.state = "Opened" /\ y.prior = 3 /\ y.ut /\ y.uv /\ y.ft /\ y.fv
      BY <1>2 DEF Accesses
    <3>3. op' = [a EXCEPT !.acc = y]
      BY <3>1
    <3> HIDE DEF y
    <3>6. LET p == op' IN p \in Operations /\ p.pc = a.pc /\ p.cmd = a.cmd /\ p.chain = a.chain /\ p.acc = y
      BY <2>1, <2>2, <3>2, <3>3, NominalAcc
    <3>4. QED BY <1>2, <2>1, <2>2, <3>5, <3>2, <3>6
  <2>5. QED BY <2>2, <2>3, <2>4
<1>4. Attempted' /\ op'.acc # Nominal!None
  BY <1>1, <1>2, <1>3, NominalFrom DEF Attempted
<1>5. Accessed'
  BY <1>1, <1>2, <1>3, <1>4 DEF Accessed, Opening
<1>6. QED BY <1>1, <1>3, <1>4, <1>5, NominalFrom, NominalAccess DEF Opening

\* the access ends, and its journal is written or not
LEMMA NominalClosed ==
  ASSUME NominalInv, Rested(op'), nvs' \in Journals, nvs'.tx = nvs.tx, nvs'.arm = nvs.arm, UNCHANGED <<chip, test>>,
         seen' \in Pasts, seen'.base = seen.base, seen'.armed = seen.armed, seen'.fired = seen.fired,
         Attempted', "keys" \in chip'.mine => nvs'.acc.state \in {"Pending", "Opened", "Failed"} /\ nvs'.acc.prior = 3
  PROVE NominalInv'
<1>1. op'.pc \notin Opening \cup Rewriting \cup Recording \cup {"v-apply", "v-end"}
  BY DEF Rested, Opening, Rewriting, Recording
<1>2. Accessed'
  BY <1>1 DEF Accessed, Opening
<1>3. Rewritten' /\ Tested'
  BY <1>1, NominalTxFrame, NominalTestFrame
<1>4. QED BY <1>2, <1>3, NominalFrom DEF NominalInv, NominalType, Rested, Shown

LEMMA NominalOpenDone == ASSUME NominalInv, Nominal!OpenDone PROVE NominalInv'
<1>1. /\ UNCHANGED <<chip, test>> /\ op.pc = "a-opened" /\ Nominal!Store("acc", op.acc, Nominal!After(TRUE), Nominal!Go("a-return"))
      /\ seen' = [seen EXCEPT !.lost = IF nvs'.acc.state # "none" /\ nvs'.acc.fv THEN {} ELSE @]
  BY DEF Nominal!OpenDone, Nominal!At
<1>2. /\ op.acc \in Accesses /\ op.acc # Nominal!None /\ nvs.acc \in Accesses /\ nvs.acc # Nominal!None /\ op.acc.state = "Opened"
      /\ (seen.lost # {} => op.acc.fv) /\ ~seen.replay /\ nvs.acc.prior = op.acc.prior
      /\ (nvs.acc.ut => op.acc.ut) /\ (nvs.acc.ft => op.acc.ft)
      /\ "keys" \in chip.mine => nvs.acc.state \in {"Pending", "Opened", "Failed"} /\ nvs.acc.prior = 3
      /\ "unseal" \in seen.lost => nvs.acc.ut /\ ~nvs.acc.uv
      /\ "full" \in seen.lost => nvs.acc.ft /\ ~nvs.acc.fv
  BY <1>1, NominalFrom DEF NominalInv, Accessed, Opening, Attempted
<1>3. /\ nvs' \in Journals /\ nvs'.tx = nvs.tx /\ nvs'.arm = nvs.arm
      /\ (nvs'.acc = op.acc /\ op' = Nominal!After(TRUE)) \/ (nvs'.acc \in {op.acc, nvs.acc} /\ op' = Nominal!Go("a-return"))
  BY <1>1, <1>2, NominalFrom, NominalStore_acc
<1>4. /\ seen' \in Pasts /\ seen'.replay = seen.replay /\ seen'.base = seen.base /\ seen'.armed = seen.armed
      /\ seen'.fired = seen.fired /\ seen'.lost = IF nvs'.acc.fv THEN {} ELSE seen.lost
  BY <1>1, <1>2, <1>3, NominalFrom DEF Pasts, Accesses
<1>5. Attempted'
  BY <1>2, <1>3, <1>4 DEF Attempted
<1>6. CASE op' = Nominal!After(TRUE) /\ nvs'.acc = op.acc
  <2>1. Rested(op')
    BY <1>6, NominalAfter, NominalFrom
  <2>2. QED BY <1>1, <1>2, <1>3, <1>4, <1>5, <1>6, <2>1, NominalClosed
<1>7. CASE op' = Nominal!Go("a-return") /\ nvs'.acc \in {op.acc, nvs.acc}
  <2>1. /\ op' \in Operations /\ op'.pc = "a-return" /\ op'.acc = op.acc /\ op'.cmd = op.cmd /\ op'.chain = op.chain
    BY <1>7, NominalFrom, NominalGo DEF Opening
  <2>2. Accessed'
    BY <1>1, <1>2, <1>7, <2>1 DEF Accessed, Opening
  <2>3. QED BY <1>1, <1>3, <1>4, <1>5, <2>1, <2>2, NominalFrom, NominalAccess DEF Opening, Shown
<1>8. QED BY <1>3, <1>6, <1>7

LEMMA NominalRestore == ASSUME NominalInv, Nominal!Restore PROVE NominalInv'
<1>1. /\ UNCHANGED <<chip, nvs, test, seen>> /\ op.pc \in {"idle", "a-load"} /\ nvs.acc.state # "none"
  BY DEF Nominal!Restore, Nominal!Still, Nominal!At
<1>2. nvs.acc \in Accesses /\ nvs.acc # Nominal!None
  BY <1>1, NominalFrom
<1>3. op' \in Operations /\ op'.pc = "a-return" /\ op'.acc = nvs.acc /\ (op'.chain => op'.cmd \in {"open", "apply", "close"})
  <2>1. /\ Nominal!Go("a-return") \in Operations /\ Nominal!Go("a-return").pc = "a-return" /\ Nominal!Go("a-return").chain = op.chain
        /\ Nominal!Go("a-return").cmd = op.cmd
    BY NominalFrom, NominalGo DEF Opening
  <2>2. PICK a \in {Nominal!Go("a-return")} : op' = [a EXCEPT !.cmd = IF Nominal!At("idle") THEN "close" ELSE @, !.acc = nvs.acc]
    BY DEF Nominal!Restore
  <2>3. PICK c \in {"close", op.cmd} : op' = [a EXCEPT !.cmd = c, !.acc = nvs.acc]
    BY <2>1, <2>2
  <2>4. a \in Operations /\ op.cmd \in {"none", "open", "close", "apply", "restore", "reconcile", "boot", "undo"}
    BY <2>1, <2>2, NominalFrom DEF Operations
  <2>5. op' \in Operations /\ op'.pc = a.pc /\ op'.acc = nvs.acc /\ op'.chain = a.chain /\ op'.cmd = c
    BY <1>2, <2>3, <2>4 DEF Operations
  <2>6. QED BY <2>1, <2>2, <2>3, <2>5, NominalFrom
<1>4. Attempted'
  BY <1>1 DEF NominalInv, Attempted
<1>5. Accessed'
  BY <1>1, <1>2, <1>3, NominalFrom DEF NominalInv, Accessed, Opening
<1>6. QED BY <1>1, <1>3, <1>4, <1>5, NominalFrom, NominalAccess DEF Opening, Shown

\* what gauge_return_access is to record
LEMMA NominalRecorded ==
  ASSUME NominalInv, op.pc = "a-return", NEW k \in BOOLEAN, Nominal!Recorded(k)
  PROVE /\ op' \in Operations /\ op'.pc = "a-final" /\ op'.cmd = op.cmd /\ op'.chain = op.chain
        /\ op'.acc \in Accesses /\ op'.acc.state = (IF k THEN "Restored" ELSE "Failed")
        /\ op'.acc.prior = op.acc.prior /\ op'.acc.ut = op.acc.ut /\ op'.acc.ft = op.acc.ft
<1>1. op.acc \in Accesses
  BY NominalFrom DEF NominalInv, Accessed, Opening
<1>2. /\ Nominal!Go("a-final") \in Operations /\ Nominal!Go("a-final").pc = "a-final" /\ Nominal!Go("a-final").acc = op.acc
      /\ Nominal!Go("a-final").chain = op.chain /\ Nominal!Go("a-final").cmd = op.cmd
  BY NominalFrom, NominalGo DEF Opening
<1>3. PICK a \in {Nominal!Go("a-final")}, s \in {IF k THEN "Restored" ELSE "Failed"} :
        op' = [a EXCEPT !.acc.state = s, !.fwd = k]
  BY DEF Nominal!Recorded
<1> DEFINE y == [op.acc EXCEPT !.state = s]
<1>4. op' = [a EXCEPT !.acc = y, !.fwd = k]
  BY <1>2, <1>3
<1>5. s \in {"Restored", "Failed"}
  BY <1>3
<1>6. y \in Accesses
  BY <1>1, <1>5 DEF Accesses
<1>7. y.state = s /\ y.prior = op.acc.prior /\ y.ut = op.acc.ut /\ y.ft = op.acc.ft
  BY <1>1 DEF Accesses
<1> HIDE DEF y
<1>8. op' \in Operations /\ op'.pc = a.pc /\ op'.cmd = a.cmd /\ op'.chain = a.chain /\ op'.acc = y
  <2>1. a \in Operations
    BY <1>2, <1>3
  <2>2. QED BY <2>1, <1>4, <1>6 DEF Operations
<1>9. QED BY <1>2, <1>3, <1>6, <1>7, <1>8

LEMMA NominalReturn == ASSUME NominalInv, Nominal!Return PROVE NominalInv'
<1>1. UNCHANGED <<nvs, test, seen>> /\ op.pc = "a-return"
  BY DEF Nominal!Return, Nominal!Still, Nominal!At
<1>2. /\ op.acc \in Accesses /\ op.acc # Nominal!None /\ nvs.acc \in Accesses /\ nvs.acc # Nominal!None /\ nvs.acc.prior = op.acc.prior
      /\ (nvs.acc.ut => op.acc.ut) /\ (nvs.acc.ft => op.acc.ft)
      /\ "keys" \in chip.mine => nvs.acc.state \in {"Pending", "Opened", "Failed"} /\ nvs.acc.prior = 3
  BY <1>1, NominalFrom DEF NominalInv, Accessed, Opening
<1>3. Attempted'
  BY <1>1 DEF NominalInv, Attempted
<1>4. /\ chip' \in Gauges /\ Shown' /\ chip'.dm = chip.dm /\ (chip'.cfg => chip.cfg) /\ chip'.mine \subseteq chip.mine
      /\ \/ op' = Nominal!Go("a-return")
         \/ Nominal!Recorded(FALSE)
         \/ Nominal!Recorded(TRUE) /\ "keys" \notin chip'.mine
  <2>1. CASE chip.cfg /\ \E ok \in BOOLEAN : Nominal!Exited(ok) /\ (IF ok THEN op' = Nominal!Go("a-return") ELSE Nominal!Recorded(FALSE))
    BY <2>1, NominalFrom, NominalExited
  <2>2. CASE UNCHANGED chip /\ Nominal!Recorded(FALSE)
    BY <2>2, NominalFrom DEF Shown
  <2>3. CASE ~chip.cfg /\ chip.sec = op.acc.prior /\ UNCHANGED chip /\ Nominal!Recorded(TRUE)
    BY <1>2, <2>3, NominalFrom DEF Shown
  <2>4. CASE /\ ~chip.cfg /\ chip.sec # op.acc.prior /\ op.acc.prior = 3
             /\ chip' = [chip EXCEPT !.sec = 3, !.mine = @ \ {"keys"}]
             /\ \E observed \in BOOLEAN : Nominal!Recorded(observed)
    <3>1. PICK m \in SUBSET {"cfg", "pair", "keys"} : m = chip.mine \ {"keys"} /\ chip' = [chip EXCEPT !.sec = 3, !.mine = m]
      BY <2>4, NominalFrom DEF Gauges
    <3>2. PICK t \in 1 .. 3 : t = 3
      OBVIOUS
    <3>3. chip' = [chip EXCEPT !.sec = t, !.mine = m]
      BY <3>1, <3>2
    <3>4. /\ chip' \in Gauges /\ chip'.dm = chip.dm /\ chip'.cfg = chip.cfg /\ chip'.std = chip.std /\ chip'.mine = m
      BY <3>3, NominalFrom DEF Gauges
    <3>5. QED BY <2>4, <3>1, <3>4, NominalFrom DEF Shown
  <2>5. QED BY <2>1, <2>2, <2>3, <2>4 DEF Nominal!Return
<1>5. CASE op' = Nominal!Go("a-return")
  <2>1. /\ op' \in Operations /\ op'.pc = "a-return" /\ op'.acc = op.acc /\ op'.cmd = op.cmd /\ op'.chain = op.chain
    BY <1>5, NominalFrom, NominalGo DEF Opening
  <2>2. Accessed'
    BY <1>1, <1>2, <1>4, <2>1 DEF Accessed, Opening
  <2>3. QED BY <1>1, <1>3, <1>4, <2>1, <2>2, NominalFrom, NominalAccess DEF Opening
<1>6. ASSUME NEW k \in BOOLEAN, Nominal!Recorded(k), k => "keys" \notin chip'.mine
      PROVE  NominalInv'
  <2>1. /\ op' \in Operations /\ op'.pc = "a-final" /\ op'.cmd = op.cmd /\ op'.chain = op.chain
        /\ op'.acc \in Accesses /\ op'.acc.state = (IF k THEN "Restored" ELSE "Failed")
        /\ op'.acc.prior = op.acc.prior /\ op'.acc.ut = op.acc.ut /\ op'.acc.ft = op.acc.ft
    BY <1>1, <1>6, NominalRecorded
  <2>2. op'.acc # Nominal!None
    BY <2>1, NominalFrom
  <2>3. Accessed'
    BY <1>1, <1>2, <1>4, <1>6, <2>1, <2>2 DEF Accessed, Opening
  <2>4. QED BY <1>1, <1>3, <1>4, <2>1, <2>3, NominalFrom, NominalAccess DEF Opening
<1>7. QED BY <1>4, <1>5, <1>6

LEMMA NominalReturnDone == ASSUME NominalInv, Nominal!ReturnDone PROVE NominalInv'
<1>1. /\ UNCHANGED <<chip, test>> /\ op.pc = "a-final"
      /\ seen' = [seen EXCEPT !.lost = IF nvs'.acc.state = "none" THEN @
                   ELSE @ \ ((IF nvs'.acc.uv THEN {"unseal"} ELSE {}) \cup (IF nvs'.acc.fv THEN {"full"} ELSE {}))]
  BY DEF Nominal!ReturnDone, Nominal!At
<1>2. /\ op.acc \in Accesses /\ op.acc # Nominal!None /\ nvs.acc \in Accesses /\ nvs.acc # Nominal!None /\ op.acc.state \in {"Restored", "Failed"}
      /\ ~seen.replay /\ nvs.acc.prior = op.acc.prior /\ (nvs.acc.ut => op.acc.ut) /\ (nvs.acc.ft => op.acc.ft)
      /\ "keys" \in chip.mine => nvs.acc.state \in {"Pending", "Opened", "Failed"} /\ nvs.acc.prior = 3
      /\ op.acc.state = "Restored" => "keys" \notin chip.mine
      /\ "unseal" \in seen.lost => nvs.acc.ut
      /\ "full" \in seen.lost => nvs.acc.ft
  BY <1>1, NominalFrom DEF NominalInv, Accessed, Opening, Attempted
<1>3. PICK read \in BOOLEAN :
        Nominal!Store("acc", [op.acc EXCEPT !.shut = read /\ chip.sec = 3], Nominal!After(op.fwd /\ op.cmd = "close"), Nominal!After(FALSE))
  BY DEF Nominal!ReturnDone
<1> DEFINE v == [op.acc EXCEPT !.shut = read /\ chip.sec = 3]
<1>4. /\ v \in Accesses /\ v.state = op.acc.state /\ v.prior = op.acc.prior /\ v.ut = op.acc.ut /\ v.uv = op.acc.uv
      /\ v.ft = op.acc.ft /\ v.fv = op.acc.fv
  BY <1>2 DEF Accesses
<1> HIDE DEF v
<1>5. /\ nvs' \in Journals /\ nvs'.tx = nvs.tx /\ nvs'.arm = nvs.arm /\ nvs'.acc \in {v, nvs.acc}
      /\ op' \in {Nominal!After(op.fwd /\ op.cmd = "close"), Nominal!After(FALSE)}
  <2> DEFINE g == Nominal!After(op.fwd /\ op.cmd = "close")
             h == Nominal!After(FALSE)
  <2>1. Nominal!Store("acc", v, g, h)
    BY <1>3 DEF v
  <2> HIDE DEF g, h
  <2>2. /\ nvs' \in Journals /\ nvs'.tx = nvs.tx /\ nvs'.arm = nvs.arm
        /\ (nvs'.acc = v /\ op' = g) \/ (nvs'.acc \in {v, nvs.acc} /\ op' = h)
    BY <2>1, <1>4, NominalFrom, NominalStore_acc
  <2>3. QED BY <2>2 DEF g, h
<1>6. Rested(op')
  <2>1. (op.fwd /\ op.cmd = "close") \in BOOLEAN
    OBVIOUS
  <2>2. QED BY <1>5, <2>1, NominalAfter, NominalFrom
<1>7. nvs'.acc \in Accesses /\ nvs'.acc # Nominal!None /\ nvs'.acc.state # "none"
  BY <1>2, <1>4, <1>5, NominalFrom DEF Accesses
<1>8. /\ seen' \in Pasts /\ seen'.replay = seen.replay /\ seen'.base = seen.base /\ seen'.armed = seen.armed
      /\ seen'.fired = seen.fired /\ seen'.lost \subseteq seen.lost
      /\ "unseal" \in seen'.lost => ~nvs'.acc.uv
      /\ "full" \in seen'.lost => ~nvs'.acc.fv
  <2>1. PICK l \in SUBSET {"unseal", "full"} :
          /\ l = seen.lost \ ((IF nvs'.acc.uv THEN {"unseal"} ELSE {}) \cup (IF nvs'.acc.fv THEN {"full"} ELSE {}))
          /\ seen' = [seen EXCEPT !.lost = l]
    BY <1>1, <1>7, NominalFrom DEF Pasts
  <2>2. seen' \in Pasts /\ seen'.replay = seen.replay /\ seen'.base = seen.base /\ seen'.armed = seen.armed
        /\ seen'.fired = seen.fired /\ seen'.lost = l
    BY <2>1, NominalFrom DEF Pasts
  <2>3. QED BY <2>1, <2>2
<1>9. Attempted'
  BY <1>2, <1>4, <1>5, <1>7, <1>8 DEF Attempted
<1>10. "keys" \in chip'.mine => nvs'.acc.state \in {"Pending", "Opened", "Failed"} /\ nvs'.acc.prior = 3
  BY <1>1, <1>2, <1>4, <1>5
<1>11. QED BY <1>1, <1>5, <1>6, <1>8, <1>9, <1>10, NominalClosed

-----------------------------------------------------------------------------
LEMMA NominalRefuse == ASSUME NominalInv, Nominal!Refuse PROVE NominalInv'
<1>1. op' = Nominal!After(FALSE) /\ UNCHANGED <<chip, nvs, test, seen>>
  BY DEF Nominal!Refuse, Nominal!Give, Nominal!Still
<1>2. QED BY <1>1, NominalAfter, NominalFrom, NominalRest DEF Shown

LEMMA NominalLeave == ASSUME NominalInv, Nominal!Leave PROVE NominalInv'
<1>1. op' = Nominal!After(FALSE) /\ UNCHANGED <<nvs, test, seen>>
  BY DEF Nominal!Leave, Nominal!Still
<1>2. PICK ok \in BOOLEAN : Nominal!Exited(ok)
  BY DEF Nominal!Leave
<1>3. chip' \in Gauges /\ Shown' /\ chip'.dm = chip.dm /\ (chip'.cfg => chip.cfg) /\ chip'.mine \subseteq chip.mine
  BY <1>2, NominalFrom, NominalExited
<1>4. Rested(op')
  BY <1>1, NominalAfter, NominalFrom
<1>5. QED BY <1>1, <1>3, <1>4, NominalRest

LEMMA NominalAsk == ASSUME NominalInv, Nominal!Ask PROVE NominalInv'
<1>1. UNCHANGED <<chip, nvs, test, seen>> /\ op.pc = "idle" /\ ~op.chain
  BY DEF Nominal!Ask, Nominal!Still, Nominal!At, NominalInv, NominalType
<1>2. op' \in Operations /\ op'.pc \in {"a-open", "c-check", "n-check"} /\ NominalType'
  <2>1. /\ Nominal!Go("a-open") \in Operations /\ Nominal!Go("a-open").pc = "a-open" /\ Nominal!Go("a-open").chain = op.chain
        /\ Nominal!Go("c-check") \in Operations /\ Nominal!Go("c-check").pc = "c-check" /\ Nominal!Go("c-check").chain = op.chain
        /\ Nominal!Go("n-check") \in Operations /\ Nominal!Go("n-check").pc = "n-check" /\ Nominal!Go("n-check").chain = op.chain
    BY NominalFrom, NominalGo DEF Waiting
  <2>2. PICK a \in {Nominal!Go("a-open")}, b \in {Nominal!Go("c-check")}, c \in {Nominal!Go("n-check")} :
          \/ op' = [a EXCEPT !.cmd = "open", !.chain = TRUE]
          \/ op' = [b EXCEPT !.cmd = "reconcile"]
          \/ op' = [c EXCEPT !.cmd = "apply"]
    BY DEF Nominal!Ask
  <2>3. a \in Operations /\ a.pc = "a-open" /\ b \in Operations /\ b.pc = "c-check" /\ ~b.chain
        /\ c \in Operations /\ c.pc = "n-check" /\ ~c.chain
    BY <1>1, <2>1, <2>2
  <2>4. /\ op' \in Operations
        /\ \/ op'.pc = "a-open" /\ op'.cmd = "open"
           \/ op'.pc = "c-check" /\ ~op'.chain
           \/ op'.pc = "n-check" /\ op'.cmd = "apply" /\ ~op'.chain
    <3>1. CASE op' = [a EXCEPT !.cmd = "open", !.chain = TRUE]
      BY <2>3, <3>1 DEF Operations
    <3>2. CASE op' = [b EXCEPT !.cmd = "reconcile"]
      BY <2>3, <3>2 DEF Operations
    <3>3. CASE op' = [c EXCEPT !.cmd = "apply"]
      BY <2>3, <3>3 DEF Operations
    <3>4. QED BY <2>2, <3>1, <3>2, <3>3
  <2>5. QED BY <1>1, <2>4, NominalFrom DEF NominalType
<1>3. QED BY <1>1, <1>2, NominalFrom, NominalPause DEF Shown, Waiting

\* a step of the transaction
LEMMA NominalRewrite ==
  ASSUME NominalInv, op' \in Operations, NominalType', op'.pc \in Rewriting \cup Recording,
         nvs'.acc = nvs.acc, nvs'.arm = nvs.arm, test' = test,
         seen'.lost = seen.lost, seen'.replay = seen.replay, seen'.armed = seen.armed, seen'.fired = seen.fired,
         Shown', "keys" \in chip'.mine => "keys" \in chip.mine,
         chip'.dm.d = 130 => chip.dm.d = 130, Rewritten'
  PROVE NominalInv'
<1>1. op'.pc \notin Opening \cup {"v-apply", "v-end"}
  BY DEF Opening, Rewriting, Recording
<1>2. Attempted' /\ Accessed'
  BY <1>1, NominalAccFrame
<1>3. Tested'
  BY <1>1, NominalTestFrame
<1>4. QED BY <1>2, <1>3 DEF NominalInv

LEMMA NominalCheck == ASSUME NominalInv, Nominal!Check PROVE NominalInv'
<1>1. UNCHANGED <<chip, nvs, test, seen>> /\ op.pc = "n-check" /\ op.cmd = "apply"
  BY DEF Nominal!Check, Nominal!Still, Nominal!At, NominalInv, NominalType
<1>2. chip.sec = 1 /\ ~chip.cfg /\ ~Nominal!Stale(nvs.tx) /\ Nominal!Policy(chip.dm)
  BY DEF Nominal!Check
<1>3. CASE op' = Nominal!After(TRUE)
  BY <1>1, <1>3, NominalAfter, NominalFrom, NominalRest DEF Shown
<1>4. CASE op' # Nominal!After(TRUE)
  <2> DEFINE want == Nominal!Pair(Nominal!Nominal, IF chip.dm = Nominal!Fresh THEN Nominal!Nominal ELSE chip.dm.f)
             t == [state |-> "Pending", act |-> 1, orig |-> chip.dm, target |-> want]
             g == Nominal!Go("n-prepare")
  <2>1. chip.dm.d = Nominal!Factory /\ Nominal!Matches(nvs.tx, chip.dm) /\ op' = [g EXCEPT !.from = chip.dm, !.want = want, !.tx = t]
    BY <1>4 DEF Nominal!Check
  <2>2. chip.dm \in Pairs /\ chip.dm \in Own
    BY <1>2, <2>1, NominalFrom DEF Gauges, Nominal!Policy, Pairs, Own, Nominal!Fresh, Nominal!Pair
  <2>3. want \in Own /\ want \in Pairs /\ want.d = Nominal!Nominal /\ want.f = IF chip.dm = Nominal!Fresh THEN Nominal!Nominal ELSE chip.dm.f
    BY <2>2 DEF Own, Pairs, Nominal!Pair, Caps, Nominal!Nominal, Nominal!Learned, Nominal!Factory
  <2>4. chip.dm = Nominal!Fresh \/ chip.dm.f \in {Nominal!Nominal, Nominal!Learned}
    BY <1>2 DEF Nominal!Policy
  <2> HIDE DEF want
  <2>5. t \in Transactions /\ t.state = "Pending" /\ t.orig = chip.dm /\ t.target = want
    BY <2>2, <2>3 DEF Transactions
  <2>6. g \in Operations /\ g.pc = "n-prepare" /\ g.cmd = "apply" /\ g.chain = op.chain
    BY <1>1, NominalFrom, NominalGo DEF Recording
  <2> HIDE DEF t, g
  <2>7. op' \in Operations /\ op'.pc = "n-prepare" /\ op'.cmd = "apply" /\ op'.chain = op.chain
        /\ op'.from = chip.dm /\ op'.want = want /\ op'.tx = t
    <3>1. op' \in Operations /\ op'.pc = g.pc /\ op'.cmd = g.cmd /\ op'.chain = g.chain
          /\ op'.from = chip.dm /\ op'.want = want /\ op'.tx = t
      BY <2>1, <2>2, <2>3, <2>5, <2>6 DEF Operations
    <3>2. QED BY <3>1, <2>6
  <2>8. t # Nominal!None
    BY <2>5, NominalFrom
  <2>9. Intended'
    BY <1>1, <2>1, <2>3, <2>4, <2>5, <2>7, <2>8 DEF Intended
  <2>10. nvs.tx # Nominal!None => nvs.tx.orig = chip.dm
    <3>1. nvs.tx # Nominal!None => nvs.tx.state # "none"
      BY NominalFrom DEF Transactions
    <3>2. QED BY <2>1, <3>1 DEF Nominal!Matches
  <2>11. Rewritten'
    BY <1>1, <1>2, <2>5, <2>7, <2>9, <2>10 DEF NominalInv, Rewritten, Rewriting, Nominal!Stale, Nominal!Changed, Nominal!Restorable
  <2>12. NominalType'
    BY <1>1, <2>7, NominalFrom DEF NominalType
  <2>13. QED BY <1>1, <2>7, <2>11, <2>12, NominalFrom, NominalRewrite DEF Shown, Recording
<1>5. QED BY <1>3, <1>4

LEMMA NominalPrepare == ASSUME NominalInv, Nominal!Prepare PROVE NominalInv'
<1>1. UNCHANGED <<chip, test, seen>> /\ op.pc = "n-prepare" /\ Nominal!Store("tx", op.tx, Nominal!Go("n-enter"), Nominal!After(FALSE))
  BY DEF Nominal!Prepare, Nominal!Still, Nominal!At
<1>2. /\ op.tx \in Transactions /\ op.tx # Nominal!None /\ op.tx.state = "Pending" /\ op.cmd = "apply" /\ ~chip.cfg
      /\ (nvs.tx # Nominal!None => nvs.tx.orig = op.tx.orig) /\ ("pair" \in chip.mine => chip.dm = op.from)
      /\ op.from = op.tx.orig /\ op.want = op.tx.target /\ Intended
      /\ op.from = Nominal!Fresh \/ op.from.f \in {Nominal!Nominal, Nominal!Learned}
      /\ "pair" \in chip.mine => nvs.tx # Nominal!None /\ nvs.tx.orig = seen.base
  BY <1>1, NominalFrom DEF NominalInv, Rewritten, Intended
<1>3. /\ nvs' \in Journals /\ nvs'.acc = nvs.acc /\ nvs'.arm = nvs.arm
      /\ (nvs'.tx = op.tx /\ op' = Nominal!Go("n-enter")) \/ (nvs'.tx \in {op.tx, nvs.tx} /\ op' = Nominal!After(FALSE))
  BY <1>1, <1>2, NominalFrom, NominalStore_tx
<1>4. /\ "pair" \in chip.mine =>
           /\ nvs'.tx # Nominal!None /\ nvs'.tx.orig = seen.base /\ Nominal!Restorable(nvs'.tx, chip.dm)
           /\ Nominal!Stale(nvs'.tx) \/ ~Nominal!Changed(nvs'.tx) \/ chip.dm \in {nvs'.tx.orig, nvs'.tx.target}
  <2>1. CASE nvs'.tx = op.tx
    BY <1>2, <2>1 DEF Nominal!Restorable, Nominal!Changed, Nominal!Stale, Nominal!Unresolved
  <2>2. CASE nvs'.tx = nvs.tx
    BY <2>2 DEF NominalInv, Rewritten
  <2>3. QED BY <1>3, <2>1, <2>2
<1>5. CASE op' = Nominal!Go("n-enter") /\ nvs'.tx = op.tx
  <2>1. /\ op' \in Operations /\ op'.pc = "n-enter" /\ op'.cmd = op.cmd /\ op'.chain = op.chain /\ op'.tx = op.tx
        /\ op'.from = op.from /\ op'.want = op.want
    BY <1>5, NominalFrom, NominalGo DEF Rewriting
  <2>2. Intended' /\ SamePairs'
    BY <1>2, <1>5, <2>1 DEF Intended, SamePairs
  <2>3. Rewritten'
    BY <1>1, <1>2, <1>4, <1>5, <2>1, <2>2 DEF Rewritten, Rewriting
  <2>4. NominalType'
    BY <1>1, <1>3, <2>1, NominalFrom DEF NominalType
  <2>5. QED BY <1>1, <1>3, <2>1, <2>3, <2>4, NominalFrom, NominalRewrite DEF Shown, Rewriting
<1>6. CASE op' = Nominal!After(FALSE)
  <2>1. Rested(op')
    BY <1>6, NominalAfter, NominalFrom
  <2>2. op'.pc \notin Opening \cup Rewriting \cup Recording \cup {"v-apply", "v-end"}
    BY <2>1 DEF Rested, Opening, Rewriting, Recording
  <2>3. Rewritten'
    BY <1>1, <1>2, <1>4, <2>2 DEF Rewritten, Recording
  <2>4. Attempted' /\ Accessed' /\ Tested'
    BY <1>1, <1>3, <2>2, NominalAccFrame, NominalTestFrame
  <2>5. QED BY <1>1, <1>3, <2>1, <2>3, <2>4, NominalFrom DEF NominalInv, NominalType, Rested, Shown
<1>7. QED BY <1>3, <1>5, <1>6

LEMMA NominalAskRestore == ASSUME NominalInv, Nominal!AskRestore PROVE NominalInv'
<1>1. UNCHANGED <<chip, nvs, test, seen>> /\ op.pc = "idle" /\ ~op.chain
  BY DEF Nominal!AskRestore, Nominal!Still, Nominal!At, NominalInv, NominalType
<1>2. nvs.tx \in Transactions /\ nvs.tx # Nominal!None /\ (chip.cfg => Nominal!Stale(nvs.tx)) /\ Nominal!Restorable(nvs.tx, chip.dm)
  BY NominalFrom DEF Nominal!AskRestore
<1> DEFINE want == Nominal!Pair(nvs.tx.orig.d, IF Nominal!Changed(nvs.tx) THEN nvs.tx.orig.f ELSE chip.dm.f)
           t == [nvs.tx EXCEPT !.act = 2, !.state = "Restored"]
           u == [nvs.tx EXCEPT !.act = 2, !.state = "Pending"]
           g == Nominal!Go("n-final")
           h == Nominal!Go("r-prepare")
<1>3. \/ /\ ~chip.cfg /\ chip.dm = want
         /\ op' = [[g EXCEPT !.cmd = "restore", !.from = chip.dm, !.want = want, !.tx = t] EXCEPT !.roll = TRUE]
      \/ op' = [h EXCEPT !.cmd = "restore", !.from = chip.dm, !.want = want, !.tx = u]
  BY DEF Nominal!AskRestore
<1>4. chip.dm \in Pairs /\ nvs.tx.orig \in Own /\ nvs.tx.target \in Own
  BY <1>2, NominalFrom DEF Gauges, Transactions
<1>5. want \in Pairs /\ want.d = nvs.tx.orig.d /\ want.f = IF Nominal!Changed(nvs.tx) THEN nvs.tx.orig.f ELSE chip.dm.f
  BY <1>4 DEF Own, Pairs, Nominal!Pair, Caps
<1>6. /\ t \in Transactions /\ t.state = "Restored" /\ t.orig = nvs.tx.orig /\ t.target = nvs.tx.target
      /\ u \in Transactions /\ u.state = "Pending" /\ u.orig = nvs.tx.orig /\ u.target = nvs.tx.target
  BY <1>2 DEF Transactions
<1>7. /\ g \in Operations /\ g.pc = "n-final" /\ g.chain = op.chain
      /\ h \in Operations /\ h.pc = "r-prepare" /\ h.chain = op.chain
  BY NominalFrom, NominalGo DEF Recording
<1>8. t # Nominal!None /\ u # Nominal!None
  BY <1>6, NominalFrom
<1>9. (Nominal!Changed(nvs.tx) => want = nvs.tx.orig) /\ (~chip.cfg /\ chip.dm = want => (Nominal!Changed(nvs.tx) => chip.dm \in {nvs.tx.orig, nvs.tx.target}))
  BY <1>4 DEF Own, Nominal!Pair
<1> HIDE DEF want, t, u, g, h
<1>10. /\ op' \in Operations /\ op'.cmd = "restore" /\ op'.from = chip.dm /\ op'.want = want /\ ~op'.chain
       /\ \/ op'.pc = "n-final" /\ op'.tx = t /\ ~chip.cfg /\ chip.dm = want
          \/ op'.pc = "r-prepare" /\ op'.tx = u
  <2>1. CASE op' = [h EXCEPT !.cmd = "restore", !.from = chip.dm, !.want = want, !.tx = u]
    <3>1. op' \in Operations /\ op'.pc = h.pc /\ op'.cmd = "restore" /\ op'.chain = h.chain
          /\ op'.from = chip.dm /\ op'.want = want /\ op'.tx = u
      BY <1>4, <1>5, <1>6, <1>7, <2>1 DEF Operations
    <3>2. QED BY <1>1, <1>7, <3>1
  <2>2. CASE /\ ~chip.cfg /\ chip.dm = want
             /\ op' = [[g EXCEPT !.cmd = "restore", !.from = chip.dm, !.want = want, !.tx = t] EXCEPT !.roll = TRUE]
    <3> DEFINE z == [g EXCEPT !.cmd = "restore", !.from = chip.dm, !.want = want, !.tx = t]
    <3>5. z = [g EXCEPT !.cmd = "restore", !.from = chip.dm, !.want = want, !.tx = t]
      OBVIOUS
    <3> HIDE DEF z
    <3>1. /\ z \in Operations /\ z.pc = g.pc /\ z.cmd = "restore" /\ z.chain = g.chain
          /\ z.from = chip.dm /\ z.want = want /\ z.tx = t
      BY <1>4, <1>5, <1>6, <1>7, <3>5 DEF Operations
    <3>2. op' = [z EXCEPT !.roll = TRUE]
      BY <2>2, <3>5
    <3>3. op' \in Operations /\ op'.pc = z.pc /\ op'.cmd = z.cmd /\ op'.chain = z.chain
          /\ op'.from = z.from /\ op'.want = z.want /\ op'.tx = z.tx
      BY <3>1, <3>2 DEF Operations
    <3>4. QED BY <1>1, <1>7, <2>2, <3>1, <3>3
  <2>3. QED BY <1>3, <2>1, <2>2
<1>11. SamePairs'
  BY <1>1, <1>2, <1>6, <1>8, <1>10 DEF SamePairs
<1>12. op'.pc = "r-prepare" => Intended'
  BY <1>1, <1>2, <1>5, <1>6, <1>8, <1>10 DEF Intended, Nominal!Restorable, Nominal!Changed
<1>13. Rewritten'
  BY <1>1, <1>6, <1>9, <1>10, <1>11, <1>12 DEF NominalInv, Rewritten, Rewriting, Nominal!Stale, Nominal!Changed, Nominal!Restorable
<1>14. NominalType'
  BY <1>1, <1>10, NominalFrom DEF NominalType
<1>15. QED BY <1>1, <1>10, <1>13, <1>14, NominalFrom, NominalRewrite DEF Shown, Recording

LEMMA NominalRestorePrepare == ASSUME NominalInv, Nominal!RestorePrepare PROVE NominalInv'
<1> DEFINE b == IF chip.cfg THEN Nominal!Go("r-leave") ELSE Nominal!After(FALSE)
<1>1. UNCHANGED <<chip, test, seen>> /\ op.pc = "r-prepare" /\ Nominal!Store("tx", op.tx, Nominal!Go("n-enter"), b)
  BY DEF Nominal!RestorePrepare, Nominal!Still, Nominal!At
<1>2. op.tx \in Transactions /\ op.tx # Nominal!None /\ op.tx.state = "Pending" /\ Intended /\ SamePairs
  BY <1>1, NominalFrom DEF NominalInv, Rewritten, Intended
<1>3. /\ nvs' \in Journals /\ nvs'.acc = nvs.acc /\ nvs'.arm = nvs.arm
      /\ (nvs'.tx = op.tx /\ op' = Nominal!Go("n-enter")) \/ (nvs'.tx \in {op.tx, nvs.tx} /\ op' = b)
  <2> HIDE DEF b
  <2>1. QED BY <1>1, <1>2, NominalFrom, NominalStore_tx
<1>4. /\ "pair" \in chip.mine =>
           /\ nvs'.tx # Nominal!None /\ nvs'.tx.orig = seen.base /\ Nominal!Restorable(nvs'.tx, chip.dm)
           /\ Nominal!Stale(nvs'.tx) \/ ~Nominal!Changed(nvs'.tx) \/ chip.dm \in {nvs'.tx.orig, nvs'.tx.target}
      /\ chip.cfg /\ "cfg" \in chip.mine => Nominal!Stale(nvs'.tx)
  <2>1. CASE nvs'.tx = op.tx
    BY <1>2, <2>1 DEF NominalInv, Rewritten, SamePairs, Nominal!Restorable, Nominal!Changed, Nominal!Stale, Nominal!Unresolved
  <2>2. CASE nvs'.tx = nvs.tx
    BY <2>2 DEF NominalInv, Rewritten
  <2>3. QED BY <1>3, <2>1, <2>2
<1>5. CASE op' = Nominal!Go("n-enter") /\ nvs'.tx = op.tx
  <2>1. /\ op' \in Operations /\ op'.pc = "n-enter" /\ op'.cmd = op.cmd /\ op'.chain = op.chain /\ op'.tx = op.tx
        /\ op'.from = op.from /\ op'.want = op.want
    BY <1>5, NominalFrom, NominalGo DEF Rewriting
  <2>2. Intended' /\ SamePairs'
    BY <1>2, <1>5, <2>1 DEF Intended, SamePairs
  <2>3. Rewritten'
    BY <1>1, <1>2, <1>4, <1>5, <2>1, <2>2 DEF Rewritten, Rewriting
  <2>4. NominalType'
    BY <1>1, <1>3, <2>1, NominalFrom DEF NominalType
  <2>5. QED BY <1>1, <1>3, <2>1, <2>3, <2>4, NominalFrom, NominalRewrite DEF Shown, Rewriting
<1>6. CASE op' = b
  <2>1. NominalType' /\ op'.pc \in Waiting \ {"v-apply", "v-end"}
    <3>1. CASE op' = Nominal!After(FALSE)
      <4>1. Rested(op')
        BY <3>1, NominalAfter, NominalFrom
      <4>2. QED BY <1>1, <1>3, <4>1, NominalFrom DEF NominalType, Rested, Waiting
    <3>2. CASE op' = Nominal!Go("r-leave")
      <4>1. op' \in Operations /\ op'.pc = "r-leave" /\ op'.chain = op.chain /\ op'.cmd = op.cmd
        BY <3>2, NominalFrom, NominalGo DEF Waiting
      <4>2. QED BY <1>1, <1>3, <4>1, NominalFrom DEF NominalType, Waiting
    <3>3. QED BY <1>6, <3>1, <3>2
  <2>2. op'.pc \notin Opening \cup Rewriting \cup Recording \cup {"v-apply", "v-end"}
    BY <2>1 DEF Waiting, Opening, Rewriting, Recording
  <2>3. Rewritten'
    BY <1>1, <1>2, <1>4, <2>2 DEF Rewritten, Recording
  <2>4. Attempted' /\ Accessed' /\ Tested'
    BY <1>1, <1>3, <2>2, NominalAccFrame, NominalTestFrame
  <2>5. QED BY <1>1, <2>1, <2>3, <2>4, NominalFrom DEF NominalInv, Shown
<1>7. QED BY <1>3, <1>5, <1>6

\* the pairs between the one a transaction starts from and the one it is to leave
LEMMA NominalWithin ==
  ASSUME NominalInv, Intended, SamePairs
  PROVE /\ op.from.d # 130 /\ op.want.d # 130
        /\ \A p \in Pairs : p.d \in {op.from.d, op.want.d} /\ p.f \in {op.from.f, op.want.f} => Nominal!Restorable(nvs.tx, p)
        /\ op.cmd = "apply" => op.from = op.tx.orig
        /\ Nominal!Changed(op.tx) => op.tx.orig = (IF op.cmd = "restore" THEN op.want ELSE op.from)
        /\ op.cmd = "apply" => op.want = op.tx.target
<1>1. op.tx \in Transactions /\ op.from \in Pairs /\ op.want \in Pairs
  BY NominalFrom DEF Intended, Operations
<1>2. op.tx.orig \in Own /\ op.tx.target \in Own /\ nvs.tx.orig = op.tx.orig /\ nvs.tx.target = op.tx.target
  BY <1>1 DEF Transactions, SamePairs
<1>3. op.tx.orig.d \in {65, 3000} /\ op.tx.target.d \in {65, 3000}
  BY <1>2 DEF Own, Nominal!Nominal, Nominal!Factory
<1>4. CASE op.cmd = "apply"
  BY <1>1, <1>2, <1>3, <1>4 DEF Intended, Nominal!Restorable, Nominal!Changed, Nominal!Fresh, Nominal!Pair, Nominal!Nominal, Nominal!Factory
<1>5. CASE op.cmd = "restore"
  <2>1. Nominal!Changed(op.tx) => op.want = op.tx.orig
    <3>1. Nominal!Changed(op.tx) => op.want.d = op.tx.orig.d /\ op.want.f = op.tx.orig.f
      BY <1>5 DEF Intended
    <3>2. QED BY <1>1, <1>2, <3>1 DEF Pairs, Own
  <2>2. QED BY <1>1, <1>2, <1>3, <1>5, <2>1 DEF Intended, Nominal!Restorable, Nominal!Changed, Nominal!Nominal, Nominal!Factory
<1>6. QED BY <1>4, <1>5 DEF Intended

\* a step inside the transaction, of the same pairs
Following ==
  /\ op' \in Operations /\ op'.cmd = op.cmd /\ op'.chain = op.chain /\ op'.tx = op.tx
  /\ op'.from = op.from /\ op'.want = op.want /\ op'.pc \in Rewriting \ {"n-enter"}

LEMMA NominalFollow ==
  ASSUME NominalInv, op.pc \in Rewriting, Following, nvs' = nvs, test' = test,
         seen' \in Pasts, seen'.lost = seen.lost, seen'.replay = seen.replay, seen'.armed = seen.armed,
         seen'.fired = seen.fired,
         chip' \in Gauges, Shown', "keys" \in chip'.mine => "keys" \in chip.mine,
         chip'.sec = 2 \/ (seen'.base = op.tx.orig /\ Within'),
         \/ chip'.dm = chip.dm /\ ("pair" \in chip'.mine => "pair" \in chip.mine) /\ ("pair" \in chip.mine => seen'.base = seen.base)
         \/ seen'.base = op.tx.orig /\ Within'
  PROVE NominalInv'
<1>1. Intended /\ SamePairs /\ nvs.tx.state = "Pending" /\ op.tx.state = "Pending" /\ nvs.tx # Nominal!None
  BY DEF NominalInv, Rewritten, SamePairs
<1>2. Intended' /\ SamePairs'
  BY <1>1 DEF Intended, SamePairs, Following
<1>3. NominalType'
  BY NominalFrom DEF NominalType, Following, Rewriting
<1>4. "pair" \in chip'.mine => nvs'.tx # Nominal!None /\ nvs'.tx.orig = seen'.base /\ Nominal!Restorable(nvs'.tx, chip'.dm)
  <2>1. CASE chip'.dm = chip.dm /\ ("pair" \in chip'.mine => "pair" \in chip.mine) /\ ("pair" \in chip.mine => seen'.base = seen.base)
    BY <2>1 DEF NominalInv, Rewritten
  <2>2. CASE seen'.base = op.tx.orig /\ Within'
    <3>1. chip'.dm \in Pairs /\ chip'.dm.d \in {op.from.d, op.want.d} /\ chip'.dm.f \in {op.from.f, op.want.f}
      BY <2>2 DEF Within, Following, Gauges
    <3>2. Nominal!Restorable(nvs.tx, chip'.dm)
      BY <1>1, <3>1, NominalWithin
    <3>3. QED BY <1>1, <2>2, <3>2 DEF SamePairs
  <2>3. QED BY <2>1, <2>2
<1>5. Nominal!Stale(nvs'.tx)
  BY <1>1 DEF Nominal!Stale, Nominal!Unresolved
<1>6. chip'.dm.d = 130 => chip.dm.d = 130
  <2>1. CASE chip'.dm = chip.dm
    BY <2>1
  <2>2. CASE Within'
    BY <1>1, <2>2, NominalWithin DEF Within, Following
  <2>3. QED BY <2>1, <2>2
<1>7. Rewritten'
  BY <1>1, <1>2, <1>4, <1>5 DEF Rewritten, Rewriting, Following
<1>8. QED BY <1>3, <1>6, <1>7, NominalRewrite DEF Following


\* entering CFGUPDATE, seen or not
LEMMA NominalEntered ==
  ASSUME chip \in Gauges, Shown, NEW got \in BOOLEAN,
         chip' = IF got /\ chip.sec = 1 THEN [chip EXCEPT !.cfg = TRUE, !.mine = @ \cup {"cfg"}] ELSE chip
  PROVE /\ chip' \in Gauges /\ Shown' /\ chip'.sec = chip.sec /\ chip'.dm = chip.dm
        /\ "pair" \in chip'.mine => "pair" \in chip.mine
        /\ "keys" \in chip'.mine => "keys" \in chip.mine
<1>1. CASE chip' = chip
  BY <1>1 DEF Shown
<1>2. CASE chip' # chip
  <2>1. PICK m \in SUBSET {"cfg", "pair", "keys"} :
          m = chip.mine \cup {"cfg"} /\ chip' = [chip EXCEPT !.cfg = TRUE, !.mine = m]
    BY <1>2 DEF Gauges
  <2>2. chip' \in Gauges /\ chip'.sec = chip.sec /\ chip'.cfg /\ chip'.dm = chip.dm /\ chip'.std = chip.std /\ chip'.mine = m
    BY <2>1 DEF Gauges
  <2>3. QED BY <2>1, <2>2 DEF Shown
<1>3. QED BY <1>1, <1>2

\* one field of the pair is written, or nothing is
LEMMA NominalWritten ==
  ASSUME NominalInv, NEW x \in {"d", "f"}, NEW v \in Caps, NEW ok \in BOOLEAN, Nominal!Written(x, v, ok)
  PROVE /\ chip' \in Gauges /\ Shown' /\ chip'.sec = chip.sec
        /\ "keys" \in chip'.mine => "keys" \in chip.mine
        /\ \/ chip' = chip
           \/ chip.sec = 1 /\ (IF x = "d" THEN chip'.dm.d = v /\ chip'.dm.f = chip.dm.f
                                          ELSE chip'.dm.f = v /\ chip'.dm.d = chip.dm.d)
<1>1. CASE chip' = chip
  BY <1>1, NominalFrom DEF Shown
<1>2. CASE chip' # chip
  <2>1. /\ chip.cfg /\ chip.sec = 1
        /\ chip' = [chip EXCEPT !.dm = [@ EXCEPT ![x] = v], !.mine = @ \cup {"pair"}]
    BY <1>2 DEF Nominal!Written
  <2>2. chip.dm \in Pairs /\ chip \in Gauges
    BY NominalFrom DEF Gauges
  <2>3. PICK p \in Pairs : /\ p = [chip.dm EXCEPT ![x] = v]
                           /\ IF x = "d" THEN p.d = v /\ p.f = chip.dm.f ELSE p.f = v /\ p.d = chip.dm.d
    <3>1. CASE x = "d"
      <4> DEFINE q == [chip.dm EXCEPT !.d = v]
      <4>1. q \in Pairs /\ q.d = v /\ q.f = chip.dm.f
        BY <2>2 DEF Pairs
      <4>2. q = [chip.dm EXCEPT ![x] = v]
        BY <3>1
      <4> HIDE DEF q
      <4>3. QED BY <3>1, <4>1, <4>2
    <3>2. CASE x = "f"
      <4> DEFINE q == [chip.dm EXCEPT !.f = v]
      <4>1. q \in Pairs /\ q.f = v /\ q.d = chip.dm.d
        BY <2>2 DEF Pairs
      <4>2. q = [chip.dm EXCEPT ![x] = v]
        BY <3>2
      <4> HIDE DEF q
      <4>3. QED BY <3>2, <4>1, <4>2
    <3>3. QED BY <3>1, <3>2
  <2>4. PICK m \in SUBSET {"cfg", "pair", "keys"} : m = chip.mine \cup {"pair"} /\ chip' = [chip EXCEPT !.dm = p, !.mine = m]
    BY <2>1, <2>2, <2>3 DEF Gauges
  <2>5. chip' \in Gauges /\ chip'.sec = chip.sec /\ chip'.cfg = chip.cfg /\ chip'.dm = p /\ chip'.std = chip.std /\ chip'.mine = m
    BY <2>2, <2>4 DEF Gauges
  <2>6. QED BY <2>1, <2>3, <2>4, <2>5, NominalFrom DEF Shown
<1>3. QED BY <1>1, <1>2

\* a write of the transaction leaves the pair between the two
LEMMA NominalFieldWritten ==
  ASSUME NominalInv, op.pc \in Rewriting \ {"n-enter"}, Following, UNCHANGED <<nvs, test, seen>>,
         NEW x \in {"d", "f"}, NEW v \in Caps, NEW ok \in BOOLEAN, Nominal!Written(x, v, ok),
         x = "d" => v \in {op.from.d, op.want.d}, x = "f" => v \in {op.from.f, op.want.f}
  PROVE NominalInv'
<1>1. /\ chip' \in Gauges /\ Shown' /\ chip'.sec = chip.sec
      /\ "keys" \in chip'.mine => "keys" \in chip.mine
      /\ \/ chip' = chip
         \/ chip.sec = 1 /\ (IF x = "d" THEN chip'.dm.d = v /\ chip'.dm.f = chip.dm.f
                                        ELSE chip'.dm.f = v /\ chip'.dm.d = chip.dm.d)
  BY NominalWritten
<1>2. chip.sec = 2 \/ (seen.base = op.tx.orig /\ Within)
  BY DEF NominalInv, Rewritten
<1>3. chip.sec = 2 => chip' = chip
  BY <1>1
<1>4. Within => Within'
  BY <1>1 DEF Within, Following
<1>5. seen' \in Pasts
  BY NominalFrom
<1>6. QED BY <1>1, <1>2, <1>3, <1>4, <1>5, NominalFollow

\* what a step inside the transaction may set of its operation
LEMMA NominalFlags ==
  ASSUME NominalInv, NEW a \in Rewriting \ {"n-enter"}, NEW k \in BOOLEAN, NEW l \in BOOLEAN, NEW m \in BOOLEAN
  PROVE /\ op' = Nominal!Go(a) => Following /\ op'.pc = a
        /\ op' = [Nominal!Go(a) EXCEPT !.roll = k] => Following /\ op'.pc = a
        /\ op' = [Nominal!Go(a) EXCEPT !.fwd = k] => Following /\ op'.pc = a
        /\ op' = [Nominal!Go(a) EXCEPT !.td = k, !.tf = l, !.roll = m] => Following /\ op'.pc = a
        /\ op' = [Nominal!Go(a) EXCEPT !.td = k, !.tf = l] => Following /\ op'.pc = a
        /\ op' = [Nominal!Go(a) EXCEPT !.td = k, !.fwd = l, !.roll = m] => Following /\ op'.pc = a
        /\ op' = [Nominal!Go(a) EXCEPT !.tf = k, !.fwd = l] => Following /\ op'.pc = a
        /\ op' = [Nominal!Go(a) EXCEPT !.roll = k, !.fwd = l] => Following /\ op'.pc = a
        /\ op' = [op EXCEPT !.td = k, !.roll = l] /\ op.pc = a => Following /\ op'.pc = a
        /\ op' = [op EXCEPT !.tf = k, !.roll = l] /\ op.pc = a => Following /\ op'.pc = a
<1> DEFINE g == Nominal!Go(a)
<1>1. /\ g \in Operations /\ g.pc = a /\ g.cmd = op.cmd /\ g.chain = op.chain
      /\ g.tx = op.tx /\ g.from = op.from /\ g.want = op.want /\ op \in Operations
  BY NominalGo, NominalFrom
<1> HIDE DEF g
<1>2. op' = g => Following /\ op'.pc = a
  BY <1>1 DEF Following
<1>3. op' = [g EXCEPT !.roll = k] => Following /\ op'.pc = a
  BY <1>1 DEF Following, Operations
<1>4. op' = [g EXCEPT !.fwd = k] => Following /\ op'.pc = a
  BY <1>1 DEF Following, Operations
<1>5. op' = [g EXCEPT !.td = k, !.tf = l, !.roll = m] => Following /\ op'.pc = a
  BY <1>1 DEF Following, Operations
<1>6. op' = [g EXCEPT !.td = k, !.tf = l] => Following /\ op'.pc = a
  BY <1>1 DEF Following, Operations
<1>7. op' = [g EXCEPT !.td = k, !.fwd = l, !.roll = m] => Following /\ op'.pc = a
  BY <1>1 DEF Following, Operations
<1>8. op' = [g EXCEPT !.tf = k, !.fwd = l] => Following /\ op'.pc = a
  BY <1>1 DEF Following, Operations
<1>9. op' = [g EXCEPT !.roll = k, !.fwd = l] => Following /\ op'.pc = a
  BY <1>1 DEF Following, Operations
<1>10. op' = [op EXCEPT !.td = k, !.roll = l] /\ op.pc = a => Following /\ op'.pc = a
  BY <1>1 DEF Following, Operations
<1>11. op' = [op EXCEPT !.tf = k, !.roll = l] /\ op.pc = a => Following /\ op'.pc = a
  BY <1>1 DEF Following, Operations
<1>12. QED BY <1>2, <1>3, <1>4, <1>5, <1>6, <1>7, <1>8, <1>9, <1>10, <1>11 DEF g

LEMMA NominalDesign == ASSUME NominalInv, Nominal!Design PROVE NominalInv'
<1>1. UNCHANGED <<nvs, test, seen>> /\ op.pc = "n-design"
  BY DEF Nominal!Design, Nominal!Still, Nominal!At
<1>2. PICK ok \in BOOLEAN :
        /\ Nominal!Written("d", op.want.d, ok)
        /\ op' = [Nominal!Go(IF ~ok THEN "n-roll" ELSE IF op.from = Nominal!Fresh THEN "n-fcc" ELSE "n-exit")
                    EXCEPT !.td = TRUE, !.fwd = ok, !.roll = TRUE]
  BY DEF Nominal!Design
<1>3. PICK a \in Rewriting \ {"n-enter"} : op' = [Nominal!Go(a) EXCEPT !.td = TRUE, !.fwd = ok, !.roll = TRUE]
  <2> DEFINE a == IF ~ok THEN "n-roll" ELSE IF op.from = Nominal!Fresh THEN "n-fcc" ELSE "n-exit"
  <2>1. a \in Rewriting \ {"n-enter"}
    BY DEF Rewriting
  <2>2. op' = [Nominal!Go(a) EXCEPT !.td = TRUE, !.fwd = ok, !.roll = TRUE]
    BY <1>2
  <2> HIDE DEF a
  <2>3. QED BY <2>1, <2>2
<1>4. Following
  BY <1>3, NominalFlags
<1>5. op.want.d \in Caps
  BY NominalFrom DEF Operations, Pairs
<1>6. op.pc \in Rewriting \ {"n-enter"}
  BY <1>1 DEF Rewriting
<1>7. QED BY <1>1, <1>2, <1>4, <1>5, <1>6, NominalFieldWritten

LEMMA NominalFcc == ASSUME NominalInv, Nominal!Fcc PROVE NominalInv'
<1>1. UNCHANGED <<nvs, test, seen>> /\ op.pc = "n-fcc"
  BY DEF Nominal!Fcc, Nominal!Still, Nominal!At
<1>2. PICK ok \in BOOLEAN :
        Nominal!Written("f", op.want.f, ok) /\ op' = [Nominal!Go(IF ok THEN "n-exit" ELSE "n-roll") EXCEPT !.tf = TRUE, !.fwd = ok]
  BY DEF Nominal!Fcc
<1>3. PICK a \in Rewriting \ {"n-enter"} : op' = [Nominal!Go(a) EXCEPT !.tf = TRUE, !.fwd = ok]
  BY <1>2 DEF Rewriting
<1>4. Following
  BY <1>3, NominalFlags
<1>5. op.want.f \in Caps
  BY NominalFrom DEF Operations, Pairs
<1>6. op.pc \in Rewriting \ {"n-enter"}
  BY <1>1 DEF Rewriting
<1>7. QED BY <1>1, <1>2, <1>4, <1>5, <1>6, NominalFieldWritten

\* inside the transaction, nothing is written into the gauge
LEMMA NominalFollowStill ==
  ASSUME NominalInv, op.pc \in Rewriting \ {"n-enter"}, Following, UNCHANGED <<nvs, test, seen>>,
         chip' \in Gauges, Shown', chip'.dm = chip.dm, chip'.mine \ {"cfg"} \subseteq chip.mine,
         chip.sec = 2 => chip'.sec = 2
  PROVE NominalInv'
<1>1. chip.sec = 2 \/ (seen.base = op.tx.orig /\ Within)
  BY DEF NominalInv, Rewritten
<1>2. Within => Within'
  BY DEF Within, Following
<1>3. seen' \in Pasts
  BY NominalFrom
<1>4. QED BY <1>1, <1>2, <1>3, NominalFollow

LEMMA NominalRoll == ASSUME NominalInv, Nominal!Roll PROVE NominalInv'
<1>1. UNCHANGED <<nvs, test, seen>> /\ op.pc = "n-roll" /\ op.roll \in BOOLEAN
  BY NominalFrom DEF Nominal!Roll, Nominal!Still, Nominal!At, Operations
<1>2. op.pc \in Rewriting \ {"n-enter"}
  BY <1>1 DEF Rewriting
<1>3. Nominal!Old.d \in Caps /\ Nominal!Old.f \in Caps /\ Nominal!Old.d \in {op.from.d, op.want.d} /\ Nominal!Old.f \in {op.from.f, op.want.f}
  BY NominalFrom DEF Operations, Pairs, Nominal!Old
<1>4. CASE \E ok \in BOOLEAN : Nominal!Written("d", Nominal!Old.d, ok) /\ op' = [op EXCEPT !.td = FALSE, !.roll = @ /\ ok]
  <2>1. PICK ok \in BOOLEAN : Nominal!Written("d", Nominal!Old.d, ok) /\ op' = [op EXCEPT !.td = FALSE, !.roll = op.roll /\ ok]
    BY <1>4
  <2>2. PICK k \in BOOLEAN : op' = [op EXCEPT !.td = FALSE, !.roll = k]
    BY <2>1
  <2>3. Following
    BY <1>1, <1>2, <2>2, NominalFlags
  <2>4. QED BY <1>1, <1>2, <1>3, <2>1, <2>3, NominalFieldWritten
<1>5. CASE \E ok \in BOOLEAN : Nominal!Written("f", Nominal!Old.f, ok) /\ op' = [op EXCEPT !.tf = FALSE, !.roll = @ /\ ok]
  <2>1. PICK ok \in BOOLEAN : Nominal!Written("f", Nominal!Old.f, ok) /\ op' = [op EXCEPT !.tf = FALSE, !.roll = op.roll /\ ok]
    BY <1>5
  <2>2. PICK k \in BOOLEAN : op' = [op EXCEPT !.tf = FALSE, !.roll = k]
    BY <2>1
  <2>3. Following
    BY <1>1, <1>2, <2>2, NominalFlags
  <2>4. QED BY <1>1, <1>2, <1>3, <2>1, <2>3, NominalFieldWritten
<1>6. CASE UNCHANGED chip /\ \E ok \in BOOLEAN : op' = [Nominal!Go("n-exit") EXCEPT !.roll = @ /\ ok /\ chip.dm = Nominal!Old, !.fwd = FALSE]
  <2>1. PICK ok \in BOOLEAN : op' = [Nominal!Go("n-exit") EXCEPT !.roll = @ /\ ok /\ chip.dm = Nominal!Old, !.fwd = FALSE]
    BY <1>6
  <2>2. PICK g \in {Nominal!Go("n-exit")} : op' = [g EXCEPT !.roll = g.roll /\ ok /\ chip.dm = Nominal!Old, !.fwd = FALSE]
    BY <2>1
  <2>3. PICK k \in BOOLEAN : op' = [g EXCEPT !.roll = k, !.fwd = FALSE]
    BY <2>2
  <2>4. op' = [Nominal!Go("n-exit") EXCEPT !.roll = k, !.fwd = FALSE]
    BY <2>2, <2>3
  <2>5. "n-exit" \in Rewriting \ {"n-enter"}
    BY DEF Rewriting
  <2>6. Following
    BY <2>4, <2>5, NominalFlags
  <2>7. QED BY <1>1, <1>2, <1>6, <2>6, NominalFrom, NominalFollowStill DEF Shown
<1>7. QED BY <1>4, <1>5, <1>6 DEF Nominal!Roll

\* the transaction ends as its journal is to say
Finishing(s) ==
  /\ op' \in Operations /\ op'.pc = "n-final" /\ op'.cmd = op.cmd /\ op'.chain = op.chain
  /\ op'.tx \in Transactions /\ op'.tx.state = s /\ op'.tx.orig = op.tx.orig /\ op'.tx.target = op.tx.target

Ends == {"ExitFailed", "RollbackFailed", "Committed", "Restored", "RolledBack", "Sealed", "SealedOld"}

LEMMA NominalFinishing ==
  ASSUME NominalInv, op.tx \in Transactions, NEW s \in Ends, NEW k \in BOOLEAN, NEW l \in BOOLEAN
  PROVE /\ op' = [Nominal!Go("n-final") EXCEPT !.tx.state = s] => Finishing(s)
        /\ op' = [Nominal!Go("n-final") EXCEPT !.tx.state = s, !.fwd = k, !.roll = l] => Finishing(s)
        /\ op' = [Nominal!Go("n-final") EXCEPT !.tx.state = s, !.roll = l] => Finishing(s)
<1> DEFINE g == Nominal!Go("n-final")
           t == [op.tx EXCEPT !.state = s]
<1>1. g \in Operations /\ g.pc = "n-final" /\ g.cmd = op.cmd /\ g.chain = op.chain /\ g.tx = op.tx
  BY NominalGo, NominalFrom DEF Recording
<1>2. t \in Transactions /\ t.state = s /\ t.orig = op.tx.orig /\ t.target = op.tx.target
  BY DEF Transactions, Ends
<1>3. /\ op' = [Nominal!Go("n-final") EXCEPT !.tx.state = s] => op' = [g EXCEPT !.tx = t]
      /\ op' = [Nominal!Go("n-final") EXCEPT !.tx.state = s, !.fwd = k, !.roll = l] => op' = [g EXCEPT !.tx = t, !.fwd = k, !.roll = l]
      /\ op' = [Nominal!Go("n-final") EXCEPT !.tx.state = s, !.roll = l] => op' = [g EXCEPT !.tx = t, !.roll = l]
  BY <1>1
<1> HIDE DEF g, t
<1>4. op' = [g EXCEPT !.tx = t] => Finishing(s)
  BY <1>1, <1>2 DEF Finishing, Operations
<1>5. op' = [g EXCEPT !.tx = t, !.fwd = k, !.roll = l] => Finishing(s)
  BY <1>1, <1>2 DEF Finishing, Operations
<1>6. op' = [g EXCEPT !.tx = t, !.roll = l] => Finishing(s)
  BY <1>1, <1>2 DEF Finishing, Operations
<1>7. QED BY <1>3, <1>4, <1>5, <1>6

LEMMA NominalFinish ==
  ASSUME NominalInv, op.pc \in Rewriting, NEW s \in Ends, Finishing(s), UNCHANGED <<nvs, test, seen>>,
         chip' \in Gauges, Shown', chip'.dm = chip.dm, chip'.mine \subseteq chip.mine, chip'.cfg => chip.cfg,
         \/ s \in {"ExitFailed", "RollbackFailed"}
         \/ ~chip'.cfg /\ (Nominal!Changed(op.tx) => chip.dm \in {op.tx.orig, op.tx.target})
  PROVE NominalInv'
<1>1. SamePairs /\ op.tx \in Transactions
  BY NominalFrom DEF NominalInv, Rewritten, SamePairs
<1>2. op'.tx # Nominal!None
  BY NominalFrom DEF Finishing
<1>3. SamePairs'
  BY <1>1, <1>2 DEF SamePairs, Finishing
<1>4. s \in {"ExitFailed", "RollbackFailed"} => Nominal!Stale(op'.tx)
  BY DEF Finishing, Nominal!Stale, Nominal!Unresolved
<1>5. Nominal!Changed(op'.tx) <=> Nominal!Changed(op.tx)
  BY DEF Nominal!Changed, Finishing
<1>6. Rewritten'
  BY <1>3, <1>4, <1>5 DEF NominalInv, Rewritten, Rewriting, Finishing, Nominal!Stale, Nominal!Restorable, Nominal!Changed
<1>7. NominalType'
  BY NominalFrom DEF NominalType, Finishing
<1>8. QED BY <1>6, <1>7, NominalRewrite DEF Finishing, Recording

LEMMA NominalExit == ASSUME NominalInv, Nominal!Exit PROVE NominalInv'
<1>1. UNCHANGED <<nvs, test, seen>> /\ op.pc = "n-exit"
  BY DEF Nominal!Exit, Nominal!Still, Nominal!At
<1>2. PICK ok \in BOOLEAN :
        /\ Nominal!Exited(ok)
        /\ op' = IF ok THEN Nominal!Go("n-verify") ELSE [Nominal!Go("n-final") EXCEPT !.tx.state = "ExitFailed", !.fwd = FALSE, !.roll = FALSE]
  BY DEF Nominal!Exit
<1>3. /\ chip' \in Gauges /\ Shown' /\ chip'.dm = chip.dm /\ (chip'.cfg => chip.cfg) /\ chip'.mine \subseteq chip.mine
      /\ chip.sec = 2 => chip'.sec = 2
  BY <1>2, NominalFrom, NominalExited
<1>4. op.pc \in Rewriting \ {"n-enter"} /\ "n-verify" \in Rewriting \ {"n-enter"} /\ "ExitFailed" \in Ends
  BY <1>1 DEF Rewriting, Ends
<1>5. op.tx \in Transactions
  BY <1>4, NominalFrom DEF NominalInv, Rewritten, SamePairs
<1>6. CASE op' = Nominal!Go("n-verify")
  <2>1. Following
    BY <1>4, <1>6, NominalFlags
  <2>2. QED BY <1>1, <1>3, <1>4, <2>1, NominalFollowStill
<1>7. CASE op' = [Nominal!Go("n-final") EXCEPT !.tx.state = "ExitFailed", !.fwd = FALSE, !.roll = FALSE]
  <2>1. Finishing("ExitFailed")
    BY <1>4, <1>5, <1>7, NominalFinishing
  <2>2. QED BY <1>1, <1>3, <1>4, <2>1, NominalFinish
<1>8. QED BY <1>2, <1>6, <1>7

LEMMA NominalVerify == ASSUME NominalInv, Nominal!Verify PROVE NominalInv'
<1>1. UNCHANGED <<chip, nvs, test, seen>> /\ op.pc = "n-verify"
  BY DEF Nominal!Verify, Nominal!Still, Nominal!At
<1>2. /\ op.pc \in Rewriting \ {"n-enter"} /\ "n-again" \in Rewriting \ {"n-enter"}
      /\ "ExitFailed" \in Ends /\ "RollbackFailed" \in Ends
  BY <1>1 DEF Rewriting, Ends
<1>3. op.tx \in Transactions /\ Intended /\ SamePairs
  BY <1>2, NominalFrom DEF NominalInv, Rewritten, SamePairs
<1>4. /\ chip' \in Gauges /\ Shown' /\ chip'.dm = chip.dm /\ (chip'.cfg => chip.cfg) /\ chip'.mine \subseteq chip.mine
      /\ chip.sec = 2 => chip'.sec = 2
  BY <1>1, NominalFrom DEF Shown
<1>5. ASSUME NEW s \in Ends, Nominal!Ended(s, "Sealed") \/ Nominal!Ended(s, "SealedOld"), ~chip.cfg,
             Nominal!Changed(op.tx) => chip.dm \in {op.tx.orig, op.tx.target}
      PROVE  NominalInv'
  <2>1. PICK z \in Ends : op' = [Nominal!Go("n-final") EXCEPT !.tx.state = z]
    BY <1>5 DEF Nominal!Ended, Ends
  <2>2. Finishing(z)
    BY <1>3, <2>1, NominalFinishing
  <2>3. QED BY <1>1, <1>2, <1>4, <1>5, <2>2, NominalFinish
<1>6. CASE op.fwd /\ Nominal!Verified(op.want) /\ Nominal!Ended("Committed", "Sealed")
  <2>1. ~chip.cfg /\ chip.dm = op.want
    BY <1>6, NominalFrom DEF Nominal!Verified, Nominal!ExitAccepted, Shown
  <2>2. Nominal!Changed(op.tx) => op.want \in {op.tx.orig, op.tx.target}
    BY <1>3, NominalWithin DEF Intended
  <2>3. "Committed" \in Ends
    BY DEF Ends
  <2>4. QED BY <1>5, <1>6, <2>1, <2>2, <2>3
<1>7. CASE op' = [Nominal!Go("n-final") EXCEPT !.tx.state = "ExitFailed", !.fwd = FALSE, !.roll = FALSE]
  <2>1. Finishing("ExitFailed")
    BY <1>2, <1>3, <1>7, NominalFinishing
  <2>2. QED BY <1>1, <1>2, <1>4, <2>1, NominalFinish
<1>8. CASE op' = [Nominal!Go("n-again") EXCEPT !.fwd = FALSE]
  <2>1. Following
    BY <1>2, <1>8, NominalFlags
  <2>2. QED BY <1>1, <1>2, <1>4, <2>1, NominalFollowStill
<1>9. CASE ~op.fwd /\ op.roll /\ Nominal!Verified(Nominal!Old) /\ Nominal!Ended(IF op.cmd = "restore" THEN "Restored" ELSE "RolledBack", "SealedOld")
  <2>1. ~chip.cfg /\ chip.dm = Nominal!Old
    BY <1>9, NominalFrom DEF Nominal!Verified, Nominal!ExitAccepted, Shown
  <2>2. Nominal!Changed(op.tx) => Nominal!Old \in {op.tx.orig, op.tx.target}
    BY <1>3, NominalWithin DEF Nominal!Old
  <2>3. "Restored" \in Ends /\ "RolledBack" \in Ends
    BY DEF Ends
  <2>4. QED BY <1>5, <1>9, <2>1, <2>2, <2>3
<1>10. CASE op' = [Nominal!Go("n-final") EXCEPT !.tx.state = "RollbackFailed", !.roll = FALSE]
  <2>1. Finishing("RollbackFailed")
    BY <1>2, <1>3, <1>10, NominalFinishing
  <2>2. QED BY <1>1, <1>2, <1>4, <2>1, NominalFinish
<1>11. QED BY <1>6, <1>7, <1>8, <1>9, <1>10 DEF Nominal!Verify

LEMMA NominalAgain == ASSUME NominalInv, Nominal!Again PROVE NominalInv'
<1>1. UNCHANGED <<nvs, test, seen>> /\ op.pc = "n-again"
  BY DEF Nominal!Again, Nominal!Still, Nominal!At
<1>2. PICK got \in BOOLEAN, ok \in BOOLEAN :
        /\ chip' = IF got /\ chip.sec = 1 THEN [chip EXCEPT !.cfg = TRUE, !.mine = @ \cup {"cfg"}] ELSE chip
        /\ op' = IF ok THEN [Nominal!Go("n-roll") EXCEPT !.td = TRUE, !.tf = Nominal!Changed(op.tx)] ELSE [Nominal!Go("n-exit") EXCEPT !.roll = FALSE]
  BY DEF Nominal!Again
<1>3. op.pc \in Rewriting \ {"n-enter"} /\ "n-roll" \in Rewriting \ {"n-enter"} /\ "n-exit" \in Rewriting \ {"n-enter"}
  BY <1>1 DEF Rewriting
<1>4. /\ chip' \in Gauges /\ Shown' /\ chip'.sec = chip.sec /\ chip'.dm = chip.dm
      /\ "pair" \in chip'.mine => "pair" \in chip.mine
      /\ "keys" \in chip'.mine => "keys" \in chip.mine
  BY <1>2, NominalFrom, NominalEntered
<1>5. chip'.mine \ {"cfg"} \subseteq chip.mine
  BY <1>4, NominalFrom DEF Gauges
<1>6. Following
  <2>1. CASE op' = [Nominal!Go("n-exit") EXCEPT !.roll = FALSE]
    BY <1>3, <2>1, NominalFlags
  <2>2. CASE op' = [Nominal!Go("n-roll") EXCEPT !.td = TRUE, !.tf = Nominal!Changed(op.tx)]
    <3>1. PICK l \in BOOLEAN : op' = [Nominal!Go("n-roll") EXCEPT !.td = TRUE, !.tf = l]
      BY <2>2 DEF Nominal!Changed
    <3>2. QED BY <1>3, <3>1, NominalFlags
  <2>3. QED BY <1>2, <2>1, <2>2
<1>7. QED BY <1>1, <1>3, <1>4, <1>5, <1>6, NominalFollowStill

LEMMA NominalEnter == ASSUME NominalInv, Nominal!Enter PROVE NominalInv'
<1>1. UNCHANGED <<nvs, test>> /\ op.pc = "n-enter"
  BY DEF Nominal!Enter, Nominal!At
<1>2. /\ op.pc \in Rewriting /\ {"n-design", "n-exit", "n-roll"} \subseteq Rewriting \ {"n-enter"}
      /\ "ExitFailed" \in Ends /\ "RollbackFailed" \in Ends
  BY <1>1 DEF Rewriting, Ends
<1>3. op.tx \in Transactions /\ Intended /\ SamePairs
  BY <1>2, NominalFrom DEF NominalInv, Rewritten, SamePairs
<1>4. CASE UNCHANGED seen /\ \E ok \in BOOLEAN :
             Nominal!Exited(ok) /\ op' = [Nominal!Go("n-final") EXCEPT !.tx.state = IF ok THEN "RollbackFailed" ELSE "ExitFailed"]
  <2>1. PICK ok \in BOOLEAN :
             Nominal!Exited(ok) /\ op' = [Nominal!Go("n-final") EXCEPT !.tx.state = IF ok THEN "RollbackFailed" ELSE "ExitFailed"]
    BY <1>4
  <2>2. PICK s \in {"RollbackFailed", "ExitFailed"} : op' = [Nominal!Go("n-final") EXCEPT !.tx.state = s]
    BY <2>1
  <2>3. Finishing(s)
    BY <1>2, <1>3, <2>2, NominalFinishing
  <2>4. /\ chip' \in Gauges /\ Shown' /\ chip'.dm = chip.dm /\ (chip'.cfg => chip.cfg) /\ chip'.mine \subseteq chip.mine
    BY <2>1, NominalFrom, NominalExited
  <2>5. QED BY <1>1, <1>2, <1>4, <2>3, <2>4, NominalFinish
<1>5. ASSUME NEW got \in BOOLEAN, NEW ok \in BOOLEAN,
          chip.dm = op.from,
          chip' = IF got /\ chip.sec = 1 THEN [chip EXCEPT !.cfg = TRUE, !.mine = @ \cup {"cfg"}] ELSE chip,
          seen' = IF "pair" \in chip.mine THEN seen
                  ELSE [seen EXCEPT !.base = IF op.cmd = "apply" THEN op.from ELSE op.tx.orig],
          op' = CASE op.cmd = "apply" -> [Nominal!Go(IF ok THEN "n-design" ELSE "n-exit") EXCEPT !.roll = TRUE]
                  [] op.cmd = "restore" ->
                       IF ok THEN [Nominal!Go("n-roll") EXCEPT !.td = op.from.d # op.want.d,
                                                       !.tf = Nominal!Changed(op.tx) /\ op.from.f # op.want.f, !.roll = TRUE]
                       ELSE Nominal!Go("n-exit")
      PROVE  NominalInv'
  <2>1. /\ chip' \in Gauges /\ Shown' /\ chip'.sec = chip.sec /\ chip'.dm = chip.dm
        /\ "pair" \in chip'.mine => "pair" \in chip.mine
        /\ "keys" \in chip'.mine => "keys" \in chip.mine
    BY <1>5, NominalFrom, NominalEntered
  <2>2. op.tx.orig \in Pairs /\ op.from \in Pairs /\ (op.cmd = "apply" => op.from = op.tx.orig) /\ op.cmd \in {"apply", "restore"}
    <3>1. op.tx.orig \in Own
      BY <1>3 DEF Transactions
    <3>2. op.tx.orig \in Pairs
      BY <3>1 DEF Own, Pairs, Caps
    <3>3. QED BY <1>3, <3>2, NominalFrom DEF Intended, Operations
  <2>3. /\ seen' \in Pasts /\ seen'.lost = seen.lost /\ seen'.replay = seen.replay /\ seen'.armed = seen.armed
        /\ seen'.fired = seen.fired /\ seen'.base = op.tx.orig
        /\ "pair" \in chip.mine => seen'.base = seen.base
    <3>1. CASE "pair" \in chip.mine
      BY <1>3, <1>5, <3>1, NominalFrom DEF NominalInv, Rewritten, SamePairs
    <3>2. CASE "pair" \notin chip.mine
      <4>1. PICK b \in Pairs : b = op.tx.orig /\ seen' = [seen EXCEPT !.base = b]
        BY <1>5, <2>2, <3>2
      <4>2. QED BY <3>2, <4>1, NominalFrom DEF Pasts
    <3>3. QED BY <3>1, <3>2
  <2>4. Following
    <3>1. CASE op.cmd = "apply"
      <4>1. PICK a \in Rewriting \ {"n-enter"} : op' = [Nominal!Go(a) EXCEPT !.roll = TRUE]
        <5> DEFINE a == IF ok THEN "n-design" ELSE "n-exit"
        <5>1. a \in Rewriting \ {"n-enter"}
          BY <1>2
        <5>2. op' = [Nominal!Go(a) EXCEPT !.roll = TRUE]
          BY <1>5, <3>1
        <5> HIDE DEF a
        <5>3. QED BY <5>1, <5>2
      <4>2. QED BY <4>1, NominalFlags
    <3>2. CASE op.cmd = "restore" /\ ok
      <4>1. op' = [Nominal!Go("n-roll") EXCEPT !.td = op.from.d # op.want.d,
                                       !.tf = Nominal!Changed(op.tx) /\ op.from.f # op.want.f, !.roll = TRUE]
        BY <1>5, <3>2
      <4>2. PICK k \in BOOLEAN, l \in BOOLEAN : op' = [Nominal!Go("n-roll") EXCEPT !.td = k, !.tf = l, !.roll = TRUE]
        BY <4>1
      <4>3. QED BY <1>2, <4>2, NominalFlags
    <3>3. CASE op.cmd = "restore" /\ ~ok
      BY <1>2, <1>5, <3>3, NominalFlags
    <3>4. QED BY <2>2, <3>1, <3>2, <3>3
  <2>5. Within'
    BY <1>5, <2>1, <2>4 DEF Within, Following
  <2>6. QED BY <1>1, <1>2, <2>1, <2>3, <2>4, <2>5, NominalFollow
<1>6. QED BY <1>4, <1>5 DEF Nominal!Enter

\* the last record of a transaction
LEMMA NominalEnded ==
  ASSUME NominalInv, op.pc \in {"n-final", "c-store"}, UNCHANGED <<chip, test, seen>>, Rested(op'),
         nvs' \in Journals, nvs'.acc = nvs.acc, nvs'.arm = nvs.arm, nvs'.tx \in {op.tx, nvs.tx}
  PROVE NominalInv'
<1>1. SamePairs /\ (Nominal!Stale(op.tx) \/ (~chip.cfg /\ ("pair" \in chip.mine /\ Nominal!Changed(op.tx) => chip.dm \in {op.tx.orig, op.tx.target})))
  BY DEF NominalInv, Rewritten
<1>2. op'.pc \notin Opening \cup Rewriting \cup Recording \cup {"v-apply", "v-end"}
  BY DEF Rested, Opening, Rewriting, Recording
<1>3. ASSUME nvs'.tx = op.tx PROVE Rewritten'
  BY <1>1, <1>2, <1>3 DEF NominalInv, Rewritten, Recording, SamePairs, Nominal!Restorable, Nominal!Changed
<1>4. ASSUME nvs'.tx = nvs.tx PROVE Rewritten'
  BY <1>2, <1>4, NominalTxFrame
<1>5. Attempted' /\ Accessed' /\ Tested'
  BY <1>2, NominalAccFrame, NominalTestFrame
<1>6. QED BY <1>3, <1>4, <1>5, NominalFrom DEF NominalInv, NominalType, Rested, Shown

LEMMA NominalFinal == ASSUME NominalInv, Nominal!Final PROVE NominalInv'
<1> DEFINE g == Nominal!After(op.fwd)
           h == Nominal!After(FALSE)
<1>1. UNCHANGED <<chip, test, seen>> /\ op.pc = "n-final" /\ Nominal!Store("tx", op.tx, g, h)
  BY DEF Nominal!Final, Nominal!Still, Nominal!At
<1>2. op.tx \in Transactions /\ op.fwd \in BOOLEAN
  BY <1>1, NominalFrom DEF NominalInv, Rewritten, SamePairs, Operations
<1>3. Rested(g) /\ Rested(h)
  BY <1>2, NominalAfter, NominalFrom
<1> HIDE DEF g, h
<1>4. /\ nvs' \in Journals /\ nvs'.acc = nvs.acc /\ nvs'.arm = nvs.arm
      /\ (nvs'.tx = op.tx /\ op' = g) \/ (nvs'.tx \in {op.tx, nvs.tx} /\ op' = h)
  BY <1>1, <1>2, NominalFrom, NominalStore_tx
<1>5. QED BY <1>1, <1>3, <1>4, NominalEnded

LEMMA NominalReconcile == ASSUME NominalInv, Nominal!Reconcile PROVE NominalInv'
<1>1. UNCHANGED <<chip, nvs, test, seen>> /\ op.pc = "c-check" /\ ~chip.cfg /\ chip.std = nvs.tx.target
  BY DEF Nominal!Reconcile, Nominal!Still, Nominal!At
<1>2. nvs.tx \in Transactions /\ nvs.tx # Nominal!None
  BY NominalFrom DEF Nominal!Reconcile
<1> DEFINE g == Nominal!Go("c-store")
           t == [nvs.tx EXCEPT !.state = "Sealed"]
<1>3. op' = [g EXCEPT !.tx = t]
  BY DEF Nominal!Reconcile
<1>4. t \in Transactions /\ t.state = "Sealed" /\ t.orig = nvs.tx.orig /\ t.target = nvs.tx.target
  BY <1>2 DEF Transactions
<1>5. g \in Operations /\ g.pc = "c-store" /\ g.chain = op.chain /\ g.cmd = op.cmd
  BY NominalFrom, NominalGo DEF Recording
<1> HIDE DEF g, t
<1>6. op' \in Operations /\ op'.pc = "c-store" /\ op'.chain = op.chain /\ op'.cmd = op.cmd /\ op'.tx = t
  BY <1>3, <1>4, <1>5 DEF Operations
<1>7. t # Nominal!None /\ chip.dm = nvs.tx.target
  BY <1>1, <1>4, NominalFrom DEF Shown
<1>8. SamePairs'
  BY <1>1, <1>2, <1>4, <1>6, <1>7 DEF SamePairs
<1>9. Rewritten'
  BY <1>1, <1>2, <1>4, <1>6, <1>7, <1>8 DEF NominalInv, Rewritten, Rewriting, Nominal!Stale, Nominal!Changed, Nominal!Restorable
<1>10. NominalType'
  BY <1>1, <1>6, NominalFrom DEF NominalType
<1>11. QED BY <1>1, <1>6, <1>9, <1>10, NominalFrom, NominalRewrite DEF Shown, Recording

LEMMA NominalReconcileDone == ASSUME NominalInv, Nominal!ReconcileDone PROVE NominalInv'
<1>1. UNCHANGED <<chip, test, seen>> /\ op.pc = "c-store" /\ Nominal!Store("tx", op.tx, Nominal!Idle, Nominal!Idle)
  BY DEF Nominal!ReconcileDone, Nominal!Still, Nominal!At
<1>2. op.tx \in Transactions
  BY <1>1, NominalFrom DEF NominalInv, Rewritten, SamePairs
<1>3. /\ nvs' \in Journals /\ nvs'.acc = nvs.acc /\ nvs'.arm = nvs.arm /\ nvs'.tx \in {op.tx, nvs.tx} /\ op' = Nominal!Idle
  BY <1>1, <1>2, NominalFrom, NominalStore_tx
<1>4. QED BY <1>1, <1>3, NominalIdle, NominalEnded

-----------------------------------------------------------------------------
\* a step of the vendor's profile
LEMMA NominalVendor ==
  ASSUME NominalInv, op' \in Operations, NominalType', nvs'.acc = nvs.acc, nvs'.tx = nvs.tx,
         seen'.lost = seen.lost, seen'.replay = seen.replay, seen'.base = seen.base,
         op'.pc \in Waiting, Shown',
         "keys" \in chip'.mine => "keys" \in chip.mine,
         chip'.cfg /\ "cfg" \in chip'.mine => chip.cfg /\ "cfg" \in chip.mine,
         "pair" \in chip'.mine => "pair" \in chip.mine /\ chip'.dm = chip.dm,
         Tested'
  PROVE NominalInv'
<1>1. op'.pc \notin Opening \cup Rewriting \cup Recording
  BY DEF Waiting, Opening, Rewriting, Recording
<1>2. QED BY <1>1, NominalAccFrame, NominalTxFrame DEF NominalInv

LEMMA NominalArmed ==
  ASSUME NominalInv, UNCHANGED seen, nvs' \in Journals, nvs'.arm \in {0, nvs.arm}
  PROVE seen'.fired + nvs'.arm <= seen'.armed
<1>1. seen.fired \in Nat /\ seen.armed \in Nat /\ nvs.arm \in {0, 1} /\ seen.fired + nvs.arm <= seen.armed
  BY NominalFrom DEF NominalInv, Tested, Pasts, Journals
<1>2. QED BY <1>1

LEMMA NominalConsumed ==
  ASSUME NominalInv, NEW armed, NEW not, Nominal!Consumed(armed, not)
  PROVE /\ nvs' \in Journals /\ nvs'.acc = nvs.acc /\ nvs'.tx = nvs.tx
        /\ \/ op' = not /\ nvs'.arm \in {0, nvs.arm}
           \/ op' = armed /\ nvs'.arm = 0 /\ nvs.arm = 1
<1>1. CASE nvs.arm = 0 /\ UNCHANGED nvs /\ op' = not
  BY <1>1, NominalFrom
<1>2. CASE \E read \in BOOLEAN : Nominal!Store("arm", 0, IF read /\ nvs.arm = 1 /\ boot.poweron THEN armed ELSE not, not)
  <2>1. PICK read \in BOOLEAN : Nominal!Store("arm", 0, IF read /\ nvs.arm = 1 /\ boot.poweron THEN armed ELSE not, not)
    BY <1>2
  <2>2. PICK y \in {IF read /\ nvs.arm = 1 /\ boot.poweron THEN armed ELSE not} : Nominal!Store("arm", 0, y, not)
    BY <2>1
  <2>3. /\ nvs' \in Journals /\ nvs'.acc = nvs.acc /\ nvs'.tx = nvs.tx
        /\ (nvs'.arm = 0 /\ op' = y) \/ (nvs'.arm \in {0, nvs.arm} /\ op' = not)
    BY <2>2, NominalFrom, NominalStore_arm
  <2>4. QED BY <2>2, <2>3
<1>3. QED BY <1>1, <1>2 DEF Nominal!Consumed

LEMMA NominalBootSkip == ASSUME NominalInv, Nominal!BootSkip PROVE NominalInv'
<1>1. UNCHANGED <<chip, test, seen>> /\ Nominal!Consumed(Nominal!Idle, Nominal!Idle)
  BY DEF Nominal!BootSkip
<1>2. nvs' \in Journals /\ nvs'.acc = nvs.acc /\ nvs'.tx = nvs.tx /\ op' = Nominal!Idle /\ nvs'.arm \in {0, nvs.arm}
  BY <1>1, NominalConsumed
<1>3. op' \in Operations /\ op'.pc = "idle" /\ ~op'.chain
  BY <1>2, NominalIdle DEF Rested, Nominal!Idle
<1>4. Tested'
  BY <1>1, <1>2, <1>3, NominalArmed DEF NominalInv, Tested
<1>5. NominalType'
  BY <1>1, <1>2, <1>3, NominalFrom DEF NominalType
<1>6. QED BY <1>1, <1>2, <1>3, <1>4, <1>5, NominalFrom, NominalVendor DEF Shown, Waiting

LEMMA NominalDispatched ==
  ASSUME NominalInv, op.pc = "idle", NEW k \in BOOLEAN
  PROVE /\ Nominal!Dispatched(k) \in Operations /\ Nominal!Dispatched(k).pc = "v-apply" /\ Nominal!Dispatched(k).cmd = "boot" /\ ~Nominal!Dispatched(k).chain
        /\ Nominal!Dispatched(k).want.d = 130 => k
<1> DEFINE cap == IF k /\ Nominal!SealedIdle /\ chip.std \in {Nominal!Pair(Nominal!Nominal, Nominal!Nominal), Nominal!Fresh} THEN 130 ELSE Nominal!Nominal
           g == Nominal!Go("v-apply")
           w == Nominal!Pair(cap, cap)
<1>1. Nominal!Dispatched(k) = [g EXCEPT !.cmd = "boot", !.want = w]
  BY DEF Nominal!Dispatched
<1>2. g \in Operations /\ g.pc = "v-apply" /\ ~g.chain
  BY NominalFrom, NominalGo DEF Waiting, NominalType
<1>3. w \in Pairs /\ w.d = cap /\ (cap = 130 => k)
  BY DEF Pairs, Nominal!Pair, Caps, Nominal!Nominal
<1> HIDE DEF g, w
<1>4. [g EXCEPT !.cmd = "boot", !.want = w] \in Operations
  BY <1>2, <1>3 DEF Operations
<1>5. LET p == [g EXCEPT !.cmd = "boot", !.want = w] IN p.pc = "v-apply" /\ p.cmd = "boot" /\ ~p.chain /\ p.want = w
  BY <1>2 DEF Operations
<1>6. QED BY <1>1, <1>3, <1>4, <1>5

LEMMA NominalBootApply == ASSUME NominalInv, Nominal!BootApply PROVE NominalInv'
<1>1. UNCHANGED chip /\ op.pc = "idle" /\ Nominal!Consumed(Nominal!Dispatched(TRUE), Nominal!Dispatched(FALSE))
  BY DEF Nominal!BootApply, Nominal!At
<1>2. /\ test' = IF op'.want.d = 130 THEN [changed |-> TRUE, pending |-> TRUE, tried |-> FALSE] ELSE test
      /\ seen' = IF op'.want.d = 130 THEN [seen EXCEPT !.fired = @ + 1] ELSE seen
  BY DEF Nominal!BootApply
<1>3. /\ nvs' \in Journals /\ nvs'.acc = nvs.acc /\ nvs'.tx = nvs.tx
      /\ \/ op' = Nominal!Dispatched(FALSE) /\ nvs'.arm \in {0, nvs.arm}
         \/ op' = Nominal!Dispatched(TRUE) /\ nvs'.arm = 0 /\ nvs.arm = 1
  BY <1>1, NominalConsumed
<1>4. /\ op' \in Operations /\ op'.pc = "v-apply" /\ op'.cmd = "boot" /\ ~op'.chain
      /\ op'.want.d = 130 => nvs'.arm = 0 /\ nvs.arm = 1
  BY <1>1, <1>3, NominalDispatched
<1>5. seen.fired \in Nat /\ seen.armed \in Nat /\ nvs.arm \in {0, 1} /\ seen.fired + nvs.arm <= seen.armed
  BY NominalFrom DEF NominalInv, Tested, Pasts, Journals
<1>6. CASE op'.want.d = 130
  <2>1. /\ test' \in Tests /\ test'.pending /\ seen' \in Pasts /\ seen'.fired = seen.fired + 1 /\ seen'.armed = seen.armed
        /\ seen'.lost = seen.lost /\ seen'.replay = seen.replay /\ seen'.base = seen.base
    BY <1>2, <1>5, <1>6, NominalFrom DEF Tests, Pasts
  <2>2. Tested'
    BY <1>4, <1>5, <1>6, <2>1 DEF Tested
  <2>3. NominalType'
    BY <1>1, <1>3, <1>4, <2>1, NominalFrom DEF NominalType
  <2>4. QED BY <1>1, <1>3, <1>4, <2>1, <2>2, <2>3, NominalFrom, NominalVendor DEF Shown, Waiting
<1>7. CASE op'.want.d # 130
  <2>1. UNCHANGED <<test, seen>>
    BY <1>2, <1>7
  <2>2. nvs'.arm \in {0, nvs.arm}
    BY <1>3
  <2>3. Tested'
    BY <1>1, <1>3, <1>4, <1>7, <2>1, <2>2, NominalArmed DEF NominalInv, Tested
  <2>4. NominalType'
    BY <1>1, <1>3, <1>4, <2>1, NominalFrom DEF NominalType
  <2>5. QED BY <1>1, <1>3, <1>4, <2>1, <2>3, <2>4, NominalFrom, NominalVendor DEF Shown, Waiting
<1>8. QED BY <1>6, <1>7

LEMMA NominalUndo == ASSUME NominalInv, Nominal!Undo PROVE NominalInv'
<1>1. UNCHANGED <<chip, nvs, seen>> /\ op.pc \in {"idle", "t-restore"} /\ ~op.chain
  BY DEF Nominal!Undo, Nominal!Due, Nominal!At, NominalInv, NominalType
<1>2. seen'.fired + nvs'.arm <= seen'.armed
  BY <1>1 DEF NominalInv, Tested
<1>3. CASE op' = Nominal!Idle /\ test' = [test EXCEPT !.pending = FALSE, !.changed = FALSE]
  <2>1. op' \in Operations /\ op'.pc = "idle" /\ ~op'.chain
    BY <1>3, NominalIdle DEF Rested, Nominal!Idle
  <2>2. test' \in Tests /\ ~test'.changed
    BY <1>3, NominalFrom DEF Tests
  <2>3. Tested'
    BY <1>2, <2>1, <2>2 DEF Tested
  <2>4. NominalType'
    BY <1>1, <2>1, <2>2, NominalFrom DEF NominalType
  <2>5. QED BY <1>1, <2>1, <2>3, <2>4, NominalFrom, NominalVendor DEF Shown, Waiting
<1>4. CASE /\ op' = [Nominal!Go("v-apply") EXCEPT !.cmd = "undo", !.want = Nominal!Pair(Nominal!Nominal, Nominal!Nominal)]
           /\ test' = [test EXCEPT !.tried = TRUE]
  <2> DEFINE g == Nominal!Go("v-apply")
             w == Nominal!Pair(Nominal!Nominal, Nominal!Nominal)
  <2>1. g \in Operations /\ g.pc = "v-apply" /\ ~g.chain
    BY <1>1, NominalFrom, NominalGo DEF Waiting
  <2>2. w \in Pairs /\ w.d # 130 /\ op' = [g EXCEPT !.cmd = "undo", !.want = w] /\ w = Nominal!Pair(Nominal!Nominal, Nominal!Nominal)
    BY <1>4 DEF Pairs, Nominal!Pair, Caps, Nominal!Nominal
  <2> HIDE DEF g, w
  <2>3. op' \in Operations /\ op'.pc = "v-apply" /\ op'.cmd = "undo" /\ ~op'.chain /\ op'.want = w
    BY <2>1, <2>2 DEF Operations
  <2>4. test' \in Tests /\ test'.changed = test.changed /\ test'.pending = test.pending
    BY <1>4, NominalFrom DEF Tests
  <2>5. Tested'
    BY <1>1, <1>2, <2>2, <2>3, <2>4 DEF NominalInv, Tested
  <2>6. NominalType'
    BY <1>1, <2>3, <2>4, NominalFrom DEF NominalType
  <2>7. QED BY <1>1, <2>3, <2>5, <2>6, NominalFrom, NominalVendor DEF Shown, Waiting
<1>5. QED BY <1>3, <1>4 DEF Nominal!Undo

LEMMA NominalUndoNot == ASSUME NominalInv, Nominal!UndoNot PROVE NominalInv'
<1>1. op' = Nominal!Idle /\ UNCHANGED <<chip, nvs, test, seen>>
  BY DEF Nominal!UndoNot, Nominal!Still
<1>2. QED BY <1>1, NominalIdle, NominalFrom, NominalRest DEF Shown

LEMMA NominalVendorWrites == ASSUME NominalInv, Nominal!VendorWrites PROVE NominalInv'
<1>1. UNCHANGED <<nvs, test, seen>> /\ op.pc = "v-apply" /\ op' = Nominal!Go("v-end")
  BY DEF Nominal!VendorWrites, Nominal!Still, Nominal!At
<1>2. PICK s \in 1 .. 3, c \in BOOLEAN, p \in {chip.dm, Nominal!Pair(op.want.d, chip.dm.f), op.want} :
        chip' = [sec |-> s, cfg |-> c, dm |-> p, std |-> IF c THEN chip.std ELSE p, mine |-> {}]
  BY DEF Nominal!VendorWrites
<1>3. op' \in Operations /\ op'.pc = "v-end" /\ op'.cmd = op.cmd /\ op'.chain = op.chain /\ op'.want = op.want
  BY <1>1, NominalFrom, NominalGo DEF Waiting
<1>4. p \in Pairs /\ (p.d = 130 => chip.dm.d = 130 \/ op.want.d = 130)
  <2>1. chip.dm \in Pairs /\ op.want \in Pairs
    BY NominalFrom DEF Gauges, Operations
  <2>2. LET q == Nominal!Pair(op.want.d, chip.dm.f) IN q \in Pairs /\ q.d = op.want.d
    BY <2>1 DEF Nominal!Pair, Pairs
  <2>3. QED BY <1>2, <2>1, <2>2
<1>5. PICK r \in Pairs : r = (IF c THEN chip.std ELSE p) /\ chip' = [sec |-> s, cfg |-> c, dm |-> p, std |-> r, mine |-> {}]
  BY <1>2, <1>4, NominalFrom DEF Gauges
<1>6. PICK m \in SUBSET {"cfg", "pair", "keys"} : m = {} /\ chip' = [sec |-> s, cfg |-> c, dm |-> p, std |-> r, mine |-> m]
  BY <1>5
<1>7. chip' \in Gauges /\ chip'.cfg = c /\ chip'.dm = p /\ chip'.std = r /\ chip'.mine = {}
  BY <1>4, <1>6 DEF Gauges
<1>8. Shown'
  BY <1>5, <1>7 DEF Shown
<1>9. Tested'
  BY <1>1, <1>3, <1>4, <1>7 DEF NominalInv, Tested
<1>10. NominalType'
  BY <1>1, <1>3, <1>7, NominalFrom DEF NominalType
<1>11. QED BY <1>1, <1>3, <1>7, <1>8, <1>9, <1>10, NominalVendor DEF Waiting

LEMMA NominalVendorEnd == ASSUME NominalInv, Nominal!VendorEnd PROVE NominalInv'
<1>1. op.pc = "v-end" /\ "keys" \notin chip.mine /\ op.cmd \in {"boot", "undo"}
  BY DEF Nominal!VendorEnd, Nominal!At, NominalInv, Tested
<1>2. PICK ok \in BOOLEAN : Nominal!Concluded(ok)
  BY DEF Nominal!VendorEnd
<1>3. UNCHANGED <<nvs, seen>> /\ op' = Nominal!Idle
  BY <1>2 DEF Nominal!Concluded
<1>4. /\ chip' \in Gauges /\ Shown' /\ chip'.dm = chip.dm /\ (chip'.cfg => chip.cfg) /\ chip'.mine \subseteq chip.mine
  <2>1. CASE UNCHANGED chip
    BY <2>1, NominalFrom DEF Shown
  <2>2. CASE \E k \in BOOLEAN : Nominal!Exited(k)
    BY <2>2, NominalFrom, NominalExited
  <2>3. CASE ~chip.cfg /\ chip' = [chip EXCEPT !.sec = 3]
    <3>1. PICK t \in 1 .. 3 : t = 3
      OBVIOUS
    <3>2. chip' = [chip EXCEPT !.sec = t]
      BY <2>3, <3>1
    <3>3. chip' \in Gauges /\ chip'.dm = chip.dm /\ chip'.cfg = chip.cfg /\ chip'.std = chip.std /\ chip'.mine = chip.mine
      BY <3>2, NominalFrom DEF Gauges
    <3>4. QED BY <1>1, <2>3, <3>3, NominalFrom DEF Shown
  <2>4. QED BY <2>1, <2>2, <2>3 DEF Nominal!VendorEnd
<1>5. op' \in Operations /\ op'.pc = "idle" /\ ~op'.chain
  BY <1>3, NominalIdle DEF Rested, Nominal!Idle
<1>6. test' \in Tests /\ (test'.changed /\ chip.dm.d = 130 => test'.pending)
  <2>1. CASE op.cmd = "undo"
    <3>1. test' = [test EXCEPT !.pending = ~ok, !.changed = test.changed /\ ~ok]
      BY <1>2, <2>1 DEF Nominal!Concluded
    <3>2. PICK k \in BOOLEAN, l \in BOOLEAN : k = ~ok /\ l = (test.changed /\ ~ok) /\ test' = [test EXCEPT !.pending = k, !.changed = l]
      BY <3>1
    <3>3. test' \in Tests /\ test'.pending = k /\ test'.changed = l
      BY <3>2, NominalFrom DEF Tests
    <3>4. QED BY <3>2, <3>3
  <2>2. CASE op.cmd # "undo"
    BY <1>2, <2>2, NominalFrom DEF Nominal!Concluded, NominalInv, Tested
  <2>3. QED BY <2>1, <2>2
<1>7. Tested'
  BY <1>3, <1>4, <1>5, <1>6 DEF NominalInv, Tested
<1>8. NominalType'
  BY <1>3, <1>4, <1>5, <1>6, NominalFrom DEF NominalType
<1>9. QED BY <1>3, <1>4, <1>5, <1>7, <1>8, NominalVendor DEF Waiting

LEMMA NominalArm == ASSUME NominalInv, Nominal!Arm PROVE NominalInv'
<1>1. UNCHANGED <<chip, test>> /\ Nominal!Store("arm", 1, Nominal!Idle, Nominal!Idle) /\ seen' = [seen EXCEPT !.armed = @ + nvs'.arm - nvs.arm]
  BY DEF Nominal!Arm
<1>2. /\ nvs' \in Journals /\ nvs'.acc = nvs.acc /\ nvs'.tx = nvs.tx /\ op' = Nominal!Idle /\ nvs'.arm \in {1, nvs.arm}
  BY <1>1, NominalFrom, NominalStore_arm
<1>3. op' \in Operations /\ op'.pc = "idle" /\ ~op'.chain
  BY <1>2, NominalIdle DEF Rested, Nominal!Idle
<1>4. seen.fired \in Nat /\ seen.armed \in Nat /\ nvs.arm \in {0, 1} /\ seen.fired + nvs.arm <= seen.armed
  BY NominalFrom DEF NominalInv, Tested, Pasts, Journals
<1>5. /\ seen' \in Pasts /\ seen'.fired = seen.fired /\ seen'.armed = seen.armed + nvs'.arm - nvs.arm
      /\ seen'.lost = seen.lost /\ seen'.replay = seen.replay /\ seen'.base = seen.base
  <2>1. PICK n \in Nat : n = seen.armed + nvs'.arm - nvs.arm /\ seen' = [seen EXCEPT !.armed = n]
    BY <1>1, <1>2, <1>4
  <2>2. QED BY <2>1, NominalFrom DEF Pasts
<1>6. Tested'
  BY <1>1, <1>2, <1>3, <1>4, <1>5 DEF NominalInv, Tested
<1>7. NominalType'
  BY <1>1, <1>2, <1>3, <1>5, NominalFrom DEF NominalType
<1>8. QED BY <1>1, <1>2, <1>3, <1>5, <1>6, <1>7, NominalFrom, NominalVendor DEF Shown, Waiting

LEMMA NominalDisarm == ASSUME NominalInv, Nominal!Disarm PROVE NominalInv'
<1> DEFINE g == Nominal!Go("t-restore")
<1>1. UNCHANGED <<chip, test, seen>> /\ Nominal!Store("arm", 0, g, Nominal!Idle) /\ op.pc = "idle" /\ ~op.chain
  BY DEF Nominal!Disarm, Nominal!Still, Nominal!At, NominalInv, NominalType
<1>2. g \in Operations /\ g.pc = "t-restore" /\ ~g.chain
  BY <1>1, NominalFrom, NominalGo DEF Waiting
<1> HIDE DEF g
<1>3. /\ nvs' \in Journals /\ nvs'.acc = nvs.acc /\ nvs'.tx = nvs.tx /\ op' \in {g, Nominal!Idle} /\ nvs'.arm \in {0, nvs.arm}
  BY <1>1, NominalFrom, NominalStore_arm
<1>4. op' \in Operations /\ op'.pc \in {"idle", "t-restore"} /\ ~op'.chain
  <2>1. Nominal!Idle \in Operations /\ Nominal!Idle.pc = "idle" /\ ~Nominal!Idle.chain
    BY NominalIdle DEF Rested, Nominal!Idle
  <2>2. QED BY <1>2, <1>3, <2>1
<1>5. Tested'
  BY <1>1, <1>3, <1>4, NominalArmed DEF NominalInv, Tested
<1>6. NominalType'
  BY <1>1, <1>3, <1>4, NominalFrom DEF NominalType
<1>7. QED BY <1>1, <1>3, <1>4, <1>5, <1>6, NominalFrom, NominalVendor DEF Shown, Waiting

LEMMA NominalResetBoard == ASSUME NominalInv, Nominal!ResetBoard PROVE NominalInv'
<1>1. UNCHANGED <<chip, nvs, seen>> /\ op' = Nominal!Idle /\ test' = [changed |-> FALSE, pending |-> FALSE, tried |-> FALSE]
  BY DEF Nominal!ResetBoard
<1>2. op' \in Operations /\ op'.pc = "idle" /\ ~op'.chain
  BY <1>1, NominalIdle DEF Rested, Nominal!Idle
<1>3. test' \in Tests /\ ~test'.changed
  BY <1>1 DEF Tests
<1>4. Tested'
  BY <1>1, <1>2, <1>3 DEF NominalInv, Tested
<1>5. NominalType'
  BY <1>1, <1>2, <1>3, NominalFrom DEF NominalType
<1>6. QED BY <1>1, <1>2, <1>4, <1>5, NominalFrom, NominalVendor DEF Shown, Waiting

LEMMA NominalResetGauge == ASSUME NominalInv, Nominal!ResetGauge PROVE NominalInv'
<1>1. UNCHANGED <<nvs, op, test, seen>> /\ chip' = [sec |-> 2, cfg |-> FALSE, dm |-> Nominal!Fresh, std |-> Nominal!Fresh, mine |-> {}]
  BY DEF Nominal!ResetGauge
<1>2. chip' \in Gauges /\ chip'.sec = 2 /\ ~chip'.cfg /\ chip'.dm = Nominal!Fresh /\ chip'.std = Nominal!Fresh /\ chip'.mine = {}
  <2>1. PICK m \in SUBSET {"cfg", "pair", "keys"} : m = {} /\ chip' = [sec |-> 2, cfg |-> FALSE, dm |-> Nominal!Fresh, std |-> Nominal!Fresh, mine |-> m]
    BY <1>1
  <2>2. Nominal!Fresh \in Pairs
    BY DEF Nominal!Fresh, Nominal!Pair, Pairs, Caps
  <2>3. QED BY <2>1, <2>2 DEF Gauges
<1>3. Shown' /\ Attempted'
  BY <1>1, <1>2 DEF Shown, NominalInv, Attempted
<1>4. Accessed'
  BY <1>1, <1>2 DEF NominalInv, Accessed
<1>5. Rewritten'
  BY <1>1, <1>2 DEF NominalInv, Rewritten, Intended, SamePairs
<1>6. Tested'
  BY <1>1, <1>2 DEF NominalInv, Tested, Nominal!Fresh, Nominal!Pair, Nominal!Factory
<1>7. NominalType'
  BY <1>1, <1>2, NominalFrom DEF NominalType
<1>8. QED BY <1>3, <1>4, <1>5, <1>6, <1>7 DEF NominalInv

LEMMA NominalInit == ASSUME Nominal!Init PROVE NominalInv
<1>1. PICK p \in {Nominal!Fresh, Nominal!Pair(Nominal!Factory, Nominal!Learned)}, s \in 1 .. 3 : chip = [sec |-> s, cfg |-> FALSE, dm |-> p, std |-> p, mine |-> {}]
  BY DEF Nominal!Init
<1>2. /\ nvs = [tx |-> Nominal!None, acc |-> Nominal!None, arm |-> 0] /\ op = Nominal!Idle
      /\ test = [changed |-> FALSE, pending |-> FALSE, tried |-> FALSE]
      /\ seen = [lost |-> {}, replay |-> FALSE, base |-> Nominal!Zero, armed |-> 0, fired |-> 0]
  BY DEF Nominal!Init
<1>3. p \in Pairs /\ Nominal!Zero \in Pairs
  BY DEF Nominal!Fresh, Nominal!Zero, Nominal!Pair, Pairs, Caps, Nominal!Factory, Nominal!Learned
<1>4. chip \in Gauges /\ ~chip.cfg /\ chip.dm = chip.std /\ chip.mine = {}
  <2>1. PICK m \in SUBSET {"cfg", "pair", "keys"} : m = {} /\ chip = [sec |-> s, cfg |-> FALSE, dm |-> p, std |-> p, mine |-> m]
    BY <1>1
  <2>2. QED BY <1>3, <2>1 DEF Gauges
<1>5. seen \in Pasts /\ seen.lost = {} /\ ~seen.replay /\ seen.armed = 0 /\ seen.fired = 0
  <2>1. PICK l \in SUBSET {"unseal", "full"} : l = {} /\ seen = [lost |-> l, replay |-> FALSE, base |-> Nominal!Zero, armed |-> 0, fired |-> 0]
    BY <1>2
  <2>2. QED BY <1>3, <2>1 DEF Pasts
<1>6. nvs \in Journals /\ nvs.arm = 0
  BY <1>2 DEF Journals
<1>7. test \in Tests /\ ~test.changed
  BY <1>2 DEF Tests
<1>8. op \in Operations /\ op.pc = "idle" /\ ~op.chain
  BY <1>2, NominalIdle DEF Rested, Nominal!Idle
<1>9. NominalType
  BY <1>4, <1>5, <1>6, <1>7, <1>8 DEF NominalType
<1>10. Shown /\ Attempted /\ Accessed /\ Rewritten /\ Tested
  BY <1>4, <1>5, <1>6, <1>7, <1>8 DEF Shown, Attempted, Accessed, Opening, Rewritten, Rewriting, Recording, Tested
<1>11. QED BY <1>9, <1>10 DEF NominalInv

LEMMA NominalNext == ASSUME NominalInv, Nominal!Next PROVE NominalInv'
<1>1. CASE Nominal!Access
  BY <1>1, NominalOpen, NominalOpenPrepare, NominalOpenTry, NominalOpenAttempt, NominalUnseal, NominalFull,
     NominalOpenDone, NominalRestore, NominalReturn, NominalReturnDone DEF Nominal!Access
<1>2. CASE Nominal!Forward
  BY <1>2, NominalAsk, NominalCheck, NominalPrepare, NominalEnter, NominalDesign, NominalFcc, NominalRoll,
     NominalExit, NominalVerify, NominalAgain, NominalFinal DEF Nominal!Forward
<1>3. CASE Nominal!Backward \/ Nominal!Audit \/ Nominal!Refuse
  BY <1>3, NominalAskRestore, NominalRestorePrepare, NominalLeave, NominalReconcile, NominalReconcileDone, NominalRefuse
     DEF Nominal!Backward, Nominal!Audit
<1>4. CASE Nominal!Vendor
  BY <1>4, NominalBootSkip, NominalBootApply, NominalUndo, NominalUndoNot, NominalVendorWrites, NominalVendorEnd,
     NominalDisarm DEF Nominal!Vendor
<1>5. CASE Nominal!Arm \/ Nominal!ResetBoard \/ Nominal!ResetGauge
  BY <1>5, NominalArm, NominalResetBoard, NominalResetGauge
<1>6. QED BY <1>1, <1>2, <1>3, <1>4, <1>5 DEF Nominal!Next, Nominal!Steps

\* an unchanged program keeps it
LEMMA NominalSame == ASSUME NominalInv, UNCHANGED Nominal!vars PROVE NominalInv'
<1>1. UNCHANGED <<chip, nvs, op, test, seen>>
  BY DEF Nominal!vars
<1>2. NominalType' /\ Shown' /\ Attempted'
  BY <1>1 DEF NominalInv, NominalType, Shown, Attempted
<1>3. Accessed' /\ Tested'
  BY <1>1 DEF NominalInv, Accessed, Tested
<1>4. Rewritten'
  BY <1>1 DEF NominalInv, Rewritten, Intended, SamePairs, Within
<1>5. QED BY <1>2, <1>3, <1>4 DEF NominalInv

LEMMA NominalOwned == ASSUME NominalInv PROVE Nominal!NominalIsOwned
<1>1. Nominal!TypeOK
  BY NominalFrom DEF Nominal!TypeOK, Gauges, Journals
<1>2. Nominal!OnRecord
  <2>1. nvs.tx # Nominal!None => nvs.tx.state # "none"
    BY NominalFrom DEF Transactions
  <2>2. QED BY <2>1 DEF NominalInv, Rewritten, Accessed, Nominal!OnRecord
<1>3. ~seen.replay
  BY DEF NominalInv, Attempted
<1>4. Nominal!ArmedOnce
  <2>1. seen.fired \in Nat /\ seen.armed \in Nat /\ nvs.arm \in {0, 1} /\ seen.fired + nvs.arm <= seen.armed
    BY NominalFrom DEF NominalInv, Tested, Pasts, Journals
  <2>2. QED BY <2>1 DEF NominalInv, Tested, Nominal!ArmedOnce
<1>5. QED BY <1>1, <1>2, <1>3, <1>4 DEF Nominal!NominalIsOwned

-----------------------------------------------------------------------------
(* The two parts of the gauge, in the specification that runs them.        *)
BoardInv ==
  /\ part \in {"touch", "nominal", "fields"}
  /\ IF part = "fields" THEN FieldsInv ELSE NominalInv

LEMMA BoardBegins == ASSUME BoardInit PROVE BoardInv
<1>1. CASE part = "fields"
  BY <1>1, FieldsInit DEF BoardInit, BoardInv
<1>2. CASE part # "fields"
  BY <1>2, NominalInit DEF BoardInit, BoardInv
<1>3. QED BY <1>1, <1>2

LEMMA BoardMoves == ASSUME BoardInv, [BoardNext]_<<part, vars, nominalVars>> PROVE BoardInv'
<1>1. part' = part
  BY DEF BoardNext
<1>2. CASE part = "fields"
  <2>1. FieldsInv
    BY <1>2 DEF BoardInv
  <2>2. Fields!Next \/ UNCHANGED <<chip, nvs, op, seen>>
    BY <1>2 DEF BoardNext, nominalVars
  <2>3. FieldsInv'
    BY <2>1, <2>2, FieldsStep, FieldsSame
  <2>4. QED BY <1>1, <1>2, <2>3 DEF BoardInv
<1>3. CASE part # "fields"
  <2>1. NominalInv /\ part \in {"touch", "nominal"}
    BY <1>3 DEF BoardInv
  <2>2. Nominal!Next \/ UNCHANGED nominalVars
    BY <1>3 DEF BoardNext
  <2>3. UNCHANGED nominalVars => UNCHANGED Nominal!vars
    BY DEF nominalVars, Nominal!vars
  <2>4. NominalInv'
    BY <2>1, <2>2, <2>3, NominalNext, NominalSame
  <2>5. QED BY <1>1, <1>3, <2>1, <2>4 DEF BoardInv
<1>4. QED BY <1>2, <1>3

(* What is written into the gauge has a journal in NVS that leads back,     *)
(* access words whose success was not seen are not sent again, and an armed *)
(* test runs once: for every budget of commands, resets and arms.           *)
THEOREM JournalsLeadBack == BoardSpec => []NominalIsOwned
<1>1. BoardInv => NominalIsOwned
  BY NominalOwned DEF BoardInv, NominalIsOwned, FieldsInv, Fields!FieldsAreOwned
<1>2. QED BY BoardBegins, BoardMoves, <1>1, PTL DEF BoardSpec

=============================================================================

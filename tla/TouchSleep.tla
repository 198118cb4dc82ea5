----------------------------- MODULE TouchSleep -----------------------------
(***************************************************************************)
(* The one-shot sleep trial of the touch controller                        *)
(* (main/host/touch_sleep_model.h, main/host/touch_sleep.cpp) against the  *)
(* tasks that enter the updater: AdmissionModel is the fence between the   *)
(* two, OtaAdmission its guard in every admission of mosaico_ota.cpp.      *)
(*                                                                         *)
(* The trial belongs to app_main: each loop calls service(), which does at *)
(* most one I2C action.  The other tasks run between any two of its steps, *)
(* also while the I2C action is under way.  Of the updater only what the   *)
(* trial reads is kept: busy(), healthPending() and the staged stage.      *)
(* Clocks: due says that the timer of the present phase has run out,       *)
(* restoreDue that the five seconds of a restoration have.                 *)
(***************************************************************************)
EXTENDS Naturals

CONSTANTS Tasks,      \* the tasks that call the updater
          MaxNesting  \* OtaAdmission guards a task holds at once

ASSUME TouchSleepAssumption == MaxNesting \in Nat \ {0}

Phases == {"Off", "Probe", "Handshake1", "Handshake2", "HandshakeEcho",
           "ModeWrite", "ModeEcho", "Settle", "SleepWrite", "SleepRequested",
           "VerifyRelease", "Complete", "HeldClosed", "FailedRestored",
           "RebootPending"}

VARIABLES model,        \* struct Model: its phase and the flags it keeps
          pc,           \* app_main: where in its loop, or in an I2C action
          reserved,     \* touchReserved, and the atomic that repeats it
          nesting,      \* OtaAdmission guards by task; their sum is otaInFlight
          needRestore,  \* somebody wants the controller back
          working,      \* the updater has a request under way
          staged,       \* its stage is not Idle, Complete or Failed
          health,       \* the image on trial: "unpolled", "pending", "valid"
          controller    \* the mode the touch controller really is in

ota  == <<nesting, working, staged, health>>
vars == <<model, pc, reserved, needRestore, ota, controller>>

Flags == {"consumed", "restoring", "dirty", "failed", "normalVerified",
          "normalReportValid", "due", "restoreDue"}

Models == [phase : Phases, flags : SUBSET Flags]

Critical(m) == m.phase \notin {"Off", "Complete", "HeldClosed", "FailedRestored"}
InFlight    == \E t \in Tasks : nesting[t] > 0
Busy        == working \/ health = "pending"

(* The phase is entered; its timer starts if it has one.                   *)
To(m, phase) == [m EXCEPT !.phase = phase, !.flags = @ \ {"due"}]

-----------------------------------------------------------------------------
(* struct Model, as functions.                                             *)
RestoreModel(m) ==
  IF ~Critical(m) \/ "restoring" \in m.flags THEN m
  ELSE IF "dirty" \notin m.flags THEN To(m, "Complete")
  ELSE [To(m, "Handshake1") EXCEPT !.flags = (@ \ {"restoreDue"}) \cup {"restoring"}]

FailModel(m) ==
  LET failed == [m EXCEPT !.flags = @ \cup {"failed"}]
  IN IF "restoring" \in m.flags THEN To(failed, "RebootPending")
     ELSE IF "dirty" \in m.flags THEN RestoreModel(failed)
     ELSE To(failed, "FailedRestored")

(* The restoration is out of time.                                         *)
Late(m) == /\ {"restoring", "restoreDue"} \subseteq m.flags
           /\ Critical(m) /\ m.phase # "RebootPending"
(* A slip: once more, which restore() refuses.                             *)
GiveUpNever(m) == RestoreModel(m)
GiveUp(m) ==
  IF m.phase = "VerifyRelease" /\ {"normalVerified", "normalReportValid"} \subseteq m.flags
  THEN To(m, "HeldClosed") ELSE FailModel(m)

Tick(m, wanted) ==
  LET asked   == IF wanted \/ (m.phase = "SleepRequested" /\ "due" \in m.flags)
                 THEN RestoreModel(m) ELSE m
      intime  == IF Late(asked) THEN GiveUp(asked) ELSE asked
  IN IF intime.phase = "Settle" /\ "due" \in intime.flags
     THEN To(intime, IF "restoring" \in intime.flags THEN "VerifyRelease" ELSE "SleepWrite")
     ELSE intime

Commands == {"Handshake1", "Handshake2", "ModeWrite", "SleepWrite"}

(* complete(): what the I2C action of the phase returned.  echo: the byte  *)
(* read back is the expected one.                                          *)
CompleteOk(m, echo, released) ==
  CASE m.phase = "Probe"         -> To(m, "Handshake1")
    [] m.phase = "Handshake1"    -> To(m, "Handshake2")
    [] m.phase = "Handshake2"    -> To(m, "HandshakeEcho")
    [] m.phase = "HandshakeEcho" -> IF echo THEN To(m, "ModeWrite") ELSE FailModel(m)
    [] m.phase = "ModeWrite"     -> To(m, "ModeEcho")
    [] m.phase = "ModeEcho"      ->
         IF ~echo THEN FailModel(m)
         ELSE [To(m, "Settle") EXCEPT
                 !.flags = IF "restoring" \in m.flags THEN @ \cup {"normalVerified"}
                                                      ELSE @ \ {"normalVerified"}]
    [] m.phase = "SleepWrite"    -> To(m, "SleepRequested")
    [] m.phase = "VerifyRelease" ->
         LET seen == [m EXCEPT !.flags = @ \cup {"normalReportValid"}]
         IN IF ~released THEN seen
            ELSE To(seen, IF "failed" \in m.flags THEN "FailedRestored" ELSE "Complete")

(* A slip: the echo of the mode is not compared.                           *)
CompleteUnread(m, ok, echo, released) ==
  IF ~ok THEN FailModel(m)
  ELSE IF Late(m) THEN GiveUp(m)
  ELSE CompleteOk(m, echo \/ m.phase = "ModeEcho", released)

CompleteModel(m, ok, echo, released) ==
  IF ~ok THEN FailModel(m)
  ELSE IF Late(m) THEN GiveUp(m)
  ELSE CompleteOk(m, echo, released)

-----------------------------------------------------------------------------
Init ==
  /\ model = [phase |-> "Off", flags |-> {}] /\ pc = "loop"
  /\ reserved = FALSE /\ nesting = [t \in Tasks |-> 0] /\ needRestore = FALSE
  /\ working = FALSE /\ staged = FALSE
  /\ health \in {"unpolled", "valid"} /\ controller = "normal"

(* request120, on app_main before its service(): first without ownerMutex. *)
RequestCheck ==
  /\ pc = "loop" /\ ~Busy /\ ~staged /\ health = "valid"
  /\ pc' = "reserve"
  /\ UNCHANGED <<model, reserved, needRestore, ota, controller>>

(* request120 under ownerMutex.                                            *)
Reserve ==
  /\ pc = "reserve" /\ pc' = "service"
  /\ IF "consumed" \in model.flags \/ Busy \/ reserved \/ InFlight
     THEN UNCHANGED <<model, reserved, needRestore>>
     ELSE /\ reserved' = TRUE /\ needRestore' = FALSE
          /\ model' = [To(model, "Probe") EXCEPT !.flags = @ \cup {"consumed"}]
  /\ UNCHANGED <<ota, controller>>

(* esp_restart: the start-up initialises the controller from its reset.    *)
Restart ==
  /\ model' = [phase |-> "Off", flags |-> {}] /\ pc' = "loop"
  /\ reserved' = FALSE /\ nesting' = [t \in Tasks |-> 0] /\ needRestore' = FALSE
  /\ working' = FALSE /\ staged' = FALSE
  /\ controller' = "normal" /\ UNCHANGED health

(* service(), up to its I2C action.                                        *)
Service(locked) ==
  LET m == Tick(model, needRestore \/ ~locked \/ Busy)     \* ~locked: the screen is in use
  IN /\ pc \in {"loop", "service"}
     /\ IF /\ m.phase = "RebootPending" /\ "due" \in m.flags
           /\ reserved /\ ~InFlight /\ ~Busy /\ ~staged
        THEN Restart
        ELSE /\ needRestore' = FALSE
             /\ reserved' = (reserved /\ Critical(m))
             /\ IF ~Critical(m) \/ m.phase \in {"SleepRequested", "Settle", "RebootPending"}
                THEN model' = m /\ pc' = "loop"
                ELSE /\ pc' = "i2c"
                     /\ model' = IF m.phase \in Commands
                                 THEN [m EXCEPT !.flags = @ \cup {"dirty"}] ELSE m
             /\ UNCHANGED <<ota, controller>>

(* The mode a command asks the controller for.                             *)
Commanded(m) ==
  CASE m.phase = "ModeWrite"  -> IF "restoring" \in m.flags THEN "normal" ELSE "trial"
    [] m.phase = "SleepWrite" -> "asleep"
    [] OTHER                  -> controller

(* service(), from its I2C action.  A command may or may not take effect,  *)
(* acknowledged or not; a mode is echoed only by a controller that is in   *)
(* it, though any echo may be garbled.                                     *)
Complete(ok, echo, released) ==
  /\ pc = "i2c" /\ pc' = "loop"
  /\ controller' \in {controller, Commanded(model)}
  /\ echo /\ model.phase = "ModeEcho" =>
       controller = IF "restoring" \in model.flags THEN "normal" ELSE "trial"
  /\ model' = CompleteModel(model, ok, echo, released)
  /\ UNCHANGED <<reserved, needRestore, ota>>

(* off(), at any moment; wakeRequested(), while the trial is on.           *)
WantRestore ==
  /\ ~needRestore /\ needRestore' = TRUE
  /\ UNCHANGED <<model, pc, reserved, ota, controller>>

Elapse ==
  /\ \E timer \in {"due", "restoreDue"} :
       /\ timer \notin model.flags /\ Critical(model)
       /\ timer = "restoreDue" => "restoring" \in model.flags
       /\ model' = [model EXCEPT !.flags = @ \cup {timer}]
  /\ UNCHANGED <<pc, reserved, needRestore, ota, controller>>

-----------------------------------------------------------------------------
(* The updater's side.                                                     *)
(* A slip: the guard is always granted.                                    *)
EnterAnyway(t) ==
  /\ nesting[t] < MaxNesting
  /\ nesting' = [nesting EXCEPT ![t] = @ + 1]
  /\ needRestore' = (needRestore \/ reserved)
  /\ UNCHANGED <<model, pc, reserved, working, staged, health, controller>>

(* OtaAdmission: refused while the trial is on, which is then ended.       *)
EnterOta(t) ==
  /\ nesting[t] < MaxNesting
  /\ IF reserved THEN needRestore' = TRUE /\ UNCHANGED nesting
     ELSE nesting' = [nesting EXCEPT ![t] = @ + 1] /\ UNCHANGED needRestore
  /\ UNCHANGED <<model, pc, reserved, working, staged, health, controller>>

LeaveOta(t) ==
  /\ nesting[t] > 0
  /\ nesting' = [nesting EXCEPT ![t] = @ - 1]
  /\ UNCHANGED <<model, pc, reserved, needRestore, working, staged, health, controller>>

(* Whatever an admitted call does to the updater.                          *)
OtaWork(t) ==
  /\ nesting[t] > 0
  /\ working' \in BOOLEAN /\ staged' \in BOOLEAN
  /\ UNCHANGED <<model, pc, reserved, needRestore, nesting, health, controller>>

(* fail, finishCheck, finishDownload, deferUpdate take no guard; all they  *)
(* can do to the two is to end them.                                       *)
OtaEnds ==
  /\ working' \in {working, FALSE} /\ staged' \in {staged, FALSE}
  /\ UNCHANGED <<model, pc, reserved, needRestore, nesting, health, controller>>

(* healthPoll, which takes no guard either.                                *)
HealthPoll ==
  /\ pc = "loop"               \* app_main too
  /\ \/ health = "unpolled" /\ health' = "pending" /\ staged' = TRUE
     \/ health = "pending" /\ health' = "valid" /\ staged' = FALSE
  /\ UNCHANGED <<model, pc, reserved, needRestore, nesting, working, controller>>

Next ==
  \/ RequestCheck
  \/ Reserve
  \/ \E locked \in BOOLEAN : Service(locked)
  \/ \E ok, echo, released \in BOOLEAN : Complete(ok, echo, released)
  \/ WantRestore
  \/ Elapse
  \/ \E t \in Tasks : EnterOta(t) \/ LeaveOta(t) \/ OtaWork(t)
  \/ OtaEnds
  \/ HealthPoll

Spec == Init /\ [][Next]_vars

-----------------------------------------------------------------------------
TypeOK ==
  /\ model \in Models
  /\ pc \in {"loop", "reserve", "service", "i2c"}
  /\ reserved \in BOOLEAN /\ needRestore \in BOOLEAN
  /\ nesting \in [Tasks -> 0 .. MaxNesting]
  /\ working \in BOOLEAN /\ staged \in BOOLEAN
  /\ health \in {"unpolled", "pending", "valid"}
  /\ controller \in {"normal", "trial", "asleep"}

(* While the controller is reserved no call is inside the updater and      *)
(* nothing is under way in it, not even a boot trial (AdmissionModel,      *)
(* request120's second check, OtaAdmission).                               *)
TrialExcludesOta == reserved => ~InFlight /\ ~Busy

(* Touch is not given back before the controller has been seen in its      *)
(* normal mode, or has never been touched (Model::restore, fail, complete  *)
(* and the release in service).                                            *)
ControllerNormalWhenReleased == ~(reserved /\ Critical(model)) => controller = "normal"

(* A trial ends: restored, held closed, or by a restart.  Only an update   *)
(* that became staged between request120's two checks can hold the restart *)
(* back (Model::tick, complete, the RebootPending branch of service).      *)
TrialEnds == Critical(model) ~> ~Critical(model) \/ staged

(* The strengthening of the safety properties from which they follow: what *)
(* is known of the fence, and of the controller in each phase.             *)
I2cPhases == Commands \cup {"Probe", "HandshakeEcho", "ModeEcho", "VerifyRelease"}

FenceInv ==
  /\ TrialExcludesOta
  /\ Critical(model) => reserved
  /\ reserved \/ pc = "reserve" => health = "valid"

Known(m, mode) ==
  /\ ~Critical(m) \/ "dirty" \notin m.flags => mode = "normal"
  /\ "restoring" \in m.flags =>
       /\ "dirty" \in m.flags
       /\ m.phase \in {"Settle", "VerifyRelease"} => mode = "normal"
       /\ m.phase \notin {"SleepWrite", "SleepRequested"}
  /\ m.phase = "VerifyRelease" => "restoring" \in m.flags
  /\ "consumed" \notin m.flags => m.phase = "Off" /\ "restoring" \notin m.flags

ControllerInv ==
  /\ Known(model, controller)
  /\ pc = "i2c" => /\ model.phase \in I2cPhases
                   /\ model.phase \in Commands => "dirty" \in model.flags

TrialInv == TypeOK /\ FenceInv /\ ControllerInv
=============================================================================

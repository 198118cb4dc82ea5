----------------------------- MODULE MCRecords ------------------------------
(* TLC's instances of components that meet nowhere, side by side: those    *)
(* that keep a record through a reset, and the queue of the input to the   *)
(* host.  `part' says which of them runs; the others stay as they began.   *)
EXTENDS NandStore

CONSTANTS MaxBoots, MaxGen, MaxResets, MaxSaves,
          Names, Capacity, Configs, MaxAsks,
          CriticalDepth, NormalDepth, Reserve, Tries, Controls

(* The queues of the input have some depth, or none.                       *)
ASSUME InputConstants ==
  /\ CriticalDepth \in Nat /\ NormalDepth \in Nat /\ Reserve \in Nat
  /\ Controls \subseteq {"key", "stick", "press"}

(* Room for a profile, a network and a setting; 0 and 9 are what the flash  *)
(* holds of the display before there is one, and when it cannot be read.   *)
ASSUME SettingsConstants ==
  /\ Capacity \in Nat \ {0} /\ MaxAsks \in Nat
  /\ Names # {} /\ Configs # {} /\ Configs \subseteq Nat \ {0, 9}

(* A board resets, and a ledger is written, some number of times.          *)
ASSUME ScaleConstants == MaxResets \in Nat /\ MaxSaves \in Nat

VARIABLES part,
          gct, proof, jrnl, chip, boot, age, trial, con, cold, done, hold, seen,
          slots, gauge, rt, ver, fence, job, timer, resets,
          nvs, wifi, set, ask, svc, disp, writer, task, lan, asks,
          link, controls, ui, resetting, queue, carrier, tries, batch, notified, waiting,
          host, idled

gaugeVars == <<gct, proof, jrnl, chip, boot, age, trial, con, cold, done, hold, seen>>
scaleVars == <<slots, gauge, rt, ver, fence, job, timer, resets>>
settingsVars == <<nvs, wifi, set, ask, svc, disp, writer, task, lan, asks>>
inputVars == <<link, controls, ui, resetting, queue, carrier, tries, batch, notified, waiting, host, idled>>

Gauge == INSTANCE GaugeTrial WITH op <- trial
Scale == INSTANCE ScaleTrials
Settings == INSTANCE OwnerSettings
Input == INSTANCE BleInput WITH held <- controls, worker <- carrier

RecordsInit ==
  /\ part \in {"store", "gauge", "scale", "settings", "input"}
  /\ Init /\ Gauge!Init /\ Scale!Init /\ Settings!Init /\ Input!Init
  /\ part # "scale" => gauge.home = "scale"
  /\ part # "settings" => nvs.old = "" /\ nvs.blob = "none" /\ nvs.disp = 0 /\ task.on = "none"

RecordsNext ==
  /\ UNCHANGED part
  /\ \/ part = "store" /\ Next /\ UNCHANGED <<gaugeVars, scaleVars, settingsVars, inputVars>>
     \/ part = "gauge" /\ Gauge!Next /\ UNCHANGED <<vars, scaleVars, settingsVars, inputVars>>
     \/ part = "scale" /\ Scale!Next /\ UNCHANGED <<vars, gaugeVars, settingsVars, inputVars>>
     \/ part = "settings" /\ Settings!Next /\ UNCHANGED <<vars, gaugeVars, scaleVars, inputVars>>
     \/ part = "input" /\ Input!Next /\ UNCHANGED <<vars, gaugeVars, scaleVars, settingsVars>>

RecordsSpec == RecordsInit /\ [][RecordsNext]_<<part, vars, gaugeVars, scaleVars, settingsVars, inputVars>>

(* What the battery gauge holds is answered for by a durable record.       *)
GaugeIsOwned == Gauge!GaugeIsOwned

(* Neither scale trial changes the gauge without a ledger, or publishes a  *)
(* unit that is not the gauge's.                                           *)
ScaleIsOwned == Scale!ScaleIsOwned

(* Settings are stored as they were acknowledged, by one task at a time.   *)
SettingsKept == Settings!SettingsKept

(* On a connection that stays up, no control is held at the host that the  *)
(* user let go, once the queues are empty.                                 *)
NothingStuck == Input!NothingStuck
=============================================================================

---------------------------- MODULE MCStandbySleep ---------------------------
(* TLC's instances of StandbySleep and of the screen, whose lock and       *)
(* activity it goes by, side by side: `part' says which of them runs, and  *)
(* the other stays as it began.                                            *)
EXTENDS StandbySleep

CONSTANT MaxEvents

\* The screen is given a number of events, possibly none.
ASSUME ViewConstants == MaxEvents \in Nat

VARIABLES part, view, world, ota, hand, keys, loop, left

viewVars == <<view, world, ota, hand, keys, loop, left>>

Screen == INSTANCE View

StandbyInit ==
  /\ part \in {"sleep", "view"} /\ Init /\ Screen!Init
  /\ part = "view" => s.automatic

StandbyNext ==
  /\ UNCHANGED part
  /\ \/ part = "sleep" /\ Next /\ UNCHANGED viewVars
     \/ part = "view" /\ Screen!Next /\ UNCHANGED vars

StandbySpec == StandbyInit /\ [][StandbyNext]_<<part, vars, viewVars>>

(* The main loop and the tasks it depends on run, time passes, and calls   *)
(* of the power-management driver return; the power owner finds the pads   *)
(* ready, Wi-Fi off, the screen locked and the frequency as it was again   *)
(* and again.  All of it where they run: what stays as it began owes       *)
(* nothing.                                                                *)
Runs(A) == part = "sleep" /\ A
StandbyFairness ==
  /\ WF_vars(Runs(Time)) /\ WF_vars(Runs(UsbActivity)) /\ WF_vars(Runs(OtaActivity))
  /\ WF_vars(Runs(SampleOta)) /\ WF_vars(Runs(\E ble \in BOOLEAN : Service(ble)))
  /\ WF_vars(Runs(Configure \/ Configured))
  /\ SF_vars(Runs(Allow(TRUE, TRUE, FALSE)))

StandbyFairSpec == StandbySpec /\ StandbyFairness

(* What the screen keeps among touches, keys, animations and the updater.  *)
ViewIsWhole == Screen!ViewIsWhole

(* What a finger on the glass may and may not bring about.                 *)
GesturesAreHonest == Screen!GesturesAreHonest
=============================================================================

---------------------------- MODULE MCTouchSleep ----------------------------
(* TLC's instances of the trial of touch sleep (two tasks enter the updater,*)
(* each with up to two nested guards) and of the gauge's own journals in    *)
(* NVS: its capacity, and its single fields.  `part' says which of them     *)
(* runs, and the others stay as they began.                                 *)
(* No symmetry: the run checks liveness.                                    *)
EXTENDS TouchSleep

CONSTANTS Budgets,       \* what a behaviour of the capacity may do
          FieldBudgets   \* what a behaviour of the single fields may do

\* How often something is asked for, and how often the board or the gauge is reset.
ASSUME BudgetsAreCounts ==
  /\ Budgets \subseteq [calls : Nat, resets : Nat, colds : Nat, arms : Nat]
  /\ FieldBudgets \subseteq [calls : Nat, resets : Nat, colds : Nat]

VARIABLES part, chip, nvs, op, test, boot, seen, left

nominalVars == <<chip, nvs, op, test, boot, seen, left>>

Nominal == INSTANCE GaugeNominal

Fields == INSTANCE GaugeFields WITH Budgets <- FieldBudgets

BoardInit == /\ part \in {"touch", "nominal", "fields"} /\ Init
             /\ IF part = "fields" THEN Fields!Init /\ test = "none" /\ boot = "none" ELSE Nominal!Init
             /\ part = "touch" => chip.sec = 3 /\ chip.dm = Nominal!Fresh /\ left = CHOOSE b \in Budgets : TRUE
             /\ part # "touch" => health = "valid"

BoardNext ==
  /\ UNCHANGED part
  /\ \/ part = "touch" /\ Next /\ UNCHANGED nominalVars
     \/ part = "nominal" /\ Nominal!Next /\ UNCHANGED vars
     \/ part = "fields" /\ Fields!Next /\ UNCHANGED <<vars, test, boot>>

BoardSpec == BoardInit /\ [][BoardNext]_<<part, vars, nominalVars>>

(* app_main's loop goes on, an I2C action is bounded, clocks run: where the *)
(* trial runs.  What stays as it began owes nothing.                        *)
Runs(A) == part = "touch" /\ A
BoardFairness ==
  /\ WF_vars(Runs(Reserve)) /\ WF_vars(Runs(Elapse))
  /\ WF_vars(Runs(\E locked \in BOOLEAN : Service(locked)))
  /\ WF_vars(Runs(\E ok, echo, released \in BOOLEAN : Complete(ok, echo, released)))

BoardFairSpec == BoardSpec /\ BoardFairness

(* What is written into the gauge has a journal in NVS that leads back.     *)
NominalIsOwned == IF part = "fields" THEN Fields!FieldsAreOwned ELSE Nominal!NominalIsOwned

(* The budgets of the run: two commands with a reset of either side; three  *)
(* without; and boots that an arm of the capacity test is to survive.       *)
Budget(calls, resets, colds, arms) == [calls |-> calls, resets |-> resets, colds |-> colds, arms |-> arms]
RunBudgets == {Budget(2, 1, 0, 0), Budget(2, 0, 1, 0), Budget(3, 0, 0, 0), Budget(1, 2, 0, 2)}

(* Two requests with a reset of either side.                                *)
RunFieldBudgets == {[calls |-> 2, resets |-> 1, colds |-> 1]}
=============================================================================

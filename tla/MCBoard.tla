------------------------------ MODULE MCBoard -------------------------------
(* TLC's instances of components that meet only through the storage lease  *)
(* and the radio, side by side: `part' says which of them runs, and the    *)
(* others stay as they began.                                              *)
EXTENDS StorageLease

CONSTANTS FifoMax, MaxId, MaxFlaps, Modes, ScanFaults,
          Attempts, Profiles

(* A locked window has its attempts, and there is room for some profiles.  *)
ASSUME OwnerConstants == Attempts \in Nat /\ Profiles \in Nat

(* A queue of events, trials and losses are counted, of what may be asked. *)
ASSUME TrialConstants ==
  FifoMax \in Nat /\ MaxId \in Nat /\ MaxFlaps \in Nat /\ Modes \subseteq {"Off", "Baseline", "On"}

VARIABLES part,
          pc, trial, owe, drv, fifo, overflow, request, probe, socket, world, flaps,
          at, win, clock, retry, radio, scan, count, tail, ui, cpu, gauge, began

trialVars == <<pc, trial, owe, drv, fifo, overflow, request, probe, socket, world, flaps>>
ownerVars == <<at, win, clock, retry, radio, scan, count, tail, ui, cpu, gauge, began>>

Trial == INSTANCE TwtTrial WITH Probes <- {<<TRUE, "tsf">>, <<FALSE, "socket">>}
Owner == INSTANCE NetworkOwner WITH pc <- at

BoardInit ==
  /\ part \in {"lease", "trial", "owner"}
  /\ Init /\ Trial!Init /\ Owner!Init
  /\ part # "trial" => owe.wanted
  /\ part # "owner" => ~gauge.hold /\ count = 0 /\ tail.client = "none"

BoardNext ==
  /\ UNCHANGED part
  /\ \/ part = "lease" /\ Next /\ UNCHANGED <<trialVars, ownerVars>>
     \/ part = "trial" /\ Trial!Next /\ UNCHANGED <<vars, ownerVars>>
     \/ part = "owner" /\ Owner!Next /\ UNCHANGED <<vars, trialVars>>

BoardSpec == BoardInit /\ [][BoardNext]_<<part, vars, trialVars, ownerVars>>

(* What the trials of TWT must never do.                                   *)
TrialIsSafe == Trial!TrialIsSafe

(* What the owner's loop keeps between screen, driver and gauge.           *)
RadioKept == Owner!RadioKept
=============================================================================

---------------------------- MODULE ScaleTrials -----------------------------
(* The two scale trials of the battery gauge: GSJ2, from nominal 65 mAh     *)
(* (mosaico_gauge_scale_runtime.inc, mosaico_gauge_scale_trial.inc), and    *)
(* GSJ3, from the factory's 3000 mAh (mosaico_factory_scale_runtime.inc).   *)
(* Each changes seventeen parameters under a ledger of two slots in NVS,    *)
(* publishes the unit of what it measured, and must put the gauge back; the *)
(* coordinator of the steps is shared (mosaico_scale_trial).  A step may be *)
(* the last of a boot, a save may have reached its slot or not, an answer   *)
(* of the gauge may be lost.  A command holds the gauge's mutex and the     *)
(* update's lease throughout.                                              *)
EXTENDS Naturals

CONSTANTS MaxResets,  \* bound on resets
          MaxSaves    \* bound on generations of a ledger

Ledgers == {"scale", "factory"}

VARIABLES
  slots,  \* NVS: the two slots of each ledger; generation 0 is an absent slot
  gauge,  \* its image, security level, config mode, the profile it is found with, and who wrote
  rt,     \* the flags of ScaleTrialStorage and FactoryScaleRuntime that hold
  ver,    \* verifiedGeneration
  fence,  \* scale_trial_protection and factory_scale_protection
  job,    \* the operation in progress: ledger, direction, step
  timer,  \* clock of an applied trial: 2 is its 300 s
  resets

scaleVars == <<slots, gauge, rt, ver, fence, job, timer, resets>>

NoJob == [pc |-> "boot", led |-> "scale", mode |-> "apply"]
Absent == [phase |-> "Missing", gen |-> 0]

Init ==
  /\ slots = [l \in Ledgers |-> [i \in 0 .. 1 |-> Absent]]
  /\ gauge \in [img : {"source"}, sec : {3}, cfg : {FALSE}, home : Ledgers, by : {"scale"}]
  /\ rt = [l \in Ledgers |-> {}] /\ ver = [l \in Ledgers |-> 0]
  /\ fence = [l \in Ledgers |-> TRUE]
  /\ job = NoJob /\ timer = 0 /\ resets = 0

(***************************************************************************)
(* The ledger.                                                             *)
(***************************************************************************)
Follows(a, b) ==
  /\ b.gen = a.gen + 1
  /\ <<a.phase, b.phase>> \in
       {<<"Original", "Pending">>, <<"Original", "Restoring">>, <<"Pending", "Applied">>,
        <<"Pending", "Restoring">>, <<"Applied", "Restoring">>, <<"Restoring", "Original">>}

\* loadInto: the newer of two slots that follow each other, or a first record alone
Newer(s) == IF s[0].gen > s[1].gen THEN 0 ELSE 1
Load(s) ==
  LET new == Newer(s) IN
  IF s[0] = Absent /\ s[1] = Absent THEN Absent
  ELSE IF Absent \in {s[0], s[1]}
       THEN IF s[new] = [phase |-> "Original", gen |-> 1] THEN s[new]
            ELSE [phase |-> "Ambiguous", gen |-> 0]
       ELSE IF Follows(s[1 - new], s[new]) THEN s[new]
            ELSE [phase |-> "Ambiguous", gen |-> 0]
Rec(l) ==
  IF Load(slots[l]) = Absent /\ "seen" \in rt[l] THEN [phase |-> "Ambiguous", gen |-> 0]
  ELSE Load(slots[l])
Ready(l) == Rec(l).phase \notin {"Missing", "Ambiguous"}

\* saveInto: over the older slot
Target(s) == IF Load(s) = Absent THEN 0 ELSE 1 - Newer(s)
Save(l, r) ==
  /\ Load(slots[l]) # Absent => Follows(Load(slots[l]), r)
  /\ r.gen <= MaxSaves
  /\ slots' = [slots EXCEPT ![l][Target(slots[l])] = r]

Other(l) == IF l = "scale" THEN "factory" ELSE "scale"
Fenced(l, phase) == fence' = [fence EXCEPT ![l] = phase \notin {"Missing", "Original"}]
Flags(l, out, in) == rt' = [rt EXCEPT ![l] = (@ \ out) \cup in]

(***************************************************************************)
(* Boots and the clock.                                                    *)
(***************************************************************************)
\* a power cut takes the gauge's parameters: back to the factory's, which only GSJ3 knows
Reset ==
  /\ job.pc # "boot" /\ resets < MaxResets /\ resets' = resets + 1
  /\ gauge' \in {gauge, [gauge EXCEPT !.sec = 3, !.cfg = FALSE,
                                      !.img = IF gauge.home = "factory" THEN "source" ELSE "other"]}
  /\ rt' = [l \in Ledgers |-> {}] /\ ver' = [l \in Ledgers |-> 0]
  /\ fence' = [l \in Ledgers |-> TRUE] /\ job' = NoJob /\ timer' = 0
  /\ UNCHANGED slots

\* scale_boot_fence_locked: the nominal profile is loaded again only where no ledger forbids it
BootFence ==
  /\ job.pc = "boot" /\ job' = [job EXCEPT !.pc = "idle"]
  /\ gauge' \in {gauge} \cup
       (IF gauge.img = "other" /\ Rec("factory") = Absent /\ Rec("scale").phase \in {"Missing", "Original"}
        THEN {[gauge EXCEPT !.img = "source"]} ELSE {})
  /\ fence' = [l \in Ledgers |-> Rec(l).phase \notin {"Missing", "Original"}]
  /\ rt' = [l \in Ledgers |-> IF Rec(l) = Absent THEN {} ELSE {"seen"}]
  /\ UNCHANGED <<slots, ver, timer, resets>>

Later == job.pc # "boot" /\ timer' = (IF timer < 2 THEN timer + 1 ELSE timer)
         /\ UNCHANGED <<slots, gauge, rt, ver, fence, job, resets>>

(***************************************************************************)
(* Commands.                                                               *)
(***************************************************************************)
Idle == job.pc = "idle"

\* gaugeScalePrepare, gaugeFactoryScalePrepare: the source is read whole and saved once
Prepare(l) ==
  /\ Idle /\ Rec(Other(l)) = Absent /\ Rec(l).phase \in {"Missing", "Original"}
  /\ UNCHANGED <<gauge, job, timer, resets>>
  /\ LET first == [phase |-> "Original", gen |-> 1]
         dropped == IF l = "factory" THEN {"prepared"} ELSE {}
     IN \/ \* a gate or a reading refuses; the nominal trial forgets what it knew
           /\ UNCHANGED <<slots, ver, fence>>
           /\ \/ Flags(l, dropped, {}) \/ (l = "scale" /\ Flags(l, {"prepared", "applied"}, {}))
        \/ /\ Rec(l) = Absent /\ gauge.img = "source" /\ gauge.home = l /\ gauge.sec = 3 /\ ~gauge.cfg
           /\ UNCHANGED ver
           /\ \/ Save(l, first) \/ UNCHANGED slots      \* and the commit or its readback fails
           /\ Flags(l, {"prepared"}, IF l = "factory" THEN {"seen"} ELSE {})
           /\ fence' = [fence EXCEPT ![l] = TRUE]
        \/ /\ gauge.img = "source" /\ gauge.home = l /\ gauge.sec = 3 /\ ~gauge.cfg
           /\ IF Rec(l) = Absent THEN Save(l, first) ELSE UNCHANGED slots
           /\ Flags(l, {"applied"}, {"prepared", "seen"})
           /\ ver' = [ver EXCEPT ![l] = IF Rec(l) = Absent THEN 1 ELSE Rec(l).gen]
           /\ fence' = [fence EXCEPT ![l] = FALSE]

\* gaugeScaleImages, gaugeFactoryScaleImages: two signed images, both valid in their slots
Images(l) ==
  /\ Idle /\ (l = "scale" => Rec("factory") = Absent)
  /\ \E ok \in BOOLEAN : Flags(l, {"images"}, IF ok THEN {"images"} ELSE {})
  /\ UNCHANGED <<slots, gauge, ver, fence, job, timer, resets>>

\* scale_trial_begin_locked, factory_scale_begin_locked
Begin(l, mode, out) ==
  /\ Ready(l)
  /\ Flags(l, out \cup {"touched", "sealTried", "untouched"}
           \cup (IF l = "scale" THEN {"spaceRejected", "keysStarted"} ELSE {}), {"seen"})
  /\ fence' = [fence EXCEPT ![l] = TRUE]
  /\ job' = [pc |-> "admit", led |-> l, mode |-> mode]

Apply(l) ==
  /\ Idle /\ Rec(Other(l)) = Absent /\ Rec(l).phase = "Original" /\ Rec(l).gen + 4 <= MaxSaves
  /\ Begin(l, "apply", {})
  /\ UNCHANGED <<slots, gauge, ver, timer, resets>>

Restore(l) ==
  /\ Idle /\ (l = "scale" => Rec("factory") = Absent)
  /\ Ready(l) /\ Rec(l).phase # "Original" /\ Begin(l, "restore", {"active"})
  /\ UNCHANGED <<slots, gauge, ver, timer, resets>>

\* gaugeScalePoll and factory_scale_poll_locked: the automatic restore
Poll(l) ==
  /\ Idle /\ Ready(l) /\ Rec(l).phase # "Original" /\ (l = "scale" => Rec("factory") = Absent)
  /\ UNCHANGED <<slots, gauge, ver, timer, resets>>
  /\ \/ /\ "active" \notin rt[l] /\ {"bootTried", "restoreTried"} \cap rt[l] = {}
        /\ (l = "scale" => "applied" \notin rt[l]) /\ Begin(l, "restore", {"active"})
     \/ \* a reading is out of bounds, or the nominal trial's time is over
        "active" \in rt[l] /\ Begin(l, "restore", {"active", "prepared", "applied"})
     \/ \* the factory trial's units go first, with or without the lease to restore
        /\ l = "factory" /\ "active" \in rt[l] /\ UNCHANGED <<fence, job>>
        /\ Flags(l, {"active", "prepared", "applied"}, {})

(***************************************************************************)
(* The operation.                                                          *)
(***************************************************************************)
Ours == job.led
Has(flag) == flag \in rt[job.led]
Wanted == IF job.mode = "apply" THEN "target" ELSE "source"
NoOp == job.mode = "restore" /\ gauge.img = "source"
Go(pc) == job' = [job EXCEPT !.pc = pc]

\* a step fails: past its intent an apply turns into a restore, a restore ends protected
Turn == job' = IF job.mode = "apply" THEN [job EXCEPT !.pc = IF job.pc = "intent" THEN "over" ELSE "admit",
                                                      !.mode = IF job.pc = "intent" THEN "apply" ELSE "restore"]
               ELSE [job EXCEPT !.pc = "protect"]

Stop ==
  /\ job.pc \in {"intent", "open", "observe", "enter", "write", "exit", "seal", "final"} /\ Turn
  /\ UNCHANGED <<slots, gauge, rt, ver, fence, timer, resets>>

\* admit, and revoke(): an apply revokes the units once it is admitted, a restore before
Admit ==
  /\ job.pc = "admit"
  /\ LET units == {"prepared", "applied"} IN
     IF job.mode = "apply"
     THEN \/ /\ {"prepared", "images"} \subseteq rt[Ours] /\ {"applyTried", "fault"} \cap rt[Ours] = {}
             /\ Flags(Ours, units, {"applyTried"}) /\ Go("intent")
          \/ Go("over") /\ UNCHANGED rt
     ELSE /\ Flags(Ours, units, {})
          /\ \/ /\ {"restoreTried", "fault"} \cap rt[Ours] = {} /\ (Has("spaceRejected") => Has("keysStarted"))
                /\ Go("intent")
             \/ Go("protect")
  /\ UNCHANGED <<slots, gauge, ver, fence, timer, resets>>

(* A slip: a commit whose outcome is not known is taken as made. *)
IntendAnyway(phase, pc) ==
  /\ fence' = [fence EXCEPT ![Ours] = TRUE] /\ Go(pc)
  /\ \/ Save(Ours, [phase |-> phase, gen |-> Rec(Ours).gen + 1]) \/ UNCHANGED slots
\* scale_trial_intent, factory_scale_rt_intent
Intend(phase, pc) ==
  LET r == [phase |-> phase, gen |-> Rec(Ours).gen + 1] IN
  /\ fence' = [fence EXCEPT ![Ours] = TRUE]
  /\ \/ Save(Ours, r) /\ Go(pc)
     \/ Save(Ours, r) /\ Turn
     \/ UNCHANGED slots /\ Turn
Intent ==
  /\ job.pc = "intent" /\ Ready(Ours)
  /\ IF job.mode = "restore" /\ Rec(Ours).phase = "Restoring"
     THEN Go("open") /\ UNCHANGED <<slots, fence>>
     ELSE Intend(IF job.mode = "restore" THEN "Restoring" ELSE "Pending", "open")
  /\ UNCHANGED <<gauge, rt, ver, timer, resets>>

Open ==
  /\ job.pc = "open"
  /\ LET tried == IF job.mode = "restore" THEN {"restoreTried", "bootTried"} ELSE {} IN
     \/ /\ gauge.sec = 1 /\ job.mode = "restore" /\ ~Has("restoreTried")
        /\ Flags(Ours, {}, tried \cup {"touched"}) /\ Go("observe") /\ UNCHANGED gauge
     \/ /\ gauge.sec = 3 /\ ~gauge.cfg /\ ~Has("keyFailed")
        /\ \/ /\ job.mode = "apply" /\ Flags(Ours, {"sealTried"}, {"touched", "spaceRejected"})
              /\ Turn /\ UNCHANGED gauge
           \/ /\ Flags(Ours, {"sealTried"}, tried \cup {"touched", "keysStarted"})
              /\ \/ gauge' = [gauge EXCEPT !.sec = 1] /\ Go("observe")
                 \/ gauge' = [gauge EXCEPT !.sec = 2] /\ Turn
           \/ /\ Flags(Ours, {"sealTried"}, tried \cup {"touched", "keysStarted", "keyFailed"})
              /\ \E sec \in 1 .. 3 : gauge' = [gauge EXCEPT !.sec = sec]
              /\ Turn
  /\ UNCHANGED <<slots, ver, fence, timer, resets>>

\* observe, verify: all 131 fields; a third value or changed calibration stops every write
Observe ==
  /\ job.pc = "observe" /\ gauge.sec = 1
  /\ \/ /\ gauge.img # "other" /\ (job.mode = "apply" => gauge.img = "source")
        /\ Go("enter")
        /\ \/ UNCHANGED rt \/ (job.mode = "restore" /\ Flags(Ours, {}, {"untouched"}))
     \/ Turn /\ Flags(Ours, {}, {"fault"})
  /\ UNCHANGED <<slots, gauge, ver, fence, timer, resets>>

Enter ==
  /\ job.pc = "enter"
  /\ \/ NoOp /\ (gauge.cfg => gauge.sec = 1) /\ Go("write") /\ UNCHANGED gauge
     \/ ~NoOp /\ gauge.sec = 1 /\ gauge.cfg /\ Go("write") /\ UNCHANGED gauge
     \/ /\ ~NoOp /\ gauge.sec = 1
        /\ \/ gauge' = [gauge EXCEPT !.cfg = TRUE] /\ Go("write")
           \/ \E cfg \in BOOLEAN : gauge' = [gauge EXCEPT !.cfg = cfg] /\ Turn
  /\ UNCHANGED <<slots, rt, ver, fence, timer, resets>>

Write ==
  /\ job.pc = "write" /\ UNCHANGED <<slots, rt, ver, fence, timer, resets>>
  /\ \/ NoOp /\ Go("exit") /\ UNCHANGED gauge
     \/ /\ ~NoOp /\ gauge.sec = 1 /\ gauge.cfg
        /\ \/ gauge' = [gauge EXCEPT !.img = Wanted, !.by = Ours] /\ Go("exit")
           \/ \E img \in {gauge.img, "mixed", Wanted} :
                gauge' = [gauge EXCEPT !.img = img, !.by = Ours] /\ Turn

\* verify, then out of config mode, which may seal the gauge as well
Verified == gauge.img = Wanted
Exit ==
  /\ job.pc = "exit" /\ Verified
  /\ \/ ~gauge.cfg /\ Go("seal") /\ UNCHANGED gauge
     \/ /\ gauge.cfg
        /\ \/ \E sec \in {gauge.sec, 3} : gauge' = [gauge EXCEPT !.cfg = FALSE, !.sec = sec] /\ Go("seal")
           \/ \E cfg \in BOOLEAN : gauge' = [gauge EXCEPT !.cfg = cfg] /\ Turn
  /\ UNCHANGED <<slots, rt, ver, fence, timer, resets>>

Seal ==
  /\ job.pc = "seal" /\ ~gauge.cfg
  /\ \/ gauge.sec = 3 /\ Go("final") /\ UNCHANGED <<gauge, rt>>
     \/ /\ gauge.sec = 1 /\ Verified /\ ~Has("sealTried") /\ Flags(Ours, {}, {"sealTried"})
        /\ \/ gauge' = [gauge EXCEPT !.sec = 3] /\ Go("final")
           \/ \E sec \in {1, 3} : gauge' = [gauge EXCEPT !.sec = sec] /\ Turn
  /\ UNCHANGED <<slots, ver, fence, timer, resets>>

\* final and complete
Complete ==
  /\ job.pc = "final" /\ gauge.sec = 3 /\ ~gauge.cfg /\ gauge.img # "mixed" /\ Ready(Ours)
  /\ job.mode = "restore" => ~Has("untouched")
  /\ Intend(IF job.mode = "restore" THEN "Original" ELSE "Applied", "publish")
  /\ UNCHANGED <<gauge, rt, ver, timer, resets>>

\* publish: the unit of this boot; the factory's source has none
Publish ==
  /\ job.pc = "publish" /\ Go("over") /\ timer' = 0
  /\ IF job.mode = "apply" THEN Flags(Ours, {"prepared"}, {"applied", "active"})
     ELSE Flags(Ours, {"applied", "active"}, IF Ours = "scale" THEN {"prepared"} ELSE {})
  /\ ver' = [ver EXCEPT ![Ours] = Rec(Ours).gen]
  /\ UNCHANGED <<slots, gauge, fence, resets>>

\* protect(): seals what is known to be safe to seal, once
Protect ==
  /\ job.pc = "protect" /\ Go("over") /\ fence' = [fence EXCEPT ![Ours] = TRUE]
  /\ \/ UNCHANGED <<gauge, rt>>
     \/ /\ ~gauge.cfg /\ gauge.sec # 3 /\ Has("touched") /\ ~Has("sealTried")
        /\ Flags(Ours, {}, {"sealTried"}) /\ \E sec \in {gauge.sec, 3} : gauge' = [gauge EXCEPT !.sec = sec]
  /\ UNCHANGED <<slots, ver, timer, resets>>

Over ==
  /\ job.pc = "over" /\ Go("idle") /\ Fenced(Ours, Rec(Ours).phase)
  /\ UNCHANGED <<slots, gauge, rt, ver, timer, resets>>

Next ==
  \/ Reset \/ BootFence \/ Later
  \/ \E l \in Ledgers : Prepare(l) \/ Images(l) \/ Apply(l) \/ Restore(l) \/ Poll(l)
  \/ Stop \/ Admit \/ Intent \/ Open \/ Observe \/ Enter \/ Write \/ Exit \/ Seal
  \/ Complete \/ Publish \/ Protect \/ Over

Spec == Init /\ [][Next]_scaleVars

(***************************************************************************)
(* Properties.                                                             *)
(***************************************************************************)
\* scale_unit_context_locked, factory_scale_context_locked: the unit a reader is told
Unit(l) ==
  IF ver[l] # Rec(l).gen \/ ~Ready(l) THEN 0
  ELSE IF l = "scale" /\ Rec(l).phase = "Original" /\ "prepared" \in rt[l] THEN 1
  ELSE IF /\ Rec(l).phase = "Applied" /\ "applied" \in rt[l]
          /\ l = "factory" => "active" \in rt[l] /\ timer < 2
       THEN 2 ELSE 0

TypeOK ==
  /\ slots \in [Ledgers -> [0 .. 1 -> [phase : {"Missing", "Original", "Pending", "Applied", "Restoring"},
                                       gen : 0 .. MaxSaves]]]
  /\ gauge.img \in {"source", "mixed", "target", "other"} /\ fence \in [Ledgers -> BOOLEAN]
  /\ timer \in 0 .. 2 /\ resets \in 0 .. MaxResets

\* a ledger never reads as ambiguous, and there is one at most
LedgersRead ==
  /\ \A l \in Ledgers : Load(slots[l]).phase # "Ambiguous"
  /\ \E l \in Ledgers : Load(slots[l]) = Absent

\* parameters that are not the gauge's own have an intent on record, and the board fenced
Owned ==
  gauge.img \in {"mixed", "target"} =>
    /\ Load(slots[gauge.by]).phase \in {"Pending", "Applied", "Restoring"} /\ fence[gauge.by]

\* the unit published is that of the parameters in the gauge, sealed
UnitsTrue ==
  \A l \in Ledgers : Unit(l) # 0 => gauge.img = (IF Unit(l) = 1 THEN "source" ELSE "target") /\ gauge.sec = 3

(* What the two scale trials must never do: change the gauge without a      *)
(* ledger that says so and a fence, leave a ledger no boot can read, or     *)
(* publish a unit that is not the gauge's.                                  *)
ScaleIsOwned == TypeOK /\ LedgersRead /\ Owned /\ UnitsTrue
=============================================================================

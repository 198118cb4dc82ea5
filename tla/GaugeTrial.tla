----------------------------- MODULE GaugeTrial -----------------------------
(* The gauge's contrast operation (mosaico_gauge_contrast_runtime.inc) and  *)
(* the one-shot cold trial that owns one run of it                          *)
(* (mosaico_gauge_cold_runtime.inc, mosaico_gauge_cold_trial_model.h).  The *)
(* operation changes three parameters of the battery gauge under a durable  *)
(* intent in NVS and puts them back; the trial keeps its own record in      *)
(* NAND: armed before the change, handed off to a power cut, claimed by the *)
(* boot that reads the cold gauge, evidence, restoring, restored.  Any step *)
(* may be the last of a boot, any save may have reached the medium or not,  *)
(* and any mutator may lose its answer.  A task runs a whole operation      *)
(* under the update's lease and the gauge's mutex, so that only a reboot    *)
(* and the clock come between its steps.                                    *)
EXTENDS Naturals

CONSTANTS MaxBoots,   \* bound on boots
          MaxGen      \* bound on generations of the contrast record

VARIABLES
  gct,    \* contrast record in NVS: phase and generation (the epoch moves with it)
  proof,  \* original generation pinned by the reserved proof in NAND; 0: none
  jrnl,   \* the trial's record in NAND
  chip,   \* the gauge: its image, security level and config mode
  boot,   \* this boot: its number and its reset reason
  age,    \* clock: of the operation, or of a boot that resumes a trial
  op,     \* the operation in progress: its step, direction, entry, owner, result
  con,    \* ContrastRuntime's flags that hold
  cold,   \* Runtime's flags that hold
  done,   \* Session's releases of this boot
  hold,   \* protection and allowFallback
  seen    \* history: releases of all boots; by whom the image is; lost answers of this boot

vars == <<gct, proof, jrnl, chip, boot, age, op, con, cold, done, hold, seen>>

Phases == {"Empty", "Armed", "HandedOff", "CaptureClaimed", "Captured", "CaptureFailed",
           "Restoring", "Restored", "Torn"}
Unclaimed == {"RejectedStartup", "StartupWindowExpired"}
Captures == {"None", "Success", "KnownTimeout", "KnownReadFailure", "Interrupted"} \cup Unclaimed
Blank == [phase |-> "Empty", seq |-> 0, armed |-> 0, claimed |-> 0, capture |-> "None"]
NoOp == [pc |-> "idle", mode |-> "apply", top |-> "apply", who |-> "plain"]
Quiet == [protection |-> FALSE, fallback |-> TRUE]
Guarded == [protection |-> TRUE, fallback |-> FALSE]

Init ==
  /\ gct = [phase |-> "Missing", gen |-> 0]
  /\ proof = 0 /\ jrnl = Blank
  /\ chip = [img |-> "source", sec |-> 3, cfg |-> FALSE]
  /\ boot = [n |-> 1, kind |-> "PowerOn"] /\ age = 0
  /\ op = [NoOp EXCEPT !.pc = "boot"] /\ con = {} /\ cold = {} /\ done = {}
  /\ hold = Quiet
  /\ seen = [apply |-> 0, capture |-> 0, restore |-> 0, byCold |-> FALSE, open |-> FALSE, blind |-> FALSE]

(***************************************************************************)
(* The rules of the two records.                                           *)
(***************************************************************************)
SameBoot == jrnl.armed = boot.n
Early == age < 2            \* before the restore trigger, or inside the capture window
Window == age < 3           \* before the hard limits, 720 s and 120 s

\* mosaico_gauge_cold_trial::transition, the chain of phases
Legal(a, b) ==
  /\ b.seq = a.seq + 1
  /\ <<a.phase, b.phase>> \in
       {<<"Empty", "Armed">>, <<"Armed", "HandedOff">>, <<"Armed", "Restoring">>,
        <<"HandedOff", "CaptureClaimed">>, <<"HandedOff", "Restoring">>,
        <<"HandedOff", "CaptureFailed">>, <<"CaptureClaimed", "Captured">>,
        <<"CaptureClaimed", "CaptureFailed">>, <<"Captured", "Restoring">>,
        <<"CaptureFailed", "Restoring">>, <<"Restoring", "Restored">>}
  /\ a.capture # "None" => b.capture = a.capture
  /\ <<a.phase, b.phase>> = <<"HandedOff", "CaptureFailed">> => b.capture \in Unclaimed

Step(phase) == [jrnl EXCEPT !.seq = @ + 1, !.phase = phase]
Saved(r) == Legal(jrnl, r) /\ jrnl' = r                 \* commit: exact and read back
Lost(r) == jrnl' \in {jrnl, r, [r EXCEPT !.phase = "Torn"]}

\* the contrast record's intent, and an intent whose commit or readback failed
Next1(phase) == [phase |-> phase, gen |-> gct.gen + 1]
Lawful(phase) == <<gct.phase, phase>> \in
  {<<"Original", "Pending">>, <<"Pending", "Applied">>, <<"Pending", "Restoring">>,
   <<"Applied", "Restoring">>, <<"Restoring", "Original">>}

\* parentBound: the contrast record is where the trial's record says it is
ParentBound ==
  LET d == gct.gen - proof
      back == IF "abort" \in cold THEN 2 ELSE 3
      original == gct.phase = "Original" /\ d \in {0, back + 1}
      pending == gct.phase = "Pending" /\ d = 1
      applied == gct.phase = "Applied" /\ d = 2 /\ "abort" \notin cold
      restoring == gct.phase = "Restoring" /\ d = back
  IN /\ gct.gen >= proof
     /\ IF "durable" \notin cold THEN original \/ pending \/ applied \/ restoring
        ELSE CASE jrnl.phase = "Armed" -> applied \/ (pending /\ "inFlight" \in cold)
               [] jrnl.phase = "Restoring" ->
                    applied \/ restoring \/ (original /\ d = back + 1)
                    \/ ("abort" \in cold /\ pending)
               [] jrnl.phase = "Restored" -> original /\ d = back + 1
               [] OTHER -> applied

\* context(): what makes an inspection known to be safe
KnownSafe ==
  /\ "blocked" \notin cold /\ "ackUnknown" \notin con /\ ~chip.cfg
  /\ \/ /\ "inFlight" \in cold /\ {"operation", "keysStarted"} \subseteq con
        /\ {"keyFailed", "dirty"} \cap con = {} /\ gct.phase = "Pending"
     \/ "durable" \in cold /\ jrnl.phase # "Restoring" /\ gct.phase = "Applied"
     \/ {"issued", "intent"} \cap cold # {} /\ "keyFailed" \notin con
Safe == ParentBound /\ KnownSafe
Closed == Safe /\ chip.sec = 3

Owns == {"inFlight", "issued"} \cap cold # {} /\ "historical" \notin cold
KeyWindow ==
  \/ ~hold.protection
  \/ /\ "blocked" \notin cold /\ Owns
     /\ IF "durable" \in cold THEN IF SameBoot /\ "issued" \notin cold THEN Early ELSE Window
        ELSE "inFlight" \in cold /\ "bound" \in cold /\ Early

Blocked == cold' = cold \cup {"blocked"} /\ hold' = Guarded    \* fail()

(***************************************************************************)
(* Boots and the clock.                                                    *)
(***************************************************************************)
\* any reset; a power cut may take the gauge with it
Reboot ==
  /\ op.pc # "boot" /\ boot.n < MaxBoots
  /\ \E kind \in {"PowerOn", "Software"} :
       /\ boot' = [n |-> boot.n + 1, kind |-> kind]
       /\ chip' \in {chip} \cup
            (IF kind = "PowerOn" THEN {[img |-> "source", sec |-> 3, cfg |-> FALSE]} ELSE {})
  /\ age' = 0 /\ op' = [NoOp EXCEPT !.pc = "boot"] /\ con' = {} /\ cold' = {} /\ done' = {}
  /\ hold' = Quiet /\ seen' = [seen EXCEPT !.open = FALSE]
  /\ UNCHANGED <<gct, proof, jrnl>>

Tick == op.pc # "boot" /\ age' = (IF age < 3 THEN age + 1 ELSE age)
        /\ UNCHANGED <<gct, proof, jrnl, chip, boot, op, con, cold, done, hold, seen>>

\* evidence of a capture that failed, and then the wish to restore
Fails(why) ==
  LET r == [Step("CaptureFailed") EXCEPT !.capture = why] IN
  \/ Saved(r) /\ cold' = cold \cup {"durable", "bound", "wanted"} /\ hold' = Guarded
  \/ Lost(r) /\ cold' = cold \cup {"durable", "bound", "blocked"} /\ hold' = Guarded

\* startup()
Startup ==
  /\ op.pc = "boot" /\ op' = NoOp
  /\ UNCHANGED <<gct, proof, chip, boot, age, con>>
  /\ LET known == cold \cup {"durable", "bound"} IN
     \/ /\ (gct.phase = "Original" \/ (proof = 0 /\ jrnl = Blank))
        /\ hold' = Quiet /\ UNCHANGED <<jrnl, cold, done, seen>>
     \/ \* a read fails, the parent does not fit, or the record is one no boot may resume
        /\ gct.phase # "Original" /\ Blocked /\ UNCHANGED <<jrnl, done, seen>>
     \/ /\ gct.phase = "Applied" /\ gct.gen = proof + 2
        /\ CASE jrnl.phase \in {"Armed", "Captured", "CaptureFailed"} ->
                  /\ cold' = known \cup {"wanted"} /\ hold' = Guarded /\ UNCHANGED <<jrnl, done, seen>>
             [] jrnl.phase = "HandedOff" /\ boot.kind = "PowerOn" ->
                  LET r == [Step("CaptureClaimed") EXCEPT !.claimed = boot.n] IN
                  \/ /\ Saved(r) /\ cold' = known /\ hold' = Guarded
                     /\ done' = {"claim"} /\ seen' = [seen EXCEPT !.capture = @ + 1]
                  \/ /\ Lost(r) /\ cold' = known \cup {"blocked"} /\ hold' = Guarded
                     /\ UNCHANGED <<done, seen>>
                  \/ Fails("StartupWindowExpired") /\ UNCHANGED <<done, seen>>
             [] jrnl.phase = "HandedOff" /\ boot.kind # "PowerOn" ->
                  Fails("RejectedStartup") /\ UNCHANGED <<done, seen>>
             [] jrnl.phase = "CaptureClaimed" -> Fails("Interrupted") /\ UNCHANGED <<done, seen>>
             [] OTHER -> FALSE

(***************************************************************************)
(* Commands of the console.                                                *)
(***************************************************************************)
\* contrast_maintenance_original_cached_locked
Clean == gct.phase = "Original" /\ con \cap {"operation", "active", "clock", "dirty", "keyFailed"} = {}

\* gaugeContrastPrepare for arm C: the whole image is read and saved as Original once
Prepare ==
  /\ op.pc = "idle" /\ (gct.phase = "Missing" \/ Clean)
  /\ chip.img = "source" /\ chip.sec = 3 /\ ~chip.cfg
  /\ \/ gct.phase = "Original" /\ UNCHANGED gct
     \/ gct.phase = "Missing" /\ gct' = [phase |-> "Original", gen |-> 1]
  /\ con' = (con \ {"restoreTried", "bootTried", "applyTried", "keysStarted"}) \cup {"prepared"}
  /\ UNCHANGED <<proof, jrnl, chip, boot, age, op, cold, done, hold, seen>>

\* bindFragment: reserves the trial's nonce; a save that fails is not retried in this boot
Bind ==
  /\ op.pc = "idle" /\ Clean /\ {"blocked", "durable"} \cap cold = {}
  /\ "bound" \in cold => "historical" \in cold
  /\ proof = 0 /\ jrnl = Blank
  /\ \/ proof' = gct.gen /\ cold' = (cold \ {"historical"}) \cup {"bound"}
     \/ proof' \in {proof, gct.gen} /\ cold' = cold \cup {"blocked"}
  /\ UNCHANGED <<gct, jrnl, chip, boot, age, op, con, done, hold, seen>>

Begin(mode, who) ==
  /\ op' = [pc |-> "admit", mode |-> mode, top |-> mode, who |-> who]
  /\ con' = (con \ ({"touched", "sealTried", "dirty", "ackUnknown"}
             \cup (IF mode = "restore" THEN {"active"} ELSE {}))) \cup {"operation"}

\* apply(): the trial takes the contrast operation for itself
Apply ==
  /\ op.pc = "idle" /\ Clean /\ gct.gen = proof /\ gct.gen + 4 <= MaxGen
  /\ "bound" \in cold /\ {"historical", "blocked", "durable", "inFlight", "issued"} \cap cold = {}
  /\ cold' = cold \cup {"inFlight"} /\ hold' = Guarded
  /\ Begin("apply", "cold")
  /\ UNCHANGED <<gct, proof, jrnl, chip, boot, age, done, seen>>

\* gaugeContrastApply and gaugeContrastRestore without a trial
ContrastApply ==
  /\ op.pc = "idle" /\ gct.phase = "Original" /\ gct.gen + 4 <= MaxGen /\ ~hold.protection
  /\ Begin("apply", "plain")
  /\ UNCHANGED <<gct, proof, jrnl, chip, boot, age, cold, done, hold, seen>>
ContrastRestore ==
  /\ op.pc = "idle" /\ gct.phase \notin {"Original", "Missing"} /\ ~hold.protection
  /\ Begin("restore", "plain")
  /\ UNCHANGED <<gct, proof, jrnl, chip, boot, age, cold, done, hold, seen>>

\* handoff(): the target is still there as its receipt says
Handoff ==
  /\ op.pc = "idle" /\ {"durable", "applied"} \subseteq cold
  /\ {"blocked", "historical"} \cap cold = {}
  /\ jrnl.phase = "Armed" /\ SameBoot /\ Early /\ Closed
  /\ gct.phase = "Applied" /\ chip.img = "target" /\ {"keyFailed", "ackUnknown"} \cap con = {}
  /\ LET r == Step("HandedOff") IN
     \/ Saved(r) /\ UNCHANGED <<cold, hold>>
     \/ Lost(r) /\ Blocked
  /\ UNCHANGED <<gct, proof, chip, boot, age, op, con, done, seen>>

\* recover() and cancel()
Recover ==
  /\ op.pc = "idle" /\ "durable" \in cold /\ {"blocked", "historical"} \cap cold = {}
  /\ jrnl.phase \notin {"Restored", "Torn"}
  /\ cold' = cold \cup {"wanted"}
  /\ UNCHANGED <<gct, proof, jrnl, chip, boot, age, op, con, done, hold, seen>>

\* status(): outside a trial it only looks at what the store holds, and says so
Status ==
  /\ op.pc = "idle" /\ ~hold.protection /\ Clean
  /\ ~("bound" \in cold /\ {"durable", "blocked", "historical"} \cap cold = {})
  /\ cold' = (cold \cap {"blocked", "closed", "durable"}) \cup {"historical"} \cup
       (IF proof = 0 \/ jrnl = Blank THEN {} ELSE IF jrnl.phase = "Torn" THEN {"blocked"} ELSE {"durable"})
  /\ done' = {}
  /\ UNCHANGED <<gct, proof, jrnl, chip, boot, age, op, con, hold, seen>>

(***************************************************************************)
(* The operation, step by step.  A step that fails turns a forward run     *)
(* past its intent into a restore, and ends any other.                     *)
(***************************************************************************)
Cold == op.who = "cold"
Desired == IF op.mode = "apply" THEN "target" ELSE "source"
NoOpRestore == op.mode = "restore" /\ chip.img = "source"
Past(pc) == op' = [op EXCEPT !.pc = pc]
Fail ==
  op' = IF op.mode = "apply" /\ op.pc \notin {"admit", "intent"}
        THEN [op EXCEPT !.pc = "admit", !.mode = "restore"] ELSE [op EXCEPT !.pc = "failed"]

\* a reading or a guard fails before anything is sent or saved
Fault ==
  /\ op.pc \in {"admit", "intent", "open", "observe", "enter", "write", "exit", "seal", "complete"}
  /\ Fail
  /\ IF Cold /\ (op.pc = "observe" \/ (op.mode = "restore" /\ op.pc \in {"admit", "open"}))
     THEN Blocked ELSE UNCHANGED <<cold, hold>>
  /\ UNCHANGED <<gct, proof, jrnl, chip, boot, age, con, done, seen>>

\* mosaico_gauge_cold_abort::owned, the operation that may still be undone with its own access
Abortable(phase, n) ==
  /\ {"inFlight", "durable"} \subseteq cold /\ "blocked" \notin cold /\ "apply" \in done
  /\ {"ackUnknown", "keyFailed"} \cap con = {} /\ gct = [phase |-> phase, gen |-> proof + n]
  /\ SameBoot /\ Window /\ jrnl.seq = n /\ chip.sec = 1

AdmitApply ==
  /\ op.pc = "admit" /\ op.mode = "apply" /\ KeyWindow
  /\ "prepared" \in con /\ "tried" \notin con
  /\ con' = con \cup {"tried", "applyTried", "clock"} /\ age' = 0 /\ Past("intent")
  /\ UNCHANGED <<gct, proof, jrnl, chip, boot, cold, done, hold, seen>>

\* beginRestore inside a forward run: the trial's restore is recorded first
BeginAbort ==
  /\ op.pc = "admit" /\ op.mode = "restore" /\ Cold /\ "issued" \notin cold
  /\ jrnl.phase = "Armed" /\ Abortable("Pending", 1) /\ ParentBound
  /\ LET r == Step("Restoring") IN
     \/ Saved(r) /\ cold' = cold \cup {"abort", "intent", "issued", "wanted"} /\ UNCHANGED hold
     \/ Lost(r) /\ cold' = cold \cup {"abort", "intent", "blocked"} /\ hold' = Guarded
  /\ UNCHANGED <<gct, proof, chip, boot, age, op, con, done, seen>>

AdmitRestore ==
  /\ op.pc = "admit" /\ op.mode = "restore" /\ "restoreTried" \notin con
  /\ hold.protection =>
       /\ Owns /\ "issued" \in cold /\ KeyWindow /\ {"ackUnknown", "keyFailed"} \cap con = {}
       /\ IF "abort" \in cold THEN chip.sec = 1 /\ ParentBound ELSE Closed
  /\ Past("intent")
  /\ UNCHANGED <<gct, proof, jrnl, chip, boot, age, con, cold, done, hold, seen>>

Intent ==
  /\ op.pc = "intent" /\ KeyWindow
  /\ LET phase == IF op.mode = "restore" THEN "Restoring" ELSE "Pending" IN
     \/ gct.phase = phase /\ phase = "Restoring" /\ Past("open") /\ UNCHANGED <<gct, con>>
     \/ /\ Lawful(phase)
        /\ \/ gct' = Next1(phase) /\ Past("open") /\ UNCHANGED con
           \/ gct' \in {gct, Next1(phase)} /\ Fail /\ con' = con \cup {"unsaved"}
  /\ UNCHANGED <<proof, jrnl, chip, boot, age, cold, done, hold, seen>>

\* open: beforeRestoreKeys, and the access of a failed run kept, or the keys once
Open ==
  /\ op.pc = "open" /\ KeyWindow
  /\ IF op.mode = "restore" /\ hold.protection
     THEN /\ "issued" \in cold /\ {"ackUnknown", "keyFailed"} \cap con = {}
          /\ IF "abort" \in cold
             THEN /\ jrnl.phase = "Restoring" /\ Abortable("Restoring", 2) /\ ParentBound
                  /\ "inspect" \notin done /\ done' = done \cup {"inspect"}
             ELSE Closed /\ UNCHANGED done
     ELSE UNCHANGED done
  /\ LET tried == IF op.mode = "restore" THEN {"restoreTried", "bootTried"} ELSE {} IN
     \/ /\ chip.sec = 1 /\ op.mode = "restore" /\ gct.phase \in {"Pending", "Restoring"}
        /\ "restoreTried" \notin con
        /\ con' = con \cup tried \cup {"touched"} /\ Past("observe")
        /\ UNCHANGED <<chip, seen>>
     \/ /\ chip.sec = 3 /\ ~chip.cfg /\ "keyFailed" \notin con
        /\ ~(op.mode = "restore" /\ "abort" \in cold)
        /\ LET keys == (con \ {"sealTried"}) \cup tried \cup {"touched", "keysStarted"} IN
           \/ chip' = [chip EXCEPT !.sec = 1] /\ con' = keys /\ Past("observe")
           \/ chip' = [chip EXCEPT !.sec = 2] /\ con' = keys /\ Fail
           \/ /\ \E sec \in 1 .. 3 : chip' = [chip EXCEPT !.sec = sec]
              /\ con' = keys \cup {"ackUnknown", "keyFailed"} /\ Fail
        /\ seen' = [seen EXCEPT !.blind = @ \/ (Cold /\ ("ackUnknown" \in con \/ seen.open))]
  /\ UNCHANGED <<gct, proof, jrnl, boot, age, cold, hold>>

(* A slip: the commit of Armed is taken as done, whether the store has it or not. *)
ArmSaveAnyway(r) == Saved(r) \/ Lost(r)
\* saves the trial's record
ArmSave(r) == Saved(r)

\* armSeam: Armed is durable and the source is read again before the parameters change
ArmSeam ==
  /\ op.pc = "observe" /\ op.mode = "apply" /\ Cold
  /\ {"bound", "inFlight"} \subseteq cold /\ Safe /\ chip.img = "source" /\ chip.sec = 1 /\ Early
  /\ LET r == [Step("Armed") EXCEPT !.armed = boot.n] IN
     \/ /\ ArmSave(r) /\ cold' = cold \cup {"durable"} /\ UNCHANGED hold
        /\ "apply" \notin done /\ done' = done \cup {"apply"} /\ seen' = [seen EXCEPT !.apply = @ + 1]
        /\ Past("enter")
     \/ /\ Saved(r) /\ cold' = cold \cup {"durable", "blocked"} /\ hold' = Guarded
        /\ Fail /\ UNCHANGED <<done, seen>>
     \/ Lost(r) /\ Blocked /\ Fail /\ UNCHANGED <<done, seen>>
  /\ UNCHANGED <<gct, proof, chip, boot, age, con>>

\* restoreSeam: one write of the source, by the record that says so
RestoreSeam ==
  /\ op.pc = "observe" /\ op.mode = "restore" /\ Cold
  /\ "issued" \in cold /\ "blocked" \notin cold /\ "ackUnknown" \notin con
  /\ jrnl.phase = "Restoring" /\ "inspect" \in done /\ "restore" \notin done /\ ParentBound /\ Window
  /\ IF "abort" \in cold THEN Abortable("Restoring", 2) ELSE KnownSafe
  /\ done' = done \cup {"restore"} /\ seen' = [seen EXCEPT !.restore = @ + 1] /\ Past("enter")
  /\ UNCHANGED <<gct, proof, jrnl, chip, boot, age, con, cold, hold>>

Observe ==
  /\ op.pc = "observe" /\ ~Cold /\ (op.mode = "apply" => chip.img = "source") /\ Past("enter")
  /\ UNCHANGED <<gct, proof, jrnl, chip, boot, age, con, cold, done, hold, seen>>

Enter ==
  /\ op.pc = "enter" /\ KeyWindow
  /\ \/ NoOpRestore /\ (chip.cfg => chip.sec = 1) /\ Past("write") /\ UNCHANGED <<chip, con>>
     \/ ~NoOpRestore /\ chip.sec = 1 /\ chip.cfg /\ Past("write") /\ UNCHANGED <<chip, con>>
     \/ /\ ~NoOpRestore /\ chip.sec = 1 /\ ~chip.cfg
        /\ \/ chip' = [chip EXCEPT !.cfg = TRUE] /\ Past("write") /\ UNCHANGED con
           \/ /\ \E cfg \in BOOLEAN : chip' = [chip EXCEPT !.cfg = cfg]
              /\ con' = con \cup {"ackUnknown"} /\ Fail
  /\ UNCHANGED <<gct, proof, jrnl, boot, age, cold, done, hold, seen>>

\* the packets: some, all, or one whose answer is lost
Write ==
  /\ op.pc = "write" /\ UNCHANGED <<gct, proof, jrnl, boot, age, cold, done, hold>>
  /\ \/ NoOpRestore /\ Past("exit") /\ UNCHANGED <<chip, con, seen>>
     \/ /\ ~NoOpRestore /\ KeyWindow /\ chip.sec = 1 /\ chip.cfg
        /\ \/ /\ chip' = [chip EXCEPT !.img = "mixed"] /\ chip.img # "mixed"
              /\ con' = con \cup {"dirty"} /\ UNCHANGED op
           \/ chip' = [chip EXCEPT !.img = Desired] /\ con' = con \cup {"dirty"} /\ Past("exit")
           \/ /\ \E img \in {chip.img, "mixed", Desired} : chip' = [chip EXCEPT !.img = img]
              /\ con' = con \cup {"dirty", "ackUnknown"} /\ Fail
        /\ seen' = [seen EXCEPT !.byCold = Cold]

\* verify and exit: leaving config mode may seal the gauge as well
Exit ==
  /\ op.pc = "exit" /\ chip.img = Desired
  /\ \/ ~chip.cfg /\ Past("seal") /\ UNCHANGED <<chip, con>>
     \/ /\ chip.cfg /\ KeyWindow
        /\ \/ \E sec \in {chip.sec, 3} : chip' = [chip EXCEPT !.cfg = FALSE, !.sec = sec]
              /\ Past("seal") /\ UNCHANGED con
           \/ /\ \E cfg \in BOOLEAN : chip' = [chip EXCEPT !.cfg = cfg]
              /\ con' = con \cup {"ackUnknown"} /\ Fail
  /\ UNCHANGED <<gct, proof, jrnl, boot, age, cold, done, hold, seen>>

Seal ==
  /\ op.pc = "seal" /\ ~chip.cfg
  /\ \/ chip.sec = 3 /\ Past("complete") /\ UNCHANGED <<chip, con>>
     \/ /\ chip.sec = 1 /\ "sealTried" \notin con /\ KeyWindow
        /\ \/ /\ chip' = [chip EXCEPT !.sec = 3] /\ con' = con \cup {"sealTried"} /\ Past("complete")
           \/ /\ \E sec \in {1, 3} : chip' = [chip EXCEPT !.sec = sec]
              /\ con' = con \cup {"sealTried", "ackUnknown"} /\ Fail
  /\ UNCHANGED <<gct, proof, jrnl, boot, age, cold, done, hold, seen>>

\* final and complete: the gauge is sealed and as wanted, and the record says so
Complete ==
  /\ op.pc = "complete" /\ KeyWindow /\ chip = [img |-> Desired, sec |-> 3, cfg |-> FALSE]
  /\ LET phase == IF op.mode = "restore" THEN "Original" ELSE "Applied" IN
     /\ Lawful(phase)
     /\ \/ /\ gct' = Next1(phase)
           /\ con' = IF op.mode = "restore" THEN con \ {"active", "clock", "dirty"}
                     ELSE con \cup {"active"}
           /\ Past(IF op.mode = "restore" THEN "restored" ELSE "applied")
        \/ /\ gct' \in {gct, Next1(phase)} /\ Fail /\ con' = con \cup {"unsaved"}
  /\ UNCHANGED <<proof, jrnl, chip, boot, age, cold, done, hold, seen>>

(***************************************************************************)
(* How an operation ends.                                                  *)
(***************************************************************************)
\* protect(): a restore that failed without a trial seals what it may
EndPlain ==
  /\ op.pc \in {"failed", "applied", "restored"} /\ ~Cold
  /\ op' = NoOp
  /\ \/ con' = con \ {"operation", "unsaved"} /\ UNCHANGED chip
     \/ /\ op.pc = "failed" /\ op.mode = "restore" /\ ~hold.protection
        /\ ~chip.cfg /\ chip.sec # 3 /\ "touched" \in con /\ "sealTried" \notin con
        /\ chip' = [chip EXCEPT !.sec = 3] /\ con' = (con \ {"operation", "unsaved"}) \cup {"sealTried"}
  /\ UNCHANGED <<gct, proof, jrnl, boot, age, cold, done, hold, seen>>

\* onApplied: the receipt of the target, the run known never to have begun, or unknown
EndApply ==
  /\ Cold /\ op.top = "apply" /\ op.pc \in {"applied", "failed"}
  /\ op' = NoOp /\ con' = con \ {"operation", "unsaved"}
  /\ \/ /\ op.pc = "applied" /\ "durable" \in cold /\ jrnl.phase = "Armed" /\ "apply" \in done
        /\ gct = [phase |-> "Applied", gen |-> proof + 2]
        /\ cold' = (cold \ {"inFlight"}) \cup {"applied"} /\ hold' = [hold EXCEPT !.protection = TRUE]
     \/ /\ op.pc = "failed" /\ "durable" \notin cold /\ gct.phase = "Original"
        /\ con \cap {"unsaved", "keysStarted", "keyFailed", "touched", "dirty"} = {}
        /\ cold' = cold \ {"inFlight"} /\ hold' = Quiet
     \/ cold' = (cold \ {"inFlight"}) \cup {"blocked"} /\ hold' = Guarded
  /\ seen' = [seen EXCEPT !.open = @ \/ "ackUnknown" \in con]
  /\ UNCHANGED <<gct, proof, jrnl, chip, boot, age, done>>

\* onRestoreFailed: no retry of what was sent
EndRestore ==
  /\ Cold /\ op.top = "restore" /\ op.pc = "failed"
  /\ op' = NoOp /\ con' = con \ {"operation", "unsaved"} /\ Blocked
  /\ seen' = [seen EXCEPT !.open = @ \/ "ackUnknown" \in con]
  /\ UNCHANGED <<gct, proof, jrnl, chip, boot, age, done>>

\* onRestored: the trial closes; if only its record cannot be saved, the hold goes all the same
OnRestored ==
  /\ Cold /\ op.pc = "restored" /\ op' = NoOp /\ con' = con \ {"operation", "unsaved"}
  /\ LET over == (cold \ {"issued", "wanted", "inFlight"}) \cup {"closed"} r == Step("Restored") IN
     \/ /\ "issued" \in cold /\ "restore" \in done /\ Closed /\ Window /\ chip.img = "source"
        /\ \/ Saved(r) /\ cold' = over /\ hold' = Quiet
           \/ /\ Lost(r) /\ cold' = over \cup {"blocked"}
              /\ hold' = [protection |-> FALSE, fallback |-> FALSE]
     \/ Blocked /\ UNCHANGED jrnl
  /\ UNCHANGED <<gct, proof, chip, boot, age, done, seen>>

(***************************************************************************)
(* The supervisor's poll (gaugeScalePoll).                                 *)
(***************************************************************************)
Polled == op.pc = "idle" /\ hold.protection /\ "durable" \in cold /\ "blocked" \notin cold

\* the claimed capture: its end, or its final frame just before
CaptureEnds ==
  /\ Polled /\ jrnl.phase = "CaptureClaimed" /\ "claim" \in done /\ "capture" \notin done
  /\ done' = done \cup {"capture"}
  /\ \/ ~Early /\ Fails("KnownTimeout")
     \/ /\ age = 1
        /\ \/ Fails("KnownReadFailure")
           \/ LET r == [Step("Captured") EXCEPT !.capture = "Success"] IN
              /\ Closed /\ chip.img = "target"
              /\ \/ Saved(r) /\ cold' = cold \cup {"wanted"} /\ UNCHANGED hold
                 \/ Lost(r) /\ Blocked
  /\ UNCHANGED <<gct, proof, chip, boot, age, op, con, seen>>

\* the trigger or the grace is over, or a reading is unsafe
RestoreDue ==
  /\ Polled /\ jrnl.phase \in {"Armed", "HandedOff"} /\ cold' = cold \cup {"wanted"}
  /\ UNCHANGED <<gct, proof, jrnl, chip, boot, age, op, con, done, hold, seen>>

\* requestRestore: the record first, then one inspection, then the operation
RequestRestore ==
  /\ Polled /\ "wanted" \in cold /\ "issued" \notin cold
  /\ LET r == Step("Restoring") IN
     \/ Blocked /\ UNCHANGED <<jrnl, op, con, done>>
     \/ /\ jrnl.phase \notin {"CaptureClaimed", "Restoring"} /\ Closed /\ Window
        /\ jrnl.phase = "HandedOff" => SameBoot
        /\ \/ /\ Saved(r) /\ cold' = cold \cup {"intent", "issued"} /\ UNCHANGED hold
              /\ done' = done \cup {"inspect"} /\ Begin("restore", "cold")
           \/ /\ Saved(r) /\ cold' = cold \cup {"intent", "blocked"} /\ hold' = Guarded
              /\ UNCHANGED <<op, con, done>>
           \/ /\ Lost(r) /\ cold' = cold \cup {"intent", "blocked"} /\ hold' = Guarded
              /\ UNCHANGED <<op, con, done>>
  /\ UNCHANGED <<gct, proof, chip, boot, age, seen>>

\* contrast_poll_locked, when no trial holds the gauge
ContrastPoll ==
  /\ op.pc = "idle" /\ ~hold.protection /\ gct.phase \notin {"Original", "Missing"}
  /\ "active" \notin con => {"bootTried", "restoreTried"} \cap con = {}
  /\ Begin("restore", "plain")
  /\ UNCHANGED <<gct, proof, jrnl, chip, boot, age, cold, done, hold, seen>>

Next ==
  \/ Reboot \/ Tick \/ Startup
  \/ Prepare \/ Bind \/ Apply \/ ContrastApply \/ ContrastRestore \/ Handoff \/ Recover \/ Status
  \/ Fault \/ AdmitApply \/ BeginAbort \/ AdmitRestore \/ Intent \/ Open
  \/ ArmSeam \/ RestoreSeam \/ Observe \/ Enter \/ Write \/ Exit \/ Seal \/ Complete
  \/ EndPlain \/ EndApply \/ EndRestore \/ OnRestored
  \/ CaptureEnds \/ RestoreDue \/ RequestRestore \/ ContrastPoll

Spec == Init /\ [][Next]_vars

(***************************************************************************)
(* Properties.                                                             *)
(***************************************************************************)
TypeOK ==
  /\ gct \in [phase : {"Missing", "Original", "Pending", "Applied", "Restoring"}, gen : 0 .. MaxGen]
  /\ jrnl.phase \in Phases /\ jrnl.seq \in 0 .. 6 /\ jrnl.capture \in Captures
  /\ chip \in [img : {"source", "mixed", "target"}, sec : 1 .. 3, cfg : BOOLEAN]
  /\ boot.n \in 1 .. MaxBoots /\ age \in 0 .. 3

\* what the gauge holds that is not its own is never without a durable intent
IntentFirst == chip.img # "source" => gct.phase \in {"Pending", "Applied", "Restoring"}

\* nor, when the trial put it there, without the trial's record and its hold on the board
TrialHolds ==
  seen.byCold /\ chip.img # "source" =>
    /\ jrnl.phase \notin {"Empty", "Restored"}
    /\ op.pc # "boot" => hold = Guarded

\* one change, one capture and one restore in all boots, and no keys after a lost answer of its boot
OneShot ==
  seen.apply <= 1 /\ seen.capture <= 1 /\ seen.restore <= 1 /\ ~seen.blind

\* the source is written back only with the outcome of a claimed capture on record
EvidenceFirst ==
  op.pc = "write" /\ op.mode = "restore" /\ Cold /\ jrnl.claimed > 0 => jrnl.capture # "None"

(* Through lost answers, uncertain saves and reboots, the gauge never holds *)
(* what no durable record answers for, a trial is never repeated, and its   *)
(* evidence is on record before the gauge is put back.                      *)
GaugeIsOwned == TypeOK /\ IntentFirst /\ TrialHolds /\ OneShot /\ EvidenceFirst
=============================================================================

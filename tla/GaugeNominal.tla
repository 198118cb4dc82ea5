---------------------------- MODULE GaugeNominal ----------------------------
(***************************************************************************)
(* The gauge's capacity as hal_mosaico.cpp writes it by itself: the access *)
(* transaction that opens a sealed gauge by its default words, the nominal *)
(* transaction that writes its pair of capacities in CFGUPDATE, and the    *)
(* vendor's profile that the boot and the capacity test apply.  Three      *)
(* journals in NVS answer for them across resets of the board and of the   *)
(* gauge.  All of it holds gauge_transaction_mutex, so `op' is one at a    *)
(* time; leases, fences, quiet hours and failed reads are refusals.        *)
(***************************************************************************)
EXTENDS Naturals

CONSTANTS Budgets   \* commands, resets of the board and of the gauge, and arms, in a behaviour

VARIABLES chip,    \* the gauge: security, CFGUPDATE, data memory, standard registers;
                   \* what of it is the doing of this code ("cfg", "pair", "keys")
          nvs,     \* tx_v1, access_v1, cap130_once
          op,      \* the operation under way and its copies of the journals
          test,    \* CapacityTestState
          boot,    \* gauge_boot_info, and whether the reset was a power-on
          seen,    \* what has happened, for the properties
          left     \* the budget

vars == <<chip, nvs, op, test, boot, seen, left>>

Nominal == 65
Factory == 3000
Learned == 60
Pair(d, f) == [d |-> d, f |-> f]
Fresh == Pair(Factory, Factory)
Zero == Pair(0, 0)

None == [state |-> "none"]
Idle == [pc |-> "idle", cmd |-> "none", chain |-> FALSE, ok |-> FALSE, tx |-> None, acc |-> None,
         from |-> Zero, want |-> Zero, td |-> FALSE, tf |-> FALSE, fwd |-> FALSE, roll |-> FALSE]

\* capacityPolicy, restorePairAllowed, allowedValue
Policy(p) == p.d \in {Nominal, Factory} /\ (p.f \in {Nominal, Learned} \/ p = Fresh)
Changed(tx) == tx.orig = Fresh
Restorable(tx, p) ==
  /\ p.d \in {tx.orig.d, tx.target.d}
  /\ IF Changed(tx) THEN p.f \in {tx.orig.f, tx.target.f} ELSE p.f \in {Nominal, Learned}
Unresolved == {"Pending", "ExitFailed", "RollbackFailed"}
Stale(tx) == tx.state \in Unresolved
\* failedDefaultAttempt: words that may have been sent and were never seen to work
FailedAttempt(a) == (a.ut /\ ~a.uv) \/ (a.ft /\ ~a.fv)
ExitAccepted == chip.sec \in {1, 3} /\ ~chip.cfg
PriorVerified ==
  nvs.acc.state \in {"Opened", "Restored"} /\ nvs.acc.prior = 3 /\ nvs.acc.uv /\ nvs.acc.fv

Init ==
  /\ \E p \in {Fresh, Pair(Factory, Learned)}, s \in 1 .. 3 : chip = [sec |-> s, cfg |-> FALSE, dm |-> p, std |-> p, mine |-> {}]
  /\ nvs = [tx |-> None, acc |-> None, arm |-> 0] /\ op = Idle
  /\ test = [changed |-> FALSE, pending |-> FALSE, tried |-> FALSE]
  /\ boot = [open |-> TRUE, poweron |-> TRUE]
  /\ left \in Budgets
  /\ seen = [lost |-> {}, replay |-> FALSE, base |-> Zero, armed |-> 0, fired |-> 0]

At(pc) == op.pc = pc
Go(pc) == [op EXCEPT !.pc = pc]
Still == UNCHANGED <<test, boot, seen>>

\* the end of an operation; gaugeSetNominalCapacity on a sealed gauge runs four
After(ok) ==
  CASE ~op.chain -> Idle
    [] op.chain /\ op.cmd = "open" -> IF ok THEN [Idle EXCEPT !.pc = "n-check", !.cmd = "apply", !.chain = TRUE] ELSE Idle
    [] op.chain /\ op.cmd = "apply" -> [Idle EXCEPT !.pc = "a-load", !.cmd = "close", !.chain = TRUE, !.ok = ok]
    [] op.chain /\ op.cmd = "close" ->
         IF ok /\ op.ok THEN [Idle EXCEPT !.pc = "c-check", !.cmd = "reconcile"] ELSE Idle

Give == op' = After(FALSE) /\ UNCHANGED <<chip, nvs>> /\ Still

\* a value is stored and read back: confirmed, written without confirmation, or lost
Store(f, v, good, bad) ==
  \E r \in {"ok", "unsure", "lost"} :
    /\ nvs' = IF r = "lost" THEN nvs ELSE [nvs EXCEPT ![f] = v]
    /\ op' = IF r = "ok" THEN good ELSE bad

\* gauge_exit_config: the registers are initialised again, and the gauge may seal itself
Exited(ok) ==
  \E got, seals \in BOOLEAN :
    /\ chip' = IF got /\ chip.cfg /\ chip.sec = 1
               THEN [chip EXCEPT !.cfg = FALSE, !.std = chip.dm, !.sec = IF seals THEN 3 ELSE 1,
                                 !.mine = @ \ ({"cfg"} \cup (IF seals THEN {"keys"} ELSE {}))]
               ELSE chip
    /\ ok => ~chip'.cfg /\ chip'.sec # 2

-----------------------------------------------------------------------------
\* gaugeAccess(Open): a journal of the access it starts from comes first
Open ==
  /\ At("idle") \/ At("a-open")
  /\ ~chip.cfg /\ (Policy(chip.std) \/ (nvs.tx.state # "none" /\ Restorable(nvs.tx, chip.std)))
  /\ \/ /\ nvs.acc.state = "Opened" /\ chip.sec = 1 /\ (nvs.acc.prior = 1 \/ (nvs.acc.uv /\ nvs.acc.fv))
        /\ op' = (IF At("idle") THEN Idle ELSE After(TRUE))
     \/ /\ nvs.acc.state \in {"none", "Restored"} /\ chip.sec # 2
        /\ nvs.acc.state = "Restored" => ~FailedAttempt(nvs.acc)
        /\ op' = [Go("a-prepare") EXCEPT !.cmd = "open",
                    !.acc = [state |-> "Pending", prior |-> chip.sec, shut |-> FALSE,
                             ut |-> FALSE, uv |-> FALSE, ft |-> FALSE, fv |-> FALSE]]
  /\ UNCHANGED <<chip, nvs>> /\ Still

OpenPrepare == At("a-prepare") /\ Store("acc", op.acc, Go("a-try"), After(FALSE)) /\ UNCHANGED chip /\ Still

OpenTry ==
  /\ At("a-try") /\ chip.sec = op.acc.prior /\ ~chip.cfg
  /\ op' = IF op.acc.prior = 3 THEN [Go("a-attempt") EXCEPT !.acc.ut = TRUE]
                               ELSE [Go("a-opened") EXCEPT !.acc.state = "Opened"]
  /\ UNCHANGED <<chip, nvs>> /\ Still

\* the attempt is on record before its words, and its success before the next ones
OpenAttempt ==
  /\ At("a-attempt")
  /\ Store("acc", op.acc, Go(IF op.acc.ft THEN "full" ELSE "unseal"), Go("a-return"))
  /\ seen' = [seen EXCEPT !.lost = IF nvs'.acc.state # "none" /\ nvs'.acc.uv THEN @ \ {"unseal"} ELSE @]
  /\ UNCHANGED <<chip, test, boot>>

\* words may be refused by the key window, be lost, or work unseen
Words(w, from, to) ==
  /\ At(w)
  /\ \E sent, works, ok \in BOOLEAN :
       /\ works => sent /\ chip.sec = from /\ ~chip.cfg
       /\ ok => works
       /\ chip' = IF works THEN [chip EXCEPT !.sec = to, !.mine = @ \cup {"keys"}] ELSE chip
       /\ op' = CASE ~ok -> Go("a-return")
                  [] ok /\ w = "unseal" -> [Go("a-attempt") EXCEPT !.acc.uv = TRUE, !.acc.ft = TRUE]
                  [] ok /\ w = "full" -> [Go("a-opened") EXCEPT !.acc.fv = TRUE, !.acc.state = "Opened"]
       /\ seen' = IF ~sent THEN seen
                  ELSE [seen EXCEPT !.replay = @ \/ seen.lost # {}, !.lost = @ \cup {w}]
  /\ UNCHANGED <<nvs, test, boot>>
Unseal == Words("unseal", 3, 2)
Full == Words("full", 2, 1)

OpenDone ==
  /\ At("a-opened") /\ Store("acc", op.acc, After(TRUE), Go("a-return"))
  /\ seen' = [seen EXCEPT !.lost = IF nvs'.acc.state # "none" /\ nvs'.acc.fv THEN {} ELSE @]
  /\ UNCHANGED <<chip, test, boot>>

\* gaugeAccess(Restore), and the way back of a failed Open: gauge_return_access
Restore ==
  /\ (At("idle") \/ At("a-load")) /\ nvs.acc.state # "none"
  /\ op' = [Go("a-return") EXCEPT !.cmd = IF At("idle") THEN "close" ELSE @, !.acc = nvs.acc]
  /\ UNCHANGED <<chip, nvs>> /\ Still

Recorded(restored) ==
  op' = [Go("a-final") EXCEPT !.acc.state = IF restored THEN "Restored" ELSE "Failed", !.fwd = restored]

Return ==
  /\ At("a-return")
  /\ \/ chip.cfg /\ \E ok \in BOOLEAN : Exited(ok) /\ (IF ok THEN op' = Go("a-return") ELSE Recorded(FALSE))
     \/ UNCHANGED chip /\ Recorded(FALSE)
     \/ ~chip.cfg /\ chip.sec = op.acc.prior /\ UNCHANGED chip /\ Recorded(TRUE)
     \/ /\ ~chip.cfg /\ chip.sec # op.acc.prior /\ op.acc.prior = 3
        /\ chip' = [chip EXCEPT !.sec = 3, !.mine = @ \ {"keys"}]
        /\ \E observed \in BOOLEAN : Recorded(observed)
  /\ UNCHANGED nvs /\ Still

ReturnDone ==
  /\ At("a-final")
  /\ \E read \in BOOLEAN :
       Store("acc", [op.acc EXCEPT !.shut = read /\ chip.sec = 3],
             After(op.fwd /\ op.cmd = "close"), After(FALSE))
  /\ seen' = [seen EXCEPT !.lost = IF nvs'.acc.state = "none" THEN @
                ELSE @ \ ((IF nvs'.acc.uv THEN {"unseal"} ELSE {}) \cup (IF nvs'.acc.fv THEN {"full"} ELSE {}))]
  /\ UNCHANGED <<chip, test, boot>>

Access == Open \/ OpenPrepare \/ OpenTry \/ OpenAttempt \/ Unseal \/ Full \/ OpenDone \/ Restore \/ Return \/ ReturnDone

-----------------------------------------------------------------------------
\* keepLearnedNominal
Kept(p) == p.d = Nominal /\ p.f \in {Nominal, Learned}

\* gaugeSetNominalCapacity: a sealed gauge is opened for it, and closed again
Ask ==
  /\ At("idle") /\ ~chip.cfg
  /\ \/ chip.sec = 3 /\ ~Kept(chip.std) /\ op' = [Go("a-open") EXCEPT !.cmd = "open", !.chain = TRUE]
     \/ chip.sec = 3 /\ Kept(chip.std) /\ op' = [Go("c-check") EXCEPT !.cmd = "reconcile"]
     \/ chip.sec = 1 /\ op' = [Go("n-check") EXCEPT !.cmd = "apply"]
  /\ UNCHANGED <<chip, nvs>> /\ Still

(* A slip: the backup of another pair is taken for this one's. *)
MatchesAny(tx, p) == TRUE
Matches(tx, p) == tx.state # "none" => tx.orig = p

Check ==
  /\ At("n-check")
  /\ chip.sec = 1 /\ ~chip.cfg /\ chip.dm = chip.std /\ ~Stale(nvs.tx) /\ Policy(chip.dm)
  /\ \/ chip.dm.d = Nominal /\ op' = After(TRUE)
     \/ /\ chip.dm.d = Factory /\ Matches(nvs.tx, chip.dm)
        /\ LET want == Pair(Nominal, IF chip.dm = Fresh THEN Nominal ELSE chip.dm.f) IN
           op' = [Go("n-prepare") EXCEPT !.from = chip.dm, !.want = want,
                    !.tx = [state |-> "Pending", act |-> 1, orig |-> chip.dm, target |-> want]]
  /\ UNCHANGED <<chip, nvs>> /\ Still

Prepare == At("n-prepare") /\ Store("tx", op.tx, Go("n-enter"), After(FALSE)) /\ UNCHANGED chip /\ Still

\* RESTORE: the pair on record, also from a CFGUPDATE that an unresolved one left
AskRestore ==
  /\ At("idle") /\ nvs.tx.state # "none" /\ chip.sec = 1 /\ (chip.cfg => Stale(nvs.tx))
  /\ Restorable(nvs.tx, chip.dm)
  /\ LET want == Pair(nvs.tx.orig.d, IF Changed(nvs.tx) THEN nvs.tx.orig.f ELSE chip.dm.f)
         next(pc, state) ==
           [Go(pc) EXCEPT !.cmd = "restore", !.from = chip.dm, !.want = want,
              !.tx = [nvs.tx EXCEPT !.act = 2, !.state = state]]
     IN \/ ~chip.cfg /\ chip.dm = want /\ chip.std = want
           /\ op' = [next("n-final", "Restored") EXCEPT !.roll = TRUE]
        \/ op' = next("r-prepare", "Pending")
  /\ UNCHANGED <<chip, nvs>> /\ Still

RestorePrepare ==
  /\ At("r-prepare")
  /\ Store("tx", op.tx, Go("n-enter"), IF chip.cfg THEN Go("r-leave") ELSE After(FALSE))
  /\ UNCHANGED chip /\ Still

\* no new intent could be stored: leave CFGUPDATE and nothing else
Leave == At("r-leave") /\ (\E ok \in BOOLEAN : Exited(ok)) /\ op' = After(FALSE) /\ UNCHANGED nvs /\ Still

\* the pair is looked at again, CFGUPDATE entered unless it is on
Enter ==
  /\ At("n-enter")
  /\ \/ /\ op.cmd = "restore" /\ \E ok \in BOOLEAN :
             Exited(ok) /\ op' = [Go("n-final") EXCEPT !.tx.state = IF ok THEN "RollbackFailed" ELSE "ExitFailed"]
        /\ UNCHANGED seen
     \/ \E got, ok \in BOOLEAN :
          /\ chip.dm = op.from /\ (op.cmd = "apply" => chip.std = op.from /\ ~chip.cfg)
          /\ chip' = IF got /\ chip.sec = 1 THEN [chip EXCEPT !.cfg = TRUE, !.mine = @ \cup {"cfg"}] ELSE chip
          /\ ok => chip'.cfg /\ chip'.sec = 1
          /\ seen' = IF "pair" \in chip.mine THEN seen
                    ELSE [seen EXCEPT !.base = IF op.cmd = "apply" THEN op.from ELSE op.tx.orig]
          /\ op' = CASE op.cmd = "apply" -> [Go(IF ok THEN "n-design" ELSE "n-exit") EXCEPT !.roll = TRUE]
                     [] op.cmd = "restore" ->
                          IF ok THEN [Go("n-roll") EXCEPT !.td = op.from.d # op.want.d,
                                                          !.tf = Changed(op.tx) /\ op.from.f # op.want.f, !.roll = TRUE]
                          ELSE Go("n-exit")
  /\ UNCHANGED <<nvs, test, boot>>

\* gauge_write_field: one packet, which may arrive although it is not confirmed
Written(x, v, ok) ==
  \E got \in BOOLEAN :
    /\ chip' = IF got /\ chip.cfg /\ chip.sec = 1
               THEN [chip EXCEPT !.dm = [@ EXCEPT ![x] = v], !.mine = @ \cup {"pair"}] ELSE chip
    /\ ok => chip.cfg /\ chip.sec = 1 /\ chip'.dm[x] = v

Design ==
  /\ At("n-design")
  /\ \E ok \in BOOLEAN :
       /\ Written("d", op.want.d, ok)
       /\ op' = [Go(IF ~ok THEN "n-roll" ELSE IF op.from = Fresh THEN "n-fcc" ELSE "n-exit")
                   EXCEPT !.td = TRUE, !.fwd = ok, !.roll = TRUE]
  /\ UNCHANGED nvs /\ Still

Fcc ==
  /\ At("n-fcc")
  /\ \E ok \in BOOLEAN :
       /\ Written("f", op.want.f, ok)
       /\ op' = [Go(IF ok THEN "n-exit" ELSE "n-roll") EXCEPT !.tf = TRUE, !.fwd = ok]
  /\ UNCHANGED nvs /\ Still

\* gauge_rollback: the fields touched get the old values, the second although the first failed
Old == IF op.cmd = "restore" THEN op.want ELSE op.from
Roll ==
  /\ At("n-roll")
  /\ \/ op.td /\ \E ok \in BOOLEAN :
          Written("d", Old.d, ok) /\ op' = [op EXCEPT !.td = FALSE, !.roll = @ /\ ok]
     \/ ~op.td /\ op.tf /\ \E ok \in BOOLEAN :
          Written("f", Old.f, ok) /\ op' = [op EXCEPT !.tf = FALSE, !.roll = @ /\ ok]
     \/ ~op.td /\ ~op.tf /\ UNCHANGED chip /\ \E ok \in BOOLEAN :
          op' = [Go("n-exit") EXCEPT !.roll = @ /\ ok /\ chip.dm = Old, !.fwd = FALSE]
  /\ UNCHANGED nvs /\ Still

\* gauge_verify_pair(.., true): a sealed gauge shows only its standard registers
Verified(p) == ExitAccepted /\ chip.std = p /\ (IF chip.sec = 3 THEN PriorVerified ELSE chip.dm = p)

Exit ==
  /\ At("n-exit")
  /\ \E ok \in BOOLEAN :
       Exited(ok) /\ op' = IF ok THEN Go("n-verify") ELSE [Go("n-final") EXCEPT !.tx.state = "ExitFailed", !.fwd = FALSE, !.roll = FALSE]
  /\ UNCHANGED nvs /\ Still

\* VerifiedSealedPrior3 with the pair verified last: the target, or the old one
Ended(state, sealed) == op' = [Go("n-final") EXCEPT !.tx.state = IF chip.sec = 3 THEN sealed ELSE state]

Verify ==
  /\ At("n-verify")
  /\ \/ op.fwd /\ Verified(op.want) /\ Ended("Committed", "Sealed")
     \/ op.fwd /\ op' = [Go("n-final") EXCEPT !.tx.state = "ExitFailed", !.fwd = FALSE, !.roll = FALSE]
     \/ op.fwd /\ ExitAccepted /\ chip.sec = 1 /\ op' = [Go("n-again") EXCEPT !.fwd = FALSE]
     \/ /\ ~op.fwd /\ op.roll /\ Verified(Old)
        /\ Ended(IF op.cmd = "restore" THEN "Restored" ELSE "RolledBack", "SealedOld")
     \/ ~op.fwd /\ op' = [Go("n-final") EXCEPT !.tx.state = "RollbackFailed", !.roll = FALSE]
  /\ UNCHANGED <<chip, nvs>> /\ Still

\* the registers disagree with what was written: one rollback in a new CFGUPDATE
Again ==
  /\ At("n-again")
  /\ \E got, ok \in BOOLEAN :
       /\ chip' = IF got /\ chip.sec = 1 THEN [chip EXCEPT !.cfg = TRUE, !.mine = @ \cup {"cfg"}] ELSE chip
       /\ ok => chip'.cfg /\ chip'.sec = 1
       /\ op' = IF ok THEN [Go("n-roll") EXCEPT !.td = TRUE, !.tf = Changed(op.tx)] ELSE [Go("n-exit") EXCEPT !.roll = FALSE]
  /\ UNCHANGED nvs /\ Still

Final ==
  /\ At("n-final")
  /\ Store("tx", op.tx, After(op.fwd), After(FALSE))
  /\ UNCHANGED chip /\ Still

\* gaugeReconcileNominal: an interrupted forward transaction whose gauge is seen to have the target
Reconcile ==
  /\ At("c-check") /\ nvs.tx.state \in {"Committed", "Pending", "ExitFailed", "Sealed"} /\ nvs.tx.act = 1
  /\ nvs.acc.state = "Restored" /\ nvs.acc.prior = 3 /\ nvs.acc.shut /\ nvs.acc.uv /\ nvs.acc.fv
  /\ chip.sec = 3 /\ ~chip.cfg /\ chip.std = nvs.tx.target
  /\ op' = [Go("c-store") EXCEPT !.tx = [nvs.tx EXCEPT !.state = "Sealed"]]
  /\ UNCHANGED <<chip, nvs>> /\ Still
ReconcileDone == At("c-store") /\ Store("tx", op.tx, Idle, Idle) /\ UNCHANGED chip /\ Still

Refuse == op.pc \in {"a-open", "a-load", "a-try", "n-check", "n-enter", "c-check"} /\ op.cmd # "restore" /\ Give

Forward == Ask \/ Check \/ Prepare \/ Enter \/ Design \/ Fcc \/ Roll \/ Exit \/ Verify \/ Again \/ Final
Backward == AskRestore \/ RestorePrepare \/ Leave
Audit == Reconcile \/ ReconcileDone

-----------------------------------------------------------------------------
\* capacity_consume_once: armed only if the arm was read and its end is on record
Consumed(armed, not) ==
  \/ nvs.arm = 0 /\ UNCHANGED nvs /\ op' = not
  \/ \E read \in BOOLEAN : Store("arm", 0, IF read /\ nvs.arm = 1 /\ boot.poweron THEN armed ELSE not, not)

SealedIdle == chip.sec = 3 /\ ~chip.cfg

Booted == [open |-> FALSE, poweron |-> FALSE]

\* gaugeBootReload: a refusal for good spends the arm too, a deferred look spends nothing
BootSkip ==
  /\ At("idle") /\ boot.open
  /\ Consumed(Idle, Idle)
  /\ boot' = Booted /\ UNCHANGED <<chip, test, seen>>

Dispatched(armed) ==
  LET cap == IF armed /\ SealedIdle /\ chip.std \in {Pair(Nominal, Nominal), Fresh} THEN 130 ELSE Nominal
  IN [Go("v-apply") EXCEPT !.cmd = "boot", !.want = Pair(cap, cap)]
BootApply ==
  /\ At("idle") /\ boot.open
  /\ chip.sec \in {2, 3} /\ ~chip.cfg /\ (chip.sec = 2 => chip.std = Fresh)
  /\ Consumed(Dispatched(TRUE), Dispatched(FALSE))
  /\ boot' = Booted
  /\ LET trial == op'.want.d = 130 IN
       /\ test' = IF trial THEN [changed |-> TRUE, pending |-> TRUE, tried |-> FALSE] ELSE test
       /\ seen' = IF trial THEN [seen EXCEPT !.fired = @ + 1] ELSE seen
  /\ UNCHANGED chip

\* capacity_restore_locked, from the poll after its deadline or from the console
Due == /\ At("idle") \/ At("t-restore")
       /\ At("idle") => test.pending /\ ~boot.open
Undo ==
  /\ Due /\ ~test.tried /\ SealedIdle
  /\ IF chip.std = Pair(Nominal, Nominal)
     THEN op' = Idle /\ test' = [test EXCEPT !.pending = FALSE, !.changed = FALSE]
     ELSE /\ op' = [Go("v-apply") EXCEPT !.cmd = "undo", !.want = Pair(Nominal, Nominal)]
          /\ test' = [test EXCEPT !.tried = TRUE]
  /\ UNCHANGED <<chip, nvs, boot, seen>>
UndoNot == At("t-restore") /\ op' = Idle /\ UNCHANGED <<chip, nvs>> /\ Still

\* mosaico_official_gauge_apply: the vendor's driver, which may stop anywhere
VendorWrites ==
  /\ At("v-apply") /\ op' = Go("v-end")
  /\ \E s \in 1 .. 3, c \in BOOLEAN, p \in {chip.dm, Pair(op.want.d, chip.dm.f), op.want} :
       chip' = [sec |-> s, cfg |-> c, dm |-> p, std |-> IF c THEN chip.std ELSE p, mine |-> {}]
  /\ UNCHANGED nvs /\ Still

Accepted == /\ SealedIdle /\ chip.std.d = op.want.d
            /\ IF op.cmd = "boot" /\ op.want.d = Nominal THEN chip.std.f \in {Nominal, Learned} ELSE chip.std = op.want
Concluded(ok) ==
  /\ op' = Idle
  /\ test' = IF op.cmd = "undo" THEN [test EXCEPT !.pending = ~ok, !.changed = @ /\ ~ok] ELSE test
  /\ UNCHANGED <<nvs, boot, seen>>

\* gauge_official_apply_locked: verified, or left with CFGUPDATE off and sealed if it can be
VendorEnd ==
  /\ At("v-end")
  /\ \/ Accepted /\ UNCHANGED chip /\ Concluded(TRUE)
     \/ (\E ok \in BOOLEAN : Exited(ok)) /\ Concluded(FALSE)
     \/ ~chip.cfg /\ chip' = [chip EXCEPT !.sec = 3] /\ Concluded(FALSE)

\* gaugeCapacityTest: arm130 and restore65
Arm ==
  /\ At("idle") /\ ~test.changed /\ ~test.pending /\ SealedIdle /\ chip.std = Pair(Nominal, Nominal)
  /\ left.arms > 0 /\ Store("arm", 1, Idle, Idle)
  /\ left' = [left EXCEPT !.arms = @ - 1]
  /\ seen' = [seen EXCEPT !.armed = @ + nvs'.arm - nvs.arm] /\ UNCHANGED <<chip, test, boot>>
Disarm == At("idle") /\ Store("arm", 0, Go("t-restore"), Idle) /\ UNCHANGED chip /\ Still

\* the board is reset at any moment; the gauge loses its memory and wakes unsealed
ResetBoard ==
  /\ left.resets > 0 /\ left' = [left EXCEPT !.resets = @ - 1]
  /\ \E on \in BOOLEAN : boot' = [open |-> TRUE, poweron |-> on]
  /\ test' = [changed |-> FALSE, pending |-> FALSE, tried |-> FALSE]
  /\ op' = Idle /\ UNCHANGED <<chip, nvs, seen>>
ResetGauge ==
  /\ left.colds > 0 /\ left' = [left EXCEPT !.colds = @ - 1]
  /\ chip' = [sec |-> 2, cfg |-> FALSE, dm |-> Fresh, std |-> Fresh, mine |-> {}]
  /\ UNCHANGED <<nvs, op, test, boot, seen>>

Vendor == BootSkip \/ BootApply \/ Undo \/ UndoNot \/ VendorWrites \/ VendorEnd \/ Disarm
Called == op = Idle /\ op' # Idle /\ op'.cmd \notin {"boot", "undo"}
Steps ==
  /\ Access \/ Forward \/ Backward \/ Audit \/ Refuse \/ Vendor
  /\ Called => left.calls > 0
  /\ left' = [left EXCEPT !.calls = IF Called THEN @ - 1 ELSE @]
Next == Steps \/ Arm \/ ResetBoard \/ ResetGauge

Spec == Init /\ [][Next]_vars

-----------------------------------------------------------------------------
TypeOK ==
  /\ chip.sec \in 1 .. 3 /\ chip.cfg \in BOOLEAN /\ chip.mine \subseteq {"cfg", "pair", "keys"}
  /\ nvs.arm \in 0 .. 1

\* a CFGUPDATE, a pair or an open gauge of ours has a journal that leads back
OnRecord ==
  /\ chip.cfg /\ "cfg" \in chip.mine => Stale(nvs.tx)
  /\ "pair" \in chip.mine =>
       /\ nvs.tx.state # "none" /\ nvs.tx.orig = seen.base /\ Restorable(nvs.tx, chip.dm)
       /\ Stale(nvs.tx) \/ ~Changed(nvs.tx) \/ chip.dm \in {nvs.tx.orig, nvs.tx.target}
  /\ "keys" \in chip.mine => nvs.acc.state \in {"Pending", "Opened", "Failed"} /\ nvs.acc.prior = 3

\* an arm is spent by one boot at most, and its capacity is never forgotten in that boot
ArmedOnce == seen.fired <= seen.armed /\ (test.changed /\ chip.dm.d = 130 => test.pending)

(* What is written into the gauge has a journal that leads back, through    *)
(* lost writes and resets of either side; access words that may have been   *)
(* sent in vain are never sent again; and an armed test runs once.          *)
NominalIsOwned == TypeOK /\ OnRecord /\ ~seen.replay /\ ArmedOnce
=============================================================================

----------------------------- MODULE GaugeFields -----------------------------
(***************************************************************************)
(* Two single fields of the gauge that hal_mosaico.cpp changes on request: *)
(* the FCC limit with the full charge capacity under it, repaired once in  *)
(* the life of a board (`fcc_fix_v1'), and the threshold of a full charge  *)
(* (`near_v1').  An intent is stored before the command it is about; what  *)
(* was on the gauge before is in the record.  gauge_transaction_mutex makes*)
(* `op' one at a time; quiet hours, leases, fences, identity and failed    *)
(* reads are refusals.  The access that the threshold is written under, and*)
(* the profile of a boot, are GaugeNominal's.                              *)
(***************************************************************************)
EXTENDS Naturals

CONSTANTS Budgets   \* requests, resets of the board and of the gauge, in a behaviour

VARIABLES chip,   \* the gauge: security, CFGUPDATE, limit bit, FCC in data memory
                  \* and in its register, threshold
          nvs,    \* fcc_fix_v1 and near_v1
          op,     \* the operation under way and its copy of the record
          seen,   \* what has happened, for the properties
          left    \* the budget

vars == <<chip, nvs, op, seen, left>>

Target == 65
Before == 100
Factory == 3000
Normal == 200
Early == 5

None == [state |-> "none"]
Idle == [at |-> "idle", flag |-> "none", j |-> None, want |-> 0, was |-> 0, good |-> TRUE]
NoJournal == [state |-> "Pending", intents |-> {}, full |-> FALSE, backup |-> FALSE, fcc |-> 0]

Init ==
  /\ \E f, s \in {Target, Before} :
       /\ s = Target => f = Target
       /\ chip = [sec |-> 3, cfg |-> FALSE, lim |-> FALSE, fcc |-> f, std |-> s, near |-> Normal]
  /\ nvs = [fcc |-> None, near |-> None] /\ op = Idle /\ left \in Budgets
  /\ seen = [sent |-> {}, replay |-> FALSE, fcc |-> chip.fcc, cold |-> {}]

At(a) == op.at = a
Go(a) == [op EXCEPT !.at = a]
Ask(flag) == [op EXCEPT !.at = "intent", !.flag = flag]

\* a record is stored and read back: confirmed, written without confirmation, or lost
Store(f, v, good, bad) ==
  \E r \in {"ok", "unsure", "lost"} :
    /\ nvs' = IF r = "lost" THEN nvs ELSE [nvs EXCEPT ![f] = v]
    /\ op' = IF r = "ok" THEN good ELSE bad

FullCfg == chip.sec = 1 /\ chip.cfg
Sealed == chip.sec = 3 /\ ~chip.cfg

\* a command of the repair: never twice, in all the boots of the board
Sent(flag) == seen' = [seen EXCEPT !.replay = @ \/ flag \in seen.sent, !.sent = @ \cup {flag}]

\* one packet, which may arrive although it is not confirmed
Written(x, v, ok) ==
  \E got \in BOOLEAN :
    /\ chip' = IF got THEN [chip EXCEPT ![x] = v] ELSE chip
    /\ ok => chip'[x] = v

\* EnterConfig and the wait for it
Entered(ok) ==
  \E got \in BOOLEAN :
    /\ chip' = IF got /\ chip.sec = 1 THEN [chip EXCEPT !.cfg = TRUE] ELSE chip
    /\ ok => chip'.cfg /\ chip'.sec = 1

\* gauge_exit_config: the registers are initialised again, and the gauge may seal itself
Exited(ok) ==
  \E got, seals \in BOOLEAN :
    /\ chip' = IF got /\ FullCfg
               THEN [chip EXCEPT !.cfg = FALSE, !.std = chip.fcc, !.sec = IF seals THEN 3 ELSE 1]
               ELSE chip
    /\ ok => ~chip'.cfg /\ chip'.sec # 2

-----------------------------------------------------------------------------
(* A slip: a record that is there does not stop the repair. *)
AbsentAny == TRUE
\* the repair runs on a board without a record of it, whatever the record says
Absent == nvs.fcc = None

FccRepair ==
  /\ At("idle") /\ Absent /\ Sealed /\ chip.std = Before
  /\ op' = [Ask("Unseal") EXCEPT !.j = NoJournal]
  /\ UNCHANGED <<chip, nvs, seen>>

\* what follows an intent that could not be stored: close the access, or go on closing it
Unstored ==
  CASE op.flag = "Unseal" -> Idle
    [] op.flag \in {"RestoreConfig", "RestoreFcc"} -> [Ask("Exit") EXCEPT !.good = FALSE]
    [] op.flag \in {"Exit", "Seal"} -> [Go("do") EXCEPT !.good = FALSE]
    [] OTHER -> [Go("roll") EXCEPT !.good = FALSE]

Intent ==
  /\ At("intent")
  /\ LET j == [op.j EXCEPT !.intents = @ \cup {op.flag}] IN
       Store("fcc", j, IF op.flag = "TargetVerified" THEN [Ask("Exit") EXCEPT !.j = j]
                       ELSE [Go("do") EXCEPT !.j = j],
             [Unstored EXCEPT !.j = IF op.flag = "Unseal" THEN None ELSE j])
  /\ UNCHANGED <<chip, seen>>

Do(flag) == At("do") /\ op.flag = flag
Roll == [Go("roll") EXCEPT !.good = FALSE]

\* the pair of words may be refused by the fresh look before it, be lost, or work unseen
Words(flag, from, to, next) ==
  /\ Do(flag)
  /\ \E sent, works, ok \in BOOLEAN :
       /\ sent => chip.sec = from /\ ~chip.cfg /\ chip.std # Factory
       /\ works => sent
       /\ ok => works
       /\ chip' = IF works THEN [chip EXCEPT !.sec = to] ELSE chip
       /\ op' = IF ok THEN next ELSE Roll
       /\ IF sent THEN Sent(flag) ELSE UNCHANGED seen
  /\ UNCHANGED nvs
FccUnseal == Words("Unseal", 3, 2, Ask("Full"))
FccFull == Words("Full", 2, 1, [Go("backup") EXCEPT !.j.full = TRUE])

Backup ==
  /\ At("backup") /\ UNCHANGED <<chip, nvs, seen>>
  /\ \/ op' = Roll
     \/ /\ chip.sec = 1 /\ ~chip.lim /\ chip.fcc \in {Target, Before}
        /\ op' = [Ask("Enter") EXCEPT !.j.backup = TRUE, !.j.fcc = chip.fcc]

FccEnter ==
  /\ Do("Enter") /\ UNCHANGED nvs
  /\ \/ op' = Roll /\ UNCHANGED <<chip, seen>>
     \/ /\ chip.sec = 1 /\ ~chip.cfg /\ Sent("Enter")
        /\ \E ok \in BOOLEAN : Entered(ok) /\ op' = IF ok THEN Ask("Config") ELSE Roll

Known == ~op.j.backup \/ chip.fcc \in {op.j.fcc, Target}

\* writeParameter: looked at again right before the one packet
Writes(flag, x, v, good, bad) ==
  /\ Do(flag) /\ UNCHANGED nvs
  /\ \/ op' = bad /\ UNCHANGED <<chip, seen>>
     \/ /\ FullCfg /\ op.j.backup /\ op.j.full /\ Known /\ Sent(flag)
        /\ \E ok \in BOOLEAN : Written(x, v, ok) /\ op' = IF ok THEN good ELSE bad
Shut == [Ask("Exit") EXCEPT !.good = FALSE]
FccConfig == Writes("Config", "lim", TRUE, IF op.j.fcc # Target THEN Ask("Fcc") ELSE Go("check"), Roll)
FccFcc == Writes("Fcc", "fcc", Target, Go("check"), Roll)
FccUnconfig == Writes("RestoreConfig", "lim", FALSE, Go("roll-fcc"), Shut)
FccUnfcc == Writes("RestoreFcc", "fcc", op.j.fcc, Shut, Shut)

Check ==
  /\ At("check") /\ UNCHANGED <<chip, nvs, seen>>
  /\ op' = Roll \/ (chip.sec # 3 /\ chip.lim /\ chip.fcc = Target /\ op' = Ask("TargetVerified"))

\* rollback: never with access opened again or CFGUPDATE entered again
FccRoll ==
  /\ UNCHANGED <<chip, nvs, seen>>
  /\ \/ (At("roll") \/ At("roll-fcc")) /\ op' = Shut
     \/ At("roll") /\ op.j.backup /\ FullCfg /\ Known /\ op' = IF chip.lim THEN Ask("RestoreConfig") ELSE Go("roll-fcc")
     \/ At("roll-fcc") /\ FullCfg /\ Known /\ ~chip.lim /\ chip.fcc # op.j.fcc /\ op' = Ask("RestoreFcc")

\* cleanup: CFGUPDATE is left and the gauge sealed whether or not their intents are on record
FccExit ==
  /\ Do("Exit") /\ UNCHANGED <<nvs, seen>>
  /\ \E ok \in BOOLEAN :
       /\ (ok /\ ~chip.cfg /\ UNCHANGED chip) \/ (~ok /\ UNCHANGED chip) \/ (chip.cfg /\ Exited(ok))
       /\ op' = [Ask("Seal") EXCEPT !.good = @ /\ ok]
FccSeal ==
  /\ Do("Seal") /\ UNCHANGED <<nvs, seen>>
  /\ \E ok, works \in BOOLEAN :
       /\ works => ~chip.cfg
       /\ chip' = IF works THEN [chip EXCEPT !.sec = 3] ELSE chip
       /\ ok => chip'.sec = 3 /\ ~chip'.cfg
       /\ op' = [Go("verify") EXCEPT !.good = @ /\ ok]

\* a sealed gauge shows its register only: the data memory is proved by the record read back
Required == {"Unseal", "Full", "Enter", "Config", "TargetVerified"}
Proved == /\ nvs.fcc # None /\ nvs.fcc.state = "Pending" /\ nvs.fcc.backup /\ nvs.fcc.full
          /\ Required \cup (IF nvs.fcc.fcc # Target THEN {"Fcc"} ELSE {}) \subseteq nvs.fcc.intents
FccVerify ==
  /\ At("verify") /\ UNCHANGED <<chip, nvs, seen>>
  /\ \E ok \in BOOLEAN :
       /\ ok => op.good /\ Sealed /\ chip.std = Target /\ Proved
       /\ op' = [Go("final") EXCEPT !.j.state = IF ok THEN "Verified" ELSE "Failed"]
FccFinal == At("final") /\ Store("fcc", op.j, Idle, Idle) /\ UNCHANGED <<chip, seen>>

Repair == FccRepair \/ Intent \/ FccUnseal \/ FccFull \/ Backup \/ FccEnter \/ FccConfig \/ FccFcc
          \/ Check \/ FccRoll \/ FccUnconfig \/ FccUnfcc \/ FccExit \/ FccSeal \/ FccVerify \/ FccFinal

-----------------------------------------------------------------------------
\* gaugeNearFull: set (of a value expected) and restore; the access is opened for it
NearAsk ==
  /\ At("idle") /\ Sealed /\ chip.std = Target
  /\ \/ /\ nvs.near.state \in {"none", "Active", "Restored"}
        /\ \E want, was \in {Normal, Early} :
             op' = [Go("n-open") EXCEPT !.flag = "set", !.j = nvs.near, !.want = want, !.was = was]
     \/ /\ nvs.near # None
        /\ op' = [Go("n-open") EXCEPT !.flag = "restore", !.j = nvs.near, !.want = Normal]
  /\ UNCHANGED <<chip, nvs, seen>>

NearOpen ==
  /\ At("n-open") /\ UNCHANGED <<nvs, seen>>
  /\ \/ Sealed /\ chip' = [chip EXCEPT !.sec = 1] /\ op' = Go("n-before")
     \/ \E s \in {chip.sec, 2, 3} : chip' = [chip EXCEPT !.sec = s] /\ op' = Idle

NearBefore ==
  /\ At("n-before") /\ UNCHANGED <<chip, nvs, seen>>
  /\ \/ op' = [Go("n-close") EXCEPT !.good = FALSE]
     \/ /\ chip.sec = 1 /\ chip.fcc = Target
        /\ op.flag = "set" => chip.near = op.was
        /\ op.j = None => chip.near = Normal
        /\ op' = [Go("n-save") EXCEPT !.was = chip.near, !.j = [state |-> "Pending", target |-> op.want]]

NearSave ==
  /\ At("n-save")
  /\ Store("near", op.j, Go("n-enter"), [Go("n-close") EXCEPT !.good = FALSE])
  /\ seen' = [seen EXCEPT !.cold = IF nvs' # nvs THEN @ \ {"near"} ELSE @] /\ UNCHANGED chip

NearEnter ==
  /\ At("n-enter") /\ UNCHANGED <<nvs, seen>>
  /\ \E ok \in BOOLEAN : Entered(ok) /\ op' = IF ok THEN Go("n-write") ELSE [Go("n-exit") EXCEPT !.good = FALSE]

NearWrite ==
  /\ At("n-write") /\ UNCHANGED <<nvs, seen>>
  /\ \E ok \in BOOLEAN :
       /\ ok => FullCfg
       /\ (FullCfg /\ Written("near", op.want, ok)) \/ (~ok /\ UNCHANGED chip)
       /\ op' = [Go("n-after") EXCEPT !.good = ok]

\* all the other fields are read again: one that changed is a failure
NearAfter ==
  /\ At("n-after") /\ UNCHANGED <<chip, nvs, seen>>
  /\ \/ op.good /\ chip.sec = 1 /\ chip.near = op.want /\ op' = Go("n-exit")
     \/ op' = [Go("n-roll") EXCEPT !.good = FALSE]

\* near_rollbackOwn: only the value this operation wrote is taken back, and once
NearRoll ==
  /\ At("n-roll") /\ op' = Go("n-exit") /\ UNCHANGED <<nvs, seen>>
  /\ \/ UNCHANGED chip
     \/ FullCfg /\ chip.near = op.want /\ op.was # op.want /\ \E ok \in BOOLEAN : Written("near", op.was, ok)

NearExit ==
  /\ At("n-exit") /\ UNCHANGED <<nvs, seen>>
  /\ \E ok \in BOOLEAN : Exited(ok) /\ op' = [Go("n-close") EXCEPT !.good = @ /\ ok]

\* gaugeAccess(Restore), then the look at the sealed gauge with its normal capacity
NearClose ==
  /\ At("n-close") /\ UNCHANGED <<nvs, seen>>
  /\ UNCHANGED chip \/ (~chip.cfg /\ chip' = [chip EXCEPT !.sec = 3])
  /\ \E native65 \in BOOLEAN :
       /\ native65 => chip'.sec = 3 /\ ~chip'.cfg /\ chip'.std = Target
       /\ op' = IF op.j # None /\ op.j.state = "Pending" THEN [Go("n-final") EXCEPT !.good = @ /\ native65] ELSE Idle

\* the record that a reset left Pending is closed by a later restore too
NearFinal ==
  /\ At("n-final")
  /\ LET state == IF ~op.good THEN "Failed" ELSE IF op.flag = "restore" THEN "Restored" ELSE "Active" IN
       Store("near", [op.j EXCEPT !.state = state], Idle, Idle)
  /\ UNCHANGED <<chip, seen>>

Near == NearAsk \/ NearOpen \/ NearBefore \/ NearSave \/ NearEnter \/ NearWrite \/ NearAfter \/ NearRoll
        \/ NearExit \/ NearClose \/ NearFinal

-----------------------------------------------------------------------------
\* readonly_no_gauge_access
Status == At("idle") /\ UNCHANGED <<chip, nvs, op, seen>>

ResetBoard ==
  /\ left.resets > 0 /\ left' = [left EXCEPT !.resets = @ - 1]
  /\ op' = Idle /\ UNCHANGED <<chip, nvs, seen>>

\* the gauge loses its memory, and the profile of a boot gives it its capacity again
ResetGauge ==
  /\ left.colds > 0 /\ left' = [left EXCEPT !.colds = @ - 1]
  /\ chip' = [sec |-> 2, cfg |-> FALSE, lim |-> FALSE, fcc |-> Factory, std |-> Factory, near |-> Normal]
  /\ seen' = [seen EXCEPT !.fcc = Factory, !.cold = {"limit", "near"}] /\ UNCHANGED <<nvs, op>>
Profile ==
  /\ At("idle") /\ chip.std = Factory
  /\ chip' = [chip EXCEPT !.sec = 3, !.cfg = FALSE, !.fcc = Target, !.std = Target]
  /\ seen' = [seen EXCEPT !.fcc = Target] /\ UNCHANGED <<nvs, op, left>>

Called == op = Idle /\ op' # Idle
Steps ==
  /\ Repair \/ Near \/ Status
  /\ Called => left.calls > 0
  /\ left' = [left EXCEPT !.calls = IF Called THEN @ - 1 ELSE @]
Next == Steps \/ ResetBoard \/ ResetGauge \/ Profile

Spec == Init /\ [][Next]_vars

-----------------------------------------------------------------------------
\* a field of the repair that is not as the gauge had it is backed up, under its intent
RepairOnRecord ==
  /\ chip.lim => nvs.fcc # None /\ nvs.fcc.backup /\ "Config" \in nvs.fcc.intents
  /\ chip.fcc # seen.fcc => nvs.fcc # None /\ nvs.fcc.fcc = seen.fcc /\ "Fcc" \in nvs.fcc.intents
  /\ ~seen.replay

\* Verified is the limit with the capacity under it, which a gauge loses only with its memory
VerifiedIsTrue ==
  nvs.fcc.state = "Verified" => (chip.lim /\ chip.fcc = Target) \/ "limit" \in seen.cold

NearOnRecord ==
  /\ chip.near # Normal => nvs.near # None /\ (nvs.near.target = chip.near \/ nvs.near.state \in {"Pending", "Failed"})
  /\ nvs.near.state = "Active" /\ "near" \notin seen.cold => chip.near = nvs.near.target
  /\ nvs.near.state = "Restored" => chip.near = Normal

(* What the repair and the threshold change is on record first, with the    *)
(* value to go back to; a record says Verified, Active or Restored only of  *)
(* a gauge that is so; and no command of the repair is ever sent again.     *)
FieldsAreOwned == RepairOnRecord /\ VerifiedIsTrue /\ NearOnRecord
=============================================================================

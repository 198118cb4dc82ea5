----------------------------- MODULE NandStore -----------------------------
(***************************************************************************)
(* The two-slot record store on the SPI NAND                               *)
(* (main/hal/mosaico/mosaico_nand_store_model.h) inside the transaction    *)
(* that opens and closes the device for every call                         *)
(* (main/hal/mosaico/mosaico_nand_store.cpp).                              *)
(*                                                                         *)
(* A logical page is abstracted to what the parsers tell apart.  The flash *)
(* translation layer is external: it shows a transaction the pages written *)
(* so far (marker, half, commit) and may at any moment checkpoint them to  *)
(* the media (dMarker, dHalf, dCommit), which is all that a power cut, or  *)
(* the next transaction's resume, finds.  sync forces a checkpoint.        *)
(***************************************************************************)
EXTENDS Naturals

CONSTANTS Values,         \* payloads
          NoValue,        \* no payload
          MaxGeneration   \* stands for UINT64_MAX

ASSUME NandStoreAssumption == /\ NoValue \notin Values
                              /\ MaxGeneration \in Nat \ {0}

Slots  == {0, 1}
Halves == {0, 1}
Copies == {0, 1}
NoSlot == 2                 \* slot == -1 in the code

(* What a page can hold: erased, damaged beyond its CRC, or its record.    *)
MarkerPages == {"blank", "torn", "marker"}
HalfPages   == Values \cup {NoValue}          \* NoValue: erased or damaged
CommitPages == [kind : {"blank", "torn", "commit"},
                generation : 0 .. MaxGeneration,
                crc : Values \cup {NoValue}]
BlankCommit == [kind |-> "blank", generation |-> 0, crc |-> NoValue]
TornCommit  == [kind |-> "torn", generation |-> 0, crc |-> NoValue]
Commit(g, v) == [kind |-> "commit", generation |-> g, crc |-> v]

VARIABLES marker, half, commit,       \* pages as the open transaction reads them
          dMarker, dHalf, dCommit,    \* pages a power cut leaves
          pc,                         \* where the transaction stands
          op,                         \* "none", "save" or "format"
          input, slot, generation,    \* locals of save()
          result,                     \* code of the last finished call
          cleanupFailed               \* a close failed: no transaction until reboot

live    == <<marker, half, commit>>
media   == <<dMarker, dHalf, dCommit>>
locals  == <<input, slot, generation>>
vars    == <<marker, half, commit, dMarker, dHalf, dCommit, pc, op, input,
             slot, generation, result, cleanupFailed>>

-----------------------------------------------------------------------------
(* The read-only parsers.                                                  *)

(* readPayload: both halves belong to the payload whose CRC the commit     *)
(* page carries.  The CRC is taken to tell payloads apart.                 *)
PayloadIs(h, s, v) == v # NoValue /\ \A i \in Halves : h[s][i] = v

(* parseCommit and the payload check of scan.                              *)
SlotValid(h, c, s) ==
  c[s].kind = "commit" /\ c[s].generation # 0 /\ PayloadIs(h, s, c[s].crc)

(* The slot scan selects: the valid one of the larger generation.          *)
Newest(h, c) ==
  IF /\ SlotValid(h, c, 0)
     /\ SlotValid(h, c, 1) => c[0].generation >= c[1].generation
  THEN 0
  ELSE IF SlotValid(h, c, 1) THEN 1 ELSE NoSlot

ScanCode(m, h, c) ==
  IF \A i \in Copies : m[i] # "marker"
  THEN IF \E i \in Copies : m[i] = "torn" THEN "Corrupt" ELSE "NotFormatted"
  ELSE IF \A s \in Slots : ~SlotValid(h, c, s)
       THEN IF \E s \in Slots : c[s].kind # "blank" THEN "Corrupt" ELSE "Empty"
       ELSE IF /\ \A s \in Slots : SlotValid(h, c, s)
               /\ c[0].generation = c[1].generation
            THEN "Corrupt"
            ELSE "Ok"

ScanGeneration(h, c) ==
  IF Newest(h, c) = NoSlot THEN 0 ELSE c[Newest(h, c)].generation

(* load: the payload of the selected slot.                                 *)
LoadValue(m, h, c) ==
  IF ScanCode(m, h, c) = "Ok" THEN c[Newest(h, c)].crc ELSE NoValue

Stored == LoadValue(dMarker, dHalf, dCommit)

-----------------------------------------------------------------------------
Init ==
  /\ marker = [i \in Copies |-> "blank"]
  /\ half = [s \in Slots |-> [i \in Halves |-> NoValue]]
  /\ commit = [s \in Slots |-> BlankCommit]
  /\ dMarker = marker /\ dHalf = half /\ dCommit = commit
  /\ pc = "idle" /\ op = "none"
  /\ input = NoValue /\ slot = NoSlot /\ generation = 0
  /\ result = "None" /\ cleanupFailed = FALSE

(* Plausible slips in save() and finish(), each refuted by a property.     *)
BeginSaveInPlace(v) ==
  /\ pc = "idle" /\ ~cleanupFailed
  /\ ScanCode(marker, half, commit) \in {"Ok", "Empty"}
  /\ ScanGeneration(half, commit) # MaxGeneration
  /\ slot' = IF Newest(half, commit) = 1 THEN 1 ELSE 0
  /\ generation' = ScanGeneration(half, commit) + 1
  /\ input' = v
  /\ op' = "save" /\ pc' = "payload0" /\ result' = "None"
  /\ UNCHANGED <<live, media, cleanupFailed>>

(* The commit page of the slot's previous life keeps its generation.       *)
BeginSaveSameGeneration(v) ==
  /\ pc = "idle" /\ ~cleanupFailed
  /\ ScanCode(marker, half, commit) \in {"Ok", "Empty"}
  /\ ScanGeneration(half, commit) # MaxGeneration
  /\ slot' = IF Newest(half, commit) = 0 THEN 1 ELSE 0
  /\ generation' = IF Newest(half, commit) = NoSlot THEN 1
                   ELSE ScanGeneration(half, commit)
  /\ input' = v
  /\ op' = "save" /\ pc' = "payload0" /\ result' = "None"
  /\ UNCHANGED <<live, media, cleanupFailed>>

(* save() up to its first write: scan, generation and slot selection.      *)
BeginSave(v) ==
  /\ pc = "idle" /\ ~cleanupFailed
  /\ ScanCode(marker, half, commit) \in {"Ok", "Empty"}
  /\ ScanGeneration(half, commit) # MaxGeneration
  /\ slot' = IF Newest(half, commit) = 0 THEN 1 ELSE 0
  /\ generation' = ScanGeneration(half, commit) + 1
  /\ input' = v
  /\ op' = "save" /\ pc' = "payload0" /\ result' = "None"
  /\ UNCHANGED <<live, media, cleanupFailed>>

(* transaction() gives up before an operation starts: bus, pins, identity, *)
(* geometry or the scan itself.  Its close may fail as well.               *)
OpenError ==
  /\ pc = "idle" /\ ~cleanupFailed
  /\ result' = "Error" /\ cleanupFailed' \in BOOLEAN
  /\ UNCHANGED <<live, media, locals, pc, op>>

(* save() refuses what scan did not find usable.                           *)
RefuseSave ==
  /\ pc = "idle" /\ ~cleanupFailed
  /\ IF ScanCode(marker, half, commit) \in {"Ok", "Empty"}
     THEN /\ ScanGeneration(half, commit) = MaxGeneration
          /\ result' = "GenerationExhausted"
     ELSE result' = ScanCode(marker, half, commit)
  /\ UNCHANGED <<live, media, locals, pc, op, cleanupFailed>>

WritePayload(i) ==
  /\ pc = IF i = 0 THEN "payload0" ELSE "payload1"
  /\ half' = [half EXCEPT ![slot][i] = input]
  /\ pc' = IF i = 0 THEN "payload1" ELSE "payloadSync"
  /\ UNCHANGED <<marker, commit, media, locals, op, result, cleanupFailed>>

(* sync makes everything written so far durable.                           *)
Sync(from, to) ==
  /\ pc = from
  /\ dMarker' = marker /\ dHalf' = half /\ dCommit' = commit
  /\ pc' = to
  /\ UNCHANGED <<live, locals, op, result, cleanupFailed>>

PayloadSync == Sync("payloadSync", "payloadVerify")
CommitSync  == Sync("commitSync", "commitVerify")
MarkerSync  == Sync("markerSync", "markerVerify")

VerifyPayload ==
  /\ pc = "payloadVerify"
  /\ pc' = IF PayloadIs(half, slot, input) THEN "commitWrite" ELSE "failed"
  /\ UNCHANGED <<live, media, locals, op, result, cleanupFailed>>

WriteCommit ==
  /\ pc = "commitWrite"
  /\ commit' = [commit EXCEPT ![slot] = Commit(generation, input)]
  /\ pc' = "commitSync"
  /\ UNCHANGED <<marker, half, media, locals, op, result, cleanupFailed>>

VerifyCommit ==
  /\ pc = "commitVerify"
  /\ pc' = IF /\ commit[slot] = Commit(generation, input)
              /\ PayloadIs(half, slot, input)
           THEN "reopen" ELSE "failed"
  /\ UNCHANGED <<live, media, locals, op, result, cleanupFailed>>

(* transaction(): deinit and init again, so that the check that follows    *)
(* reads what a fresh resume finds.                                        *)
Reopen ==
  /\ pc = "reopen"
  /\ marker' = dMarker /\ half' = dHalf /\ commit' = dCommit
  /\ pc' = "recheck"
  /\ UNCHANGED <<media, locals, op, result, cleanupFailed>>

Recheck ==
  /\ pc = "recheck"
  /\ pc' = IF \/ /\ op = "save"
                 /\ LoadValue(marker, half, commit) = input
                 /\ ScanGeneration(half, commit) = generation
              \/ /\ op = "format"
                 /\ ScanCode(marker, half, commit) = "Empty"
                 /\ \A i \in Copies : marker[i] = "marker"
           THEN "complete" ELSE "failed"
  /\ UNCHANGED <<live, media, locals, op, result, cleanupFailed>>

-----------------------------------------------------------------------------
(* formatConfirm: the whole-chip erase, then the two marker copies.        *)
BeginFormat ==
  /\ pc = "idle" /\ ~cleanupFailed
  /\ op' = "format" /\ pc' = "erase" /\ result' = "None"
  /\ UNCHANGED <<live, media, locals, cleanupFailed>>

EraseChip ==
  /\ pc = "erase"
  /\ marker' = [i \in Copies |-> "blank"]
  /\ half' = [s \in Slots |-> [i \in Halves |-> NoValue]]
  /\ commit' = [s \in Slots |-> BlankCommit]
  /\ dMarker' = marker' /\ dHalf' = half' /\ dCommit' = commit'
  /\ pc' = "marker0"
  /\ UNCHANGED <<locals, op, result, cleanupFailed>>

WriteMarker(i) ==
  /\ pc = IF i = 0 THEN "marker0" ELSE "marker1"
  /\ marker' = [marker EXCEPT ![i] = "marker"]
  /\ pc' = IF i = 0 THEN "marker1" ELSE "markerSync"
  /\ UNCHANGED <<half, commit, media, locals, op, result, cleanupFailed>>

VerifyMarkers ==
  /\ pc = "markerVerify"
  /\ pc' = IF \A i \in Copies : marker[i] = "marker" THEN "reopen" ELSE "failed"
  /\ UNCHANGED <<live, media, locals, op, result, cleanupFailed>>

-----------------------------------------------------------------------------
(* Failures.                                                               *)

(* A read, write or sync reports an error, before or after its effect.     *)
IoError ==
  /\ pc \notin {"idle", "failed", "complete"}
  /\ pc' = "failed"
  /\ UNCHANGED <<live, media, locals, op, result, cleanupFailed>>

(* A page program fails and leaves a page no parser accepts.               *)
TornWrite ==
  /\ \/ /\ pc \in {"payload0", "payload1"}
        /\ half' = [half EXCEPT ![slot][IF pc = "payload0" THEN 0 ELSE 1] = NoValue]
        /\ UNCHANGED <<marker, commit>>
     \/ /\ pc = "commitWrite"
        /\ commit' = [commit EXCEPT ![slot] = TornCommit]
        /\ UNCHANGED <<marker, half>>
     \/ /\ pc \in {"marker0", "marker1"}
        /\ marker' = [marker EXCEPT ![IF pc = "marker0" THEN 0 ELSE 1] = "torn"]
        /\ UNCHANGED <<half, commit>>
  /\ pc' = "failed"
  /\ UNCHANGED <<media, locals, op, result, cleanupFailed>>

(* The translation layer checkpoints its map on its own.                   *)
Checkpoint ==
  /\ pc # "idle"
  /\ media # live
  /\ dMarker' = marker /\ dHalf' = half /\ dCommit' = commit
  /\ UNCHANGED <<live, locals, pc, op, result, cleanupFailed>>

FinishIgnoringVerification(closed) ==
  /\ pc \in {"failed", "complete"}
  /\ marker' = dMarker /\ half' = dHalf /\ commit' = dCommit
  /\ result' = IF closed THEN "Ok" ELSE "Error"
  /\ cleanupFailed' = ~closed
  /\ pc' = "idle" /\ op' = "none"
  /\ input' = NoValue /\ slot' = NoSlot /\ generation' = 0
  /\ UNCHANGED media

(* finish(): the device is closed; what was not checkpointed is gone for   *)
(* the next open.  A close that fails forbids every later transaction of   *)
(* this boot and turns the call into a failure.                            *)
Finish(closed) ==
  /\ pc \in {"failed", "complete"}
  /\ marker' = dMarker /\ half' = dHalf /\ commit' = dCommit
  /\ result' = IF pc = "complete" /\ closed THEN "Ok" ELSE "Error"
  /\ cleanupFailed' = ~closed
  /\ pc' = "idle" /\ op' = "none"
  /\ input' = NoValue /\ slot' = NoSlot /\ generation' = 0
  /\ UNCHANGED media

PowerCut ==
  /\ marker' = dMarker /\ half' = dHalf /\ commit' = dCommit
  /\ result' = "None" /\ cleanupFailed' = FALSE
  /\ pc' = "idle" /\ op' = "none"
  /\ input' = NoValue /\ slot' = NoSlot /\ generation' = 0
  /\ UNCHANGED media

Next ==
  \/ \E v \in Values : BeginSave(v)
  \/ OpenError
  \/ RefuseSave
  \/ \E i \in Halves : WritePayload(i)
  \/ PayloadSync
  \/ VerifyPayload
  \/ WriteCommit
  \/ CommitSync
  \/ VerifyCommit
  \/ Reopen
  \/ Recheck
  \/ BeginFormat
  \/ EraseChip
  \/ \E i \in Copies : WriteMarker(i)
  \/ MarkerSync
  \/ VerifyMarkers
  \/ IoError
  \/ TornWrite
  \/ Checkpoint
  \/ \E closed \in BOOLEAN : Finish(closed)
  \/ PowerCut

Spec == Init /\ [][Next]_vars

-----------------------------------------------------------------------------
SavePhases   == {"payload0", "payload1", "payloadSync", "payloadVerify",
                 "commitWrite", "commitSync", "commitVerify"}
FormatPhases == {"erase", "marker0", "marker1", "markerSync", "markerVerify"}
SharedPhases == {"reopen", "recheck", "failed", "complete"}

(* Every variable stays in its type, and a transaction is open exactly     *)
(* while its phase says so (transaction() and its locals).                 *)
TypeOK ==
  /\ marker \in [Copies -> MarkerPages] /\ dMarker \in [Copies -> MarkerPages]
  /\ half \in [Slots -> [Halves -> HalfPages]]
  /\ dHalf \in [Slots -> [Halves -> HalfPages]]
  /\ commit \in [Slots -> CommitPages] /\ dCommit \in [Slots -> CommitPages]
  /\ pc \in {"idle"} \cup SavePhases \cup FormatPhases \cup SharedPhases
  /\ op \in {"none", "save", "format"}
  /\ op = "none" <=> pc = "idle"
  /\ pc \in SavePhases => op = "save"
  /\ pc \in FormatPhases => op = "format"
  /\ slot \in Slots \cup {NoSlot}
  /\ generation \in 0 .. MaxGeneration
  /\ IF op = "save" THEN input \in Values /\ slot \in Slots /\ generation # 0
                    ELSE input = NoValue
  /\ result \in {"None", "Ok", "Error", "GenerationExhausted", "Corrupt",
                 "NotFormatted"}
  /\ cleanupFailed \in BOOLEAN

(* A store that holds a record keeps holding one through saves, errors,    *)
(* torn pages and power cuts: only the authorised format loses it          *)
(* (save() never writes the slot scan selects).                            *)
RecordNeverLost ==
  [][Stored # NoValue /\ pc # "erase" => Stored' # NoValue]_vars

(* The generation a boot finds never goes back, so a load never returns a  *)
(* record older than one an earlier load could return.                     *)
GenerationNeverFalls ==
  [][pc # "erase" => ScanGeneration(dHalf, dCommit)'
                       >= ScanGeneration(dHalf, dCommit)]_vars

(* The strengthening of TypeOK from which the properties follow.  In the   *)
(* pages a transaction sees and in those a power cut leaves, the commit    *)
(* page of the larger generation vouches for an intact payload.            *)
Consistent(h, c) ==
  \A s \in Slots :
    c[s].kind = "commit" =>
      /\ c[s].generation # 0
      /\ \/ SlotValid(h, c, s)
         \/ c[1 - s].kind = "commit" /\ c[s].generation < c[1 - s].generation
      /\ c[1 - s].kind = "commit" => c[s].generation # c[1 - s].generation

(* Before the new commit page is written, the slot being filled is not the *)
(* one scan selects, and every generation in use is below the new one.     *)
Filling ==
  pc \in {"payload0", "payload1", "payloadSync", "payloadVerify", "commitWrite"} =>
    /\ \E i \in Copies : marker[i] = "marker"
    /\ commit[slot].kind = "commit" =>
         /\ commit[1 - slot].kind = "commit"
         /\ commit[slot].generation < commit[1 - slot].generation
    /\ commit[1 - slot].kind = "commit" => commit[1 - slot].generation < generation
    /\ pc = "commitWrite" => PayloadIs(half, slot, input)

Formatting ==
  pc \in {"marker0", "marker1", "markerSync", "markerVerify"} =>
    \A s \in Slots : commit[s].kind = "blank" /\ dCommit[s].kind = "blank"

(* What a checkpoint at this moment would publish.                         *)
Pending ==
  /\ pc \in {"idle", "erase", "recheck", "complete"} => live = media
  /\ op = "save" => LoadValue(marker, half, commit) \in {Stored, input}
  /\ op = "format" => LoadValue(marker, half, commit) = Stored
  /\ ScanGeneration(half, commit) >= ScanGeneration(dHalf, dCommit)
  /\ pc = "complete" => Stored = input

(* A record selected by scan always has an intact payload, also while a    *)
(* save overwrites the other slot and in whatever a power cut leaves       *)
(* (scan, save and transaction together).                                  *)
StoreInv == /\ TypeOK
            /\ Consistent(half, commit)
            /\ Consistent(dHalf, dCommit)
            /\ Filling
            /\ Formatting
            /\ Pending

(* The store implements the atomic record: it changes only by the value    *)
(* being saved, and success is reported only when a boot would find it     *)
(* (save(), the reopen check and finish() of transaction()).               *)
Record == INSTANCE AtomicRecord
            WITH stored <- Stored, busy <- op # "none", request <- input,
                 acked <- result = "Ok"
ImplementsRecord == Record!Spec
=============================================================================

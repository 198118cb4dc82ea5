------------------------------ MODULE NandLog -------------------------------
(***************************************************************************)
(* The append-only page log on the SPI NAND                                *)
(* (main/hal/mosaico/mosaico_nand_log_model.h) inside the journal branch   *)
(* of the transaction (main/hal/mosaico/mosaico_nand_store.cpp).           *)
(*                                                                         *)
(* DataPages data pages form a ring; the last MaxPages written are the     *)
(* log, the one left over is the spare the next append writes.  Two index  *)
(* pages alternate.  The chip has been formatted: its markers, and the     *)
(* translation layer below (pages read now, pages a power cut leaves), are *)
(* those of NandStore.                                                     *)
(***************************************************************************)
EXTENDS Naturals

CONSTANTS Values,       \* what a page carries
          NoValue,      \* no page
          DataPages,    \* pages of the ring
          MaxSequence,  \* stands for UINT64_MAX
          Tears         \* what a failed program leaves: "header", "garbage"

ASSUME NandLogAssumption == /\ NoValue \notin Values
                            /\ DataPages \in Nat \ {0, 1, 2}
                            /\ MaxSequence \in Nat \ {0}
                            /\ Tears \subseteq {"header", "garbage"}

MaxPages  == DataPages - 1
Sequences == 1 .. MaxSequence
Copies    == {0, 1}
NoCopy    == 2              \* indexCopy == -1 in the code

(* A data page is erased, whole, torn behind a header that still names its *)
(* sequence number, or garbage.  An index page is erased, whole, torn with *)
(* its magic still readable, or garbage.                                   *)
PageKinds  == {"blank", "page", "header", "garbage"}
DataSet    == [kind : PageKinds, seq : 0 .. MaxSequence, value : Values \cup {NoValue}]
IndexSet   == [kind : PageKinds, seq : 0 .. MaxSequence]
BlankData  == [kind |-> "blank", seq |-> 0, value |-> NoValue]
BlankIndex == [kind |-> "blank", seq |-> 0]

VARIABLES index, data,          \* pages as the open transaction reads them
          dIndex, dData,        \* pages a power cut leaves
          pc,                   \* where the transaction stands
          input, sequence,      \* the page to append and its number
          latest, copy,         \* LogState: latestSeq and indexCopy
          result,               \* code of the last finished call
          cleanupFailed,        \* a close failed: no transaction until reboot
          reported              \* last number reported as done, over all boots

live   == <<index, data>>
media  == <<dIndex, dData>>
locals == <<input, sequence, latest, copy>>
vars   == <<index, data, dIndex, dData, pc, input, sequence, latest, copy,
            result, cleanupFailed, reported>>

-----------------------------------------------------------------------------
(* The parsers.                                                            *)
Address(s) == (s - 1) % DataPages
Oldest(s)  == IF s > MaxPages THEN s - MaxPages + 1 ELSE 1

ValidHeader(p) == p.kind \in {"page", "header"}
Holds(d, s)    == d[Address(s)].kind = "page" /\ d[Address(s)].seq = s

IndexSeq(i, c) == IF i[c].kind = "page" THEN i[c].seq ELSE 0
IndexCopy(i)   == IF IndexSeq(i, 1) > IndexSeq(i, 0) THEN 1
                  ELSE IF IndexSeq(i, 0) = 0 THEN NoCopy ELSE 0
Indexed(i)     == IF IndexCopy(i) = NoCopy THEN 0 ELSE IndexSeq(i, IndexCopy(i))

(* The two index pages contradict each other, or one is not ours.          *)
IndexCorrupt(i) ==
  \/ \E c \in Copies : i[c].kind = "garbage"
  \/ Indexed(i) = 0 /\ \E c \in Copies : i[c].kind = "header"
  \/ /\ \A c \in Copies : IndexSeq(i, c) # 0
     /\ IndexSeq(i, 0) + 1 # IndexSeq(i, 1) /\ IndexSeq(i, 1) + 1 # IndexSeq(i, 0)

(* The page after the last indexed one is neither erased, nor a leftover   *)
(* of the ring's previous round, nor the successor, whole or torn.         *)
SuccessorCorrupt(d, s) ==
  LET p == d[Address(s + 1)]
  IN /\ s # MaxSequence /\ p.kind # "blank"
     /\ \/ ~ValidHeader(p)
        \/ Address(p.seq) # Address(s + 1)
        \/ p.seq # s + 1 /\ (s = 0 \/ p.seq >= Oldest(s))

Adopts(i, d) == Indexed(i) # MaxSequence /\ Holds(d, Indexed(i) + 1)

LoadLatest(i, d) == IF Adopts(i, d) THEN Indexed(i) + 1 ELSE Indexed(i)

LoadCode(i, d) ==
  IF \/ IndexCorrupt(i)
     \/ Indexed(i) # 0 /\ ~Holds(d, Indexed(i))
     \/ SuccessorCorrupt(d, Indexed(i))
  THEN "Corrupt"
  ELSE IF LoadLatest(i, d) = 0 THEN "Empty" ELSE "Ok"

(* append(): what it will not overwrite.                                   *)
SpareCorrupt(d, s) ==
  LET p == d[Address(s + 1)]
  IN /\ p.kind # "blank"
     /\ \/ ~ValidHeader(p)
        \/ Address(p.seq) # Address(s + 1)
        \/ p.seq = s + 1 /\ p.kind = "page"
        \/ p.seq # s + 1 /\ (p.seq > s \/ p.seq >= Oldest(s))

(* The pages logRead admits, the last appended being s.                    *)
WindowTooWide(s) == {r \in Sequences : Oldest(s) <= r + 1 /\ r <= s}
Window(s) == {r \in Sequences : Oldest(s) <= r /\ r <= s}

(* The log as a boot reads it.                                             *)
Stored ==
  IF LoadCode(dIndex, dData) # "Ok" THEN <<>>
  ELSE [s \in Window(LoadLatest(dIndex, dData)) |-> dData[Address(s)].value]
StoredLatest == IF LoadCode(dIndex, dData) # "Ok" THEN 0 ELSE LoadLatest(dIndex, dData)

-----------------------------------------------------------------------------
Init ==
  /\ index = [c \in Copies |-> BlankIndex]
  /\ data = [a \in 0 .. DataPages - 1 |-> BlankData]
  /\ dIndex = index /\ dData = data
  /\ pc = "idle" /\ input = NoValue /\ sequence = 0 /\ latest = 0 /\ copy = NoCopy
  /\ result = "None" /\ cleanupFailed = FALSE /\ reported = 0

(* A slip: the adopted page is not indexed before the spare is spent.      *)
BeginAppendAtOnce(v) ==
  /\ pc = "idle" /\ ~cleanupFailed
  /\ LoadCode(index, data) \in {"Ok", "Empty"}
  /\ LoadLatest(index, data) # MaxSequence
  /\ latest' = LoadLatest(index, data) /\ copy' = IndexCopy(index)
  /\ input' = v /\ sequence' = latest' + 1
  /\ pc' = "dataWrite" /\ result' = "None"
  /\ UNCHANGED <<live, media, cleanupFailed, reported>>

(* logAppend up to the first write: load(), the limit, and whether an      *)
(* adopted page must be indexed first.                                     *)
BeginAppend(v) ==
  /\ pc = "idle" /\ ~cleanupFailed
  /\ LoadCode(index, data) \in {"Ok", "Empty"}
  /\ LoadLatest(index, data) # MaxSequence
  /\ latest' = LoadLatest(index, data) /\ copy' = IndexCopy(index)
  /\ input' = v /\ sequence' = latest' + 1
  /\ pc' = IF Adopts(index, data) THEN "indexWrite" ELSE "dataWrite"
  /\ result' = "None"
  /\ UNCHANGED <<live, media, cleanupFailed, reported>>

(* logLoad, logRead, and a logAppend that goes no further than load().     *)
Refuse ==
  /\ pc = "idle" /\ ~cleanupFailed
  /\ \/ result' = LoadCode(index, data)
     \/ /\ result' = "Overflow"
        /\ LoadCode(index, data) = "Ok" /\ LoadLatest(index, data) = MaxSequence
  /\ UNCHANGED <<live, media, locals, pc, cleanupFailed, reported>>

OpenError ==
  /\ pc = "idle" /\ ~cleanupFailed
  /\ result' = "Error" /\ cleanupFailed' \in BOOLEAN
  /\ UNCHANGED <<live, media, locals, pc, reported>>

(* append(): the spare is examined, then written.                          *)
WriteData ==
  /\ pc = "dataWrite"
  /\ IF SpareCorrupt(data, latest)
     THEN pc' = "failed" /\ UNCHANGED data
     ELSE /\ pc' = "dataSync"
          /\ data' = [data EXCEPT ![Address(sequence)] =
                        [kind |-> "page", seq |-> sequence, value |-> input]]
  /\ UNCHANGED <<index, media, locals, result, cleanupFailed, reported>>

(* publish(), of the adopted page or of the one just written.              *)
Publishing == IF data[Address(sequence)].kind = "page" /\ data[Address(sequence)].seq = sequence
              THEN sequence ELSE latest
Other      == IF copy = 0 THEN 1 ELSE 0

WriteIndex ==
  /\ pc = "indexWrite" /\ pc' = "indexSync"
  /\ index' = [index EXCEPT ![Other] = [kind |-> "page", seq |-> Publishing]]
  /\ UNCHANGED <<data, media, locals, result, cleanupFailed, reported>>

Sync(from, to) ==
  /\ pc = from /\ pc' = to
  /\ dIndex' = index /\ dData' = data
  /\ UNCHANGED <<live, locals, result, cleanupFailed, reported>>

DataSync  == Sync("dataSync", "dataVerify")
IndexSync == Sync("indexSync", "indexVerify")

VerifyData ==
  /\ pc = "dataVerify"
  /\ pc' = IF data[Address(sequence)] = [kind |-> "page", seq |-> sequence, value |-> input]
           THEN "indexWrite" ELSE "failed"
  /\ UNCHANGED <<live, media, locals, result, cleanupFailed, reported>>

VerifyIndex ==
  /\ pc = "indexVerify"
  /\ IF index[Other] # [kind |-> "page", seq |-> Publishing]
     THEN pc' = "failed" /\ UNCHANGED <<latest, copy>>
     ELSE /\ latest' = Publishing /\ copy' = Other
          /\ pc' = IF Publishing = sequence THEN "reopen" ELSE "dataWrite"
  /\ UNCHANGED <<live, media, input, sequence, result, cleanupFailed, reported>>

Reopen ==
  /\ pc = "reopen" /\ pc' = "recheck"
  /\ index' = dIndex /\ data' = dData
  /\ UNCHANGED <<media, locals, result, cleanupFailed, reported>>

Recheck ==
  /\ pc = "recheck"
  /\ pc' = IF /\ LoadCode(index, data) = "Ok" /\ LoadLatest(index, data) = latest
              /\ Holds(data, latest) /\ data[Address(latest)].value = input
           THEN "complete" ELSE "failed"
  /\ UNCHANGED <<live, media, locals, result, cleanupFailed, reported>>

-----------------------------------------------------------------------------
(* Failures.                                                               *)
IoError ==
  /\ pc \notin {"idle", "failed", "complete"} /\ pc' = "failed"
  /\ UNCHANGED <<live, media, locals, result, cleanupFailed, reported>>

(* A page program fails part way.                                          *)
TornWrite ==
  /\ \E tear \in Tears :
       \/ /\ pc = "dataWrite" /\ ~SpareCorrupt(data, latest)
          /\ data' = [data EXCEPT ![Address(sequence)] =
               IF tear = "header" THEN [kind |-> tear, seq |-> sequence, value |-> NoValue]
                                  ELSE [BlankData EXCEPT !.kind = tear]]
          /\ UNCHANGED index
       \/ /\ pc = "indexWrite"
          /\ index' = [index EXCEPT ![Other] = [kind |-> tear, seq |-> 0]]
          /\ UNCHANGED data
  /\ pc' = "failed"
  /\ UNCHANGED <<media, locals, result, cleanupFailed, reported>>

Checkpoint ==
  /\ pc # "idle" /\ media # live
  /\ dIndex' = index /\ dData' = data
  /\ UNCHANGED <<live, locals, pc, result, cleanupFailed, reported>>

Closed ==
  /\ index' = dIndex /\ data' = dData /\ pc' = "idle"
  /\ input' = NoValue /\ sequence' = 0 /\ latest' = 0 /\ copy' = NoCopy
  /\ UNCHANGED media

(* A slip: what the recheck found is not asked.                            *)
FinishUnchecked(closed) ==
  /\ pc \in {"failed", "complete"} /\ Closed
  /\ cleanupFailed' = ~closed
  /\ IF closed THEN result' = "Ok" /\ reported' = sequence
               ELSE result' = "Error" /\ UNCHANGED reported

Finish(closed) ==
  /\ pc \in {"failed", "complete"} /\ Closed
  /\ cleanupFailed' = ~closed
  /\ IF pc = "complete" /\ closed
     THEN result' = "Ok" /\ reported' = sequence
     ELSE result' = "Error" /\ UNCHANGED reported

PowerCut ==
  /\ Closed /\ result' = "None" /\ cleanupFailed' = FALSE
  /\ UNCHANGED reported

Next ==
  \/ \E v \in Values : BeginAppend(v)
  \/ Refuse
  \/ OpenError
  \/ WriteData
  \/ DataSync
  \/ VerifyData
  \/ WriteIndex
  \/ IndexSync
  \/ VerifyIndex
  \/ Reopen
  \/ Recheck
  \/ IoError
  \/ TornWrite
  \/ Checkpoint
  \/ \E closed \in BOOLEAN : Finish(closed)
  \/ PowerCut

Spec == Init /\ [][Next]_vars

-----------------------------------------------------------------------------
(* Types, and an append is under way exactly while it has a page to write. *)
TypeOK ==
  /\ index \in [Copies -> IndexSet] /\ dIndex \in [Copies -> IndexSet]
  /\ data \in [0 .. DataPages - 1 -> DataSet]
  /\ dData \in [0 .. DataPages - 1 -> DataSet]
  /\ pc \in {"idle", "dataWrite", "dataSync", "dataVerify", "indexWrite",
             "indexSync", "indexVerify", "reopen", "recheck", "failed", "complete"}
  /\ pc = "idle" <=> input = NoValue
  /\ input \in Values \cup {NoValue}
  /\ sequence \in 0 .. MaxSequence /\ latest \in 0 .. MaxSequence
  /\ copy \in Copies \cup {NoCopy}
  /\ result \in {"None", "Ok", "Empty", "Corrupt", "Overflow", "Error"}
  /\ cleanupFailed \in BOOLEAN /\ reported \in 0 .. MaxSequence

(* Whatever a boot takes for the log is there to the last page of its      *)
(* window: the spare is never a page the index still promises (oldest,     *)
(* address, append, publish).                                              *)
WindowReadable ==
  LoadCode(dIndex, dData) = "Ok" =>
    \A s \in Window(LoadLatest(dIndex, dData)) : Holds(dData, s)

(* What was reported as done stays the log's, through errors, torn pages   *)
(* and power cuts, and the log takes further pages (publish alternates the *)
(* index pages; load adopts the one page written ahead of them).           *)
ReportedNeverLost ==
  reported # 0 =>
    /\ StoredLatest >= reported
    /\ StoredLatest # MaxSequence => ~SpareCorrupt(dData, StoredLatest)

(* The log implements the promise made to the system log.                  *)
Log == INSTANCE AppendLog
         WITH log <- Stored, request <- input,
              sequence <- sequence, reported <- reported
ImplementsLog == Log!Spec
=============================================================================

----------------------------- MODULE GaugeTrace -----------------------------
(* The trace of a discharge (gauge_discharge_trace.cpp): rows sampled from  *)
(* the gauge while armed, compacted when full, saved when low or on command *)
(* in NVS or, once a confirmed format has migrated it, in the NAND record   *)
(* store (gauge_trace_nand_backend.cpp).  The console asks; one service     *)
(* samples and saves; a worker formats; a reset may come at any step.  The  *)
(* updater's and the battery's admission, allocation and the pace of the    *)
(* attempts only refuse or delay.  A row is told apart by its boot and by   *)
(* the anchor it is; ties of compaction, which time breaks, are arbitrary.  *)
EXTENDS Naturals, Sequences, SequencesExt

CONSTANTS Rows,     \* Capacity of the trace: 64
          Anchors,  \* first observations kept beside the first row, fewer than half the rows
          Lives,    \* bound on boots
          Samples   \* bound on rows appended

\* the priorities of the first observations kept: three of the six
AnchorRank == [first |-> 9, edv |-> 8, zero |-> 7, none |-> 0]

VARIABLES
  m,       \* Model; ghost: the anchors it was ever given
  cmd,     \* pending
  st,      \* ready, corrupt
  policy,  \* policy of this boot
  fmt,     \* formatWorker: its phase, its snapshot, and formatAttempted
  flash,   \* the policy byte, and the record in NVS and in NAND
  acked,   \* ghost: the rows last reported saved, or that an attempt may have changed them
  life, samples

traceVars == <<m, cmd, st, policy, fmt, flash, acked, life, samples>>

Blank == [rows |-> <<>>, armed |-> FALSE, low |-> FALSE, fin |-> FALSE, chg |-> 0,
          dirty |-> FALSE, boot |-> 1, given |-> {}]
Absent == [ok |-> FALSE, rows |-> <<>>, armed |-> FALSE, low |-> FALSE, fin |-> FALSE, boot |-> 1, given |-> {}]
\* encode
Record(x) == [ok |-> TRUE, rows |-> x.rows, armed |-> x.armed, low |-> x.low, fin |-> x.fin,
              boot |-> x.boot, given |-> x.given]
NoFormat == [pc |-> "none", snap |-> Absent, tried |-> FALSE]

Init ==
  /\ m = Blank /\ cmd = "none" /\ st = [ready |-> FALSE, corrupt |-> FALSE]
  /\ policy = "unknown" /\ fmt = NoFormat /\ flash = [policy |-> 0, nvs |-> Absent, nand |-> Absent]
  /\ acked = [sure |-> FALSE, rows |-> <<>>] /\ life = 1 /\ samples = 0

Reset ==
  /\ life < Lives /\ life' = life + 1 /\ UNCHANGED <<flash, acked, samples>>
  /\ m' = Blank /\ cmd' = "none" /\ st' = [ready |-> FALSE, corrupt |-> FALSE]
  /\ policy' = "unknown" /\ fmt' = NoFormat

(***************************************************************************)
(* Rows.                                                                   *)
(***************************************************************************)
Rank(rows, i) ==
  IF rows[i].anchor # "none" THEN AnchorRank[rows[i].anchor]
  ELSE IF \E j \in {i - 1, i + 1} \cap DOMAIN rows : rows[j].boot # rows[i].boot THEN 2
  ELSE IF i < Len(rows) /\ rows[i + 1].anchor # "none" THEN 1 ELSE 0

Half == 2 .. (Rows \div 2) + 1
(* A slip: the old half loses its oldest row. *)
Oldest(rows) == {2}
\* compactOldest: of the old half the least, and of those any
Old(rows) == {i \in Half : \A j \in Half : Rank(rows, i) <= Rank(rows, j)}
Compacted(rows) == IF Len(rows) < Rows THEN {rows} ELSE {RemoveAt(rows, i) : i \in Old(rows)}

\* append; charging twice in a row after low ends the trace
NextAnchors == IF m.rows = <<>> THEN {"first"} ELSE {"none"} \cup (Anchors \ m.given)
Appended(anchor, flow) ==
  LET saw == m.low \/ flow = "deep"
      chg == IF saw /\ flow = "charge" THEN m.chg + 1 ELSE 0
      done == chg = 2
  IN {[m EXCEPT !.rows = Append(r, [boot |-> m.boot, life |-> life, anchor |-> anchor]),
                !.low = saw, !.chg = IF done THEN 0 ELSE chg, !.armed = ~done, !.fin = done,
                !.dirty = TRUE, !.given = @ \cup ({anchor} \ {"none"})] : r \in Compacted(m.rows)}

(***************************************************************************)
(* Storage.                                                                *)
(***************************************************************************)
\* readPolicy: a byte that cannot be read, or that says a migration began, fails for this boot
Policies ==
  IF policy # "unknown" THEN {policy}
  ELSE {"fault"} \cup {CASE flash.policy = 0 -> "nvs" [] flash.policy = 1 -> "pending" [] OTHER -> "nand"}

\* load: a refusal that may pass leaves the trace not ready
Load ==
  /\ ~st.ready /\ fmt.pc = "none" /\ UNCHANGED <<cmd, fmt, flash, acked, life, samples>>
  /\ \E p \in Policies :
       /\ policy' = p
       /\ LET f == IF p = "nand" THEN flash.nand ELSE flash.nvs IN
          \/ /\ p \in {"nvs", "nand"} /\ (f.ok \/ p = "nvs")
             /\ m' = [Blank EXCEPT !.rows = f.rows, !.armed = f.armed, !.low = f.low, !.fin = f.fin,
                                   !.boot = f.boot + 1, !.given = f.given]
             /\ st' = [st EXCEPT !.ready = TRUE]
          \/ p = "nand" /\ UNCHANGED <<m, st>>
          \/ st' = [st EXCEPT !.ready = TRUE, !.corrupt = TRUE] /\ UNCHANGED m

\* the backend serves the store its policy names, not while the worker is busy
Selected == policy \in {"nvs", "nand"} /\ fmt.pc = "none"

\* save: reported only when it reads back; otherwise it may or may not be there
Save(x, ok) ==
  \/ Selected /\ flash' = [flash EXCEPT ![policy] = Record(x)] /\ acked' = [sure |-> ok, rows |-> IF ok THEN x.rows ELSE <<>>]
  \/ ~ok /\ UNCHANGED <<flash, acked>>

(***************************************************************************)
(* The console.                                                            *)
(***************************************************************************)
Allowed(c) ==
  CASE c = "arm" -> ~st.corrupt /\ m.rows = <<>> /\ ~m.armed
    [] c = "stop" -> m.armed
    [] c = "resume" -> ~st.corrupt /\ ~m.armed /\ m.rows # <<>> /\ ~m.fin
    [] c = "checkpoint" -> ~st.corrupt /\ ~m.armed /\ m.rows # <<>>
    [] OTHER -> TRUE
Request(c) ==
  /\ st.ready /\ cmd = "none" /\ fmt.pc = "none" /\ Allowed(c) /\ cmd' = c
  /\ UNCHANGED <<m, st, policy, fmt, flash, acked, life, samples>>

\* nandFormatConfirm and beginFormat, once a boot
BeginFormat ==
  /\ st.ready /\ ~st.corrupt /\ cmd = "none" /\ ~m.armed /\ m.rows # <<>>
  /\ fmt.pc = "none" /\ ~fmt.tried /\ policy = "nvs"
  /\ \E pc \in {"queued", "none"} : fmt' = [pc |-> pc, snap |-> IF pc = "none" THEN Absent ELSE Record(m), tried |-> TRUE]
  /\ UNCHANGED <<m, cmd, st, policy, flash, acked, life, samples>>

(***************************************************************************)
(* The service.                                                            *)
(***************************************************************************)
Commanded(x) ==
  CASE cmd \in {"arm", "resume"} -> [x EXCEPT !.armed = TRUE]
    [] cmd = "stop" -> [x EXCEPT !.armed = FALSE]
    [] cmd = "clear" -> [Blank EXCEPT !.boot = x.boot]
    [] OTHER -> x

\* a sample, when one is due, then the command, or a checkpoint of a low or ended trace; the
\* service looks at the worker before it has the lock, so it may find it formatting
Samplings ==
  IF st.corrupt \/ ~m.armed \/ samples = Samples THEN {m}
  ELSE {m} \cup UNION {Appended(a, flow) : a \in NextAnchors, flow \in {"deep", "charge", "other"}}

Service ==
  /\ st.ready /\ UNCHANGED <<policy, fmt, life>>
  /\ \E x \in Samplings :
       /\ samples' = samples + (IF x = m THEN 0 ELSE 1)
       /\ \/ m' = x /\ UNCHANGED <<cmd, st, flash, acked>>
          \/ /\ cmd # "none" /\ Save(Commanded(x), TRUE) /\ cmd' = "none"
             /\ m' = [Commanded(x) EXCEPT !.dirty = FALSE] /\ st' = [st EXCEPT !.corrupt = FALSE]
          \/ /\ cmd = "none" /\ ~st.corrupt /\ x.dirty /\ Save(x, TRUE) /\ UNCHANGED <<cmd, st>>
             /\ m' = [x EXCEPT !.dirty = FALSE]
          \/ /\ cmd # "none" \/ (~st.corrupt /\ x.dirty)
             /\ Save(IF cmd = "none" THEN x ELSE Commanded(x), FALSE)
             /\ m' = x /\ UNCHANGED <<cmd, st>>

(***************************************************************************)
(* The worker: it holds the mutex of the backend to its end.               *)
(***************************************************************************)
\* writePolicy: one that does not read back fails for this boot
WritePolicy(byte, name, next) ==
  \/ /\ flash' = [flash EXCEPT !.policy = byte] /\ policy' = name
     /\ fmt' = [fmt EXCEPT !.pc = next, !.snap = IF next = "none" THEN Absent ELSE @]
  \/ /\ flash' \in {flash, [flash EXCEPT !.policy = byte]} /\ policy' = "fault"
     /\ fmt' = [fmt EXCEPT !.pc = "none", !.snap = Absent]
Fail == fmt' = [fmt EXCEPT !.pc = "none", !.snap = Absent]

Format ==
  /\ UNCHANGED <<m, cmd, st, life, samples>>
  /\ \/ /\ fmt.pc = "queued" /\ UNCHANGED acked
        /\ \/ Fail /\ UNCHANGED <<policy, flash>>
           \/ policy = "nvs" /\ WritePolicy(1, "pending", "format")
     \/ /\ fmt.pc = "format" /\ UNCHANGED <<policy, acked>>
        /\ \/ fmt' = [fmt EXCEPT !.pc = "migrate"] /\ flash' = [flash EXCEPT !.nand = Absent]
           \/ Fail /\ flash' \in {flash, [flash EXCEPT !.nand = Absent]}
     \/ /\ fmt.pc = "migrate" /\ UNCHANGED <<policy, acked>>
        /\ \/ fmt' = [fmt EXCEPT !.pc = "activate"] /\ flash' = [flash EXCEPT !.nand = fmt.snap]
           \/ Fail /\ flash' \in {flash, [flash EXCEPT !.nand = fmt.snap]}
     \/ /\ fmt.pc = "activate" /\ WritePolicy(2, "nand", "none")
        /\ acked' = IF flash'.policy = 2 THEN [sure |-> TRUE, rows |-> fmt.snap.rows] ELSE acked

Next ==
  \/ Reset \/ Load \/ BeginFormat \/ Service \/ Format
  \/ \E c \in {"arm", "stop", "resume", "checkpoint", "clear"} : Request(c)

Spec == Init /\ [][Next]_traceVars

(***************************************************************************)
(* Properties.                                                             *)
(***************************************************************************)
TypeOK == life \in 1 .. Lives /\ samples \in 0 .. Samples /\ Len(m.rows) <= Rows /\ flash.policy \in 0 .. 2

\* compaction never loses an anchor, and never reorders
AnchorsKept == \A a \in m.given : \E i \in DOMAIN m.rows : m.rows[i].anchor = a

\* a number names one boot, also when the boots between left nothing
BootsTold ==
  \A i, j \in DOMAIN m.rows :
    /\ m.rows[i].boot = m.rows[j].boot => m.rows[i].life = m.rows[j].life
    /\ i < j => m.rows[i].boot <= m.rows[j].boot

\* what a migration that began must not touch, or the store it ended in
Durable == IF flash.policy = 2 THEN flash.nand ELSE flash.nvs
ReportedKept == acked.sure => Durable.ok /\ Durable.rows = acked.rows
CleanIsSaved == (st.ready /\ ~st.corrupt /\ ~m.dirty /\ cmd = "none") => Durable.rows = m.rows

(* The trace keeps its anchors and its boots apart, and what it reports as  *)
(* saved stays so through failed saves, migrations and resets.             *)
TraceKept == TypeOK /\ AnchorsKept /\ BootsTold /\ ReportedKept /\ CleanIsSaved
=============================================================================

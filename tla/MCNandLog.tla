------------------------------ MODULE MCNandLog ------------------------------
(* TLC's instances of the two users of the NAND beside the record store: a  *)
(* ring of pages written round more than once, and the trace of a discharge.*)
(* `part' says which of them runs, and the other stays as it began.         *)
EXTENDS NandLog, FiniteSets

CONSTANTS Rows, Anchors, Lives, Samples

(* The code keeps five first observations beside the first row, of 64 rows: *)
(* the half a compaction takes a row from always has one that is none.      *)
ASSUME TraceConstants ==
  /\ Rows \in Nat /\ Lives \in Nat \ {0} /\ Samples \in Nat
  /\ Anchors \subseteq {"edv", "zero"} /\ IsFiniteSet(Anchors) /\ Cardinality(Anchors) < Rows \div 2

VARIABLES part, m, cmd, st, policy, fmt, flash, acked, life, samples

traceVars == <<m, cmd, st, policy, fmt, flash, acked, life, samples>>

Trace == INSTANCE GaugeTrace

NandInit == part \in {"log", "trace"} /\ Init /\ Trace!Init

NandNext ==
  /\ UNCHANGED part
  /\ \/ part = "log" /\ Next /\ UNCHANGED traceVars
     \/ part = "trace" /\ Trace!Next /\ UNCHANGED vars

NandSpec == NandInit /\ [][NandNext]_<<part, vars, traceVars>>

(* What the trace reports as saved stays so, and it keeps its anchors.      *)
TraceKept == Trace!TraceKept
=============================================================================

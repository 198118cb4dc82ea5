---------------------------- MODULE AtomicRecord ----------------------------
(***************************************************************************)
(* What a client of MosaicoNandStore is promised: one record that a save   *)
(* replaces as a whole or leaves alone, whatever fails or loses power on   *)
(* the way, and that holds the new value before the save reports success.  *)
(***************************************************************************)
CONSTANTS Values,   \* the payloads a client may save
          NoValue   \* what an empty store holds

VARIABLES stored,   \* the value a fresh boot would load
          busy,     \* a request is being carried out
          request,  \* its value; NoValue asks for an empty store (format)
          acked     \* the last request was reported successful

vars == <<stored, busy, request, acked>>

Init == stored = NoValue /\ busy = FALSE /\ request = NoValue /\ acked = FALSE

Begin(v) == /\ ~busy
            /\ busy' = TRUE /\ request' = v /\ acked' = FALSE
            /\ UNCHANGED stored

(* The one instant at which the record changes.                            *)
Commit == /\ busy
          /\ stored' = request
          /\ UNCHANGED <<busy, request, acked>>

(* Success is reported only for a value that is stored.                    *)
Succeed == /\ busy /\ stored = request
           /\ busy' = FALSE /\ request' = NoValue /\ acked' = TRUE
           /\ UNCHANGED stored

(* A refusal, an error or a power cut leaves the record in either state.   *)
Fail == /\ busy' = FALSE /\ request' = NoValue /\ acked' = FALSE
        /\ UNCHANGED stored

Next == \/ \E v \in Values \cup {NoValue} : Begin(v)
        \/ Commit
        \/ Succeed
        \/ Fail

Spec == Init /\ [][Next]_vars
=============================================================================

----------------------------- MODULE AppendLog ------------------------------
(***************************************************************************)
(* What the page log on the NAND promises its only writer, the system log  *)
(* (main/host/mosaico_system_log.cpp): pages are appended one at a time    *)
(* under consecutive sequence numbers, the last MaxPages of them can be    *)
(* read back unchanged, and a page whose append was reported as done is    *)
(* in the log whatever happens next, until newer ones replace it.  An      *)
(* append that reports an error, or is cut off, may still have happened.   *)
(***************************************************************************)
EXTENDS Naturals

CONSTANTS Values, NoValue, MaxPages

VARIABLES log,        \* pages by sequence number, as a boot would read them
          request,    \* the page being appended, or NoValue
          sequence,   \* the number it is to have
          reported    \* the last number an append reported as done

vars == <<log, request, sequence, reported>>

Latest(l) == IF l = <<>> THEN 0 ELSE CHOOSE s \in DOMAIN l : \A r \in DOMAIN l : r <= s

Appended(l, v) ==
  LET next == Latest(l) + 1
  IN [s \in {r \in DOMAIN l \cup {next} : r + MaxPages > next} |->
        IF s = next THEN v ELSE l[s]]

Init == log = <<>> /\ request = NoValue /\ sequence = 0 /\ reported = 0

Begin(v) ==
  /\ request = NoValue /\ request' = v /\ sequence' = Latest(log) + 1
  /\ UNCHANGED <<log, reported>>

Commit ==
  /\ request # NoValue /\ Latest(log) + 1 = sequence
  /\ log' = Appended(log, request)
  /\ UNCHANGED <<request, sequence, reported>>

Done ==
  /\ request # NoValue /\ Latest(log) = sequence
  /\ request' = NoValue /\ sequence' = 0 /\ reported' = sequence
  /\ UNCHANGED log

Undone ==
  /\ request # NoValue /\ request' = NoValue /\ sequence' = 0
  /\ UNCHANGED <<log, reported>>

(* Only the very first page can go again, and only while no append has     *)
(* ever been reported as done.                                             *)
Lose ==
  /\ request # NoValue /\ reported = 0 /\ Latest(log) <= 1
  /\ log' = <<>>
  /\ UNCHANGED <<request, sequence, reported>>

Next == (\E v \in Values : Begin(v)) \/ Commit \/ Done \/ Undone \/ Lose

Spec == Init /\ [][Next]_vars
=============================================================================

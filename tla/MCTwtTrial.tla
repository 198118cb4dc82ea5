----------------------------- MODULE MCTwtTrial -----------------------------
(* TLC's instance of TwtTrial with Wi-Fi scans that are never done.        *)
EXTENDS TwtTrial

NoProbes == {}
=============================================================================

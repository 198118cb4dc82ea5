----------------------------- MODULE MCBleLink -----------------------------
(* TLC's instance of BleLink: a host that connects twice, or once and is   *)
(* not got rid of.                                                         *)
EXTENDS BleLink
=============================================================================

------------------------ MODULE MCPowerbankKeepalive ------------------------
(* One schedule of a few ticks for PowerbankKeepalive.                     *)
EXTENDS PowerbankKeepalive
=============================================================================

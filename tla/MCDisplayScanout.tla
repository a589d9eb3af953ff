-------------------------- MODULE MCDisplayScanout --------------------------
(* Small instances of DisplayScanout for TLC. *)
EXTENDS DisplayScanout

CONSTANTS w1, w2
=============================================================================

----------------------------- MODULE MCNetOnline -----------------------------
(* Up to two commands by hand, then the script with two attempts.            *)
EXTENDS NetOnline
=============================================================================

----------------------------- MODULE MCBootGate -----------------------------
(* Every gate, on two boots, with one kernel message or wrong result. *)
EXTENDS BootGate

AllGates == {"m2", "m3", "m4", "m5", "m6", "m6-no-card", "m6-network", "m6-online", "m6-combined",
             "m7-baseline", "m7", "m8"}
=============================================================================

--------------------------- MODULE MCDisplayGate ---------------------------
(* All modes of the display gate, with short delays. *)
EXTENDS DisplayGate

AllModes == {"preflight", "touch", "soak", "stress", "disconnect", "snapshot"}
=============================================================================

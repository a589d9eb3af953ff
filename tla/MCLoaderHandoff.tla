--------------------------- MODULE MCLoaderHandoff ---------------------------
(* Three boots; a cache line of two units, four units from the kernel's base  *)
(* to the display pool.                                                       *)
EXTENDS LoaderHandoff
=============================================================================

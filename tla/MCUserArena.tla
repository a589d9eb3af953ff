----------------------------- MODULE MCUserArena -----------------------------
(* The user arenas of two mms on a pool of four pages.                        *)
EXTENDS UserArena
=============================================================================

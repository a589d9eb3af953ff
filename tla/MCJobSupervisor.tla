--------------------------- MODULE MCJobSupervisor ---------------------------
(* Small instances of the job supervisor: supervisors are interchangeable.   *)
EXTENDS JobSupervisor, TLC

Symmetry == Permutations(Sup)
=============================================================================

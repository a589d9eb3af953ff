------------------------------ MODULE MCJobRun ------------------------------
(* One supervisor, a job of two processes, and eight descriptors: the three  *)
(* standard ones, the lock and two pipes.                                    *)
EXTENDS JobRun
=============================================================================

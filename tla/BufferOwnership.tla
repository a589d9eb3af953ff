--------------------------- MODULE BufferOwnership ---------------------------
(***************************************************************************)
(* What the driver's three framebuffers promise, as the repository's own   *)
(* reference states it: OwnershipModel of m9-2-display-contract-test.py.   *)
(* Only the roles are kept; its counters count these steps.                *)
(***************************************************************************)
EXTENDS Integers

VARIABLES front, render, queued, active, faulted

vars == <<front, render, queued, active, faulted>>

Index == 0..2
None  == -1

Init == front = 0 /\ render = 1 /\ queued = None /\ active \in BOOLEAN /\ faulted = FALSE

\* next(index for index in range(3) if ...)
Other(a, b) == CHOOSE i \in Index \ {a, b} : \A j \in Index \ {a, b} : i <= j

queue_render ==
  /\ ~faulted
  /\ queued' = render
  /\ render' = IF active THEN Other(front, render) ELSE render
  /\ UNCHANGED <<front, active, faulted>>

start ==
  /\ ~active /\ active' = TRUE
  /\ front' = (IF queued # None THEN queued ELSE front)
  /\ queued' = None
  /\ render' = IF render = front' THEN Other(front', front') ELSE render
  /\ UNCHANGED faulted

\* A rearm that succeeds; one that fails, or comes after a fault, leaves the roles alone.
complete ==
  /\ active /\ ~faulted /\ queued # None
  /\ front' = queued /\ queued' = None
  /\ UNCHANGED <<render, active, faulted>>

\* The tests set these two attributes themselves.
Deactivate == active' = FALSE /\ UNCHANGED <<front, render, queued, faulted>>
Fault      == faulted' = TRUE /\ UNCHANGED <<front, render, queued, active>>

Next == queue_render \/ start \/ complete \/ Deactivate \/ Fault

Spec == Init /\ [][Next]_vars

assert_valid ==
  /\ front \in Index /\ render \in Index /\ queued \in Index \cup {None}
  /\ active => front # render
  /\ queued # None => queued # front /\ (active => queued # render)
=============================================================================

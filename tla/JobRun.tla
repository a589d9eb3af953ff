-------------------------------- MODULE JobRun --------------------------------
(***************************************************************************)
(* A job from end to end: micronux-run spawns micronux-job-exec as the     *)
(* leader of the job (JobSupervisor), which puts the policy on itself and  *)
(* becomes the program (JobExec) while the supervisor already monitors it. *)
(* The helper can also be invoked by hand, with any arguments.             *)
(***************************************************************************)
EXTENDS JobSupervisor, Sequences

CONSTANTS FdMax,     \* as in JobExec
          OpenSets   \* the sets of descriptors micronux-run may be started with

ASSUME FdAssumption == FdMax \in 5..1023

VARIABLES
  hand,    \* the helper is invoked by hand and there is no supervisor
  at, mode, why, out, err, given, fds, limits, uid, groups, caps, bounding, locked, admits   \* of JobExec

helper == <<hand, at, mode, why, out, err, given, fds, limits, uid, groups, caps, bounding, locked, admits>>
all    == <<vars, helper>>

Helper == INSTANCE JobExec

\* The descriptors main and run_job get, lowest free first: the lock (closed on
\* exec) and two pipes, of which the helper is given the write ends.
FreeFds == {d \in Helper!Fd : fds[d] \in {"closed", "out", "err"}}
Nth(n) == CHOOSE d \in FreeFds : Cardinality({e \in FreeFds : e <= d}) = n
PassedDown ==
  /\ {d \in Helper!Fd : fds[d] = "inherited"} \in OpenSets
  /\ uid = "root" /\ Cardinality(FreeFds) >= 5 /\ out = Nth(3) /\ err = Nth(5)

RunInit ==
  /\ Init /\ Helper!Init
  /\ hand \in BOOLEAN
  /\ ~hand => PassedDown

\* A step of the helper; when it gives up it ends, with status 126.
HelperStep(s) ==
  /\ Running(s, "leader") /\ Helper!Next /\ UNCHANGED hand
  /\ IF mode' = "failed" THEN End(s, "leader", "exit") ELSE UNCHANGED vars

\* Once its descriptors are in place the helper has a line for an error, and one
\* about the policy just before it executes the program.
Message(f) ==
  IF f = "err" THEN at > 1 ELSE at = Len(Helper!Steps)

\* Only the program forks, closes streams or exits; a signal ends either.
ProgramStep(s) ==
  /\ \/ \E p \in Process, f \in Stream :
          \/ (p = "leader" => mode = "program" \/ Message(f)) /\ Write(s, p, f)
          \/ mode = "program" /\ CloseStream(s, p, f)
     \/ \E p \in Process : \/ mode = "program" /\ Leave(s, p)
                           \/ Running(s, p) /\ End(s, p, "signal")
                           \/ DieKilled(s, p)
     \/ \E c \in Child : mode = "program" /\ Fork(s, c)
  /\ UNCHANGED helper

Monitor(s) == Step(s) /\ UNCHANGED helper
Killed(s)  == Interrupt(s) /\ UNCHANGED helper
Time       == ~hand /\ Tick /\ UNCHANGED helper
ByHand     == hand /\ Helper!Next /\ UNCHANGED <<hand, vars>>

RunNext == ByHand \/ Time \/ \E s \in Sup : ~hand /\ (Monitor(s) \/ HelperStep(s) \/ ProgramStep(s) \/ Killed(s))

\* The fairness of JobSupervisor; neither the helper nor the program need do anything.
RunSpec ==
  /\ RunInit /\ [][RunNext]_all /\ WF_all(Time)
  /\ \A s \in Sup : /\ WF_all(~hand /\ Monitor(s))
                    /\ SF_all(Poll(s) /\ UNCHANGED helper)
                    /\ \A p \in Process : WF_all(DieKilled(s, p) /\ UNCHANGED helper)
-----------------------------------------------------------------------------
\* The job's program starts only with the whole policy on it, whatever descriptors
\* micronux-run was started with: the job's identity, no capability and none to
\* gain, every limit, the filter, and the three standard descriptors alone.  When
\* not all three were open, redirect_standard_descriptors closes the lowest of the
\* others again, and the program starts without that one.  The helper never fails
\* because an earlier call of its own took a privilege or a system call that it
\* still needs (micronux-job-exec.c, main).
ProgramContained == Helper!ProgramContained
=============================================================================

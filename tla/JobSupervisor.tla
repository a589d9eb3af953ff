---------------------------- MODULE JobSupervisor ----------------------------
(***************************************************************************)
(* micronux-run, the foreground job supervisor (micronux-run.c): the job   *)
(* lock, the spawn of the policy helper in a process group of its own, and *)
(* the monitor loop that forwards output, enforces the wall and the output *)
(* limit, and reaps the job.                                               *)
(*                                                                         *)
(* Each supervisor s starts one job, a leader and what the leader forks.   *)
(* The job's processes run between any two steps of the supervisor; they   *)
(* stay in the leader's process group, because the filter of               *)
(* micronux-job-exec admits neither setpgid nor setsid.                    *)
(***************************************************************************)
EXTENDS Integers, FiniteSets

CONSTANTS Sup,          \* invocations of micronux-run
          Free,         \* the lock has no holder
          Child,        \* processes a leader may fork
          WallTicks,    \* MICRONUX_JOB_WALL_MS
          OutputLimit,  \* MICRONUX_JOB_OUTPUT_BYTES
          ReadSize,     \* sizeof(buffer) in forward_output
          PipeSize,     \* what a pipe holds
          Quiet,        \* -q
          SigchldIgnored  \* whether it inherits SIGCHLD as ignored

ASSUME JobAssumption ==
  /\ Free \notin Sup /\ "leader" \notin Child /\ {Quiet, SigchldIgnored} \subseteq BOOLEAN
  /\ {WallTicks, OutputLimit, ReadSize, PipeSize} \subseteq Nat \ {0}

Stream  == {"out", "err"}
Process == {"leader"} \cup Child

VARIABLES
  lock,       \* who holds the flock
  pc,         \* where each supervisor is
  proc,       \* state of each job's processes
  holds,      \* the pipe write ends each process has open
  pipe,       \* bytes in each pipe
  ended,      \* how the leader ended: the status waitpid will give
  clock,      \* now - started, up to the wall limit
  revents,    \* the streams poll reported
  open,       \* stdout_open, stderr_open
  total,      \* *total, counted up to one above the limit
  forwarded,  \* bytes written to the supervisor's stdout
  broken,     \* a write to stdout has failed
  childDone, groupKilled, policy,   \* the loop's flags; policy_reason
  result      \* what the supervisor reports

monitor == <<clock, revents, open, total, forwarded, broken, childDone, groupKilled, policy>>
job     == <<proc, holds, pipe, ended>>
vars    == <<lock, pc, job, monitor, result>>

LesserOf(a, b) == IF a <= b THEN a ELSE b

Init ==
  /\ lock = Free
  /\ pc = [s \in Sup |-> "lock"]
  /\ proc = [s \in Sup |-> [p \in Process |-> "none"]]
  /\ holds = [s \in Sup |-> [p \in Process |-> {}]]
  /\ pipe = [s \in Sup |-> [f \in Stream |-> 0]]
  /\ ended = [s \in Sup |-> "none"]
  /\ clock = [s \in Sup |-> 0]
  /\ revents = [s \in Sup |-> {}]
  /\ open = [s \in Sup |-> Stream]
  /\ total = [s \in Sup |-> 0]
  /\ forwarded = [s \in Sup |-> 0]
  /\ broken = [s \in Sup |-> FALSE]
  /\ childDone = [s \in Sup |-> FALSE]
  /\ groupKilled = [s \in Sup |-> FALSE]
  /\ policy = [s \in Sup |-> "none"]
  /\ result = [s \in Sup |-> "none"]

Goto(s, to) == pc' = [pc EXCEPT ![s] = to]
-----------------------------------------------------------------------------
(* The job *)

Running(s, p) == proc[s][p] = "run"

Alive(s) == {p \in Process : Running(s, p)}

\* A process that has a write end open and is not dead keeps the pipe from its end.
Writers(s, f) == {p \in Process : proc[s][p] \in {"run", "killed"} /\ f \in holds[s][p]}

\* The supervisor's read end closes when it is killed; writers then get SIGPIPE.
Write(s, p, f) ==
  /\ Running(s, p) /\ f \in holds[s][p] /\ pipe[s][f] < PipeSize
  /\ pc[s] \notin {"dead", "done"}
  /\ \E n \in 1..(PipeSize - pipe[s][f]) : pipe' = [pipe EXCEPT ![s][f] = @ + n]
  /\ UNCHANGED <<lock, pc, proc, holds, ended, monitor, result>>

CloseStream(s, p, f) ==
  /\ Running(s, p) /\ f \in holds[s][p]
  /\ holds' = [holds EXCEPT ![s][p] = @ \ {f}]
  /\ UNCHANGED <<lock, pc, proc, pipe, ended, monitor, result>>

Fork(s, c) ==
  /\ Running(s, "leader") /\ proc[s][c] = "none"
  /\ proc' = [proc EXCEPT ![s][c] = "run"]
  /\ holds' = [holds EXCEPT ![s][c] = holds[s]["leader"]]
  /\ UNCHANGED <<lock, pc, pipe, ended, monitor, result>>

\* A process ends; the leader stays a zombie until it is waited for.
End(s, p, how) ==
  /\ proc' = [proc EXCEPT ![s][p] = IF p = "leader" THEN "zombie" ELSE "gone"]
  /\ holds' = [holds EXCEPT ![s][p] = {}]
  /\ ended' = IF p = "leader" THEN [ended EXCEPT ![s] = how] ELSE ended
  /\ UNCHANGED <<lock, pc, pipe, monitor, result>>

\* exit, or a signal of its own (a fault, RLIMIT_CPU).
Leave(s, p) == Running(s, p) /\ \E how \in {"exit", "signal"} : End(s, p, how)

\* The SIGKILL of the supervisor takes effect.
DieKilled(s, p) == proc[s][p] = "killed" /\ End(s, p, "killed")

Tick ==
  /\ clock' = [s \in Sup |-> IF pc[s] \in {"lock", "spawn", "done", "dead"} \/ clock[s] = WallTicks
                             THEN clock[s] ELSE clock[s] + 1]
  /\ UNCHANGED <<lock, pc, job, revents, open, total, forwarded, broken, childDone, groupKilled,
                 policy, result>>
-----------------------------------------------------------------------------
(* The supervisor *)

\* flock(LOCK_EX | LOCK_NB)
TryLock(s) ==
  /\ pc[s] = "lock"
  /\ IF lock = Free
     THEN lock' = s /\ Goto(s, "spawn") /\ UNCHANGED result
     ELSE Goto(s, "done") /\ result' = [result EXCEPT ![s] = "busy"] /\ UNCHANGED lock
  /\ UNCHANGED <<job, monitor>>

\* run_job up to posix_spawn.  The target may be refused and any call may fail:
\* then nothing runs and both pipes are closed.
Spawn(s) ==
  /\ pc[s] = "spawn"
  /\ Goto(s, "top")
  /\ proc' = [proc EXCEPT ![s]["leader"] = "run"]
  /\ holds' = [holds EXCEPT ![s]["leader"] = Stream]
  /\ UNCHANGED <<lock, pipe, ended, monitor, result>>

SpawnFails(s) ==
  /\ pc[s] = "spawn"
  /\ Goto(s, "unlock")
  /\ result' = [result EXCEPT ![s] = "launch"]
  /\ UNCHANGED <<lock, job, monitor>>

\* kill_job_group: SIGKILL to whatever of the group still runs.
KillGroup(s) ==
  /\ proc' = [proc EXCEPT ![s] = [p \in Process |-> IF @[p] = "run" THEN "killed" ELSE @[p]]]
  /\ groupKilled' = [groupKilled EXCEPT ![s] = TRUE]

KeepGroup == UNCHANGED <<proc, groupKilled>>

\* Fault: the wall limit is not looked at while output is open.
TopNoWall(s) ==
  LET why == IF ~childDone[s] /\ policy[s] = "none" /\ open[s] = {} /\ clock[s] >= WallTicks
             THEN "wall" ELSE policy[s]
  IN  /\ pc[s] = "top"
      /\ ~childDone[s] \/ open[s] # {}
      /\ policy' = [policy EXCEPT ![s] = why]
      /\ IF ~childDone[s] /\ why # "none" /\ ~groupKilled[s] THEN KillGroup(s) ELSE KeepGroup
      /\ Goto(s, "poll")
      /\ UNCHANGED <<lock, holds, pipe, ended, clock, revents, open, total, forwarded,
                     broken, childDone, result>>

\* The loop condition, the clock, the wall policy and the kill.
Top(s) ==
  LET why == IF ~childDone[s] /\ policy[s] = "none" /\ clock[s] >= WallTicks
             THEN "wall" ELSE policy[s]
  IN  /\ pc[s] = "top"
      /\ ~childDone[s] \/ open[s] # {}
      /\ policy' = [policy EXCEPT ![s] = why]
      /\ IF ~childDone[s] /\ why # "none" /\ ~groupKilled[s] THEN KillGroup(s) ELSE KeepGroup
      /\ Goto(s, "poll")
      /\ UNCHANGED <<lock, holds, pipe, ended, clock, revents, open, total, forwarded,
                     broken, childDone, result>>

\* poll(polls, 2, JOB_POLL_MS): data or hangup on the open streams.
Poll(s) ==
  /\ pc[s] = "poll"
  /\ revents' = [revents EXCEPT ![s] = {f \in open[s] : pipe[s][f] > 0 \/ Writers(s, f) = {}}]
  /\ Goto(s, "forward")
  /\ UNCHANGED <<lock, job, clock, open, total, forwarded, broken, childDone, groupKilled, policy, result>>

\* poll fails for another reason than EINTR: the job is killed and the loop goes
\* on with the events an earlier poll left.
PollFails(s) ==
  /\ pc[s] = "poll"
  /\ policy' = [policy EXCEPT ![s] = "monitor"]
  /\ KillGroup(s)
  /\ \E old \in SUBSET open[s] : revents' = [revents EXCEPT ![s] = old]
  /\ Goto(s, "forward")
  /\ UNCHANGED <<lock, holds, pipe, ended, clock, open, total, forwarded, broken, childDone, result>>

\* stdout before stderr
Current(s) == IF "out" \in revents[s] THEN "out" ELSE "err"

\* What of a read is within the limit.
Accepted(s, count) == LesserOf(count, IF total[s] < OutputLimit THEN OutputLimit - total[s] ELSE 0)

\* forward_output: the write of what is accepted, nothing with -q; a write that
\* fails, after some of it or at once, is given up.
WriteOut(s, accepted) ==
  \E written \in IF Quiet THEN {0} ELSE 0..accepted :
    /\ forwarded' = [forwarded EXCEPT ![s] = @ + written]
    /\ broken' = [broken EXCEPT ![s] = @ \/ (~Quiet /\ written < accepted)]

\* Fault: the limit counts standard output only.
ForwardErrUncounted(s) ==
  LET f == Current(s)
      count == LesserOf(pipe[s][f], ReadSize)
  IN  /\ pc[s] = "forward" /\ revents[s] # {} /\ pipe[s][f] > 0
      /\ pipe' = [pipe EXCEPT ![s][f] = @ - count]
      /\ WriteOut(s, Accepted(s, count))
      /\ total' = [total EXCEPT ![s] = IF f = "err" THEN @ ELSE LesserOf(@ + count, OutputLimit + 1)]
      /\ UNCHANGED <<lock, pc, proc, holds, ended, clock, revents, open, childDone, groupKilled,
                     policy, result>>

\* forward_output: one read that returns data.
ForwardData(s) ==
  LET f == Current(s)
      count == LesserOf(pipe[s][f], ReadSize)
  IN  /\ pc[s] = "forward" /\ revents[s] # {} /\ pipe[s][f] > 0
      /\ pipe' = [pipe EXCEPT ![s][f] = @ - count]
      /\ WriteOut(s, Accepted(s, count))
      /\ total' = [total EXCEPT ![s] = LesserOf(@ + count, OutputLimit + 1)]
      /\ UNCHANGED <<lock, pc, proc, holds, ended, clock, revents, open, childDone, groupKilled,
                     policy, result>>

\* forward_output returns: a read found nothing, the end of file or an error; in
\* the last two cases the stream is closed.
ForwardReturns(s, closes) ==
  LET f == Current(s) IN
  /\ pc[s] = "forward" /\ revents[s] # {}
  /\ open' = [open EXCEPT ![s] = IF closes THEN @ \ {f} ELSE @]
  /\ revents' = [revents EXCEPT ![s] = @ \ {f}]
  /\ UNCHANGED <<lock, pc, job, clock, total, forwarded, broken, childDone, groupKilled, policy, result>>

ForwardEmpty(s) == pipe[s][Current(s)] = 0 /\ ForwardReturns(s, Writers(s, Current(s)) = {})

ForwardFails(s) == ForwardReturns(s, TRUE)

\* Fault: the group is not killed when the leader ends by itself.
WaitLeaderOnly(s) ==
  LET gone == ~childDone[s] /\ proc[s]["leader"] = "zombie"
      reaped == gone /\ ~SigchldIgnored
  IN
  /\ pc[s] = "forward" /\ revents[s] = {}
  /\ policy' = [policy EXCEPT ![s] =
       CASE @ = "none" /\ ~childDone[s] /\ total[s] > OutputLimit -> "output"
         [] @ = "none" /\ total[s] <= OutputLimit /\ gone /\ SigchldIgnored -> "wait"
         [] OTHER -> @]
  /\ childDone' = [childDone EXCEPT ![s] = @ \/ gone]
  /\ proc' = [proc EXCEPT ![s] = [p \in Process |->
                CASE gone /\ p = "leader" -> "gone"
                  [] OTHER -> @[p]]]
  /\ groupKilled' = [groupKilled EXCEPT ![s] = @ \/ reaped]
  /\ Goto(s, "top")
  /\ UNCHANGED <<lock, holds, pipe, ended, clock, revents, open, total, forwarded, broken, result>>

\* The output policy and waitpid(WNOHANG).  A reaped leader takes its group along;
\* when the kernel reaps it (SIGCHLD ignored) waitpid fails and nothing is killed.
Wait(s) ==
  LET gone == ~childDone[s] /\ proc[s]["leader"] = "zombie"
      reaped == gone /\ ~SigchldIgnored
  IN
  /\ pc[s] = "forward" /\ revents[s] = {}
  /\ policy' = [policy EXCEPT ![s] =
       CASE @ = "none" /\ ~childDone[s] /\ total[s] > OutputLimit -> "output"
         [] @ = "none" /\ total[s] <= OutputLimit /\ gone /\ SigchldIgnored -> "wait"
         [] OTHER -> @]
  /\ childDone' = [childDone EXCEPT ![s] = @ \/ gone]
  /\ proc' = [proc EXCEPT ![s] = [p \in Process |->
                CASE gone /\ p = "leader" -> "gone"
                  [] reaped /\ ~groupKilled[s] /\ @[p] = "run" -> "killed"
                  [] OTHER -> @[p]]]
  /\ groupKilled' = [groupKilled EXCEPT ![s] = @ \/ reaped]
  /\ Goto(s, "top")
  /\ UNCHANGED <<lock, holds, pipe, ended, clock, revents, open, total, forwarded, broken, result>>

\* Fault: the status is reported before the policy.
ReportStatus(s) ==
  /\ pc[s] = "top" /\ childDone[s] /\ open[s] = {}
  /\ result' = [result EXCEPT ![s] = ended[s]]
  /\ Goto(s, "unlock")
  /\ UNCHANGED <<lock, job, monitor>>

\* The loop is over: the policy decides what is reported, then the status.
Report(s) ==
  /\ pc[s] = "top" /\ childDone[s] /\ open[s] = {}
  /\ result' = [result EXCEPT ![s] = IF policy[s] # "none" THEN policy[s] ELSE ended[s]]
  /\ Goto(s, "unlock")
  /\ UNCHANGED <<lock, job, monitor>>

\* The end of the process: its pipes and the monitor's variables are gone.
Vanish(s) ==
  /\ pipe' = [pipe EXCEPT ![s] = [f \in Stream |-> 0]]
  /\ clock' = [clock EXCEPT ![s] = 0]
  /\ open' = [open EXCEPT ![s] = {}] /\ revents' = [revents EXCEPT ![s] = {}]
  /\ total' = [total EXCEPT ![s] = 0] /\ forwarded' = [forwarded EXCEPT ![s] = 0]
  /\ broken' = [broken EXCEPT ![s] = FALSE]
  /\ childDone' = [childDone EXCEPT ![s] = FALSE]
  /\ groupKilled' = [groupKilled EXCEPT ![s] = FALSE]
  /\ policy' = [policy EXCEPT ![s] = "none"]
  /\ UNCHANGED <<proc, holds, ended, result>>

\* flock(LOCK_UN), close, exit
Unlock(s) ==
  /\ pc[s] = "unlock"
  /\ lock' = Free
  /\ Goto(s, "done")
  /\ Vanish(s)

\* A signal kills the supervisor, as SIGINT from its terminal does, and the
\* kernel drops its lock; the job is in another process group.
Interrupt(s) ==
  /\ pc[s] \notin {"lock", "done", "dead"}
  /\ lock' = IF lock = s THEN Free ELSE lock
  /\ Goto(s, "dead")
  /\ Vanish(s)
-----------------------------------------------------------------------------
Step(s) == \/ TryLock(s) \/ Spawn(s) \/ SpawnFails(s) \/ Top(s) \/ Poll(s) \/ PollFails(s)
           \/ ForwardData(s) \/ ForwardEmpty(s) \/ ForwardFails(s) \/ Wait(s) \/ Report(s)
           \/ Unlock(s)

JobStep(s) ==
  \/ \E p \in Process : \/ \E f \in Stream : Write(s, p, f) \/ CloseStream(s, p, f)
                        \/ Leave(s, p) \/ DieKilled(s, p)
  \/ \E c \in Child : Fork(s, c)

Next == Tick \/ \E s \in Sup : Step(s) \/ JobStep(s) \/ Interrupt(s)

Spec == Init /\ [][Next]_vars

(***************************************************************************)
(* The supervisor is scheduled and its stdout takes what it writes, time   *)
(* passes, a SIGKILL takes effect, and poll does not fail for ever; a job  *)
(* need never do anything, and may write as fast as it is read.            *)
(***************************************************************************)
FairSpec ==
  /\ Spec /\ WF_vars(Tick)
  /\ \A s \in Sup : /\ WF_vars(Step(s)) /\ SF_vars(Poll(s))
                    /\ \A p \in Process : WF_vars(DieKilled(s, p))
-----------------------------------------------------------------------------
(* Properties *)

\* Every variable has a value its declaration allows.
TypeOK ==
  /\ lock \in Sup \cup {Free}
  /\ \A s \in Sup :
       /\ pc[s] \in {"lock", "spawn", "top", "poll", "forward", "unlock", "done", "dead"}
       /\ \A p \in Process : /\ proc[s][p] \in {"none", "run", "killed", "zombie", "gone"}
                             /\ holds[s][p] \subseteq Stream
       /\ \A f \in Stream : pipe[s][f] \in 0..PipeSize
       /\ clock[s] \in 0..WallTicks /\ total[s] \in 0..(OutputLimit + 1)
       /\ forwarded[s] \in 0..OutputLimit /\ broken[s] \in BOOLEAN
       /\ open[s] \subseteq Stream /\ revents[s] \subseteq open[s]

\* When micronux-run ends by itself, no process of its job can run any more: each
\* has ended or has the group's SIGKILL pending, whatever the leader forked and
\* whichever way the monitor loop ended.
NoSurvivors == \A s \in Sup : pc[s] = "done" => Alive(s) = {}

\* One application job at a time: processes of two jobs never run together.
OneJobAtATime == \A s, t \in Sup : s # t => Alive(s) = {} \/ Alive(t) = {}

\* What is forwarded is exactly what was read, cut off at the output limit over
\* both streams together; nothing with -q, and never more when a write failed.
ForwardsUpToLimit ==
  /\ TypeOK
  /\ \A s \in Sup : /\ forwarded[s] <= LesserOf(total[s], OutputLimit)
                    /\ ~broken[s] => forwarded[s] = IF Quiet THEN 0 ELSE LesserOf(total[s], OutputLimit)

\* The report tells the truth: a policy is reported only when its limit was
\* reached, and the program's own exit or signal only when the supervisor's
\* SIGKILL was not what ended it, although both race.
ReportTruthful ==
  \A s \in Sup : pc[s] = "unlock" =>
    /\ result[s] = "wall" => clock[s] = WallTicks
    /\ result[s] = "output" => total[s] > OutputLimit
    /\ result[s] \in {"exit", "signal"} => ended[s] = result[s] /\ policy[s] = "none"
    /\ result[s] # "killed"

\* forward_output goes on reading a stream and looks at no limit meanwhile.
Draining(s) == pc[s] = "forward" /\ revents[s] # {}

\* Every job that is started ends, and its supervisor lets the lock go, even when
\* the job ignores everything, forks, or closes its output.  The one way out is a
\* job that refills a pipe whenever it has been read: forward_output never returns
\* then, and neither the wall limit nor the output limit is looked at.
JobsEnd ==
  \A s \in Sup : (pc[s] = "top" ~> (pc[s] \in {"done", "dead"} /\ lock # s)) \/ <>[]Draining(s)
=============================================================================

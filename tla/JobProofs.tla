------------------------------ MODULE JobProofs ------------------------------
(***************************************************************************)
(* What micronux-run and micronux-job-exec promise about a job together,   *)
(* for any number of supervisors, processes and descriptors and for any    *)
(* limits: the invariant of micronux-run and its job, that of the helper,  *)
(* and that both hold in the composition (JobRun).                         *)
(***************************************************************************)
EXTENDS JobRun, WellFoundedInduction, TLAPS

(* micronux-run and its job *)

States == {"none", "run", "killed", "zombie", "gone"}
Places == {"lock", "spawn", "top", "poll", "forward", "unlock", "done", "dead"}

\* Types of the variables of JobSupervisor, as functions.
Types ==
  /\ lock \in Sup \cup {Free}
  /\ pc \in [Sup -> Places]
  /\ proc \in [Sup -> [Process -> States]]
  /\ holds \in [Sup -> [Process -> SUBSET Stream]]
  /\ pipe \in [Sup -> [Stream -> 0..PipeSize]]
  /\ ended \in [Sup -> {"none", "exit", "signal", "killed"}]
  /\ clock \in [Sup -> 0..WallTicks]
  /\ open \in [Sup -> SUBSET Stream] /\ revents \in [Sup -> SUBSET Stream]
  /\ total \in [Sup -> 0..(OutputLimit + 1)] /\ forwarded \in [Sup -> 0..OutputLimit]
  /\ childDone \in [Sup -> BOOLEAN] /\ groupKilled \in [Sup -> BOOLEAN]
  /\ broken \in [Sup -> BOOLEAN]
  /\ policy \in [Sup -> {"none", "wall", "output", "monitor", "wait"}]
  /\ result \in [Sup -> {"none", "busy", "launch", "wall", "output", "monitor", "wait",
                         "exit", "signal", "killed"}]

\* What poll reported is open, and has been dealt with outside the loop's body.
EventsShape(s) ==
  /\ revents[s] \subseteq open[s]
  /\ pc[s] \notin {"forward", "dead"} => revents[s] = {}

\* Before the spawn there is no process, and once the group was killed none of
\* it can run: nothing but the leader forks.  A leader that was reaped by waitpid
\* had its group killed.
GroupShape(s) ==
  /\ pc[s] \in {"lock", "spawn"} => /\ \A p \in Process : proc[s][p] = "none"
                                    /\ ~groupKilled[s] /\ ~childDone[s]
  /\ groupKilled[s] => \A p \in Process : proc[s][p] # "run"
  /\ childDone[s] => proc[s]["leader"] = "gone"
  /\ pc[s] = "unlock" => proc[s]["leader"] \in {"none", "gone"}
  /\ ~SigchldIgnored =>
       /\ childDone[s] => groupKilled[s]
       /\ pc[s] \in {"unlock", "done"} => \A p \in Process : proc[s][p] # "run"

\* Why a policy was chosen.
PolicyShape(s) ==
  /\ policy[s] = "wall" => clock[s] = WallTicks
  /\ policy[s] = "output" => total[s] > OutputLimit
  /\ pc[s] \notin {"done", "dead"} /\ (ended[s] = "killed" \/ proc[s]["leader"] = "killed") => policy[s] # "none"

\* What is reported is the policy, or else the status.
ResultShape(s) ==
  pc[s] = "unlock" => \/ result[s] = "launch"
                      \/ result[s] = IF policy[s] # "none" THEN policy[s] ELSE ended[s]

\* What is forwarded follows what was read, unless a write failed.
Counted(s) ==
  /\ forwarded[s] <= LesserOf(total[s], OutputLimit)
  /\ ~broken[s] => forwarded[s] = IF Quiet THEN 0 ELSE LesserOf(total[s], OutputLimit)

Local(s) == EventsShape(s) /\ GroupShape(s) /\ PolicyShape(s) /\ ResultShape(s) /\ Counted(s)

JobInv == Types /\ \A s \in Sup : Local(s)
-----------------------------------------------------------------------------
\* What a step does not touch keeps its shape.
LEMMA Frame ==
  ASSUME NEW t \in Sup, Local(t),
         pc'[t] = pc[t], proc'[t] = proc[t], ended'[t] = ended[t], clock'[t] = clock[t],
         open'[t] = open[t], revents'[t] = revents[t], total'[t] = total[t],
         forwarded'[t] = forwarded[t], broken'[t] = broken[t], childDone'[t] = childDone[t],
         groupKilled'[t] = groupKilled[t], policy'[t] = policy[t], result'[t] = result[t]
  PROVE  Local(t)'
BY DEF Local, EventsShape, GroupShape, PolicyShape, ResultShape, Counted

\* The supervisor's own process stands apart from those it may fork.
LEMMA Leader == "leader" \in Process /\ \A c \in Child : c \in Process /\ c # "leader"
BY Zenon, JobAssumption DEF Process

\* A process writes into a pipe.
LEMMA WriteKeeps ==
  ASSUME JobInv, NEW s \in Sup, NEW p \in Process, NEW f \in Stream, Write(s, p, f)
  PROVE  JobInv'
<1> USE JobAssumption, Leader DEF JobInv
<1>1. Types'
  <2>1. pipe' \in [Sup -> [Stream -> 0..PipeSize]]
    <3>1. PICK n \in 1..(PipeSize - pipe[s][f]) : pipe' = [pipe EXCEPT ![s][f] = @ + n]
      BY ZenonT(30) DEF Write
    <3>2. pipe[s][f] \in 0..PipeSize /\ pipe[s][f] + n \in 0..PipeSize
      BY <3>1 DEF Types
    <3> QED BY Zenon, <3>1, <3>2 DEF Types
  <2> QED BY Zenon, <2>1 DEF Types, Write, monitor
<1>2. Local(s)'
  <2>1. EventsShape(s)'
    BY Zenon DEF Types, Local, EventsShape, Write, Running, monitor
  <2>2. GroupShape(s)'
    BY Zenon DEF Types, Local, GroupShape, Write, Running, monitor
  <2>3. PolicyShape(s)'
    BY Zenon DEF Types, Local, PolicyShape, GroupShape, Write, Running, monitor
  <2>4. ResultShape(s)'
    BY Zenon DEF Types, Local, ResultShape, GroupShape, Write, Running, monitor
  <2>5. Counted(s)'
    BY Zenon DEF Types, Local, Counted, Write, Running, monitor
  <2> QED BY Zenon, <2>1, <2>2, <2>3, <2>4, <2>5 DEF Local
<1>3. ASSUME NEW t \in Sup, t # s PROVE Local(t)'
  BY Zenon, <1>3, Frame DEF Types, Write, Running, monitor
<1> QED BY Zenon, <1>1, <1>2, <1>3

\* A process closes a stream.
LEMMA CloseStreamKeeps ==
  ASSUME JobInv, NEW s \in Sup, NEW p \in Process, NEW f \in Stream, CloseStream(s, p, f)
  PROVE  JobInv'
<1> USE JobAssumption, Leader DEF JobInv
<1>1. Types'
  <2>1. holds' \in [Sup -> [Process -> SUBSET Stream]]
    BY DEF Types, CloseStream
  <2> QED BY Zenon, <2>1 DEF Types, CloseStream, monitor
<1>2. Local(s)'
  <2>1. EventsShape(s)'
    BY Zenon DEF Types, Local, EventsShape, CloseStream, Running, monitor
  <2>2. GroupShape(s)'
    BY Zenon DEF Types, Local, GroupShape, CloseStream, Running, monitor
  <2>3. PolicyShape(s)'
    BY Zenon DEF Types, Local, PolicyShape, GroupShape, CloseStream, Running, monitor
  <2>4. ResultShape(s)'
    BY Zenon DEF Types, Local, ResultShape, GroupShape, CloseStream, Running, monitor
  <2>5. Counted(s)'
    BY Zenon DEF Types, Local, Counted, CloseStream, Running, monitor
  <2> QED BY Zenon, <2>1, <2>2, <2>3, <2>4, <2>5 DEF Local
<1>3. ASSUME NEW t \in Sup, t # s PROVE Local(t)'
  BY Zenon, <1>3, Frame DEF Types, CloseStream, Running, monitor
<1> QED BY Zenon, <1>1, <1>2, <1>3

\* Only a running leader forks, so a killed group stays dead.
LEMMA ForkKeeps ==
  ASSUME JobInv, NEW s \in Sup, NEW c \in Child, Fork(s, c)
  PROVE  JobInv'
<1> USE JobAssumption, Leader DEF JobInv
<1>1. Types'
  <2>1. holds' \in [Sup -> [Process -> SUBSET Stream]]
    BY DEF Types, Fork
  <2>2. proc' \in [Sup -> [Process -> States]]
    BY Zenon DEF Types, Fork, States
  <2> QED BY Zenon, <2>1, <2>2 DEF Types, Fork, monitor
<1>2. Local(s)'
  <2>1. EventsShape(s)'
    BY Zenon DEF Types, Local, EventsShape, Fork, Running, monitor
  <2>2. GroupShape(s)'
    BY Zenon DEF Types, Local, GroupShape, Fork, Running, monitor
  <2>3. PolicyShape(s)'
    BY Zenon DEF Types, Local, PolicyShape, GroupShape, Fork, Running, monitor
  <2>4. ResultShape(s)'
    BY Zenon DEF Types, Local, ResultShape, GroupShape, Fork, Running, monitor
  <2>5. Counted(s)'
    BY Zenon DEF Types, Local, Counted, Fork, Running, monitor
  <2> QED BY Zenon, <2>1, <2>2, <2>3, <2>4, <2>5 DEF Local
<1>3. ASSUME NEW t \in Sup, t # s PROVE Local(t)'
  BY Zenon, <1>3, Frame DEF Types, Fork, Running, monitor
<1> QED BY Zenon, <1>1, <1>2, <1>3

\* A process that ends by itself was not killed before.
LEMMA LeaveKeeps ==
  ASSUME JobInv, NEW s \in Sup, NEW p \in Process, Leave(s, p)
  PROVE  JobInv'
<1> USE JobAssumption, Leader DEF JobInv
<1>1. Types'
  <2>1. PICK how \in {"exit", "signal"} : End(s, p, how)
    BY Zenon DEF Leave
  <2>2. holds' \in [Sup -> [Process -> SUBSET Stream]]
    BY Zenon, <2>1 DEF Types, End
  <2>3. proc' \in [Sup -> [Process -> States]]
    BY Zenon, <2>1 DEF Types, End, States
  <2>4. ended' \in [Sup -> {"none", "exit", "signal", "killed"}]
    BY Zenon, <2>1 DEF Types, End
  <2> QED BY Zenon, <2>1, <2>2, <2>3, <2>4 DEF Types, End, monitor
<1>2. Local(s)'
  <2>1. EventsShape(s)'
    BY Zenon DEF Types, Local, EventsShape, Leave, End, Running, monitor
  <2>2. GroupShape(s)'
    BY DEF Types, Local, GroupShape, Leave, End, Running, monitor
  <2>3. PolicyShape(s)'
    BY DEF Types, Local, PolicyShape, GroupShape, Leave, End, Running, monitor
  <2>4. ResultShape(s)'
    <3>1. pc[s] = "unlock" => p # "leader"
      BY Zenon DEF Leave, Running, Local, GroupShape
    <3> QED BY Zenon, <3>1 DEF Types, Local, ResultShape, Leave, End, monitor
  <2>5. Counted(s)'
    BY Zenon DEF Types, Local, Counted, Leave, End, Running, monitor
  <2> QED BY Zenon, <2>1, <2>2, <2>3, <2>4, <2>5 DEF Local
<1>3. ASSUME NEW t \in Sup, t # s PROVE Local(t)'
  BY ZenonT(30), <1>3, Frame DEF Types, Leave, End, Running, monitor
<1> QED BY Zenon, <1>1, <1>2, <1>3

\* A leader that the SIGKILL ends was killed for a policy.
LEMMA DieKilledKeeps ==
  ASSUME JobInv, NEW s \in Sup, NEW p \in Process, DieKilled(s, p)
  PROVE  JobInv'
<1> USE JobAssumption, Leader DEF JobInv
<1>1. Types'
  BY ZenonT(30) DEF Types, Places, States, Process, Stream, DieKilled, End, monitor
<1>2. Local(s)'
  <2>1. EventsShape(s)'
    BY Zenon DEF Types, Local, EventsShape, DieKilled, End, monitor
  <2>2. GroupShape(s)'
    BY DEF Types, Local, GroupShape, DieKilled, End, monitor
  <2>3. PolicyShape(s)'
    BY DEF Types, Local, PolicyShape, GroupShape, DieKilled, End, monitor
  <2>4. ResultShape(s)'
    BY ZenonT(30) DEF Types, Local, ResultShape, GroupShape, DieKilled, End, monitor
  <2>5. Counted(s)'
    BY Zenon DEF Types, Local, Counted, DieKilled, End, monitor
  <2> QED BY Zenon, <2>1, <2>2, <2>3, <2>4, <2>5 DEF Local
<1>3. ASSUME NEW t \in Sup, t # s PROVE Local(t)'
  BY Zenon, <1>3, Frame DEF Types, DieKilled, End, monitor
<1> QED BY Zenon, <1>1, <1>2, <1>3

\* flock gives the lock to one supervisor and turns the others away.
LEMMA TryLockKeeps ==
  ASSUME JobInv, NEW s \in Sup, TryLock(s)
  PROVE  JobInv'
<1> USE JobAssumption, Leader DEF JobInv
<1>1. Types'
  BY ZenonT(30) DEF Types, Places, States, Process, Stream, TryLock, job, monitor, Goto
<1>2. Local(s)'
  <2>1. EventsShape(s)'
    BY ZenonT(30) DEF Types, Local, EventsShape, TryLock, job, monitor, Goto
  <2>2. GroupShape(s)'
    BY Zenon DEF Types, Local, GroupShape, TryLock, job, monitor, Goto
  <2>3. PolicyShape(s)'
    BY Zenon DEF Types, Local, PolicyShape, GroupShape, TryLock, job, monitor, Goto
  <2>4. ResultShape(s)'
    BY DEF Types, Local, ResultShape, GroupShape, TryLock, job, monitor, Goto
  <2>5. Counted(s)'
    BY Zenon DEF Types, Local, Counted, TryLock, job, monitor, Goto
  <2> QED BY Zenon, <2>1, <2>2, <2>3, <2>4, <2>5 DEF Local
<1>3. ASSUME NEW t \in Sup, t # s PROVE Local(t)'
  BY Zenon, <1>3, Frame DEF Types, TryLock, job, monitor, Goto
<1> QED BY Zenon, <1>1, <1>2, <1>3

\* The leader is the first process of the job.
LEMMA SpawnKeeps ==
  ASSUME JobInv, NEW s \in Sup, Spawn(s)
  PROVE  JobInv'
<1> USE JobAssumption, Leader DEF JobInv
<1>1. Types'
  BY ZenonT(30) DEF Types, Places, States, Process, Stream, Spawn, job, monitor, Goto
<1>2. Local(s)'
  <2>1. EventsShape(s)'
    BY ZenonT(30) DEF Types, Local, EventsShape, Spawn, job, monitor, Goto
  <2>2. GroupShape(s)'
    BY Zenon DEF Types, Local, GroupShape, Spawn, job, monitor, Goto
  <2>3. PolicyShape(s)'
    BY ZenonT(30) DEF Types, Local, PolicyShape, GroupShape, Spawn, job, monitor, Goto
  <2>4. ResultShape(s)'
    BY DEF Types, Local, ResultShape, GroupShape, Spawn, job, monitor, Goto
  <2>5. Counted(s)'
    BY Zenon DEF Types, Local, Counted, Spawn, job, monitor, Goto
  <2> QED BY Zenon, <2>1, <2>2, <2>3, <2>4, <2>5 DEF Local
<1>3. ASSUME NEW t \in Sup, t # s PROVE Local(t)'
  BY Zenon, <1>3, Frame DEF Types, Spawn, job, monitor, Goto
<1> QED BY Zenon, <1>1, <1>2, <1>3

\* Without a leader there is no process.
LEMMA SpawnFailsKeeps ==
  ASSUME JobInv, NEW s \in Sup, SpawnFails(s)
  PROVE  JobInv'
<1> USE JobAssumption, Leader DEF JobInv
<1>1. Types'
  BY ZenonT(30) DEF Types, Places, States, Process, Stream, SpawnFails, job, monitor, Goto
<1>2. Local(s)'
  <2>1. EventsShape(s)'
    BY ZenonT(30) DEF Types, Local, EventsShape, SpawnFails, job, monitor, Goto
  <2>2. GroupShape(s)'
    BY Zenon DEF Types, Local, GroupShape, SpawnFails, job, monitor, Goto
  <2>3. PolicyShape(s)'
    BY Zenon DEF Types, Local, PolicyShape, GroupShape, SpawnFails, job, monitor, Goto
  <2>4. ResultShape(s)'
    BY DEF Types, Local, ResultShape, GroupShape, SpawnFails, job, monitor, Goto
  <2>5. Counted(s)'
    BY Zenon DEF Types, Local, Counted, SpawnFails, job, monitor, Goto
  <2> QED BY Zenon, <2>1, <2>2, <2>3, <2>4, <2>5 DEF Local
<1>3. ASSUME NEW t \in Sup, t # s PROVE Local(t)'
  BY Zenon, <1>3, Frame DEF Types, SpawnFails, job, monitor, Goto
<1> QED BY Zenon, <1>1, <1>2, <1>3

\* kill_job_group keeps the types.
LEMMA KillTypes ==
  ASSUME Types, NEW s \in Sup, KillGroup(s)
  PROVE  proc' \in [Sup -> [Process -> States]] /\ groupKilled' \in [Sup -> BOOLEAN]
<1>1. proc' \in [Sup -> [Process -> States]]
  BY DEF KillGroup, Types, States
<1>2. groupKilled' \in [Sup -> BOOLEAN]
  BY Zenon DEF KillGroup, Types
<1> QED BY Zenon, <1>1, <1>2

\* The head of the monitor loop chooses the wall policy only when the clock is there.
LEMMA TopKeeps ==
  ASSUME JobInv, NEW s \in Sup, Top(s)
  PROVE  JobInv'
<1> USE JobAssumption, Leader DEF JobInv
<1>1. Types'
  <2>1. proc' \in [Sup -> [Process -> States]] /\ groupKilled' \in [Sup -> BOOLEAN]
    BY Zenon, KillTypes DEF Types, Top, KeepGroup
  <2>2. policy' \in [Sup -> {"none", "wall", "output", "monitor", "wait"}]
    BY Zenon DEF Types, Top
  <2>3. pc' \in [Sup -> Places]
    BY Zenon DEF Types, Places, Top, Goto
  <2> QED BY SMTT(30), <2>1, <2>2, <2>3 DEF Types, Top
<1>2. Local(s)'
  <2>1. EventsShape(s)'
    BY ZenonT(30) DEF Types, Local, EventsShape, Top, KillGroup, KeepGroup, job, monitor, Goto
  <2>2. GroupShape(s)'
    BY DEF Types, Local, GroupShape, Top, KillGroup, KeepGroup, job, monitor, Goto
  <2>3. PolicyShape(s)'
    <3>1. \/ policy'[s] = policy[s]
          \/ policy'[s] = "wall" /\ policy[s] = "none" /\ clock[s] >= WallTicks
      BY Zenon DEF Top, Types
    <3>2. clock[s] \in 0..WallTicks /\ UNCHANGED <<clock, total, ended>>
      BY Zenon DEF Types, Top
    <3>3. proc'[s]["leader"] = "killed" => proc[s]["leader"] = "killed" \/ policy'[s] # "none"
      BY Zenon, <3>1 DEF Top, KillGroup, KeepGroup, Types
    <3>4. pc[s] # "done" /\ pc[s] # "dead"
      BY SMTT(30) DEF Top
    <3>5. PolicyShape(s)
      BY Zenon DEF Local
    <3> HIDE DEF JobInv
    <3> QED BY <3>1, <3>2, <3>3, <3>4, <3>5 DEF PolicyShape
  <2>4. ResultShape(s)'
    BY DEF Types, Local, ResultShape, GroupShape, Top, KillGroup, KeepGroup, job, monitor, Goto
  <2>5. Counted(s)'
    BY SMTT(30) DEF Types, Local, Counted, Top, KillGroup, KeepGroup, job, monitor, Goto
  <2> QED BY Zenon, <2>1, <2>2, <2>3, <2>4, <2>5 DEF Local
<1>3. ASSUME NEW t \in Sup, t # s PROVE Local(t)'
  BY Zenon, <1>3, Frame DEF Types, Top, KillGroup, KeepGroup, job, monitor, Goto
<1> QED BY Zenon, <1>1, <1>2, <1>3

\* poll reports only streams that are open.
LEMMA PollKeeps ==
  ASSUME JobInv, NEW s \in Sup, Poll(s)
  PROVE  JobInv'
<1> USE JobAssumption, Leader DEF JobInv
<1>1. Types'
  BY ZenonT(30) DEF Types, Places, States, Process, Stream, Poll, job, monitor, Goto
<1>2. Local(s)'
  <2>1. EventsShape(s)'
    BY Zenon DEF Types, Local, EventsShape, Poll, job, monitor, Goto
  <2>2. GroupShape(s)'
    BY Zenon DEF Types, Local, GroupShape, Poll, job, monitor, Goto
  <2>3. PolicyShape(s)'
    BY Zenon DEF Types, Local, PolicyShape, GroupShape, Poll, job, monitor, Goto
  <2>4. ResultShape(s)'
    BY DEF Types, Local, ResultShape, GroupShape, Poll, job, monitor, Goto
  <2>5. Counted(s)'
    BY Zenon DEF Types, Local, Counted, Poll, job, monitor, Goto
  <2> QED BY Zenon, <2>1, <2>2, <2>3, <2>4, <2>5 DEF Local
<1>3. ASSUME NEW t \in Sup, t # s PROVE Local(t)'
  BY Zenon, <1>3, Frame DEF Types, Poll, job, monitor, Goto
<1> QED BY Zenon, <1>1, <1>2, <1>3

\* When poll fails the group is killed.
LEMMA PollFailsKeeps ==
  ASSUME JobInv, NEW s \in Sup, PollFails(s)
  PROVE  JobInv'
<1> USE JobAssumption, Leader DEF JobInv
<1>1. Types'
  <2>1. proc' \in [Sup -> [Process -> States]] /\ groupKilled' \in [Sup -> BOOLEAN]
    BY Zenon, KillTypes DEF Types, PollFails
  <2>2. policy' \in [Sup -> {"none", "wall", "output", "monitor", "wait"}]
    BY Zenon DEF Types, PollFails
  <2>3. pc' \in [Sup -> Places] /\ revents' \in [Sup -> SUBSET Stream]
    BY DEF Types, Places, PollFails, Goto
  <2> QED BY Zenon, <2>1, <2>2, <2>3 DEF Types, PollFails
<1>2. Local(s)'
  <2>1. EventsShape(s)'
    BY SMTT(30) DEF Types, Local, EventsShape, PollFails, KillGroup, job, monitor, Goto
  <2>2. GroupShape(s)'
    BY SMTT(30) DEF Types, Local, GroupShape, PollFails, KillGroup, job, monitor, Goto
  <2>3. PolicyShape(s)'
    BY SMTT(30)
    DEF Types, Local, PolicyShape, GroupShape, PollFails, KillGroup, job, monitor, Goto
  <2>4. ResultShape(s)'
    BY DEF Types, Local, ResultShape, GroupShape, PollFails, KillGroup, job, monitor, Goto
  <2>5. Counted(s)'
    BY Zenon DEF Types, Local, Counted, PollFails, KillGroup, job, monitor, Goto
  <2> QED BY Zenon, <2>1, <2>2, <2>3, <2>4, <2>5 DEF Local
<1>3. ASSUME NEW t \in Sup, t # s PROVE Local(t)'
  BY ZenonT(30), <1>3, Frame DEF Types, PollFails, KillGroup, job, monitor, Goto
<1> QED BY Zenon, <1>1, <1>2, <1>3

\* The limit is counted over what was read, and what is forwarded follows it as
\* long as no write fails.
LEMMA ForwardDataKeeps ==
  ASSUME JobInv, NEW s \in Sup, ForwardData(s)
  PROVE  JobInv'
<1> DEFINE f == Current(s)
           count == LesserOf(pipe[s][f], ReadSize)
           accepted == Accepted(s, count)
           sum == LesserOf(total[s] + count, OutputLimit + 1)
<1> USE JobAssumption, Leader DEF JobInv
<1>1. f \in Stream
  BY Zenon DEF Current, Stream
<1>2. /\ pipe[s][f] - count \in 0..PipeSize
      /\ accepted \in Nat /\ sum \in total[s]..(OutputLimit + 1)
      /\ LesserOf(total[s], OutputLimit) + accepted = LesserOf(sum, OutputLimit)
  <2> HIDE DEF f
  <2>1. pipe[s][f] \in 0..PipeSize /\ total[s] \in 0..(OutputLimit + 1)
    BY <1>1 DEF Types
  <2> QED BY <2>1 DEF LesserOf, Accepted
<1> HIDE DEF f, count, accepted, sum
<1>3. /\ pipe' = [pipe EXCEPT ![s][f] = pipe[s][f] - count]
      /\ total' = [total EXCEPT ![s] = sum]
      /\ WriteOut(s, accepted)
  BY ZenonT(30) DEF ForwardData, f, count, accepted, sum
<1>4. PICK written \in IF Quiet THEN {0} ELSE 0..accepted :
        /\ forwarded' = [forwarded EXCEPT ![s] = forwarded[s] + written]
        /\ broken' = [broken EXCEPT ![s] = broken[s] \/ (~Quiet /\ written < accepted)]
  BY ZenonT(30), <1>3 DEF WriteOut
<1>5. /\ total[s] \in 0..(OutputLimit + 1) /\ forwarded[s] \in 0..OutputLimit
      /\ written \in 0..accepted /\ (Quiet => written = 0)
      /\ forwarded'[s] = forwarded[s] + written
      /\ broken'[s] = (broken[s] \/ (~Quiet /\ written < accepted))
  BY <1>2, <1>4 DEF Types
<1>6. Counted(s)' /\ forwarded'[s] \in 0..OutputLimit
  <2>1. total'[s] = sum
    BY <1>3 DEF Types
  <2>2. LesserOf(total[s], OutputLimit) \in 0..OutputLimit /\ LesserOf(sum, OutputLimit) \in 0..OutputLimit
    BY <1>2, <1>5 DEF LesserOf
  <2>3. /\ forwarded[s] <= LesserOf(total[s], OutputLimit)
        /\ ~broken[s] => forwarded[s] = IF Quiet THEN 0 ELSE LesserOf(total[s], OutputLimit)
    BY Zenon DEF Local, Counted
  <2>4. forwarded'[s] <= LesserOf(sum, OutputLimit) /\ forwarded'[s] \in 0..OutputLimit
    BY <1>2, <1>5, <2>2, <2>3
  <2>5. ASSUME ~broken'[s] PROVE forwarded'[s] = IF Quiet THEN 0 ELSE LesserOf(sum, OutputLimit)
    <3>1. ~broken[s] /\ (Quiet \/ ~(written < accepted))
      BY Zenon, <1>5, <2>5
    <3>2. CASE Quiet
      BY <1>5, <2>3, <3>1, <3>2
    <3>3. CASE ~Quiet
      <4>1. forwarded[s] = LesserOf(total[s], OutputLimit) /\ ~(written < accepted)
        BY Zenon, <2>3, <3>1, <3>3
      <4>2. forwarded'[s] = LesserOf(sum, OutputLimit)
        BY <1>2, <1>5, <2>2, <4>1
      <4> QED BY Zenon, <3>3, <4>2
    <3> QED BY Zenon, <3>2, <3>3
  <2> QED BY Zenon, <2>1, <2>4, <2>5 DEF Counted
<1>7. Types'
  <2>1. pipe' \in [Sup -> [Stream -> 0..PipeSize]]
    BY Zenon, <1>1, <1>2, <1>3 DEF Types
  <2>2. forwarded' \in [Sup -> 0..OutputLimit] /\ total' \in [Sup -> 0..(OutputLimit + 1)]
    BY <1>2, <1>3, <1>4, <1>5, <1>6 DEF Types
  <2>3. broken' \in [Sup -> BOOLEAN]
    BY ZenonT(30), <1>4 DEF Types
  <2> QED BY Zenon, <2>1, <2>2, <2>3 DEF Types, ForwardData
<1>8. Local(s)'
  <2>1. total[s] \in 0..(OutputLimit + 1) /\ total'[s] \in total[s]..(OutputLimit + 1)
    BY SMTT(30), <1>2, <1>3 DEF Types
  <2>2. EventsShape(s)' /\ GroupShape(s)' /\ ResultShape(s)'
    BY SMTT(30) DEF Types, Local, EventsShape, GroupShape, ResultShape, ForwardData
  <2>3. PolicyShape(s)'
    BY SMTT(30), <2>1 DEF Local, PolicyShape, ForwardData
  <2> QED BY ZenonT(30), <1>6, <2>2, <2>3 DEF Local
<1>9. ASSUME NEW t \in Sup, t # s PROVE Local(t)'
  <2>1. /\ total'[t] = total[t] /\ forwarded'[t] = forwarded[t] /\ broken'[t] = broken[t]
    BY Zenon, <1>3, <1>4, <1>9 DEF Types
  <2> QED BY Zenon, <1>9, <2>1, Frame DEF Types, ForwardData
<1> QED BY Zenon, <1>7, <1>8, <1>9

\* A stream that is closed loses its event.
LEMMA ForwardReturnsKeeps ==
  ASSUME JobInv, NEW s \in Sup, NEW closes \in BOOLEAN, ForwardReturns(s, closes)
  PROVE  JobInv'
<1> USE JobAssumption, Leader DEF JobInv
<1>1. Types'
  BY ZenonT(30)
  DEF Types, Places, States, Process, Stream, ForwardReturns, Current, job, monitor, Goto
<1>2. Local(s)'
  <2>1. EventsShape(s)'
    BY Zenon DEF Types, Local, EventsShape, ForwardReturns, Current, job, monitor, Goto
  <2>2. GroupShape(s)'
    BY Zenon DEF Types, Local, GroupShape, ForwardReturns, Current, job, monitor, Goto
  <2>3. PolicyShape(s)'
    <3>1. /\ clock'[s] = clock[s] /\ total'[s] = total[s] /\ policy'[s] = policy[s]
          /\ ended'[s] = ended[s] /\ proc'[s] = proc[s] /\ pc[s] \notin {"done", "dead"}
      BY Zenon DEF ForwardReturns, job
    <3> QED BY Zenon, <3>1 DEF Local, PolicyShape
  <2>4. ResultShape(s)'
    BY SMTT(30)
    DEF Types, Local, ResultShape, GroupShape, ForwardReturns, Current, job, monitor, Goto
  <2>5. Counted(s)'
    BY SMTT(30) DEF Types, Local, Counted, ForwardReturns, Current, job, monitor, Goto
  <2> QED BY Zenon, <2>1, <2>2, <2>3, <2>4, <2>5 DEF Local
<1>3. ASSUME NEW t \in Sup, t # s PROVE Local(t)'
  BY Zenon, <1>3, Frame DEF Types, ForwardReturns, Current, job, monitor, Goto
<1> QED BY Zenon, <1>1, <1>2, <1>3

\* A read that finds nothing, the end of file or an error.
LEMMA ForwardEmptyKeeps ==
  ASSUME JobInv, NEW s \in Sup, ForwardEmpty(s) \/ ForwardFails(s)
  PROVE  JobInv'
<1>1. PICK closes \in BOOLEAN : ForwardReturns(s, closes)
  BY ZenonT(30) DEF ForwardEmpty, ForwardFails
<1> QED BY Zenon, <1>1, ForwardReturnsKeeps

\* A leader that waitpid returns takes its group along.
LEMMA WaitKeeps ==
  ASSUME JobInv, NEW s \in Sup, Wait(s)
  PROVE  JobInv'
<1> USE JobAssumption, Leader DEF JobInv
<1>1. Types'
  <2>1. proc' \in [Sup -> [Process -> States]]
    BY DEF Types, Wait, States
  <2>2. policy' \in [Sup -> {"none", "wall", "output", "monitor", "wait"}]
    BY Zenon DEF Types, Wait
  <2>3. pc' \in [Sup -> Places]
    BY Zenon DEF Types, Places, Wait, Goto
  <2>4. childDone' \in [Sup -> BOOLEAN] /\ groupKilled' \in [Sup -> BOOLEAN]
    BY Zenon DEF Types, Wait
  <2> QED BY Zenon, <2>1, <2>2, <2>3, <2>4 DEF Types, Wait
<1>2. Local(s)'
  <2>1. EventsShape(s)'
    BY Zenon DEF Types, Local, EventsShape, Wait, job, monitor, Goto
  <2>2. GroupShape(s)'
    BY DEF Types, Local, GroupShape, Wait, job, monitor, Goto
  <2>3. PolicyShape(s)'
    <3>1. /\ clock'[s] = clock[s] /\ total'[s] = total[s] /\ ended'[s] = ended[s]
          /\ pc[s] \notin {"done", "dead"}
      BY Zenon DEF Wait
    <3>2. \/ policy'[s] = policy[s]
          \/ policy'[s] = "output" /\ total[s] > OutputLimit
          \/ policy'[s] = "wait" /\ policy[s] = "none"
      BY SMTT(20) DEF Types, Wait
    <3>3. proc'[s]["leader"] = "killed" => proc[s]["leader"] = "killed"
      BY Zenon DEF Types, Wait
    <3> QED BY Zenon, <3>1, <3>2, <3>3 DEF Local, PolicyShape
  <2>4. ResultShape(s)'
    BY DEF Types, Local, ResultShape, GroupShape, Wait, job, monitor, Goto
  <2>5. Counted(s)'
    BY Zenon DEF Types, Local, Counted, Wait, job, monitor, Goto
  <2> QED BY Zenon, <2>1, <2>2, <2>3, <2>4, <2>5 DEF Local
<1>3. ASSUME NEW t \in Sup, t # s PROVE Local(t)'
  BY Zenon, <1>3, Frame DEF Types, Wait, job, monitor, Goto
<1> QED BY Zenon, <1>1, <1>2, <1>3

\* The report is made when the leader is gone and both streams are closed.
LEMMA ReportKeeps ==
  ASSUME JobInv, NEW s \in Sup, Report(s)
  PROVE  JobInv'
<1> USE JobAssumption, Leader DEF JobInv
<1>1. Types'
  BY ZenonT(30) DEF Types, Places, States, Process, Stream, Report, job, monitor, Goto
<1>2. Local(s)'
  <2>1. EventsShape(s)'
    BY Zenon DEF Types, Local, EventsShape, Report, job, monitor, Goto
  <2>2. GroupShape(s)'
    BY ZenonT(30) DEF Types, Local, GroupShape, Report, job, monitor, Goto
  <2>3. PolicyShape(s)'
    <3>1. /\ clock'[s] = clock[s] /\ total'[s] = total[s] /\ policy'[s] = policy[s]
          /\ ended'[s] = ended[s] /\ proc'[s] = proc[s] /\ pc[s] \notin {"done", "dead"}
      BY Zenon DEF Report, job, monitor
    <3> QED BY Zenon, <3>1 DEF Local, PolicyShape
  <2>4. ResultShape(s)'
    BY DEF Types, Local, ResultShape, GroupShape, Report, job, monitor, Goto
  <2>5. Counted(s)'
    BY SMTT(30) DEF Types, Local, Counted, Report, job, monitor, Goto
  <2> QED BY Zenon, <2>1, <2>2, <2>3, <2>4, <2>5 DEF Local
<1>3. ASSUME NEW t \in Sup, t # s PROVE Local(t)'
  BY SMTT(30), <1>3, Frame DEF Types, Report, job, monitor, Goto
<1> QED BY Zenon, <1>1, <1>2, <1>3

\* The monitor's variables end with the supervisor.
LEMMA VanishKeeps ==
  ASSUME JobInv, NEW s \in Sup, Vanish(s), NEW to \in {"done", "dead"}, Goto(s, to),
         lock' \in Sup \cup {Free},
         to = "done" /\ ~SigchldIgnored => \A p \in Process : proc[s][p] # "run"
  PROVE  JobInv'
<1> USE JobAssumption, Leader DEF JobInv
<1>1. Types'
  <2>1. pipe' \in [Sup -> [Stream -> 0..PipeSize]]
    BY DEF Types, Vanish
  <2>2. /\ pc' \in [Sup -> Places] /\ clock' \in [Sup -> 0..WallTicks]
        /\ open' \in [Sup -> SUBSET Stream] /\ revents' \in [Sup -> SUBSET Stream]
        /\ total' \in [Sup -> 0..(OutputLimit + 1)]
        /\ forwarded' \in [Sup -> 0..OutputLimit]
        /\ policy' \in [Sup -> {"none", "wall", "output", "monitor", "wait"}]
    BY DEF Types, Places, Vanish, Goto
  <2>3. /\ childDone' \in [Sup -> BOOLEAN] /\ groupKilled' \in [Sup -> BOOLEAN]
        /\ broken' \in [Sup -> BOOLEAN]
    BY Zenon DEF Types, Vanish
  <2> QED BY SMTT(30), <2>1, <2>2, <2>3 DEF Types, Vanish
<1>2. Local(s)'
  <2>1. /\ pc'[s] = to /\ revents'[s] = {} /\ open'[s] = {} /\ proc'[s] = proc[s]
        /\ ~childDone'[s] /\ ~groupKilled'[s] /\ policy'[s] = "none" /\ ended'[s] = ended[s]
        /\ total'[s] = 0 /\ forwarded'[s] = 0 /\ ~broken'[s]
    BY Zenon DEF Types, Vanish, Goto
  <2>2. EventsShape(s)' /\ GroupShape(s)' /\ ResultShape(s)'
    BY <2>1 DEF EventsShape, GroupShape, ResultShape
  <2>3. PolicyShape(s)'
    BY <2>1 DEF Local, PolicyShape, GroupShape
  <2>4. Counted(s)'
    BY <2>1 DEF Counted, LesserOf
  <2> QED BY Zenon, <2>2, <2>3, <2>4 DEF Local
<1>3. ASSUME NEW t \in Sup, t # s PROVE Local(t)'
  BY ZenonT(30), <1>3, Frame DEF Types, Vanish, Goto
<1> QED BY Zenon, <1>1, <1>2, <1>3

\* The report is out: no process of the group is left to run.
LEMMA UnlockKeeps ==
  ASSUME JobInv, NEW s \in Sup, Unlock(s)
  PROVE  JobInv'
<1>1. ~SigchldIgnored => \A p \in Process : proc[s][p] # "run"
  BY Zenon DEF JobInv, Local, GroupShape, Unlock
<1> QED BY Zenon, <1>1, VanishKeeps DEF Unlock

\* A killed supervisor promises nothing more.
LEMMA InterruptKeeps ==
  ASSUME JobInv, NEW s \in Sup, Interrupt(s)
  PROVE  JobInv'
<1>1. lock' \in Sup \cup {Free}
  BY Zenon DEF JobInv, Types, Interrupt
<1> QED BY Zenon, <1>1, VanishKeeps DEF Interrupt

\* Time only moves a clock that has not reached the wall.
LEMMA TickKeeps ==
  ASSUME JobInv, Tick
  PROVE  JobInv'
<1> USE JobAssumption DEF JobInv
<1>1. clock' \in [Sup -> 0..WallTicks]
  <2>1. WallTicks \in Nat
    OBVIOUS
  <2>2. ASSUME NEW t \in Sup PROVE clock'[t] \in 0..WallTicks
    <3>1. clock[t] \in 0..WallTicks
      BY SMTT(30) DEF Types
    <3>2. clock'[t] = clock[t] \/ (clock[t] # WallTicks /\ clock'[t] = clock[t] + 1)
      BY SMTT(30) DEF Tick
    <3> QED BY <2>1, <3>1, <3>2
  <2> QED BY ZenonT(30), <2>2 DEF Tick
<1>2. Types'
  BY Zenon, <1>1 DEF Types, Tick, job
<1>3. ASSUME NEW t \in Sup PROVE Local(t)'
  BY ZenonT(30), <1>3
  DEF Local, EventsShape, GroupShape, PolicyShape, ResultShape, Counted, Tick, job
<1> QED BY Zenon, <1>2, <1>3

\* A stutter.
LEMMA StutterKeeps == ASSUME JobInv, UNCHANGED vars PROVE JobInv'
<1>1. Types'
  BY Zenon DEF JobInv, Types, vars, job, monitor
<1>2. ASSUME NEW t \in Sup PROVE Local(t)'
  BY ZenonT(30), <1>2, Frame DEF JobInv, vars, job, monitor
<1> QED BY Zenon, <1>1, <1>2 DEF JobInv

\* Before anything runs.
LEMMA InitJobInv == Init => JobInv
<1> SUFFICES ASSUME Init PROVE JobInv
  BY SMTT(30)
<1> USE JobAssumption DEF Init
<1>1. Types
  <2>1. proc \in [Sup -> [Process -> States]] /\ holds \in [Sup -> [Process -> SUBSET Stream]]
    BY Zenon DEF States
  <2>2. pipe \in [Sup -> [Stream -> 0..PipeSize]]
    OBVIOUS
  <2>3. childDone \in [Sup -> BOOLEAN] /\ groupKilled \in [Sup -> BOOLEAN] /\ broken \in [Sup -> BOOLEAN]
    BY SMTT(30)
  <2> QED BY <2>1, <2>2, <2>3 DEF Types, Places
<1>2. ASSUME NEW t \in Sup PROVE Local(t)
  BY <1>2, Leader
  DEF Local, EventsShape, GroupShape, PolicyShape, ResultShape, Counted, LesserOf
<1> QED BY ZenonT(30), <1>1, <1>2 DEF JobInv

\* Every step of JobSupervisor keeps the invariant.
LEMMA NextJobInv == JobInv /\ [Next]_vars => JobInv'
<1> SUFFICES ASSUME JobInv, Next PROVE JobInv'
  BY Zenon, StutterKeeps
<1>1. ASSUME NEW s \in Sup, Step(s) PROVE JobInv'
  BY Zenon, <1>1, TryLockKeeps, SpawnKeeps, SpawnFailsKeeps, TopKeeps, PollKeeps, PollFailsKeeps,
     ForwardDataKeeps, ForwardEmptyKeeps, WaitKeeps, ReportKeeps, UnlockKeeps DEF Step
<1>2. ASSUME NEW s \in Sup, JobStep(s) PROVE JobInv'
  BY Zenon, <1>2, WriteKeeps, CloseStreamKeeps, LeaveKeeps, DieKilledKeeps, ForkKeeps DEF JobStep
<1> QED BY Zenon, <1>1, <1>2, TickKeeps, InterruptKeeps DEF Next
-----------------------------------------------------------------------------
(* The composition: what JobRun does is what its two parts do *)

\* A step of the composition is a step of micronux-run and its job, or none.
LEMMA RunIsJobStep == [RunNext]_all => [Next]_vars
<1> SUFFICES ASSUME RunNext PROVE [Next]_vars
  BY Zenon DEF all
<1>1. CASE ByHand
  BY Zenon, <1>1 DEF ByHand
<1>2. CASE Time
  BY Zenon, <1>2 DEF Time, Next
<1>3. ASSUME NEW s \in Sup, Monitor(s) PROVE Next
  BY Zenon, <1>3 DEF Monitor, Next
<1>4. ASSUME NEW s \in Sup, HelperStep(s) PROVE [Next]_vars
  <2>1. CASE mode' = "failed"
    <3>1. Leave(s, "leader")
      BY Zenon, <1>4, <2>1 DEF HelperStep, Leave
    <3> QED BY Zenon, <3>1, Leader DEF JobStep, Next
  <2>2. CASE mode' # "failed"
    BY Zenon, <1>4, <2>2 DEF HelperStep
  <2> QED BY Zenon, <2>1, <2>2
<1>5. ASSUME NEW s \in Sup, ProgramStep(s) PROVE Next
  <2>1. JobStep(s)
    BY Zenon, <1>5 DEF ProgramStep, JobStep, Leave
  <2> QED BY Zenon, <2>1 DEF Next
<1>6. ASSUME NEW s \in Sup, Killed(s) PROVE Next
  BY Zenon, <1>6 DEF Killed, Next
<1> QED BY Zenon, <1>1, <1>2, <1>3, <1>4, <1>5, <1>6 DEF RunNext

\* A step of the composition is a step of micronux-job-exec, or none.
LEMMA RunIsHelperStep == [RunNext]_all => [Helper!Next]_(Helper!vars)
<1> USE DEF Helper!vars, helper
<1> SUFFICES ASSUME RunNext PROVE [Helper!Next]_(Helper!vars)
  BY Zenon DEF all
<1>1. CASE ByHand
  BY Zenon, <1>1 DEF ByHand
<1>2. CASE Time
  BY Zenon, <1>2 DEF Time
<1>3. ASSUME NEW s \in Sup, Monitor(s) \/ ProgramStep(s) \/ Killed(s)
      PROVE  UNCHANGED Helper!vars
  BY Zenon, <1>3 DEF Monitor, ProgramStep, Killed
<1>4. ASSUME NEW s \in Sup, HelperStep(s) PROVE Helper!Next
  BY Zenon, <1>4 DEF HelperStep
<1> QED BY Zenon, <1>1, <1>2, <1>3, <1>4 DEF RunNext

\* The invariant of micronux-run holds in the composition.
LEMMA RunJobInv == RunSpec => []JobInv
<1>1. RunInit => JobInv
  BY Zenon, InitJobInv DEF RunInit
<1>2. JobInv /\ [RunNext]_all => JobInv'
  BY Zenon, NextJobInv, RunIsJobStep
<1> QED BY <1>1, <1>2, PTL DEF RunSpec

\* When micronux-run ends by itself and has not inherited an ignored SIGCHLD, no
\* process of its job can run any more (kill_job_group, waitpid).
THEOREM NoSurvivorsHolds ==
  ASSUME ~SigchldIgnored PROVE RunSpec => []NoSurvivors
<1>1. JobInv => NoSurvivors
  BY Zenon DEF JobInv, Local, GroupShape, NoSurvivors, Alive, Running
<1> QED BY <1>1, RunJobInv, PTL

\* What is forwarded is what was read, cut off at the limit over both streams
\* together (forward_output).
THEOREM ForwardsUpToLimitHolds == RunSpec => []ForwardsUpToLimit
<1>1. JobInv => TypeOK
  BY DEF JobInv, Types, Local, EventsShape, TypeOK, Places, States
<1>2. JobInv => ForwardsUpToLimit
  BY Zenon, <1>1 DEF JobInv, Local, Counted, ForwardsUpToLimit
<1> QED BY <1>2, RunJobInv, PTL

\* The report tells the truth although limits and exits race (run_job).
THEOREM ReportTruthfulHolds == RunSpec => []ReportTruthful
<1>1. JobInv => ReportTruthful
  <2> SUFFICES ASSUME JobInv, NEW s \in Sup, pc[s] = "unlock"
               PROVE  /\ result[s] = "wall" => clock[s] = WallTicks
                      /\ result[s] = "output" => total[s] > OutputLimit
                      /\ result[s] \in {"exit", "signal"} => ended[s] = result[s] /\ policy[s] = "none"
                      /\ result[s] # "killed"
    BY ZenonT(30) DEF ReportTruthful
  <2>1. /\ policy[s] \in {"none", "wall", "output", "monitor", "wait"}
        /\ ended[s] \in {"none", "exit", "signal", "killed"}
    BY Zenon DEF JobInv, Types
  <2> QED BY ZenonT(30), <2>1 DEF JobInv, Local, PolicyShape, ResultShape
<1> QED BY <1>1, RunJobInv, PTL
-----------------------------------------------------------------------------
(* The policy helper *)

\* The least element that LowestFree chooses exists.
LEMMA SmallestNat ==
  ASSUME NEW T \in SUBSET Nat, T # {}
  PROVE  \E x \in T : \A y \in T : x <= y
<1> DEFINE R == OpToRel(<, Nat)
<1>1. IsWellFoundedOn(R, Nat)
  BY ZenonT(30), NatLessThanWellFounded
<1> HIDE DEF R
<1>2. PICK x \in T : \A y \in T : ~(<<y, x>> \in R)
  BY ZenonT(30), <1>1, WFMin
<1>3. ASSUME NEW y \in T PROVE x <= y
  <2>1. ~(<<y, x>> \in R)
    BY Zenon, <1>2
  <2>2. x \in Nat /\ y \in Nat
    OBVIOUS
  <2>3. <<y, x>> \in Nat \X Nat /\ <<y, x>>[1] = y /\ <<y, x>>[2] = x
    BY Zenon, <2>2
  <2>4. ~(y < x)
    BY Zenon, <2>1, <2>3 DEF R, OpToRel
  <2> QED BY <2>2, <2>4
<1> QED BY Zenon, <1>3

\* What the steps before the given one have established.
HelperInv ==
  /\ at \in 1..9 /\ mode \in {"helper", "program", "failed"}
  /\ why \in {"none", "invocation", "call"}
  /\ out \in Helper!Fd /\ err \in Helper!Fd
  /\ fds \in [Helper!Fd -> {"out", "err", "null", "inherited", "closed"}]
  /\ mode = "program" => at = 9
  /\ at = 1 => /\ given = {d \in 0..2 : fds[d] # "closed"}
               /\ fds[out] = "out" /\ (err # out => fds[err] = "err")
               /\ uid = "root" => caps = Helper!AllCaps
  /\ at > 1 => /\ fds[0] = IF Helper!Missing(0) THEN "closed" ELSE "null"
               /\ fds[1] = IF Helper!Missing(1) THEN "closed" ELSE "out"
               /\ fds[2] = IF Helper!Missing(2) THEN "closed" ELSE "err"
  /\ at \in 2..4 => caps = Helper!AllCaps
  /\ at > 2 => limits = Helper!Resources
  /\ at > 3 => bounding = {}
  /\ at > 4 => uid = "job" /\ groups = {} /\ caps = {}
  /\ at > 7 => \A d \in Helper!Fd : d > 2 => fds[d] = "closed"
  /\ at > 8 => locked /\ admits = Helper!Allowlist

\* Where each function of micronux-job-exec stands in main.
LEMMA HelperPlaces ==
  ASSUME at \in 1..9
  PROVE  /\ Helper!Doing("redirect") => at = 1
         /\ Helper!Doing("limits") => at = 2
         /\ Helper!Doing("bounding") => at = 3
         /\ Helper!Doing("ids") => at = 4
         /\ Helper!Doing("capset") => at = 5
         /\ Helper!Doing("verify") => at = 6
         /\ Helper!Doing("close") => at = 7
         /\ Helper!Doing("filter") => at = 8
         /\ Helper!Doing("exec") => at = 9
<1>1. \/ at = 1 /\ Helper!Steps[at] = "redirect"
      \/ at = 2 /\ Helper!Steps[at] = "limits"
      \/ at = 3 /\ Helper!Steps[at] = "bounding"
      \/ at = 4 /\ Helper!Steps[at] = "ids"
      \/ at = 5 /\ Helper!Steps[at] = "capset"
      \/ at = 6 /\ Helper!Steps[at] = "verify"
      \/ at = 7 /\ Helper!Steps[at] = "close"
      \/ at = 8 /\ Helper!Steps[at] = "filter"
      \/ at = 9 /\ Helper!Steps[at] = "exec"
  BY DEF Helper!Steps
<1> QED BY Zenon, <1>1 DEF Helper!Doing

\* /dev/null gets a descriptor above the standard ones, or else the lowest of them
\* that was closed, which redirect_standard_descriptors then closes again.
LEMMA RedirectKeeps ==
  ASSUME HelperInv, Helper!Redirect PROVE HelperInv'
<1> DEFINE null == Helper!LowestFree(fds)
<1>1. at = 1 /\ mode = "helper" /\ at' = 2 /\ mode' = "helper" /\ uid = "root" /\ out # err
  BY HelperPlaces
  DEF HelperInv, Helper!Redirect, Helper!Doing, Helper!Continue, Helper!BadInvocation
<1>2. /\ null \in Helper!Fd /\ fds[null] = "closed"
      /\ \A e \in Helper!Fd : fds[e] = "closed" => null <= e
  <2> DEFINE T == {d \in Helper!Fd : fds[d] = "closed"}
  <2>1. T \in SUBSET Nat /\ T # {}
    BY FdAssumption DEF Helper!Redirect, Helper!Fd
  <2>2. \E d \in T : \A e \in T : d <= e
    BY ZenonT(30), <2>1, SmallestNat
  <2> QED BY Zenon, <2>2 DEF Helper!LowestFree
<1> HIDE DEF null
<1>3. ASSUME NEW d \in 0..2 PROVE d \in Helper!Fd /\ (Helper!Missing(d) <=> d = null)
  <2>1. \A e \in 0..2 : e \in Helper!Fd
    BY FdAssumption DEF Helper!Fd
  <2>2. \A e : e \in Helper!Standard \ given <=> (e \in 0..2 /\ fds[e] = "closed")
    BY <1>1 DEF HelperInv, Helper!Standard
  <2>3. null \in Int
    BY <1>2, FdAssumption DEF Helper!Fd
  <2>4. ASSUME d = null PROVE Helper!Missing(d)
    BY Zenon, <1>2, <2>1, <2>2, <2>4 DEF Helper!Missing
  <2>5. ASSUME Helper!Missing(d) PROVE d = null
    <3>1. fds[d] = "closed" /\ null <= d
      BY Zenon, <1>2, <2>1, <2>2, <2>5 DEF Helper!Missing
    <3>2. null \in 0..2
      BY <1>2, <2>3, <3>1, FdAssumption DEF Helper!Fd
    <3>3. d <= null
      BY Zenon, <1>2, <2>2, <2>5, <3>2 DEF Helper!Missing
    <3> QED BY <2>3, <3>1, <3>3
  <2> QED BY Zenon, <2>1, <2>4, <2>5
<1>4. fds' = [fds EXCEPT ![0] = "null", ![1] = fds[out], ![2] = fds[err], ![null] = "closed"]
  BY Zenon DEF Helper!Redirect, null
<1>5. fds[out] = "out" /\ fds[err] = "err" /\ fds \in [Helper!Fd -> {"out", "err", "null", "inherited", "closed"}]
  BY <1>1 DEF HelperInv
<1>6. /\ fds' \in [Helper!Fd -> {"out", "err", "null", "inherited", "closed"}]
      /\ fds'[0] = IF Helper!Missing(0) THEN "closed" ELSE "null"
      /\ fds'[1] = IF Helper!Missing(1) THEN "closed" ELSE "out"
      /\ fds'[2] = IF Helper!Missing(2) THEN "closed" ELSE "err"
  BY <1>2, <1>3, <1>4, <1>5
<1>7. given' = given /\ (Helper!Missing(0)' <=> Helper!Missing(0))
      /\ (Helper!Missing(1)' <=> Helper!Missing(1)) /\ (Helper!Missing(2)' <=> Helper!Missing(2))
  BY Zenon DEF Helper!Redirect, Helper!Continue, Helper!Missing
<1> QED BY <1>1, <1>6, <1>7 DEF HelperInv, Helper!Redirect, Helper!Continue

\* Every step of micronux-job-exec keeps the invariant.
LEMMA HelperStepKeeps == HelperInv /\ [Helper!Next]_(Helper!vars) => HelperInv'
<1> SUFFICES ASSUME HelperInv, [Helper!Next]_(Helper!vars) PROVE HelperInv'
  OBVIOUS
<1> USE FdAssumption, HelperPlaces DEF HelperInv, Helper!Continue, Helper!Missing
<1>1. CASE Helper!Refuse \/ Helper!CallFails
  BY <1>1 DEF Helper!Refuse, Helper!CallFails, Helper!Fail
<1>2. CASE Helper!ApplyLimits
  BY <1>2 DEF Helper!ApplyLimits
<1>3. CASE Helper!DropBounding
  BY <1>3 DEF Helper!DropBounding, Helper!AllCaps
<1>4. CASE Helper!SetIds
  BY <1>4 DEF Helper!SetIds, Helper!AllCaps
<1>5. CASE Helper!ClearCaps
  BY <1>5 DEF Helper!ClearCaps
<1>6. CASE Helper!Verify
  BY SMTT(30), <1>6 DEF Helper!Verify, Helper!verify_identity
<1>7. CASE Helper!CloseExtra
  BY <1>7 DEF Helper!CloseExtra, Helper!Fd
<1>8. CASE Helper!InstallFilter
  BY <1>8 DEF Helper!InstallFilter
<1>9. CASE Helper!Exec
  BY SMTT(30), <1>9 DEF Helper!Exec, Helper!Allowlist
<1>10. CASE UNCHANGED Helper!vars
  BY <1>10 DEF Helper!vars
<1> QED BY ZenonT(30), <1>1, <1>2, <1>3, <1>4, <1>5, <1>6, <1>7, <1>8, <1>9, <1>10, RedirectKeeps
DEF Helper!Next

\* The program starts only with the whole policy on it, and the helper never
\* takes from itself what it still needs (micronux-job-exec.c, main).
THEOREM ProgramContainedHolds == RunSpec => []ProgramContained
<1>1. RunInit => HelperInv
  <2> SUFFICES ASSUME Helper!Init PROVE HelperInv
    BY Zenon DEF RunInit
  <2>1. PICK more \in SUBSET (Helper!Fd \ {out, err}) :
          fds = [d \in Helper!Fd |-> CASE d = out -> "out" [] d = err /\ err # out -> "err"
                   [] OTHER -> IF d \in more THEN "inherited" ELSE "closed"]
    BY Zenon DEF Helper!Init
  <2>2. out \in Helper!Fd /\ err \in Helper!Fd /\ \A d \in 0..2 : d \in Helper!Fd
    <3>1. out \in Helper!Fd /\ err \in Helper!Fd
      BY Zenon DEF Helper!Init
    <3>2. \A d \in 0..2 : d \in Helper!Fd
      BY FdAssumption DEF Helper!Fd
    <3> QED BY Zenon, <3>1, <3>2
  <2>3. /\ fds \in [Helper!Fd -> {"out", "err", "null", "inherited", "closed"}]
        /\ fds[out] = "out" /\ (err # out => fds[err] = "err")
    BY <2>1, <2>2
  <2> QED BY <2>2, <2>3 DEF Helper!Init, Helper!Standard, HelperInv
<1>2. HelperInv /\ [RunNext]_all => HelperInv'
  BY Zenon, HelperStepKeeps, RunIsHelperStep
<1>3. HelperInv => ProgramContained
  <2> SUFFICES ASSUME HelperInv PROVE ProgramContained
    OBVIOUS
  <2>1. ASSUME mode = "program", NEW d \in Helper!Fd
        PROVE  fds[d] = IF d > 2 \/ Helper!Missing(d) THEN "closed" ELSE <<"null", "out", "err">>[d + 1]
    <3>1. d > 2 \/ d = 0 \/ d = 1 \/ d = 2
      BY FdAssumption DEF Helper!Fd
    <3> QED BY <2>1, <3>1 DEF HelperInv
  <2> QED BY <2>1 DEF HelperInv, ProgramContained, Helper!ProgramContained
<1> QED BY <1>1, <1>2, <1>3, PTL DEF RunSpec
=============================================================================

-------------------------- MODULE DisplayEvidence --------------------------
(***************************************************************************)
(* m9-hardware-test.py: what the display gate asks of the board in each of *)
(* its modes, and how it judges what comes back.  DisplayGate runs it.     *)
(*                                                                         *)
(* The console is a sequence of items [k, p, v]: what kind of line it is,  *)
(* the phase or marker it names, and what it reports.                      *)
(***************************************************************************)
EXTENDS Integers, FiniteSets, Sequences

CONSTANTS Disconnect,     \* --disconnect-seconds
          Samples         \* soak_seconds // sample_seconds + 1

Item(k, p, v) == [k |-> k, p |-> p, v |-> v]

OfKind(out, k)      == SelectSeq(out, LAMBDA i : i.k = k)
Named(out, k, p)    == SelectSeq(out, LAMBDA i : i.k = k /\ i.p = p)
Shows(out, k, p)    == Named(out, k, p) # <<>>
Values(items)       == [i \in DOMAIN items |-> items[i].v]
Names(items)        == [i \in DOMAIN items |-> items[i].p]
EndsWith(out, k)    == out # <<>> /\ out[Len(out)].k = k

\* A marker of a failure, whole: the two halves of its text, one after the other.
failure_marker(out) == \E i \in 1..(Len(out) - 1) : out[i].k = "fault-" /\ out[i + 1].k = "-fault"
-----------------------------------------------------------------------------
(***************************************************************************)
(* Telemetry.  A sample [live, before, frames, requests, completions,      *)
(* front, queued, back, errors, slow, irqZero, pollZero]: whether the line *)
(* has the words of a revealed, unharmed display; frame counts (before is  *)
(* the first of the two a scanout line shows); flips; roles; all counters  *)
(* and registers that must be zero; arm_to_irq_over20ms; fifo counters.    *)
(***************************************************************************)
diagnostics_samples(out) == Values(SelectSeq(out, LAMBDA i : i.k = "diag" /\ i.v.live))
scanout_samples(out)     == Values(SelectSeq(out, LAMBDA i : i.k = "scan" /\ i.v.live))

RolesProblem(s) ==
  \/ s.front \notin 0..2 \/ s.back \notin 0..2 \/ s.front = s.back
  \/ s.queued # -1 /\ (s.queued \notin 0..2 \/ Cardinality({s.front, s.queued, s.back}) # 3)

SampleProblem(s) ==
  \/ s.errors > 0 \/ RolesProblem(s) \/ s.frames < 1
  \/ s.slow > 0 \/ s.pollZero > 0 \/ s.completions > s.requests

Regressed(s, t) ==
  \E c \in {"before", "frames", "requests", "completions", "slow", "irqZero", "pollZero"} : t[c] < s[c]

ContractProblem(samples, minimum, require_flip, require_progress) ==
  LET n == Len(samples) IN
  \/ n < minimum
  \/ \E i \in 1..n : SampleProblem(samples[i]) \/ (i > 1 /\ Regressed(samples[i - 1], samples[i]))
  \/ require_flip /\ (n < 2 \/ samples[n].completions <= samples[1].completions)
  \/ require_progress /\ (n < 2 \/ samples[n].frames <= samples[1].frames)

scanout_contract_problem(out, minimum, require_flip, require_progress) ==
  LET samples == scanout_samples(out) IN
  \/ ContractProblem(samples, minimum, require_flip, require_progress)
  \/ \E i \in DOMAIN samples : samples[i].frames <= samples[i].before

diagnostics_contract_problem(out, minimum, require_flip, require_progress) ==
  ContractProblem(diagnostics_samples(out), minimum, require_flip, require_progress)

\* Fault: a failure is looked for on the console only.
display_health_by_marker(out, minimum, require_flip, require_progress) == failure_marker(out)

display_health_problem(out, minimum, require_flip, require_progress) ==
  \/ failure_marker(out)
  \/ diagnostics_contract_problem(out, minimum, require_flip, require_progress)
  \/ scanout_contract_problem(out, minimum, require_flip, require_progress)

\* The positions of the phase markers, and the samples up to the next one
PhaseAt(out) == {i \in DOMAIN out : out[i].k = "phase"}
diagnostics_phase_groups(out, i) ==
  LET next == {j \in PhaseAt(out) : j > i}
      end  == IF next = {} THEN Len(out) ELSE (CHOOSE j \in next : \A k \in next : j <= k) - 1
  IN  diagnostics_samples(SubSeq(out, i + 1, end))

diagnostics_phase_problem(out, phases) ==
  LET all == Names(OfKind(out, "phase")) IN
  \/ all # phases
  \/ \E i \in PhaseAt(out) : Len(diagnostics_phase_groups(out, i)) # 1
  \/ LET s == [n \in 1..Len(phases) |->
                 diagnostics_phase_groups(out, CHOOSE i \in PhaseAt(out) : out[i].p = phases[n])[1]]
     IN  \/ s[1].slow > 0
         \/ \E n \in DOMAIN s : s[n].pollZero > 0
         \/ \E n \in 2..Len(s) : s[n].slow # s[n - 1].slow \/ s[n].irqZero < s[n - 1].irqZero

\* One sum for each phase, none of them that of nothing, all the same
framebuffer_hash_problem(out, phases) ==
  LET sums(p) == Values(Named(out, "hash", p)) IN
  \/ \E n \in DOMAIN phases : Len(sums(phases[n])) # 1 \/ sums(phases[n])[1] = "empty"
  \/ \E n \in DOMAIN phases : sums(phases[n])[1] # sums(phases[1])[1]

runtime_status_problem(out, minimum) ==
  Cardinality({i \in DOMAIN out : out[i].k = "status" /\ out[i].v = "lit"}) < minimum
NativeOwnership(out) == \E i \in DOMAIN out : out[i].k = "ownership" /\ out[i].v
TouchLines(out) == Len(SelectSeq(out, LAMBDA i : i.k = "touch" /\ i.v \in {"ready", "unavailable"}))

MinRate == 1     \* MIN_DISCONNECT_PROGRESS_HZ; the display makes 2 frames in a tick
MaxRate == 3     \* MAX_DISCONNECT_PROGRESS_HZ

\* An uptime counts only with the sample on the next line.
Uptimes(out, phase) ==
  {i \in 1..(Len(out) - 1) : out[i].k = "uptime" /\ out[i].p = phase /\ out[i + 1].k = "diag" /\ out[i + 1].v.live}

disconnect_progress_rate(from, phase1, to, phase2) ==
  LET a == Uptimes(from, phase1)
      b == Uptimes(to, phase2)
  IN  IF Cardinality(a) # 1 \/ Cardinality(b) # 1 THEN TRUE
      ELSE LET i == CHOOSE x \in a : TRUE
               j == CHOOSE x \in b : TRUE
               elapsed  == to[j].v - from[i].v
               progress == to[j + 1].v.frames - from[i + 1].v.frames
           IN  elapsed <= 0 \/ progress <= 0 \/ progress < MinRate * elapsed \/ progress > MaxRate * elapsed
-----------------------------------------------------------------------------
(* The boot log *)

Room     == 2                                             \* DISPLAY_POOL_ADDRESS - KERNEL_LOAD_ADDRESS
Artifact == [file |-> 1, memory |-> 2, sum |-> "A"]       \* Image and metadata.bin in --artifact-dir

\* One boot in the log, of these artifacts, that leaves the display pool alone
verify_boot_payload(log) ==
  LET kernel == Values(OfKind(log, "kernel")) IN
  \/ Len(kernel) # 1
  \/ kernel[1].memory < kernel[1].file \/ kernel[1].memory > Room \/ kernel[1] # Artifact

\* The ordered markers, from COLD-EXTERNAL to FB-CONSOLE
BootStages == <<"COLD-HANDOFF", "COLD-PROBE", "COLD-INIT", "REVEAL">>

\* Where the n-th marker is found after the one before it; beyond the log if it is not.
FoundAt(log) ==
  LET pos[n \in 0..Len(BootStages)] ==
        IF n = 0 THEN 0
        ELSE LET at == {i \in DOMAIN log : i > pos[n - 1] /\ log[i].k = "stage" /\ log[i].p = BootStages[n]}
             IN  IF at = {} THEN Len(log) + 1 ELSE CHOOSE i \in at : \A j \in at : i <= j
  IN  pos

\* What the lines of the loader and of the driver must say besides, wherever it is
required_fragments == {"stage", "reveal"}

boot_contract_problem(log) ==
  \/ failure_marker(log) \/ ~Shows(log, "version", "6.12.27")
  \/ FoundAt(log)[Len(BootStages)] > Len(log)
  \/ \E fragment \in required_fragments : ~Shows(log, "fragment", fragment)
-----------------------------------------------------------------------------
(***************************************************************************)
(* The commands.  An entry [k, p, n] is what one part of a command line    *)
(* does: reads telemetry, the frame buffer or the state of touch, prints a *)
(* marker, runs a test, draws, sleeps for n ticks, or tests that the       *)
(* display is lit (assert), the hashes are the same (same), or both.       *)
(***************************************************************************)
E(k)          == [k |-> k, p |-> "", n |-> 0]
En(k, p)      == [k |-> k, p |-> p, n |-> 0]
Sleep(n)      == [k |-> "sleep", p |-> "", n |-> n]
Look          == <<E("diag"), E("scan")>>
Hash(p)       == <<En("hash", p)>>
DiagnosticsPhase(p, up) == <<En("phase", p)>> \o (IF up THEN <<En("uptime", p)>> ELSE <<>>) \o <<E("diag")>>

RuntimeIdentity == <<En("boot", "a"), En("uptime", "a"), Sleep(1), En("boot", "b"), En("uptime", "b")>>
TouchTerminal   == <<E("touch-wait"), E("touch")>>

Check        == <<En("test", "check"), E("touch")>>
DisplaySysfs == <<E("assert"), E("ownership")>> \o Look \o <<E("touch"), En("status", "runtime")>>
VpgUnavailable ==
  Hash("before") \o Look \o <<Sleep(1)>> \o Hash("after") \o Look \o <<En("status", "vpg"), E("same")>>
Presentation ==
  Hash("before") \o Look \o <<E("draw"), Sleep(1)>> \o Look \o <<En("restore", "draw")>>
  \o Hash("after") \o Look \o <<En("status", "restore"), E("assert-same")>>
Signal ==
  Hash("before") \o Look \o <<E("draw"), Sleep(1), En("restore", "signal")>>
  \o Hash("after") \o Look \o <<En("status", "restore"), E("assert-same")>>

Touch ==
  <<E("touch-ready")>> \o Look \o Hash("before") \o <<E("draw"), Sleep(1), En("restore", "points")>>
  \o Hash("after") \o Look \o <<E("touch"), En("status", "runtime"), E("assert-same")>>

SoakNames == <<"soak-0", "soak-1", "soak-2", "soak-3">>
SoakSample(i) ==
  <<En("mark", SoakNames[i])>> \o Look \o <<E("touch")>> \o Hash(SoakNames[i])
  \o <<En("status", SoakNames[i]), E("assert")>> \o (IF i < Samples THEN <<Sleep(1)>> ELSE <<>>)
SoakUpTo[i \in Nat] == IF i = 0 THEN <<>> ELSE SoakUpTo[i - 1] \o SoakSample(i)
Soak == SoakUpTo[Samples]

StressStages == <<"before", "graphics", "storage", "network", "io", "memory", "after">>
stress_snapshot_shell(stage) == <<En("mark", stage)>> \o Look \o <<E("touch"), En("mem", stage)>>
Stress ==
  Hash("before") \o stress_snapshot_shell("before") \o <<E("draw"), Sleep(1)>>
  \o stress_snapshot_shell("graphics") \o <<En("test", "storage")>>
  \o stress_snapshot_shell("storage") \o <<En("test", "network")>>
  \o stress_snapshot_shell("network") \o <<En("test", "io")>>
  \o stress_snapshot_shell("io") \o <<En("test", "memory")>>
  \o stress_snapshot_shell("memory") \o <<En("restore", "signal"), Sleep(1)>> \o Hash("after")
  \o stress_snapshot_shell("after") \o <<En("status", "stress"), E("assert-same")>>

Policy == <<En("test", "disabled")>>
Before ==
  <<En("boot", "before")>> \o DiagnosticsPhase("BEFORE-PREHASH", FALSE) \o Hash("before")
  \o DiagnosticsPhase("BEFORE-POSTHASH", TRUE) \o <<E("scan"), E("touch"), En("status", "before"), E("assert")>>
BoundaryWork ==
  <<En("boot", "boundary")>> \o DiagnosticsPhase("BOUNDARY-PREHASH", TRUE)
  \o Hash("boundary") \o DiagnosticsPhase("BOUNDARY-POSTHASH", TRUE)
  \o <<E("scan"), E("touch"), En("status", "boundary"), En("mark", "COMPLETE")>>

\* Fault: the script waits until the port is open again.
BoundaryScriptLate == <<Sleep(Disconnect + 4)>> \o BoundaryWork

BoundaryScript == <<Sleep(Disconnect + 1)>> \o BoundaryWork
Arm          == <<E("arm")>>
BoundaryRead == <<E("cat")>>
AfterId      == <<En("boot", "after")>>
AfterState ==
  DiagnosticsPhase("AFTER-PREHASH", TRUE) \o Hash("after") \o DiagnosticsPhase("AFTER-POSTHASH", FALSE)
  \o <<E("touch"), En("status", "after")>>
AfterScanout == <<E("scan")>>

Snapshot ==
  <<En("status", "runtime"), E("ownership")>> \o DiagnosticsPhase("A-PREHASH", FALSE) \o Hash("a")
  \o DiagnosticsPhase("A-POSTHASH", FALSE) \o <<E("scan"), Sleep(1)>>
  \o DiagnosticsPhase("B-PREHASH", FALSE) \o Hash("b") \o DiagnosticsPhase("B-POSTHASH", FALSE)
  \o <<E("scan"), E("touch"), E("assert-same")>>
-----------------------------------------------------------------------------
(* The verdicts: whether something is wrong with a result [out, rc]. *)

verify_runtime_identity(r) ==
  LET ids == OfKind(r.out, "boot")
      ups == OfKind(r.out, "uptime")
  IN  \/ r.rc # 0
      \/ Names(ids) # <<"a", "b">> \/ ids[1].v # ids[2].v
      \/ Names(ups) # <<"a", "b">> \/ ups[2].v <= ups[1].v

wait_for_touch_terminal(r) == r.rc # 0 \/ TouchLines(r.out) = 0

\* The five commands of run_preflight
preflight_check(r) == r.rc # 0 \/ ~Shows(r.out, "test", "check") \/ TouchLines(r.out) = 0
preflight_sysfs(r) ==
  \/ r.rc # 0 \/ ~NativeOwnership(r.out) \/ TouchLines(r.out) = 0 \/ runtime_status_problem(r.out, 1)
  \/ display_health_problem(r.out, 1, FALSE, FALSE)
preflight_vpg(r) ==
  \/ r.rc # 0 \/ framebuffer_hash_problem(r.out, <<"before", "after">>) \/ runtime_status_problem(r.out, 1)
  \/ display_health_problem(r.out, 2, FALSE, TRUE)
preflight_presentation(r) ==
  \/ r.rc # 0 \/ framebuffer_hash_problem(r.out, <<"before", "after">>) \/ runtime_status_problem(r.out, 1)
  \/ ~Shows(r.out, "restored", "draw")
  \/ display_health_problem(r.out, 3, TRUE, TRUE)
preflight_signal(r) ==
  \/ r.rc # 0 \/ framebuffer_hash_problem(r.out, <<"before", "after">>) \/ runtime_status_problem(r.out, 1)
  \/ ~Shows(r.out, "restored", "signal")
  \/ display_health_problem(r.out, 2, TRUE, TRUE)

run_touch(r) ==
  \/ r.rc # 0 \/ framebuffer_hash_problem(r.out, <<"before", "after">>)
  \/ ~Shows(r.out, "restored", "points") \/ ~\E i \in DOMAIN r.out : r.out[i].k = "touch" /\ r.out[i].v = "ready"
  \/ runtime_status_problem(r.out, 1)
  \/ display_health_problem(r.out, 2, TRUE, TRUE)

run_soak(r) ==
  LET names == SubSeq(SoakNames, 1, Samples) IN
  \/ r.rc # 0 \/ Names(OfKind(r.out, "mark")) # names
  \/ framebuffer_hash_problem(r.out, names)
  \/ Names(SelectSeq(r.out, LAMBDA i : i.k = "status" /\ i.v = "lit")) # names
  \/ Samples # Len(diagnostics_samples(r.out)) \/ Samples # Len(scanout_samples(r.out))
  \/ Samples # TouchLines(r.out)
  \/ display_health_problem(r.out, Samples, FALSE, TRUE)

MemoryLimit == 1     \* 512 KiB

run_stress(r) ==
  LET memory == Values(OfKind(r.out, "mem"))
      n == Len(StressStages)
  IN  \/ r.rc # 0 \/ framebuffer_hash_problem(r.out, <<"before", "after">>)
      \/ Names(OfKind(r.out, "mark")) # StressStages \/ Names(OfKind(r.out, "mem")) # StressStages
      \/ memory[n] - memory[1] > MemoryLimit
      \/ \E w \in {"storage", "network", "io", "memory"} : ~Shows(r.out, "test", w)
      \/ ~Shows(r.out, "restored", "signal") \/ runtime_status_problem(r.out, 1)
      \/ display_health_problem(r.out, n, TRUE, TRUE)
      \/ n # Len(diagnostics_samples(r.out)) \/ n # Len(scanout_samples(r.out)) \/ n # TouchLines(r.out)

disconnect_policy(r) == r.rc # 0 \/ ~Shows(r.out, "test", "disabled")
disconnect_before(r) ==
  \/ r.rc # 0 \/ framebuffer_hash_problem(r.out, <<"before">>)
  \/ diagnostics_phase_problem(r.out, <<"BEFORE-PREHASH", "BEFORE-POSTHASH">>)
  \/ runtime_status_problem(r.out, 1) \/ display_health_problem(r.out, 1, FALSE, FALSE)
  \/ TouchLines(r.out) # 1 \/ ~Shows(r.out, "boot", "before")
disconnect_arm(r) == r.rc # 0 \/ ~Shows(r.out, "armed", "")

BootIds(r) == {Values(OfKind(r.out, "boot"))[i] : i \in DOMAIN OfKind(r.out, "boot")}

\* Up to the boundary: what happened while the port was closed
boundary_problem(before, boundary) ==
  LET both == before.out \o boundary.out IN
  \/ diagnostics_phase_problem(both, <<"BEFORE-PREHASH", "BEFORE-POSTHASH", "BOUNDARY-PREHASH", "BOUNDARY-POSTHASH">>)
  \/ display_health_problem(both, 2, FALSE, TRUE)
  \/ disconnect_progress_rate(before.out, "BEFORE-POSTHASH", boundary.out, "BOUNDARY-PREHASH")
  \/ framebuffer_hash_problem(both, <<"before", "boundary">>)
  \/ runtime_status_problem(boundary.out, 1) \/ TouchLines(boundary.out) # 1
  \/ Len(diagnostics_samples(before.out)) # 2 \/ Len(diagnostics_samples(boundary.out)) # 2
  \/ Len(scanout_samples(before.out)) # 1 \/ Len(scanout_samples(boundary.out)) # 1
  \/ scanout_samples(boundary.out)[1].frames <= scanout_samples(before.out)[1].frames

reconnect_problem(before, boundary, state, scan) ==
  LET all == before.out \o boundary.out \o state.out \o scan.out IN
  \/ diagnostics_phase_problem(all, <<"BEFORE-PREHASH", "BEFORE-POSTHASH", "BOUNDARY-PREHASH", "BOUNDARY-POSTHASH",
                                      "AFTER-PREHASH", "AFTER-POSTHASH">>)
  \/ display_health_problem(all, 3, FALSE, TRUE)
  \/ disconnect_progress_rate(boundary.out, "BOUNDARY-POSTHASH", state.out, "AFTER-PREHASH")
  \/ framebuffer_hash_problem(all, <<"before", "boundary", "after">>)
  \/ runtime_status_problem(state.out, 1) \/ TouchLines(state.out) # 1
  \/ Len(diagnostics_samples(state.out)) # 2
  \/ Len(scanout_samples(scan.out)) # 1
  \/ scanout_samples(scan.out)[1].frames <= scanout_samples(boundary.out)[1].frames

run_disconnect(before, boundary, id, state, scan) ==
  \/ id.rc # 0 \/ BootIds(id) # BootIds(before)
  \/ boundary.rc # 0 \/ state.rc # 0 \/ scan.rc # 0
  \/ ~Shows(boundary.out, "mark", "COMPLETE") \/ BootIds(boundary) # BootIds(before)
  \/ boundary_problem(before, boundary)
  \/ reconnect_problem(before, boundary, state, scan)

run_snapshot(r) ==
  \/ r.rc # 0
  \/ diagnostics_phase_problem(r.out, <<"A-PREHASH", "A-POSTHASH", "B-PREHASH", "B-POSTHASH">>)
  \/ framebuffer_hash_problem(r.out, <<"a", "b">>)
  \/ ~NativeOwnership(r.out) \/ TouchLines(r.out) = 0 \/ runtime_status_problem(r.out, 1)
  \/ display_health_problem(r.out, 2, FALSE, TRUE)
=============================================================================

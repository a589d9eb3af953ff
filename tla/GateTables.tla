----------------------------- MODULE GateTables -----------------------------
(***************************************************************************)
(* The hardware gates m2-test.py .. m8-device-test.py: host programs that  *)
(* reset the board, watch its serial console, type commands into its shell *)
(* and judge the log.  This module has what each of them looks for, types, *)
(* waits for and compares; BootGate runs them.                             *)
(*                                                                         *)
(* A log is a sequence of lines [has, v, cut, echo]: the markers in it,    *)
(* the value a pattern reads from it (<<>> for none), whether it starts    *)
(* with the prompt of the shell, and whether it is the echo of what was    *)
(* typed (which the host cannot see, and no operator here looks at).       *)
(***************************************************************************)
EXTENDS Integers, FiniteSetsExt, SequencesExt

None == "none"


output_lines(log) == SelectSeq(log, LAMBDA line : ~line.cut)

\* marker in log
InText(log, m) == \E i \in DOMAIN log : m \in log[i].has

marker_seen(log, m) == InText(output_lines(log), m)

marker_count(log, m) ==
  LET lines == output_lines(log) IN Cardinality({i \in DOMAIN lines : m \in lines[i].has})

\* re.search and re.findall: the values a pattern finds, in order.  Echoes have none.
ValuesOf(log, m) == SelectSeq(log, LAMBDA line : m \in line.has /\ line.v # <<>>)

FirstValue(log, m) == IF ValuesOf(log, m) = <<>> THEN <<>> ELSE ValuesOf(log, m)[1].v
LastValue(log, m)  == LET s == ValuesOf(log, m) IN IF s = <<>> THEN <<>> ELSE s[Len(s)].v

\* A pattern over several lines: the markers ms on lines that follow each other directly,
\* each of them alone on its line.  What it finds is the values of the last lines, in order.
BlocksOf(log, ms) ==
  LET lastOf(i) == i + Len(ms) - 1
      found == {i \in DOMAIN log : lastOf(i) <= Len(log) /\ log[lastOf(i)].v # <<>> /\
                  \A k \in DOMAIN ms : log[i + k - 1].has = {ms[k]} /\ (k > 1 => ~log[i + k - 1].cut)}
      ends == {lastOf(i) : i \in found}
  IN  [n \in 1..Cardinality(ends) |->
         log[CHOOSE e \in ends : Cardinality({f \in ends : f <= e}) = n].v]

FirstBlock(log, ms) == IF BlocksOf(log, ms) = <<>> THEN <<>> ELSE BlocksOf(log, ms)[1]
-----------------------------------------------------------------------------
(***************************************************************************)
(* What a command prints, line by line: a marker as it stands; a result    *)
(* that is printed only on success; one of several jobs that run at the    *)
(* same time; a test that may use up memory; the memory in use; the        *)
(* accounting of the user pool; the booted image; a token computed from    *)
(* it; what identifies the card or the radio; a reading that must be as    *)
(* expected; a numbered line; and a line that no program looks for.        *)
(***************************************************************************)
Say(m)     == [kind |-> "say", m |-> m]
Check(m)   == [kind |-> "check", m |-> m]
Job(m)     == [kind |-> "job", m |-> m]
Work(m)    == [kind |-> "work", m |-> m]
Memory(m)  == [kind |-> "mem", m |-> m]
Pool(m)    == [kind |-> "pool", m |-> m]
Image      == [kind |-> "image", m |-> "PAYLOAD"]
Token(m)   == [kind |-> "token", m |-> m]
Unit(m)    == [kind |-> "unit", m |-> m]
Map(m)     == [kind |-> "map", m |-> m]
Other      == [kind |-> "other", m |-> None]
Numbered(m) == [kind |-> "number", m |-> m]

\* A line that is typed: what it makes the device print and the markers its own text spells.
Line(prints, text) == [prints |-> prints, text |-> text]

\* One `if' of a capture loop: markers that must all be there, markers one of which
\* must, a marker with the count it must have (0: at least one), and what is typed.
Stage(all, any, mark, n, send) ==
  [all |-> all, any |-> any, mark |-> mark, n |-> n, send |-> send]

\* Whether markers are looked for in output_lines; the stages; the markers that end the
\* capture, at once or after a last pause; the markers that break it off.
Capture(filter, stages, done, lag, stop) ==
  [filter |-> filter, stages |-> stages, done |-> done, lag |-> lag, stop |-> stop]

\* What is printed up to the prompt, the kernel's own lines, and whether there is a shell.
Boot(prints, async, shell) == [prints |-> prints, async |-> async, shell |-> shell]

Broken == {"FAIL", "BUG", "PANIC"}     \* MICRONUX:*:FAIL; Oops, BUG, Unhandled; Kernel panic

\* A loss above the limit, from the first to the last measurement.
MemoryLoss(log, limit) ==
  LET found == ValuesOf(output_lines(log), "MemFree")
  IN  Len(found) < 2 \/ found[Len(found)].v[1] - found[1].v[1] > limit
\* What every main asks of one boot: each required marker, no forbidden one, everything
\* found that identifies the boot, and found as in the first boot (`first' is <<>> there).
Verdict(filter, markers, id, first, log) ==
  LET seen(m) == IF filter THEN marker_seen(log, m) ELSE InText(log, m) IN
  /\ \A m \in markers.required : seen(m)
  /\ \A m \in markers.forbidden : ~seen(m)
  /\ \A i \in DOMAIN id : id[i] # <<>>
  /\ first # <<>> => id = first

Artifact == <<"A">>     \* the hashes of Image, dtb and root file system in --artifact-dir
-----------------------------------------------------------------------------
(* m2-test.py and m3-test.py: a boot without a shell.  m3 waits two seconds more. *)

M2Markers == [required |-> {"PAYLOAD", "PASS"}, forbidden |-> {"FAIL"}]
M2Boot    == Boot(<<Image, Token("PASS")>>, {}, FALSE)
M2Capture == Capture(FALSE, <<>>, {"PASS", "FAIL"}, FALSE, {})
\* The CRC of the hand-off and the token
M2Identity(log) == <<FirstValue(log, "PAYLOAD"), FirstValue(log, "PASS")>>
M2Main(log, first) == Verdict(FALSE, M2Markers, M2Identity(log), first, log)

M3Markers == [required |-> {"PAYLOAD", "INIT"}, forbidden |-> Broken]
M3Boot    == Boot(<<Image, Check("INIT")>>, {}, FALSE)
M3Capture == Capture(FALSE, <<>>, {"INIT"}, TRUE, {})
M3Identity(log) == <<FirstValue(log, "PAYLOAD")>>
M3Main(log, first) == Verdict(FALSE, M3Markers, M3Identity(log), first, log)
-----------------------------------------------------------------------------
(* m4-test.py and m5-test.py: the lines they type (TAG=...) spell no marker. *)

M4Markers == [required |-> {"SHELL", "BEGIN", "MEMINFO", "DONE"}, forbidden |-> Broken]
M4Boot    == Boot(<<Image, Say("SHELL")>>, {}, TRUE)
M4Lines   == <<Line(<<Say("BEGIN")>>, {}), Line(<<Say("MEMINFO")>>, {}),
               Line(<<Other, Memory("MemFree")>>, {}), Line(<<Say("DONE")>>, {})>>
M4Capture == Capture(FALSE, <<Stage({"SHELL"}, {}, None, 0, M4Lines)>>, {"DONE"}, TRUE, {})
M4Identity(log) == <<FirstValue(log, "PAYLOAD")>>
parse_measurements(log) == FirstValue(output_lines(log), "MemFree")
M4Main(log, first) ==
  Verdict(FALSE, M4Markers, M4Identity(log), first, log) /\ parse_measurements(log) # <<>>

M5Markers == [required |-> {"SHELL", "BASELINE", "TESTS", "PASS", "AFTER", "DONE"},
              forbidden |-> Broken]
M5Start   == <<Line(<<Say("BASELINE")>>, {}), Line(<<Other, Memory("MemFree")>>, {}),
               Line(<<Work("TESTS"), Numbered("CONSOLE"), Numbered("CONSOLE"), Check("PASS")>>, {})>>
M5Finish  == <<Line(<<Say("AFTER")>>, {}), Line(<<Other, Memory("MemFree")>>, {}),
               Line(<<Say("DONE")>>, {})>>
M5Capture == Capture(FALSE, <<Stage({"SHELL"}, {}, None, 0, M5Start),
                              Stage({"PASS"}, {}, None, 0, M5Finish)>>, {"DONE"}, TRUE, {})
\* Every line of the console test, whole and in order
verify_console(log) ==
  LET found == ValuesOf(output_lines(log), "CONSOLE")
  IN  Len(found) = 2 /\ \A i \in 1..2 : found[i].v = <<i>>
M5Identity(log) == <<FirstValue(log, "PAYLOAD")>>
M5Main(log, first, limit) ==
  /\ Verdict(FALSE, M5Markers, M5Identity(log), first, log)
  /\ verify_console(log) /\ ~MemoryLoss(log, limit)
-----------------------------------------------------------------------------
(* m6-test.py: the card, then the tests of m5.  NOCARD is STORAGE:FAIL stage=no-card. *)

M6Storage == <<Line(<<Unit("STORAGE")>>, {})>>
M6Boot    == Boot(<<Image, Say("SHELL")>>, {"CARD"}, TRUE)
M6Markers(allow, log) ==
  LET empty == allow /\ InText(log, "NOCARD")
  IN  [required  |-> {"SHELL", "BASELINE", "TESTS", "PASS", "AFTER", "DONE"}
                     \cup (IF empty THEN {} ELSE {"CARD", "STORAGE"}),
       forbidden |-> Broken \cup (IF empty THEN {} ELSE {"NOCARD"})]
M6Capture(allow) ==
  Capture(FALSE,
          <<Stage({"SHELL"} \cup (IF allow THEN {} ELSE {"CARD"}), {}, None, 0, M6Storage),
            Stage({}, {"STORAGE"} \cup (IF allow THEN {"NOCARD"} ELSE {}), None, 0, M5Start),
            Stage({"PASS"}, {}, None, 0, M5Finish)>>,
          {"DONE"}, TRUE, {"STORAGE-FAIL", "PANIC"} \cup (IF allow THEN {} ELSE {"NOCARD"}))
\* payload, media state and card sample
M6Identity(log) ==
  <<FirstValue(log, "PAYLOAD"),
    IF InText(log, "NOCARD") THEN <<"no-card">> ELSE FirstValue(log, "STORAGE")>>
M6Main(allow, log, first, limit) ==
  /\ Verdict(FALSE, M6Markers(allow, log), M6Identity(log), first, log)
  /\ verify_console(log) /\ ~MemoryLoss(log, limit)
-----------------------------------------------------------------------------
(* m6-network-test.py: one line, whose text spells the markers that have no result code *)

M6NetMarkers(online) ==
  [required  |-> {"SHELL", "PROBE", "UP", "CONTROL"}
                 \cup (IF online THEN {"ONLINE", "PING", "DNS", "ONLINE-DONE"} ELSE {}),
   forbidden |-> Broken]
M6NetBoot == Boot(<<Image, Say("SHELL")>>, {"SDIO"}, TRUE)
\* What CONTROL_PREFIX prints of one SDIO function: five lines, of which the last stands for all.
FunctionLines == <<"path", "vendor", "device", "class", "modalias">>
Function == [k \in 1..5 |-> IF k < 5 THEN Say(FunctionLines[k]) ELSE Unit(FunctionLines[k])]
\* CONTROL_PREFIX for the two functions of the radio, CONTROL_UP or ONLINE_CONTROL, and the link
M6NetLine(online) ==
  Line(Function \o Function \o <<Say("PROBE"), Unit("UP")>>
       \o (IF online THEN <<Check("ONLINE"), Map("FLAGS"), Check("PING"), Check("DNS"), Say("ONLINE-DONE")>>
                     ELSE <<>>)
       \o <<Map("FLAGS"), Unit("LINK"), Say("CONTROL")>>,
       {"PROBE", "CONTROL"} \cup (IF online THEN {"ONLINE-DONE"} ELSE {}))
M6NetCapture(online) ==
  Capture(FALSE, <<Stage({"SHELL", "SDIO"}, {}, None, 0, <<M6NetLine(online)>>)>>, {"CONTROL"}, TRUE, Broken)
\* CONTROL:DONE counts only on a line of its own.
M6NetDone(log) == \E i \in DOMAIN log : "CONTROL" \in log[i].has /\ ~log[i].cut /\ Cardinality(log[i].has) = 1
\* payload_hashes, sdio_identity, control_identity
M6NetIdentity(log) ==
  <<FirstValue(log, "PAYLOAD"), BlocksOf(log, FunctionLines), FirstValue(log, "UP")>>
\* The address that the radio reported is the one of the link, which is up at last.
M6NetMain(online, log, first) ==
  /\ Verdict(FALSE, M6NetMarkers(online), M6NetIdentity(log), first, log)
  /\ InText(log, "SDIO")
  /\ LastValue(log, "LINK") = FirstValue(log, "UP")
  /\ LastValue(log, "FLAGS") = <<"expected">>
-----------------------------------------------------------------------------
(* m6-combined-test.py *)

M6CombMarkers ==
  [required  |-> {"CARD", "SERVICE", "SHELL", "STORAGE", "ONLINE", "STORAGE-STRESS", "NETWORK-STRESS",
                  "RECONNECT", "DONE"},
   forbidden |-> Broken]
M6CombBoot == Boot(<<Image, Say("SERVICE"), Say("SHELL")>>, {"CARD", "SDIO"}, TRUE)
\* probe_command: a sample is a header and, on the next line, a sum.
Sample(m) == <<m, "SUM">>
M6CombLine ==
  Line(<<Check("STORAGE"), Check("ONLINE"), Say("BEFORE"), Unit("SUM"),
         Job("STORAGE-STRESS"), Job("NETWORK-STRESS"), Say("AFTER"), Unit("SUM"),
         Check("RECONNECT"), Say("RECONNECTED"), Unit("SUM"), Say("DONE")>>, {"DONE"})
M6CombCapture ==
  Capture(TRUE, <<Stage({"SHELL", "CARD", "SDIO"}, {}, None, 0, <<M6CombLine>>)>>, {"DONE"}, TRUE, Broken)
\* payload_hashes, identities, sample_hashes
M6CombIdentity(log) ==
  <<FirstValue(log, "PAYLOAD"), FirstValue(log, "CARD"), FirstValue(log, "SDIO"),
    FirstBlock(log, Sample("BEFORE"))>>
M6CombMain(log, first) ==
  /\ Verdict(TRUE, M6CombMarkers, M6CombIdentity(log), first, log)
  /\ FirstValue(log, "PAYLOAD") = Artifact
  /\ \A m \in {"AFTER", "RECONNECTED"} : FirstBlock(log, Sample(m)) = FirstBlock(log, Sample("BEFORE"))
-----------------------------------------------------------------------------
(* m7-baseline-test.py *)

M7BaseMarkers == [required  |-> {"PRE", "POST", "SERVICE", "SHELL", "TESTS", "PASS", "API", "DONE"},
                  forbidden |-> Broken]
M7BaseBoot == Boot(<<Image, Map("PRE"), Map("POST"), Say("SERVICE"), Say("SHELL")>>, {}, TRUE)
\* target_command
M7BaseLine ==
  Line(<<Say("BEGIN"), Memory("MemFree"), Work("TESTS"), Check("PASS"), Memory("MemFree"),
         Check("API"), Say("DONE")>>, {"BEGIN", "DONE"})
M7BaseCapture == Capture(TRUE, <<Stage({"SHELL"}, {}, None, 0, <<M7BaseLine>>)>>, {"DONE"}, TRUE, Broken)
\* parse_pmp: entries that contradict each other are an error.
parse_pmp(log, phase) == {ValuesOf(log, phase)[i].v : i \in DOMAIN ValuesOf(log, phase)}
M7BaseIdentity(log) == <<FirstValue(log, "PAYLOAD")>>
verify_boot(log, limit) ==
  ~MemoryLoss(log, limit) /\ \A phase \in {"PRE", "POST"} : parse_pmp(log, phase) = {<<"expected">>}
M7BaseMain(log, first, limit) ==
  Verdict(TRUE, M7BaseMarkers, M7BaseIdentity(log), first, log) /\ verify_boot(log, limit)
-----------------------------------------------------------------------------
(* m7-test.py: a warm-up, a stabilisation and a measured run of one workload *)

M7Markers == [required  |-> {"PMP", "POOL", "SERVICE", "SHELL", "WARM-PASS", "WORK-OK", "WORK-DONE", "DONE"},
              forbidden |-> Broken]
M7Boot == Boot(<<Image, Check("PMP"), Say("POOL"), Say("SERVICE"), Say("SHELL")>>, {}, TRUE)
warmup_command     == Line(<<Check("PREPARED")>>, {"PREPARED", "FAIL"})
workload_command   == Line(<<Say("WORK-BEGIN"), Work("WORK-OK"), Map("JOB-WALL"), Map("JOB-OUTPUT"),
                             Say("WORK-DONE")>>, {"WORK-DONE", "FAIL"})
quiesce_command(m) == Line(<<Say(m)>>, {m})
measurement_before_command ==
  Line(<<Say("TEST-BEGIN"), Say("MEM-BEFORE"), Memory("MemFree"), Say("ACCOUNT-BEFORE"), Pool("RANGE"),
         Say("BEFORE-DONE")>>, {"BEFORE-DONE"})
measurement_after_command ==
  Line(<<Say("ACCOUNT-AFTER"), Pool("RANGE"), Say("MEM-AFTER"), Memory("MemFree"), Say("DONE")>>, {"DONE"})

\* Fault: the baseline is measured after the measured run.
M7CaptureLateBaseline == Capture(TRUE, <<
  Stage({"SHELL", "POOL", "SERVICE"}, {}, None, 0, <<warmup_command>>),
  Stage({}, {}, "PREPARED", 0, <<workload_command>>),
  Stage({}, {}, "WORK-DONE", 1, <<quiesce_command("QUIET-1")>>),
  Stage({}, {}, "QUIET-1", 0, <<quiesce_command("WARM-PASS"), workload_command>>),
  Stage({}, {}, "WORK-DONE", 2, <<quiesce_command("QUIET-2")>>),
  Stage({}, {}, "QUIET-2", 0, <<workload_command>>),
  Stage({}, {}, "WORK-DONE", 3, <<quiesce_command("QUIET-3")>>),
  Stage({}, {}, "QUIET-3", 0, <<measurement_before_command>>),
  Stage({}, {}, "BEFORE-DONE", 0, <<measurement_after_command>>)>>, {"DONE"}, TRUE, Broken)

\* capture_boot
M7Capture == Capture(TRUE, <<
  Stage({"SHELL", "POOL", "SERVICE"}, {}, None, 0, <<warmup_command>>),
  Stage({}, {}, "PREPARED", 0, <<workload_command>>),
  Stage({}, {}, "WORK-DONE", 1, <<quiesce_command("QUIET-1")>>),
  Stage({}, {}, "QUIET-1", 0, <<quiesce_command("WARM-PASS"), workload_command>>),
  Stage({}, {}, "WORK-DONE", 2, <<quiesce_command("QUIET-2")>>),
  Stage({}, {}, "QUIET-2", 0, <<measurement_before_command>>),
  Stage({}, {}, "BEFORE-DONE", 0, <<workload_command>>),
  Stage({}, {}, "WORK-DONE", 3, <<quiesce_command("QUIET-3")>>),
  Stage({}, {}, "QUIET-3", 0, <<measurement_after_command>>)>>, {"DONE"}, TRUE, Broken)

\* The indices, in output_lines, where a run begins: a line that is the marker and nothing else.
RunStarts(log) ==
  LET lines == output_lines(log) IN {i \in DOMAIN lines : lines[i].has = {"WORK-BEGIN"}}

\* workload_runs: three runs, the lines of each
workload_runs(log) ==
  LET lines == output_lines(log)
      starts == SetToSortSeq(RunStarts(log), <)
      endOf(n) == IF n = Len(starts) THEN Len(lines) ELSE starts[n + 1] - 1
  IN  [n \in DOMAIN starts |-> SubSeq(lines, starts[n], endOf(n))]

\* boot_hashes; accounting and free_memory: a header and the reading on the next line
accounting(log, phase) == FirstBlock(log, <<phase, "RANGE">>)
free_memory(log, phase) == FirstBlock(log, <<phase, "MemFree">>)
M7Identity(log) == <<FirstValue(log, "PAYLOAD"), accounting(log, "ACCOUNT-BEFORE")>>

\* The first job killed for its time and the first killed for its output: "expected" is
\* within the bounds of both.
job_policy_results(log) == \A m \in {"JOB-WALL", "JOB-OUTPUT"} : FirstValue(log, m) = <<"expected">>

\* Every run shows every result, the measured one the policy of the jobs; the pool is as it
\* was before the measured run, and so is the memory up to the limit.
M7Main(log, first, limit) ==
  LET runs == workload_runs(log) IN
  /\ Len(runs) = 3 /\ job_policy_results(runs[3])
  /\ \A n \in 1..3, m \in {"WORK-OK", "WORK-DONE"} : InText(runs[n], m)
  /\ Verdict(TRUE, M7Markers, M7Identity(log), first, log)
  /\ FirstValue(log, "PAYLOAD") = Artifact
  /\ accounting(log, "ACCOUNT-AFTER") = accounting(log, "ACCOUNT-BEFORE")
  /\ <<>> \notin {free_memory(log, "MEM-BEFORE"), free_memory(log, "MEM-AFTER")}
  /\ free_memory(log, "MEM-AFTER")[1] - free_memory(log, "MEM-BEFORE")[1] <= limit
-----------------------------------------------------------------------------
(* m8-device-test.py: the text of its line spells RAW-MMIO:PASS and DONE. *)

M8Markers == [required |-> {"SERVICE", "API", "RAW", "RECOVERY", "DONE"}, forbidden |-> Broken]
M8Boot == Boot(<<Image, Say("SERVICE"), Say("SHELL")>>, {}, TRUE)
\* test_command; RAW-MMIO:FAIL is not among the forbidden markers.
M8Line == Line(<<Check("API"), Check("RAW"), Check("RECOVERY"), Say("DONE")>>, {"RAW", "DONE"})
M8Capture == Capture(TRUE, <<Stage({"SHELL", "SERVICE"}, {}, None, 0, <<M8Line>>)>>, {"DONE"}, TRUE, Broken)
\* artifact_digest, payload_hashes
M8Identity(log) == <<FirstValue(log, "PAYLOAD")>>
M8Main(log) == Verdict(TRUE, M8Markers, M8Identity(log), <<Artifact>>, log)
=============================================================================

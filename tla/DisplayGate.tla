----------------------------- MODULE DisplayGate ----------------------------
(***************************************************************************)
(* The display gate, m9-hardware-test.py, at work: the host program and    *)
(* its serial port, the shell of the board that runs its commands (and, in *)
(* the disconnect mode, a script in the background while the port is       *)
(* closed), and the display driver whose telemetry they read.  Time passes *)
(* in ticks, when nobody has anything to do at once.                       *)
(***************************************************************************)
EXTENDS DisplayEvidence

CONSTANTS Modes,        \* --mode
          Rounds,       \* how often the prompt is asked for before the deadline
          Troubles      \* bound on what goes wrong in one run

ASSUME DisplayGateAssumption ==
  Samples \in 2..Len(SoakNames) /\ Disconnect \in Nat \ {0} /\ Rounds >= 4 /\ Troubles \in Nat

VARIABLES
  mode,
  pc,        \* "reset", "boot", "send", "wait", "close", "closed", "passive", "recover", "answer",
             \* "late" (a write timed out), "pass" or "fail"
  hostT,     \* ticks that the host still sleeps or reads
  at,        \* commands answered
  outs,      \* their results, where they are still needed
  log, cap,  \* captured while the host only listens, and by recover_reconnect_prompt
  start,     \* response_start
  round, closer,   \* of recover_reconnect_prompt
  port,      \* "up", "down", or "stale": back, but not for the handle the host has open
  wire,      \* printed on the console, not yet read
  typed,     \* written by the host, not yet read by the shell
  sh,        \* the shell: "boot", "prompt", "dq" or "sq" inside a quotation, or "busy"
  num, script, fgT, rc, hashes,   \* the command it runs, the rest of it, ticks to wait, m9_rc, sums so far
  bg, bgT, file,             \* the rest of the boundary script, ticks to wait, its output file
  up, boots,                 \* uptime, and which boot this is
  disp,      \* the display driver: a sample, and its rate
  fb, lit, touch, mem, image,
  drawing,   \* "no", or the picture the drawing program puts back
  troubles, cause,   \* what has gone wrong, as nobody sees it
  seen,      \* cause, when an item of the kind was last produced
  inside     \* the boundary has been sampled only while the port was closed

hostRest   == <<hostT, at, outs, log, cap, start, round, closer>>
hostVars   == <<mode, pc, hostRest, port>>
shellVars  == <<typed, sh, num, script, fgT, rc, hashes>>
bgVars     == <<bg, bgT, file, inside>>
boardVars  == <<up, boots, disp, fb, lit, touch, drawing, mem, image>>
ghosts     == <<troubles, cause, seen>>
vars       == <<hostVars, wire, shellVars, bgVars, boardVars, ghosts>>

Program ==
  CASE mode = "preflight"  -> <<RuntimeIdentity, TouchTerminal, Check, DisplaySysfs, VpgUnavailable,
                                Presentation, Signal>>
    [] mode = "touch"      -> <<RuntimeIdentity, TouchTerminal, Touch>>
    [] mode = "soak"       -> <<RuntimeIdentity, TouchTerminal, Soak>>
    [] mode = "stress"     -> <<RuntimeIdentity, TouchTerminal, Stress>>
    [] mode = "disconnect" -> <<RuntimeIdentity, TouchTerminal, Policy, Before, Arm, BoundaryRead, AfterId,
                                AfterState, AfterScanout>>
    [] mode = "snapshot"   -> <<TouchTerminal, Snapshot>>

\* What is wrong after the n-th command, given all results
ProblemPreflight(n, r) ==
  CASE n = 3 -> preflight_check(r[3]) [] n = 4 -> preflight_sysfs(r[4]) [] n = 5 -> preflight_vpg(r[5])
    [] n = 6 -> preflight_presentation(r[6]) [] n = 7 -> preflight_signal(r[7])
ProblemDisconnect(n, r) ==
  CASE n = 3 -> disconnect_policy(r[3]) [] n = 4 -> disconnect_before(r[4]) [] n = 5 -> disconnect_arm(r[5])
    [] n \in 6..8 -> FALSE
    [] n = 9 -> run_disconnect(r[4], r[6], r[7], r[8], r[9])
Problem(n, r) ==
  CASE mode = "snapshot" -> IF n = 1 THEN wait_for_touch_terminal(r[1]) ELSE run_snapshot(r[2])
    [] mode # "snapshot" /\ n = 1 -> verify_runtime_identity(r[1])
    [] mode # "snapshot" /\ n = 2 -> wait_for_touch_terminal(r[2])
    [] mode = "preflight" /\ n > 2  -> ProblemPreflight(n, r)
    [] mode = "touch" /\ n > 2      -> run_touch(r[3])
    [] mode = "soak" /\ n > 2       -> run_soak(r[3])
    [] mode = "stress" /\ n > 2     -> run_stress(r[3])
    [] mode = "disconnect" /\ n > 2 -> ProblemDisconnect(n, r)

\* What the board prints up to the prompt
BootScript ==
  <<E("kernel")>> \o [n \in DOMAIN BootStages |-> En("stage", BootStages[n])]
  \o <<En("version", "6.12.27"), En("fragment", "stage"), En("fragment", "reveal"), En("mark", "SHELL")>>

Running == [live |-> TRUE, before |-> 1, frames |-> 1, requests |-> 0, completions |-> 0, front |-> 0,
            queued |-> -1, back |-> 1, errors |-> 0, slow |-> 0, irqZero |-> 0, pollZero |-> 0, rate |-> 2]

NoFile  == [there |-> FALSE, text |-> <<>>]
Forever == 4 * Rounds      \* longer than the host asks for the prompt

Kinds == {"scan", "status", "hash", "mem"}

Init ==
  /\ mode \in Modes
  /\ IF mode = "snapshot"
     THEN /\ pc = "passive" /\ sh \in {"prompt", "dq", "sq", "busy"} /\ script = <<>>
          /\ touch \in {"registering", "ready"} /\ fgT \in (IF sh = "busy" THEN {1, Forever} ELSE {0})
     ELSE pc = "reset" /\ sh = "boot" /\ script = BootScript /\ touch = "registering" /\ fgT = 0
  /\ hostT = 0 /\ at = 0 /\ outs = <<>> /\ log = <<>> /\ cap = <<>> /\ start = 0
  /\ round = 0 /\ closer = 1 /\ port = "up"
  /\ wire = <<>> /\ typed = <<>> /\ num = 0 /\ rc = 0 /\ hashes = {}
  /\ bg = <<>> /\ bgT = 0 /\ file = NoFile /\ inside = FALSE
  /\ up = 1 /\ boots = 1 /\ disp = Running /\ fb = "status" /\ lit = "lit" /\ drawing = "no" /\ mem = 0
  /\ image = "A" /\ troubles = 0 /\ seen = [k \in Kinds |-> {}]
  /\ cause = IF fgT = Forever THEN {"busy"} ELSE {}
-----------------------------------------------------------------------------
(* The board *)

Working == pc \notin {"pass", "fail"}

\* What is printed while nobody listens may be kept or lost.
Emit(items) ==
  \/ port # "down" /\ wire' = wire \o items
  \/ (pc \in {"reset", "closed"} \/ port = "down") /\ UNCHANGED wire

Prompt == Item("prompt", "", 0)
More   == Item("more", "", 0)
End(n, code) == Item("end", n, code)

Sample == [live |-> disp.live, before |-> disp.frames, frames |-> disp.frames, requests |-> disp.requests,
           completions |-> disp.completions, front |-> disp.front, queued |-> disp.queued, back |-> disp.back,
           errors |-> disp.errors, slow |-> disp.slow, irqZero |-> disp.irqZero, pollZero |-> disp.pollZero]

\* What an entry prints
ItemsOf(e) ==
  CASE e.k = "diag"   -> <<Item("diag", "", Sample)>>
    [] e.k = "scan"   -> <<Item("scan", "", [Sample EXCEPT !.frames = @ + disp.rate])>>
    [] e.k = "hash"   -> <<Item("hash", e.p, fb)>>
    [] e.k = "uptime" -> <<Item("uptime", e.p, up)>>
    [] e.k = "boot"   -> <<Item("boot", e.p, boots)>>
    [] e.k = "touch"  -> <<Item("touch", "", touch)>>
    [] e.k = "status" -> <<Item("status", e.p, lit)>>
    [] e.k = "mem"    -> <<Item("mem", e.p, mem)>>
    [] e.k = "kernel" -> <<Item("kernel", "", [Artifact EXCEPT !.sum = image])>>
    [] e.k = "cat"    -> file.text
    [] e.k = "arm"    -> <<Item("armed", "", 0)>>
    [] e.k = "restore" -> <<Item("restored", e.p, 0)>>
    [] e.k = "touch-ready" -> <<Item("touch", "", touch)>>
    [] e.k = "ownership"   -> <<Item("ownership", "", disp.live)>>
    [] e.k \in {"phase", "mark", "stage", "version", "fragment", "test"} -> <<Item(e.k, e.p, 0)>>
    [] OTHER -> <<>>

Note(e) == seen' = IF e.k \in Kinds THEN [seen EXCEPT ![e.k] = cause] ELSE seen

\* The next entry of the command, or of the boot, in the foreground
Step ==
  LET e == Head(script) IN
  /\ Working /\ sh \in {"busy", "boot"} /\ fgT = 0 /\ script # <<>>
  /\ CASE e.k = "touch-wait" ->
            /\ script' = Tail(script)
            /\ \/ touch # "registering" /\ UNCHANGED <<touch, rc, cause>>
               \/ touch = "registering" /\ touch' \in {"ready", "unavailable"} /\ UNCHANGED <<rc, cause>>
               \/ touch = "registering" /\ rc' = 1 /\ cause' = cause \cup {"touch"} /\ UNCHANGED touch
       [] e.k = "touch-ready" ->
            IF touch = "ready" THEN script' = Tail(script) /\ UNCHANGED <<touch, rc, cause>>
            ELSE /\ script' = SubSeq(script, Len(script) - 1, Len(script))
                 /\ rc' = 1 /\ cause' = cause \cup {"touch"} /\ UNCHANGED touch
       [] e.k = "assert"      -> /\ script' = Tail(script) /\ UNCHANGED <<touch, cause>>
                                 /\ rc' = (IF lit = "lit" THEN rc ELSE 1)
       [] e.k = "assert-same" -> /\ script' = Tail(script) /\ UNCHANGED <<touch, cause>>
                                 /\ rc' = (IF lit = "lit" /\ Cardinality(hashes) <= 1 THEN rc ELSE 1)
       [] e.k = "same" -> /\ script' = Tail(script) /\ UNCHANGED <<touch, cause>>
                          /\ rc' = (IF Cardinality(hashes) <= 1 THEN rc ELSE 1)
       [] e.k = "cat" -> script' = Tail(script) /\ rc' = (IF file.there THEN rc ELSE 1) /\ UNCHANGED <<touch, cause>>
       [] OTHER       -> script' = Tail(script) /\ UNCHANGED <<touch, rc, cause>>
  /\ Emit(ItemsOf(e)) /\ Note(e)
  /\ fgT' = IF e.k = "sleep" THEN e.n ELSE 0
  /\ hashes' = IF e.k = "hash" THEN hashes \cup {fb} ELSE hashes
  /\ drawing' = CASE e.k = "draw" -> fb [] e.k = "restore" -> "no" [] OTHER -> drawing
  /\ fb' = CASE e.k = "draw" -> "drawing" [] e.k = "restore" -> drawing [] OTHER -> fb
  /\ IF e.k = "arm" THEN bg' = BoundaryScript /\ bgT' = 0 /\ file' = [there |-> TRUE, text |-> <<>>] /\ inside' = TRUE
                    ELSE UNCHANGED bgVars
  /\ UNCHANGED <<hostVars, typed, sh, num, up, boots, disp, lit, mem, image, troubles>>

\* A test fails, or the drawing program does and leaves its picture, or a line of the boot is left out.
StepFails ==
  LET e == Head(script) IN
  /\ troubles < Troubles /\ troubles' = troubles + 1
  /\ Working /\ sh \in {"busy", "boot"} /\ fgT = 0 /\ script # <<>>
  /\ e.k \in {"test", "restore", "stage", "version", "fragment"}
  /\ script' = Tail(script) /\ rc' = (IF e.k = "test" THEN 1 ELSE rc)
  /\ drawing' = IF e.k = "restore" THEN "no" ELSE drawing
  /\ cause' = cause \cup {e.k}
  /\ UNCHANGED <<hostVars, wire, typed, sh, num, fgT, hashes, bgVars, up, boots, disp, fb, lit, touch, mem, image,
                 seen>>

\* The command is over: the result code and the prompt.
Ends ==
  /\ Working /\ sh \in {"busy", "boot"} /\ fgT = 0 /\ script = <<>> /\ sh' = "prompt"
  /\ Emit((IF sh = "busy" THEN <<End(num, rc)>> ELSE <<>>) \o <<Prompt>>)
  /\ UNCHANGED <<hostVars, typed, num, script, fgT, rc, hashes, bgVars, boardVars, ghosts>>

Quote(q) == IF q = "dq" THEN "\"" ELSE "'"

\* The shell reads a line: a command, or what the host types to get a prompt.
Take ==
  LET line == Head(typed) IN
  /\ Working /\ typed # <<>> /\ sh \in {"prompt", "dq", "sq"}
  /\ typed' = Tail(typed)
  /\ IF sh = "prompt" /\ line[1] = "cmd"
     THEN /\ sh' = "busy" /\ num' = line[2] /\ script' = Program[line[2]] /\ rc' = 0
          /\ hashes' = (IF mode = "disconnect" THEN hashes ELSE {})
          /\ cause' = (IF mode = "disconnect" THEN cause ELSE cause \ {"repaint"})
          /\ UNCHANGED wire
     ELSE /\ \/ sh = "prompt" /\ line[1] = "\n" /\ sh' = "prompt"
             \/ sh = "prompt" /\ \E q \in {"dq", "sq"} : line[1] = Quote(q) /\ sh' = q
             \/ sh # "prompt" /\ sh' = (IF line[1] = Quote(sh) THEN "prompt" ELSE sh)
          /\ Emit(<<IF sh' = "prompt" THEN Prompt ELSE More>>)
          /\ UNCHANGED <<num, script, rc, hashes, cause>>
  /\ UNCHANGED <<hostVars, fgT, bgVars, boardVars, troubles, seen>>

\* The boundary script: everything it prints goes to its file.
Background ==
  LET e == Head(bg) IN
  /\ Working /\ bg # <<>> /\ bgT = 0
  /\ bg' = Tail(bg)
  /\ bgT' = CASE e.k = "sleep" -> e.n [] e.k = "hash" -> 1 [] OTHER -> 0
  /\ file' = [file EXCEPT !.text = @ \o ItemsOf(e)]
  /\ inside' = (inside /\ (e.k = "sleep" \/ pc = "closed"))
  /\ Note(e)
  /\ UNCHANGED <<hostVars, wire, shellVars, boardVars, troubles, cause>>

\* A kernel line is harmless except where the host looks at what follows: at the end of the prompt that it waits for
\* and cannot ask for, and between an uptime and its sample.
Between == EndsWith(wire, "uptime") \/ (pc = "boot" /\ EndsWith(wire, "prompt"))

\* What can go wrong with the board.
Trouble ==
  /\ Working /\ troubles < Troubles /\ troubles' = troubles + 1
  /\ \/ /\ cause' = cause \cup {"fault"} /\ Emit(<<Item("fault-", "", 0), Item("-fault", "", 0)>>)
        /\ \E still \in BOOLEAN : disp' = [disp EXCEPT !.live = still, !.errors = 1, !.rate = 0]
        /\ UNCHANGED <<fb, lit, touch, mem, image>>
     \/ /\ \/ cause' = cause \cup {"stall"} /\ disp' = [disp EXCEPT !.rate = 0]
           \/ disp.rate # 0 /\ cause' = cause \cup {"fast"} /\ disp' = [disp EXCEPT !.rate = 4]
           \/ cause' = cause \cup {"slow"}  /\ disp' = [disp EXCEPT !.slow = @ + 1]
           \/ cause' = cause \cup {"poll"}  /\ disp' = [disp EXCEPT !.pollZero = @ + 1]
           \/ UNCHANGED cause               /\ disp' = [disp EXCEPT !.irqZero = @ + 1]
           \/ cause' = cause \cup {"roles"} /\ \E b \in {-1, disp.front, 3} : disp' = [disp EXCEPT !.back = b]
        /\ UNCHANGED <<wire, fb, lit, touch, mem, image>>
     \/ /\ cause' = cause \cup (IF Between THEN {"between"} ELSE {}) /\ Emit(<<Item("other", "", 0)>>)
        /\ UNCHANGED <<disp, fb, lit, touch, mem, image>>
     \/ /\ \/ /\ drawing = "no" /\ fb # "other" /\ fb' = "other" /\ UNCHANGED <<lit, touch, mem, image>>
              /\ cause' = cause \cup (IF hashes = {} THEN {} ELSE {"repaint"})
           \/ lit' = "dark" /\ cause' = cause \cup {"dim"} /\ UNCHANGED <<fb, touch, mem, image>>
           \/ touch = "ready" /\ touch' = "errors" /\ cause' = cause \cup {"touch"} /\ UNCHANGED <<fb, lit, mem, image>>
           \/ /\ mem' = mem + MemoryLimit + 1 /\ UNCHANGED <<fb, lit, touch, image>>
              /\ cause' = cause \cup (IF OfKind(wire, "mem") = <<>> THEN {} ELSE {"leak"})
           \/ /\ sh = "boot" /\ script = BootScript /\ image' = "B" /\ cause' = cause \cup {"image"}
              /\ UNCHANGED <<fb, lit, touch, mem>>
        /\ UNCHANGED <<wire, disp>>
  /\ UNCHANGED <<hostVars, shellVars, bgVars, up, boots, drawing, seen>>

\* The board restarts: the shell, what was typed, the script and its file are gone.
Reboot ==
  /\ Working /\ troubles < Troubles /\ troubles' = troubles + 1
  /\ cause' = cause \cup {"reboot"}
  /\ sh' = "boot" /\ script' = BootScript /\ fgT' = 3 /\ typed' = <<>> /\ rc' = 0 /\ hashes' = {} /\ num' = 0
  /\ bg' = <<>> /\ bgT' = 0 /\ file' = NoFile
  /\ up' = 0 /\ boots' = boots + 1 /\ disp' = Running /\ fb' = "status" /\ lit' = "lit" /\ touch' = "registering"
  /\ drawing' = "no" /\ mem' = 0 /\ port' = "down"
  /\ UNCHANGED <<mode, pc, hostRest, wire, image, inside, seen>>

\* The link drops.  A host that listens with no second attempt must fail.
LinkDrops ==
  /\ Working /\ troubles < Troubles /\ troubles' = troubles + 1
  /\ port = "up" /\ port' = "down"
  /\ cause' = IF pc \in {"boot", "send", "wait", "close"} \/ (pc = "passive" /\ mode = "snapshot")
              THEN cause \cup {"link"} ELSE cause
  /\ UNCHANGED <<mode, pc, hostRest, wire, shellVars, bgVars, boardVars, seen>>

Answered == \E i \in DOMAIN wire : wire[i].k = "end" /\ wire[i].p = at + 1
AtShell  == Shows(wire, "mark", "SHELL") /\ EndsWith(wire, "prompt")

\* Nobody has anything to do at once.
Quiet ==
  /\ ~(sh \in {"busy", "boot"} /\ fgT = 0) /\ ~(sh \in {"prompt", "dq", "sq"} /\ typed # <<>>)
  /\ ~(bg # <<>> /\ bgT = 0)
  /\ CASE port = "down"          -> TRUE
       [] pc = "boot"            -> port = "up" /\ fgT > 0
       [] pc = "wait"            -> port = "up" /\ fgT > 0
       [] pc = "send"            -> FALSE
       [] OTHER                  -> hostT > 0

Down(t) == IF t > 0 THEN t - 1 ELSE 0

\* The display goes on, with a flip if somebody draws, and the link comes back.
Tick ==
  /\ Working /\ Quiet
  /\ hostT' = Down(hostT) /\ fgT' = Down(fgT) /\ bgT' = Down(bgT) /\ up' = up + 1
  /\ disp' = IF drawing = "no" \/ disp.rate = 0 THEN [disp EXCEPT !.frames = @ + disp.rate]
             ELSE [disp EXCEPT !.frames = @ + disp.rate, !.requests = @ + 1, !.completions = @ + 1,
                               !.front = disp.back, !.back = disp.front]
  /\ port' = IF port = "down" /\ sh # "boot" THEN (IF pc \in {"reset", "closed"} THEN "up" ELSE "stale") ELSE port
  /\ UNCHANGED <<mode, pc, at, outs, log, cap, start, round, closer, wire, typed, sh, num, script, rc, hashes,
                 bg, file, inside, boots, fb, lit, touch, drawing, mem, image, ghosts>>
-----------------------------------------------------------------------------
(* The host *)

\* After rom_reset the port is opened while the board boots; what it has printed by then is thrown away.
OpenAndClear ==
  /\ pc = "reset" /\ port # "down" /\ pc' = "boot" /\ port' = "up"
  /\ wire' = <<>>
  /\ cause' = IF sh = "boot" /\ script = BootScript THEN cause ELSE cause \cup {"missed"}
  /\ UNCHANGED <<mode, hostRest, shellVars, bgVars, boardVars, troubles, seen>>

\* wait_for_shell, with the verdicts on the boot log
wait_for_shell ==
  /\ pc = "boot" /\ port = "up"
  /\ \/ AtShell /\ pc' = IF verify_boot_payload(wire) \/ boot_contract_problem(wire) THEN "fail" ELSE "send"
     \/ ~AtShell /\ (failure_marker(wire) \/ sh = "prompt") /\ pc' = "fail"
  /\ wire' = <<>>
  /\ UNCHANGED <<mode, hostRest, port, shellVars, bgVars, boardVars, ghosts>>

\* run_command writes its line ...
Send ==
  /\ pc = "send" /\ port = "up" /\ pc' = "wait"
  /\ typed' = Append(typed, <<"cmd", at + 1>>)
  /\ UNCHANGED <<mode, hostRest, port, wire, sh, num, script, fgT, rc, hashes,
                 bgVars, boardVars, ghosts>>

\* Only run_disconnect looks at a result again; what is left of it for the verdicts
NoResult == [out |-> <<>>, rc |-> 0]
Evidence(text) == SelectSeq(text, LAMBDA i : i.k \notin {"prompt", "more", "end"})

\* ... and reads up to the result code and anything after it.  Once its script is armed, the disconnect mode closes
\* the port.
run_command ==
  /\ pc = "wait" /\ port = "up"
  /\ \E i \in DOMAIN wire : wire[i].k = "end" /\ wire[i].p = at + 1 /\ \E n \in i..Len(wire) :
       LET text    == SubSeq(wire, 1, n)
           result  == [out |-> Evidence(text), rc |-> wire[i].v]
           results == Append(outs, result)
           wrong   == failure_marker(text) \/ Problem(at + 1, results)
       IN  /\ wire' = SubSeq(wire, n + 1, Len(wire)) /\ at' = at + 1
           /\ outs' = Append(outs, IF mode = "disconnect" /\ at > 2 THEN result ELSE NoResult)
           /\ pc' = CASE wrong                               -> "fail"
                      [] ~wrong /\ at' = Len(Program)        -> "pass"
                      [] ~wrong /\ at' < Len(Program)        -> IF Program[at'] = Arm THEN "close" ELSE "send"
  /\ hostT' \in (IF pc' = "close" THEN {0, 1} ELSE {0})
  /\ UNCHANGED <<mode, log, cap, start, round, closer, port, shellVars, bgVars, boardVars, ghosts>>

\* A failure marker before the result code, or no result code: the shell waits for another line.
CommandFails ==
  /\ pc = "wait" /\ port = "up"
  /\ failure_marker(wire) \/ (~Answered /\ typed = <<>> /\ sh \in {"prompt", "dq", "sq"})
  /\ pc' = "fail"
  /\ UNCHANGED <<mode, hostRest, port, wire, shellVars, bgVars, boardVars, ghosts>>

Close ==
  /\ pc = "close" /\ hostT = 0 /\ port = "up"
  /\ pc' = "closed" /\ hostT' = Disconnect + 3
  /\ UNCHANGED <<mode, at, outs, log, cap, start, round, closer, port, wire, shellVars, bgVars, boardVars, ghosts>>

open_serial ==
  /\ pc = "closed" /\ hostT = 0 /\ port # "down"
  /\ pc' = "passive" /\ hostT' = 2 /\ port' = "up"
  /\ UNCHANGED <<mode, at, outs, log, cap, start, round, closer, wire, shellVars, bgVars, boardVars, ghosts>>

\* A capture ends: with all that was printed, or in the middle of a message.
Captured(n) == n = Len(wire) \/ (n + 1 = Len(wire) /\ EndsWith(wire, "-fault"))

capture_passive_output ==
  /\ pc = "passive" /\ hostT = 0 /\ port = "up"
  /\ \E n \in 0..Len(wire) : Captured(n) /\ log' = SubSeq(wire, 1, n) /\ wire' = SubSeq(wire, n + 1, Len(wire))
  /\ pc' = IF mode = "snapshot" /\ failure_marker(log') THEN "fail" ELSE "recover"
  /\ hostT' = 1
  /\ UNCHANGED <<mode, at, outs, cap, start, round, closer, port, shellVars, bgVars, boardVars, ghosts>>

\* Fault: only double quotes are closed.
QuoteClosersDouble == <<"\"", "\"">>

QuoteClosers == <<"\"", "'">>

\* recover_reconnect_prompt listens, and asks for a prompt; inside a quotation it must be closed first.  The write may
\* time out, ...
AskForPrompt ==
  /\ pc = "recover" /\ hostT = 0 /\ port = "up"
  /\ \E n \in 0..Len(wire) : Captured(n) /\ cap' = cap \o SubSeq(wire, 1, n) /\ wire' = SubSeq(wire, n + 1, Len(wire))
  /\ start' = Len(cap') /\ hostT' = 1
  /\ LET inQuotes == EndsWith(cap', "more")
         payload  == IF inQuotes THEN QuoteClosers[closer] ELSE "\n"
     IN  /\ closer' = IF inQuotes THEN (closer % Len(QuoteClosers)) + 1 ELSE closer
         /\ \/ pc' = "answer" /\ typed' = Append(typed, <<payload>>) /\ UNCHANGED troubles
            \/ /\ troubles < Troubles /\ troubles' = troubles + 1
               /\ pc' = "late" /\ typed' \in {typed, Append(typed, <<payload>>)}
  /\ UNCHANGED <<mode, at, outs, log, round, port, sh, num, script, fgT, rc, hashes, bgVars, boardVars, cause, seen>>

\* ... and takes the prompt for an answer if it ends what has come since, also after a write that timed out; then it
\* opens the port again if there is none.
reconnect_prompt_complete(output) == Len(output) > start /\ EndsWith(output, "prompt")

PromptAnswered ==
  /\ pc \in {"answer", "late"} /\ hostT = 0 /\ port = "up"
  /\ \E n \in 0..Len(wire) :
       /\ Captured(n) /\ cap' = cap \o SubSeq(wire, 1, n)
       /\ \/ wire' = SubSeq(wire, n + 1, Len(wire))
          \/ pc = "late" /\ ~reconnect_prompt_complete(cap') /\ wire' = <<>>
  /\ IF reconnect_prompt_complete(cap')
     THEN /\ pc' = IF failure_marker(IF mode = "snapshot" THEN cap' ELSE log \o cap') THEN "fail" ELSE "send"
          /\ UNCHANGED <<hostT, round>>
     ELSE /\ pc' = IF round + 1 < Rounds THEN "recover" ELSE "fail"
          /\ hostT' = 1 /\ round' = round + 1
  /\ UNCHANGED <<mode, at, outs, log, start, closer, port, shellVars, bgVars, boardVars, ghosts>>

\* The port is gone while the host uses it: the end of the run, ...
SerialException ==
  /\ port # "up"
  /\ pc \in {"boot", "send", "wait", "close"} \/ (pc = "passive" /\ mode = "snapshot")
  /\ pc' = "fail"
  /\ UNCHANGED <<mode, hostRest, port, wire, shellVars, bgVars, boardVars, ghosts>>

\* ... except after the reconnect, where it opens the port again; what the interrupted capture had read is lost.
reopen_reconnect_serial ==
  /\ port = "stale" /\ port' = "up"
  /\ \/ pc = "passive" /\ mode = "disconnect" /\ pc' = "passive" /\ hostT' = 2 /\ UNCHANGED round
     \/ /\ pc \in {"recover", "answer", "late"} /\ hostT' = 1 /\ round' = round + 1
        /\ pc' = IF round + 1 < Rounds THEN "recover" ELSE "fail"
  /\ wire' \in {wire, <<>>}
  /\ UNCHANGED <<mode, at, outs, log, cap, start, closer, shellVars, bgVars, boardVars, ghosts>>

Over == pc \in {"pass", "fail"} /\ UNCHANGED vars

Board == Step \/ StepFails \/ Ends \/ Take \/ Background \/ Trouble \/ Reboot \/ LinkDrops \/ Tick
Host == \/ OpenAndClear \/ wait_for_shell \/ Send \/ run_command \/ CommandFails \/ Close \/ open_serial
        \/ capture_passive_output \/ AskForPrompt \/ PromptAnswered \/ SerialException \/ reopen_reconnect_serial

Next == Board \/ Host \/ Over
Spec == Init /\ [][Next]_vars
-----------------------------------------------------------------------------
\* What a boot of its own rules out; a snapshot does not ask for one.
OfTheBoot == IF mode = "snapshot" THEN {} ELSE {"reboot", "image", "stage", "version", "fragment"}

\* PassIsHealthy.  The gate passes (every return 0 of main) only a board that had none of what it looks for when it
\* was last looked at: no display fault, stall, late or empty transfer, confused buffer roles, restart, other image or
\* missing line of the boot; a lit panel; the same picture as before; and no memory lost under stress.
PassIsHealthy ==
  pc = "pass" =>
    /\ seen["scan"] \cap ({"fault", "stall", "slow", "poll", "roles"} \cup OfTheBoot) = {}
    /\ "dim" \notin seen["status"] /\ "repaint" \notin seen["hash"] /\ "leak" \notin seen["mem"]

\* FailIsExplained.  The gate fails only when something went wrong on the board or with the link, when it opened the
\* port after the board had begun to print ("missed", open_serial), or when a kernel line came between two things it
\* wants together ("between").  Never because of how its reads cut the console, a kernel line anywhere else, where the
\* shell was when the host came back, what the host typed to find out, a write that timed out, or a link that drops
\* while recover_reconnect_prompt is at work.
FailIsExplained == pc = "fail" => cause # {}

\* BoundaryWhileClosed.  When the disconnect mode passes, all the samples of its boundary script were taken while the
\* port was closed (boundary_delay and reopen_delay of run_disconnect), even if the host is late to close it.
BoundaryWhileClosed == pc = "pass" /\ mode = "disconnect" => inside
=============================================================================

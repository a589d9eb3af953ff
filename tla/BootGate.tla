------------------------------ MODULE BootGate ------------------------------
(***************************************************************************)
(* A hardware gate at work: the host program resets the board, reads the   *)
(* console in chunks, types its lines when it has seen what it waits for,  *)
(* and judges each boot; the board boots, runs a shell on the console,     *)
(* prints kernel messages at any time, and may fail or die.  What is read  *)
(* and typed crosses in both directions.                                   *)
(*                                                                         *)
(* The console is a terminal in cooked mode: what is typed is echoed where *)
(* the cursor is when it arrives.  A line is cut when it starts right      *)
(* after a prompt, whether it is an echo, a kernel message or the output   *)
(* of a command that was typed ahead.                                      *)
(***************************************************************************)
EXTENDS GateTables

CONSTANTS Gates,       \* the gates to run
          Boots,       \* --boots
          Troubles,    \* bound on kernel messages, wrong results and changes of the board in one run
          LossLimit    \* --max-memory-loss-kib, 16 KiB in m7-test.py

ASSUME GateAssumption == {Boots, LossLimit} \subseteq Nat \ {0} /\ Troubles \in Nat

VARIABLES
  gate,     \* which program runs
  boot,     \* for boot in range(1, boots + 1)
  pc,       \* "loop", "accepted", "passed" or "failed"
  sent,     \* stages done
  done,     \* done_seen_at is not None
  first,    \* expected_payload and what else is compared across boots
  console,  \* all lines of this boot: the log, once they are read
  after,    \* the cursor is right after a prompt
  st,       \* the shell: "boot", "prompt", "run", "idle" without a shell, or "dead"
  left,     \* what the current command still prints
  typed,    \* lines received while a command runs
  input,    \* lines on the way to the board
  async,    \* kernel lines still to come
  image, unit, mem, pool, count,   \* what the board is and has
  lost,     \* memory the latest test used up
  troubles, \* kernel messages and wrong results so far
  cause     \* what has gone wrong on the board or the link, as nobody sees it

host   == <<gate, boot, pc, sent, done, first>>
truth  == <<image, unit, mem, pool, count, lost, troubles, cause>>
board  == <<console, after, st, left, typed, input, async, truth>>
vars   == <<host, board>>

Captures(g) ==
  CASE g = "m2" -> M2Capture [] g = "m3" -> M3Capture [] g = "m4" -> M4Capture
    [] g = "m5" -> M5Capture [] g = "m6" -> M6Capture(FALSE) [] g = "m6-no-card" -> M6Capture(TRUE)
    [] g = "m6-network" -> M6NetCapture(FALSE) [] g = "m6-online" -> M6NetCapture(TRUE)
    [] g = "m6-combined" -> M6CombCapture [] g = "m7-baseline" -> M7BaseCapture
    [] g = "m7" -> M7Capture [] g = "m8" -> M8Capture

BootOf(g) ==
  CASE g = "m2" -> M2Boot [] g = "m3" -> M3Boot [] g \in {"m4", "m5"} -> M4Boot
    [] g \in {"m6", "m6-no-card"} -> M6Boot [] g \in {"m6-network", "m6-online"} -> M6NetBoot
    [] g = "m6-combined" -> M6CombBoot [] g = "m7-baseline" -> M7BaseBoot
    [] g = "m7" -> M7Boot [] g = "m8" -> M8Boot

Identity(g, log) ==
  CASE g = "m2" -> M2Identity(log) [] g = "m3" -> M3Identity(log) [] g = "m4" -> M4Identity(log)
    [] g = "m5" -> M5Identity(log) [] g \in {"m6", "m6-no-card"} -> M6Identity(log)
    [] g \in {"m6-network", "m6-online"} -> M6NetIdentity(log)
    [] g = "m6-combined" -> M6CombIdentity(log) [] g = "m7-baseline" -> M7BaseIdentity(log)
    [] g = "m7" -> M7Identity(log) [] g = "m8" -> M8Identity(log)

\* The body of the loop over the boots
Main(g, log, known) ==
  CASE g = "m2" -> M2Main(log, known) [] g = "m3" -> M3Main(log, known) [] g = "m4" -> M4Main(log, known)
    [] g = "m5" -> M5Main(log, known, LossLimit) [] g = "m6" -> M6Main(FALSE, log, known, LossLimit)
    [] g = "m6-no-card" -> M6Main(TRUE, log, known, LossLimit)
    [] g = "m6-network" -> M6NetMain(FALSE, log, known) [] g = "m6-online" -> M6NetMain(TRUE, log, known)
    [] g = "m6-combined" -> M6CombMain(log, known)
    [] g = "m7-baseline" -> M7BaseMain(log, known, LossLimit)
    [] g = "m7" -> M7Main(log, known, LossLimit) [] g = "m8" -> M8Main(log)

\* The lines that a pattern of the gate takes together
Blocks(g) ==
  CASE g \in {"m6-network", "m6-online"} -> {FunctionLines}
    [] g = "m6-combined" -> {Sample(m) : m \in {"BEFORE", "AFTER", "RECONNECTED"}}
    [] g = "m7" -> {<<m, "RANGE">> : m \in {"ACCOUNT-BEFORE", "ACCOUNT-AFTER"}}
                   \cup {<<m, "MemFree">> : m \in {"MEM-BEFORE", "MEM-AFTER"}}
    [] OTHER -> {}

FromArtifacts == {"m6-combined", "m7", "m8"}     \* gates that compare with Artifact
UsesUnit == {"m6", "m6-no-card", "m6-network", "m6-online", "m6-combined"}
BootsOf(g) == IF g = "m8" THEN 1 ELSE Boots
-----------------------------------------------------------------------------
(* The board *)

\* A board comes out of reset.  What is wrong with it already: another image than
\* before or than the artifacts, another card, no card.
Fresh(g, b, known, i, u) ==
  (IF (g \in FromArtifacts /\ i # "A") \/ (b > 1 /\ <<i>> # known[1]) THEN {"image"} ELSE {})
  \cup (IF b > 1 /\ g \in UsesUnit /\ <<u>> # known[2] THEN {"unit"} ELSE {})
  \cup (IF u = "no-card" /\ g # "m6-no-card" THEN {"unit"} ELSE {})

Units(g) == CASE g \in {"m6", "m6-no-card"} -> {"u", "w", "no-card"}
              [] g \in UsesUnit -> {"u", "w"} [] OTHER -> {"u"}

Init ==
  /\ gate \in Gates /\ boot = 1 /\ pc = "loop" /\ sent = 0 /\ done = FALSE /\ first = <<>>
  /\ console = <<>> /\ after = FALSE /\ st = "boot" /\ left = BootOf(gate).prints
  /\ typed = <<>> /\ input = <<>>
  /\ image \in (IF gate \in FromArtifacts THEN {"A", "B"} ELSE {"A"}) /\ unit \in Units(gate) \ {"w"}
  /\ async = (IF unit = "no-card" THEN {} ELSE BootOf(gate).async)
  /\ mem = 0 /\ pool = 0 /\ count = 0 /\ lost = 0
  /\ cause = Fresh(gate, 1, <<>>, image, unit) /\ troubles = Cardinality(cause) /\ troubles <= Troubles

Filtered == Captures(gate).filter

\* A line goes out where the cursor is.  One without a marker is nothing to the host, unless
\* it comes between two lines that are read together.
Put(has, v, echo) ==
  console' = IF has = {} /\ Blocks(gate) = {} THEN console
             ELSE Append(console, [has |-> has, v |-> v, cut |-> after, echo |-> echo])

\* The entries of the command that may print next: the first, or any of several jobs.
Due == {k \in DOMAIN left : k = 1 \/ \A i \in 1..k : left[i].kind = "job"}

\* The rest of the command; after its last line the prompt, and what was typed ahead.
Proceed(k) ==
  LET rest == RemoveAt(left, k) IN
  IF rest # <<>> THEN left' = rest /\ after' = FALSE /\ UNCHANGED <<st, typed>>
  ELSE IF ~BootOf(gate).shell THEN left' = <<>> /\ after' = FALSE /\ st' = "idle" /\ UNCHANGED typed
  ELSE IF typed = <<>> THEN left' = <<>> /\ after' = TRUE /\ st' = "prompt" /\ UNCHANGED typed
  ELSE left' = Head(typed) /\ after' = TRUE /\ st' = "run" /\ typed' = Tail(typed)

ValueOf(e) ==
  CASE e.kind \in {"image", "token"} -> <<image>> [] e.kind = "unit" -> <<unit>> [] e.kind = "mem" -> <<mem>>
    [] e.kind = "pool" -> <<pool>> [] e.kind = "map" -> <<"expected">>
    [] e.kind = "number" -> <<count + 1>> [] OTHER -> <<>>

\* There is no block device: no card, or the kernel has not found it yet (and what it
\* finds after the test is no longer of interest).
Late   == gate \in {"m6", "m6-no-card"} /\ "CARD" \in async
NoCard == unit = "no-card" \/ Late

Busy == st \in {"boot", "run"} /\ left # <<>>

PrintLine == \E k \in Due :
  LET e == left[k] IN
  /\ Busy
  /\ IF e.kind = "unit" /\ NoCard THEN Put({"NOCARD"}, <<>>, FALSE)
     ELSE Put(IF e.kind = "other" THEN {} ELSE {e.m}, ValueOf(e), FALSE)
  /\ IF e.kind = "work"
     THEN \E d \in {LossLimit, LossLimit + 1}, p \in (IF gate = "m7" THEN {0, 1} ELSE {0}) :
            /\ mem' = mem + d /\ lost' = d /\ pool' = pool + p
            /\ troubles + p <= Troubles /\ troubles' = troubles + p
            /\ cause' = cause \cup (IF p > 0 THEN {"pool"} ELSE {})
     ELSE UNCHANGED <<mem, lost, pool, troubles, cause>>
  /\ count' = IF e.kind = "number" THEN count + 1 ELSE count
  /\ Proceed(k)
  /\ async' = IF e.m = "STORAGE" /\ Late THEN async \ {"CARD"} ELSE async
  /\ UNCHANGED <<host, input, image, unit>>

\* A result is missing, reported as a failure, wrong, or its line is lost.
PrintWrong == \E k \in Due :
  LET e == left[k] IN
  /\ Busy /\ e.kind \in {"check", "job", "work", "token", "unit", "map", "number"}
  /\ troubles < Troubles /\ troubles' = troubles + 1
  /\ \/ Put({}, <<>>, FALSE)
     \/ e.kind # "number" /\ Put({"FAIL"} \cup (IF e.m = "STORAGE" THEN {"STORAGE-FAIL"} ELSE {}), <<>>, FALSE)
     \/ e.kind \in {"token", "unit", "map"} /\ Put({e.m}, <<"other">>, FALSE)
  /\ cause' = cause \cup {"bad"}
  /\ count' = IF e.kind = "number" THEN count + 1 ELSE count
  /\ Proceed(k)
  /\ UNCHANGED <<host, input, async, image, unit, mem, pool, lost>>

\* A kernel message, or the kernel's line about a card or a radio that it found.
Kernel ==
  /\ st # "dead"
  /\ \/ /\ troubles < Troubles /\ troubles' = troubles + 1 /\ UNCHANGED async
        /\ \/ Put({}, <<>>, FALSE) /\ UNCHANGED cause
           \/ Put({"BUG"}, <<>>, FALSE) /\ cause' = cause \cup {"fault"}
     \/ \E m \in async : /\ Put({m}, <<unit>>, FALSE) /\ async' = async \ {m}
                         /\ UNCHANGED <<troubles, cause>>
  /\ after' = FALSE
  /\ UNCHANGED <<host, st, left, typed, input, image, unit, mem, pool, count, lost>>

\* A typed line arrives: it is echoed, and run now or when the shell reads it.
Receive ==
  /\ input # <<>> /\ st \in {"prompt", "run"}
  /\ Put(Head(input).text, <<>>, TRUE)
  /\ after' = FALSE
  /\ input' = Tail(input)
  /\ IF st = "prompt" THEN st' = "run" /\ left' = Head(input).prints /\ UNCHANGED typed
     ELSE typed' = Append(typed, Head(input).prints) /\ UNCHANGED <<st, left>>
  /\ UNCHANGED <<host, async, truth>>

\* The board panics.  (One that just stops, or a cable that is pulled, is a deadline.)
Die ==
  /\ st # "dead" /\ st' = "dead" /\ after' = FALSE
  /\ Put({"PANIC"}, <<>>, FALSE)
  /\ cause' = cause \cup {"dead"}
  /\ UNCHANGED <<host, left, typed, input, async, image, unit, mem, pool, count, lost, troubles>>
-----------------------------------------------------------------------------
(* The host *)

Seen(log, m) == IF Filtered THEN marker_seen(log, m) ELSE InText(log, m)

Ready(log, stage) ==
  /\ \A m \in stage.all : InText(log, m)
  /\ stage.any # {} => \E m \in stage.any : InText(log, m)
  /\ stage.mark # None => IF stage.n = 0 THEN marker_seen(log, stage.mark)
                                         ELSE marker_count(log, stage.mark) = stage.n

\* The stages that are entered one after the other in one pass of the loop
NextSent(log) ==
  LET stages == Captures(gate).stages
  IN  Max({k \in sent..Len(stages) : \A i \in (sent + 1)..k : Ready(log, stages[i])})

DoneSeen(log) ==
  /\ NextSent(log) = Len(Captures(gate).stages)
  /\ IF gate \in {"m6-network", "m6-online"} THEN M6NetDone(log)
     ELSE \E m \in Captures(gate).done : Seen(log, m)

\* A pass of the capture loop finds something to do; the others only read.
Moves ==
  \/ NextSent(console) > sent
  \/ DoneSeen(console) /\ ~done
  \/ \E m \in Captures(gate).stop : Seen(console, m)

Judge ==
  /\ pc' = IF Main(gate, console, first) THEN "accepted" ELSE "failed"
  /\ first' = IF Main(gate, console, first) THEN Identity(gate, console) ELSE first

\* A chunk ends anywhere: a later pass reads what is printed later, and what is typed may
\* take its time to arrive.
Iterate ==
  LET cap == Captures(gate) IN
  /\ pc = "loop" /\ Moves
  /\ sent' = NextSent(console)
  /\ input' = input \o FlattenSeq([i \in 1..(NextSent(console) - sent) |-> cap.stages[sent + i].send])
  /\ done' = (done \/ DoneSeen(console))
  /\ IF (\E m \in cap.stop : Seen(console, m)) \/ (DoneSeen(console) /\ ~cap.lag)
     THEN Judge ELSE UNCHANGED <<pc, first>>
  /\ UNCHANGED <<gate, boot, console, after, st, left, typed, async, truth>>

\* Nothing is on its way any more, and the capture waits for more.
Stuck == pc = "loop" /\ ~done /\ ~Moves /\ input = <<>> /\ async = {} /\ st \in {"prompt", "idle"}

\* The pause after the last marker is over, or the deadline is.
Finish ==
  /\ pc = "loop" /\ Judge
  /\ \/ done /\ UNCHANGED cause
     \/ ~done /\ cause' = cause \cup (IF Stuck THEN {} ELSE {"deadline"})
  /\ UNCHANGED <<gate, boot, sent, done, console, after, st, left, typed, input, async,
                 image, unit, mem, pool, count, lost, troubles>>

\* The reset fails, or the port goes away with the board.
LinkFails ==
  /\ pc = "loop" /\ pc' = "failed"
  /\ console = <<>> \/ st = "dead"
  /\ cause' = cause \cup {"link"}
  /\ UNCHANGED <<gate, boot, sent, done, first, console, after, st, left, typed, input, async,
                 image, unit, mem, pool, count, lost, troubles>>

\* The next boot, or the gate has passed.
NextBoot ==
  /\ pc = "accepted"
  /\ IF boot = BootsOf(gate) THEN pc' = "passed" /\ UNCHANGED <<gate, boot, sent, done, first, board>>
     ELSE /\ boot' = boot + 1 /\ pc' = "loop" /\ sent' = 0 /\ done' = FALSE
          /\ console' = <<>> /\ after' = FALSE /\ st' = "boot" /\ left' = BootOf(gate).prints
          /\ typed' = <<>> /\ input' = <<>>
          /\ image' \in {"A", "B"} /\ unit' \in Units(gate)
          /\ async' = (IF unit' = "no-card" THEN {} ELSE BootOf(gate).async)
          /\ mem' = 0 /\ pool' = 0 /\ count' = 0 /\ lost' = 0
          /\ LET new == Fresh(gate, boot + 1, <<<<image>>, <<unit>>>>, image', unit')
             IN  /\ cause' = (cause \cap {"bad", "pool"}) \cup new
                 /\ troubles' = troubles + Cardinality(new) /\ troubles' <= Troubles
          /\ UNCHANGED <<gate, first>>

Over == pc \in {"passed", "failed"} /\ UNCHANGED vars

\* What the board does after the capture is nobody's concern.
Board == pc = "loop" /\ (PrintLine \/ PrintWrong \/ Kernel \/ Receive \/ Die)

Next == Board \/ Iterate \/ Finish \/ LinkFails \/ NextBoot \/ Over

Spec == Init /\ [][Next]_vars
-----------------------------------------------------------------------------
(* Properties *)

\* Lines of the captured log that the device printed as output
Printed(m) == {i \in DOMAIN console : ~console[i].echo /\ m \in console[i].has}

Commands(g) == UNION {ToSet(stage.send) : stage \in ToSet(Captures(g).stages)}
Results(g) ==
  {e \in ToSet(BootOf(g).prints) \cup UNION {ToSet(c.prints) : c \in Commands(g)} :
     e.kind \in {"check", "job", "work", "token", "unit", "map", "mem", "pool"}}

RunsBefore(m) ==
  \A i \in Printed(m) : Cardinality({j \in Printed("WORK-DONE") : j < i}) = IF m = "MEM-BEFORE" THEN 2 ELSE 3

\* A gate that tells echo from output by the prompt is misled: a line of output starts
\* right after a prompt, or an echo does not.
Misread == Filtered /\ \E i \in DOMAIN console : console[i].has # {} /\ console[i].cut # console[i].echo

\* Some other line came between two that a pattern takes together, in this boot or, where
\* the pattern may also find less, in the first.
Split ==
  \/ \E ms \in Blocks(gate) : \E i \in 1..(Len(console) - 1), k \in 1..(Len(ms) - 1) :
       console[i].has = {ms[k]} /\ console[i + 1].has # {ms[k + 1]}
  \/ gate \in {"m6-network", "m6-online"} /\ first # <<>> /\ Len(first[2]) < 2

\* The storage test of m6-test.py --allow-no-card ran before the kernel had found the card,
\* in this boot or in the first, but not in both.
CameLate ==
  /\ gate = "m6-no-card" /\ boot > 1 /\ unit # "no-card"
  /\ (first[2] = <<"no-card">>) # InText(console, "NOCARD")

\* A boot is accepted only if the board itself printed every result, not the echo of a
\* command that spells it; m7 has measured across exactly its third run; the last test
\* used up no more memory than is allowed; and the booted image is the expected one.
\* (Without a card, m6-test.py --allow-no-card does without its sample.  m8-device-test.py
\* alone is exempted where a line was taken for an echo or an echo for output: its command
\* spells RAW-MMIO:PASS, and it does not forbid RAW-MMIO:FAIL.)
PassIsEarned ==
  pc = "accepted" =>
    /\ \A e \in Results(gate) :
         \/ \E i \in Printed(e.m) : e.kind = "map" => console[i].v = <<"expected">>
         \/ gate = "m6-no-card" /\ e.m = "STORAGE" /\ Printed("NOCARD") # {}
         \/ gate = "m8" /\ Misread /\ e.m = "RAW"
    /\ gate = "m7" => RunsBefore("MEM-BEFORE") /\ RunsBefore("MEM-AFTER")
    /\ gate \in {"m5", "m6", "m6-no-card", "m7-baseline", "m7"} => lost <= LossLimit
    /\ "image" \notin cause
    /\ "unit" \in cause => gate = "m6-no-card" /\ InText(console, "NOCARD")

=============================================================================

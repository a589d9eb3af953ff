--------------------------- MODULE DisplayScanout ---------------------------
(***************************************************************************)
(* The three framebuffers of the MicroNUX display driver (esp32p4-dsi.c,   *)
(* built up by the peripheral patches 0016 to 0046): drawing through       *)
(* /dev/fb0 and fbcon under render_lock, the delayed commit, the transfer  *)
(* interrupt that flips at a frame boundary, the reveal of the native      *)
(* (ABI 3) driver, blank and unblank of the older (ABI 2) one, and the     *)
(* teardown that stops all of it.                                          *)
(*                                                                         *)
(* A picture is the set of strokes drawn into a buffer; every drawing call *)
(* adds one stroke to what the render buffer already shows.                *)
(***************************************************************************)
EXTENDS Integers, FiniteSets

CONSTANTS
    Writer,         \* tasks that draw or read through fbdev
    MaxDraws,       \* bound on the strokes of a behaviour
    CommitTicks,    \* MICRONUX_RENDER_COMMIT_MS
    StableFrames    \* MICRONUX_SCANOUT_STABLE_FRAMES

ASSUME ScanoutAssumption ==
    /\ MaxDraws \in Nat
    /\ CommitTicks \in Nat \ {0}
    /\ StableFrames \in Nat \ {0}
    /\ Writer \cap {"free", "mode"} = {}

Buffer == 0..2
NoBuffer == -1

\* The delayed work: the time left until it is queued, -1 when it is not armed,
\* and whether it has begun to run.
NoWork == [left |-> -1, running |-> FALSE]

VARIABLES
    native,         \* TRUE: handoff ABI 3; FALSE: ABI 2; the loader chooses
    front, queued, render, needsSync,           \* roles, under state_lock
    bufSeq, nextSeq, frontSeq, presented, presentedSeq,
    image, drawn, dirty, work, lock, wpc, copySrc,
    active, fault, dma, irq,
    state, enabled, preserve, mpc, target, frames, seen

roles == <<front, queued, render, needsSync>>
seqs == <<bufSeq, nextSeq, frontSeq, presented, presentedSeq>>
drawing == <<image, drawn, wpc, copySrc>>
scan == <<active, fault, dma, irq>>
mode == <<state, enabled, preserve, mpc, target, frames, seen>>
vars == <<native, roles, seqs, drawing, dirty, work, lock, scan, mode>>

\* What probe (ABI 2) and the scanout stage of cold_init (ABI 3) leave.
Init ==
    /\ native \in BOOLEAN
    /\ front = 0 /\ render = 1 /\ queued = NoBuffer /\ needsSync = FALSE
    /\ bufSeq = [b \in Buffer |-> 0] /\ nextSeq = 0
    /\ frontSeq = 0 /\ presented = 0 /\ presentedSeq = 0
    /\ image = [b \in Buffer |-> {}] /\ drawn = 0
    /\ dirty = FALSE /\ work = NoWork /\ lock = "free"
    /\ wpc = [w \in Writer |-> "idle"] /\ copySrc = 0
    /\ active = native /\ fault = FALSE
    /\ dma = IF native THEN 0 ELSE NoBuffer
    /\ irq = "none"
    /\ state = IF native THEN "QUALIFIED" ELSE "READY"
    /\ enabled = native /\ preserve = FALSE
    /\ mpc = "idle" /\ target = 0 /\ frames = 0 /\ seen = <<0, 0>>

-----------------------------------------------------------------------------
(* Roles and commits *)

\* As Newest, but a frame that waits for its flip is passed over.
NewestFront == front

\* The copy source of a new render buffer, the newest complete frame.
Newest == IF queued # NoBuffer THEN queued ELSE front

FreeBuffer(f, q) ==
    CHOOSE b \in Buffer \ {f, q} : \A c \in Buffer \ {f, q} : b <= c

\* As QueueRender, but the freed buffer is not brought up to date.
QueueRenderNoSync ==
    IF fault
    THEN UNCHANGED <<roles, bufSeq, nextSeq>>
    ELSE /\ nextSeq' = nextSeq + 1
         /\ bufSeq' = [bufSeq EXCEPT ![render] = nextSeq + 1]
         /\ queued' = render
         /\ IF active
            THEN render' = FreeBuffer(front, render)
            ELSE UNCHANGED render
         /\ UNCHANGED <<front, needsSync>>

\* micronux_queue_render_locked: publish the render buffer.
QueueRender ==
    IF fault
    THEN UNCHANGED <<roles, bufSeq, nextSeq>>
    ELSE /\ nextSeq' = nextSeq + 1
         /\ bufSeq' = [bufSeq EXCEPT ![render] = nextSeq + 1]
         /\ queued' = render
         /\ IF active
            THEN render' = FreeBuffer(front, render) /\ needsSync' = TRUE
            ELSE UNCHANGED <<render, needsSync>>
         /\ UNCHANGED front

\* micronux_commit_render_locked.
CommitRender ==
    /\ dirty' = FALSE
    /\ IF dirty THEN QueueRender ELSE UNCHANGED <<roles, bufSeq, nextSeq>>

-----------------------------------------------------------------------------
(* Drawing: fb_write, fb_read, fillrect, copyarea, imageblit *)

RenderAllowed ==
    native => enabled /\ state \in {"QUALIFIED", "REVEALED"}

\* A bound that leaves endless drawing: a task may draw the last stroke again, under
\* ABI 3 and while it is uncommitted.
Again == native /\ dirty

\* The first look at the gate, without the lock.
Gate(w) ==
    /\ wpc[w] = "idle" /\ (drawn < MaxDraws \/ Again) /\ RenderAllowed
    /\ wpc' = [wpc EXCEPT ![w] = "gate"]
    /\ UNCHANGED <<native, roles, seqs, image, drawn, copySrc, dirty, work, lock,
                   scan, mode>>

\* render_lock is taken and the gate looked at again.
Enter(w) ==
    /\ wpc[w] = "gate" /\ lock = "free"
    /\ IF RenderAllowed
       THEN /\ lock' = w
            /\ wpc' = [wpc EXCEPT ![w] = IF needsSync THEN "copy" ELSE "draw"]
            /\ copySrc' = IF needsSync THEN Newest ELSE 0
       ELSE wpc' = [wpc EXCEPT ![w] = "idle"] /\ UNCHANGED <<lock, copySrc>>
    /\ UNCHANGED <<native, roles, seqs, image, drawn, dirty, work, scan, mode>>

\* The rest of micronux_prepare_render_locked: state_lock is not held
\* during the copy, so an interrupt may flip before it ends.
CopyFrame(w) ==
    /\ wpc[w] = "copy"
    /\ image' = [image EXCEPT ![render] = image[copySrc]]
    /\ needsSync' = FALSE
    /\ copySrc' = 0
    /\ wpc' = [wpc EXCEPT ![w] = "draw"]
    /\ UNCHANGED <<native, front, queued, render, seqs, drawn, dirty, work, lock,
                   scan, mode>>

\* Pixels are written: a new stroke, or the last one again.
Stroke(w) ==
    /\ wpc[w] = "draw"
    /\ drawn' \in 1..MaxDraws /\ (drawn' = drawn + 1 \/ (drawn' = drawn /\ Again))
    /\ image' = [image EXCEPT ![render] = @ \cup {drawn'}]
    /\ dirty' = TRUE
    /\ lock' = "free" /\ wpc' = [wpc EXCEPT ![w] = "idle"]
    /\ UNCHANGED <<native, roles, seqs, copySrc, scan, mode>>

\* As Draw, but the delayed commit is not scheduled.
DrawUnscheduled(w) == Stroke(w) /\ UNCHANGED work

\* mod_delayed_work: the commit is put off by MICRONUX_RENDER_COMMIT_MS from now.
Draw(w) == Stroke(w) /\ work' = [work EXCEPT !.left = CommitTicks]

\* fb_read, and an fb_write of which nothing could be copied in.
DrawNothing(w) ==
    /\ wpc[w] = "draw"
    /\ lock' = "free" /\ wpc' = [wpc EXCEPT ![w] = "idle"]
    /\ UNCHANGED <<native, roles, seqs, image, drawn, copySrc, dirty, work, scan, mode>>

\* The timer of the delayed work, and the worker that takes it up.
WorkTick ==
    /\ work.left > 0
    /\ work' = [work EXCEPT !.left = @ - 1]
    /\ UNCHANGED <<native, roles, seqs, drawing, dirty, lock, scan, mode>>

WorkStarts ==
    /\ work.left = 0 /\ ~work.running
    /\ work' = [left |-> -1, running |-> TRUE]
    /\ UNCHANGED <<native, roles, seqs, drawing, dirty, lock, scan, mode>>

\* micronux_render_work.
RenderWork ==
    /\ work.running /\ lock = "free"
    /\ work' = [work EXCEPT !.running = FALSE]
    /\ CommitRender
    /\ UNCHANGED <<native, frontSeq, presented, presentedSeq, drawing, lock, scan, mode>>

\* cancel_delayed_work_sync: what has begun is waited for.
CancelWork == ~work.running /\ work' = NoWork

-----------------------------------------------------------------------------
(* The transfer engine (hardware) and its interrupt *)

\* A one-shot transfer ends; with an error, it may also halt without ending.
TransferEnds ==
    /\ dma # NoBuffer /\ irq = "none"
    /\ irq' \in {"done", "done_error", "error"}
    /\ dma' \in IF irq' = "error" THEN {dma, NoBuffer} ELSE {NoBuffer}
    /\ UNCHANGED <<native, roles, seqs, drawing, dirty, work, lock, active, fault, mode>>

Error == irq \in {"error", "done_error"}
Done == irq \in {"done", "done_error"}

\* As Flip, but a queued frame is still taken after a fault.
FlipFaulted == ~Error /\ queued # NoBuffer

Flip == ~fault /\ ~Error /\ queued # NoBuffer

\* The saturating part of source_generation a reveal looks at.
NextFrames == IF mpc = "window" /\ frames < StableFrames
              THEN frames + 1 ELSE frames

\* micronux_native_dma_irq.
NativeIrq ==
    /\ native /\ irq # "none"
    /\ irq' = "none"
    /\ fault' = (fault \/ Error)
    /\ IF Done /\ active /\ (preserve \/ ~(fault \/ Error))
       THEN /\ dma' = IF Flip THEN queued ELSE front
            /\ IF Error
               THEN UNCHANGED <<presented, presentedSeq, frames>>
               ELSE /\ presented' = front /\ presentedSeq' = frontSeq
                    /\ frames' = NextFrames
            /\ IF Flip
               THEN front' = queued /\ frontSeq' = bufSeq[queued]
                    /\ queued' = NoBuffer
               ELSE UNCHANGED <<front, frontSeq, queued>>
       ELSE UNCHANGED <<dma, presented, presentedSeq, frames, front, frontSeq,
                        queued>>
    /\ UNCHANGED <<native, render, needsSync, bufSeq, nextSeq, drawing, dirty, work,
                   lock, active, state, enabled, preserve, mpc, target, seen>>

\* micronux_dma_irq of ABI 2: armed is FALSE when the channel does not come up.
LegacyIrq(armed) ==
    /\ ~native /\ irq # "none"
    /\ irq' = "none"
    /\ IF Done /\ active /\ ~Error
       THEN IF armed
            THEN /\ dma' = IF Flip THEN queued ELSE front
                 /\ IF Flip THEN front' = queued /\ queued' = NoBuffer
                            ELSE UNCHANGED <<front, queued>>
                 /\ UNCHANGED fault
            ELSE fault' = TRUE /\ UNCHANGED <<dma, front, queued>>
       ELSE armed /\ fault' = (fault \/ Error) /\ UNCHANGED <<dma, front, queued>>
    /\ UNCHANGED <<native, render, needsSync, seqs, drawing, dirty, work, lock, active,
                   mode>>

\* The health timer, or a failed backlight write, latches a fault.
LatchFault ==
    /\ ~fault /\ active
    /\ fault' = TRUE
    /\ UNCHANGED <<native, roles, seqs, drawing, dirty, work, lock, active, dma, irq, mode>>

-----------------------------------------------------------------------------
(* The reveal of ABI 3: boot_ready is stored, mode_lock is held throughout *)

\* Consumed once; the source is to be kept alive until the panel is dark.
RevealStart ==
    /\ native /\ mpc = "idle" /\ state = "QUALIFIED"
    /\ state' = "REVEALING" /\ preserve' = TRUE
    /\ mpc' = "cancel"
    /\ UNCHANGED <<native, roles, seqs, drawing, dirty, work, lock, scan, enabled,
                   target, frames, seen>>

\* cancel_delayed_work_sync, without render_lock.
RevealCancel ==
    /\ mpc = "cancel"
    /\ CancelWork
    /\ mpc' = "commit"
    /\ UNCHANGED <<native, roles, seqs, drawing, dirty, lock, scan, state, enabled,
                   preserve, target, frames, seen>>

\* As RevealCommit, but a drawing not committed yet is passed over.
RevealNoCommit ==
    /\ mpc = "commit" /\ lock = "free"
    /\ lock' = "mode"
    /\ target' = IF queued # NoBuffer THEN bufSeq[queued] ELSE frontSeq
    /\ mpc' = IF target' > 0 THEN "wait" ELSE "fail"
    /\ UNCHANGED <<native, roles, seqs, dirty, drawing, work, scan, state, enabled,
                   preserve, frames, seen>>

\* Under render_lock: commit what is drawn and take its sequence as target.
RevealCommit ==
    /\ mpc = "commit" /\ lock = "free"
    /\ lock' = "mode"
    /\ CommitRender
    /\ target' = IF queued' # NoBuffer THEN bufSeq'[queued'] ELSE frontSeq
    /\ mpc' = IF target' > 0 THEN "wait" ELSE "fail"
    /\ UNCHANGED <<native, frontSeq, presented, presentedSeq, drawing, work, scan,
                   state, enabled, preserve, frames, seen>>

\* native_target_ready: the target was transferred completely, or a fault.
RevealTarget ==
    /\ mpc = "wait" /\ (presentedSeq >= target \/ fault)
    /\ mpc' = IF fault THEN "fail" ELSE "window"
    /\ seen' = <<presented, presentedSeq>> /\ frames' = 0
    /\ UNCHANGED <<native, roles, seqs, drawing, dirty, work, lock, scan, state,
                   enabled, preserve, target>>

\* native_window_ready, and the look at the roles after the window.
RevealWindow ==
    /\ mpc = "window" /\ (frames >= StableFrames \/ fault)
    /\ mpc' = IF /\ ~fault /\ queued = NoBuffer
                 /\ seen = <<presented, presentedSeq>>
                 /\ seen = <<front, frontSeq>>
              THEN "light" ELSE "fail"
    /\ seen' = <<0, 0>> /\ frames' = 0
    /\ UNCHANGED <<native, roles, seqs, drawing, dirty, work, lock, scan, state,
                   enabled, preserve, target>>

\* A wait that times out, or a status that is not clean.
RevealRefused ==
    /\ mpc \in {"wait", "window", "light", "lit"}
    /\ mpc' = IF mpc = "lit" THEN "faillit" ELSE "fail"
    /\ seen' = <<0, 0>> /\ frames' = 0
    /\ UNCHANGED <<native, roles, seqs, drawing, dirty, work, lock, scan, state,
                   enabled, preserve, target>>

\* The gate and PWM commands: from here on the panel may be lit.
RevealLight ==
    /\ mpc = "light" /\ ~fault
    /\ mpc' = "lit"
    /\ UNCHANGED <<native, roles, seqs, drawing, dirty, work, lock, scan, state,
                   enabled, preserve, target, frames, seen>>

RevealDone ==
    /\ mpc = "lit" /\ ~fault
    /\ state' = "REVEALED" /\ enabled' = TRUE
    /\ lock' = "free" /\ mpc' = "idle" /\ target' = 0
    /\ UNCHANGED <<native, roles, seqs, drawing, dirty, work, scan, preserve, frames,
                   seen>>

\* fail_render: render_lock is given back before anything is torn down.  A panel
\* that may be lit is made dark first, as in FaultWork.
RevealFail(dark) ==
    /\ mpc = "faillit" \/ (mpc = "fail" /\ dark)
    /\ lock' = "free" /\ target' = 0
    /\ IF dark
       THEN mpc' = "close" /\ UNCHANGED <<state, enabled>>
       ELSE mpc' = "idle" /\ state' = "UNVERIFIED" /\ enabled' = FALSE
    /\ UNCHANGED <<native, roles, seqs, drawing, dirty, work, scan, preserve, frames, seen>>

-----------------------------------------------------------------------------
(* Fault work and teardown of ABI 3 *)

\* micronux_fault_work; a revealed panel is made dark first (dark), and when
\* that cannot be confirmed the source is left running.
FaultWork(dark) ==
    /\ native /\ mpc = "idle" /\ fault /\ state \in {"QUALIFIED", "REVEALED"}
    /\ IF state = "REVEALED" /\ ~dark
       THEN state' = "UNVERIFIED" /\ enabled' = FALSE /\ UNCHANGED mpc
       ELSE /\ dark /\ mpc' = "close" /\ UNCHANGED enabled
            /\ state' = IF state = "REVEALED" THEN "REVEALING" ELSE state
    /\ UNCHANGED <<native, roles, seqs, drawing, dirty, work, lock, scan, preserve,
                   target, frames, seen>>

\* micronux_cold_runtime_teardown: the gates are closed ...
TeardownClose ==
    /\ mpc = "close"
    /\ enabled' = FALSE /\ preserve' = FALSE /\ active' = FALSE
    /\ mpc' = "drain"
    /\ UNCHANGED <<native, roles, seqs, drawing, dirty, work, lock, fault, dma, irq,
                   state, target, frames, seen>>

\* As TeardownDrain, but without waiting for a renderer.
TeardownNoDrain ==
    /\ mpc = "drain"
    /\ dirty' = FALSE
    /\ mpc' = "unwork"
    /\ UNCHANGED <<native, roles, seqs, drawing, work, lock, scan, state, enabled,
                   preserve, target, frames, seen>>

\* ... a renderer that had passed them is waited for ...
TeardownDrain ==
    /\ mpc = "drain" /\ lock = "free"
    /\ dirty' = FALSE
    /\ mpc' = "unwork"
    /\ UNCHANGED <<native, roles, seqs, drawing, work, lock, scan, state, enabled,
                   preserve, target, frames, seen>>

\* ... then the work it may have left is cancelled ...
TeardownCancel ==
    /\ mpc = "unwork"
    /\ CancelWork
    /\ mpc' = "stop"
    /\ UNCHANGED <<native, roles, seqs, drawing, dirty, lock, scan, state, enabled,
                   preserve, target, frames, seen>>

\* ... and the channel is stopped and the interrupt released.
TeardownStop ==
    /\ mpc = "stop"
    /\ dma' = NoBuffer /\ irq' = "none"
    /\ state' = "DOWN" /\ mpc' = "idle"
    /\ UNCHANGED <<native, roles, seqs, drawing, dirty, work, lock, active, fault,
                   enabled, preserve, target, frames, seen>>

-----------------------------------------------------------------------------
(* Blank and unblank of ABI 2, under mode_lock *)

BlankBegin(to) ==
    /\ ~native /\ mpc = "idle"
    /\ CancelWork
    /\ mpc' = to
    /\ UNCHANGED <<native, roles, seqs, drawing, dirty, lock, scan, state, enabled,
                   preserve, target, frames, seen>>

\* The second half of micronux_flush_render.
FlushRender ==
    /\ mpc \in {"blank", "unblank"} /\ lock = "free"
    /\ CommitRender
    /\ mpc' = IF mpc = "blank"
              THEN IF active THEN "off" ELSE "idle"
              ELSE IF active THEN "idle" ELSE "select"
    /\ UNCHANGED <<native, frontSeq, presented, presentedSeq, drawing, work, lock, scan,
                   state, enabled, preserve, target, frames, seen>>

\* The backlight is off and settled, or the start did not qualify.
ScanoutOff ==
    /\ mpc = "off"
    /\ active' = FALSE /\ mpc' = "dmastop"
    /\ UNCHANGED <<native, roles, seqs, drawing, dirty, work, lock, fault, dma, irq,
                   state, enabled, preserve, target, frames, seen>>

\* micronux_dma_stop.  When the abort times out the caller gets an error; the bridge
\* and the channel have been disabled before, so nothing more is read then either.
DmaStop ==
    /\ mpc = "dmastop"
    /\ dma' = NoBuffer /\ mpc' = "idle"
    /\ UNCHANGED <<native, roles, seqs, drawing, dirty, work, lock, active, fault, irq,
                   state, enabled, preserve, target, frames, seen>>

\* As SelectInitialFront, but the renderer keeps the buffer it has.
SelectKeepsRender ==
    /\ mpc = "select" /\ lock = "free" /\ irq = "none"
    /\ front' = Newest /\ queued' = NoBuffer
    /\ needsSync' = TRUE /\ active' = TRUE
    /\ mpc' = "start"
    /\ UNCHANGED <<native, seqs, drawing, dirty, work, lock, fault, dma, irq, state,
                   render, enabled, preserve, target, frames, seen>>

\* micronux_select_initial_front; a pending interrupt is served first.
SelectInitialFront ==
    /\ mpc = "select" /\ lock = "free" /\ irq = "none"
    /\ front' = Newest /\ queued' = NoBuffer
    /\ render' = IF render = Newest THEN FreeBuffer(Newest, Newest) ELSE render
    /\ needsSync' = TRUE /\ active' = TRUE
    /\ mpc' = "start"
    /\ UNCHANGED <<native, seqs, drawing, dirty, work, lock, fault, dma, irq, state,
                   enabled, preserve, target, frames, seen>>

\* micronux_dma_start_frame.
DmaStart ==
    /\ mpc = "start"
    /\ \/ dma' = front /\ mpc' = "qualify"
       \/ mpc' = "off" /\ UNCHANGED dma
    /\ UNCHANGED <<native, roles, seqs, drawing, dirty, work, lock, active, fault, irq,
                   state, enabled, preserve, target, frames, seen>>

\* micronux_restore_framebuffer_source.
Qualify ==
    /\ mpc = "qualify"
    /\ \/ ~fault /\ mpc' = "idle"
       \/ mpc' = "off"
    /\ UNCHANGED <<native, roles, seqs, drawing, dirty, work, lock, scan, state,
                   enabled, preserve, target, frames, seen>>

-----------------------------------------------------------------------------
WriterStep(w) ==
    Gate(w) \/ Enter(w) \/ CopyFrame(w) \/ Draw(w) \/ DrawNothing(w)

Interrupt == NativeIrq \/ \E armed \in BOOLEAN : LegacyIrq(armed)

RevealStep ==
    \/ RevealCancel \/ RevealCommit \/ RevealTarget \/ RevealWindow
    \/ RevealLight \/ RevealDone \/ \E dark \in BOOLEAN : RevealFail(dark)

TeardownStep ==
    \/ TeardownClose \/ TeardownDrain \/ TeardownCancel \/ TeardownStop

BlankStep ==
    FlushRender \/ ScanoutOff \/ DmaStop \/ SelectInitialFront \/ DmaStart
    \/ Qualify

Next ==
    \/ \E w \in Writer : WriterStep(w)
    \/ WorkTick \/ WorkStarts \/ RenderWork
    \/ TransferEnds \/ Interrupt \/ LatchFault
    \/ RevealStart \/ RevealRefused \/ RevealStep
    \/ \E dark \in BOOLEAN : FaultWork(dark)
    \/ TeardownStep
    \/ \E to \in {"blank", "unblank"} : BlankBegin(to)
    \/ BlankStep

Spec == Init /\ [][Next]_vars

\* A task in the render section leaves it, time passes, a worker takes up work that
\* stays queued, the interrupt runs, and the engine ends every transfer.  Who waits
\* for render_lock gets it in the end: a mutex is handed over to a waiter.
Fairness ==
    /\ \A w \in Writer : WF_vars(CopyFrame(w) \/ Draw(w) \/ DrawNothing(w))
    /\ WF_vars(WorkTick) /\ WF_vars(WorkStarts) /\ SF_vars(RenderWork)
    /\ WF_vars(TransferEnds) /\ WF_vars(Interrupt)
    /\ SF_vars(RevealCommit) /\ WF_vars(RevealStep)
    /\ SF_vars(TeardownDrain) /\ WF_vars(TeardownStep)

FairSpec == Spec /\ Fairness

-----------------------------------------------------------------------------
(* Properties *)

\* Every variable keeps its type.
TypeOK ==
    /\ front \in Buffer /\ render \in Buffer
    /\ queued \in Buffer \cup {NoBuffer} /\ dma \in Buffer \cup {NoBuffer}
    /\ needsSync \in BOOLEAN /\ dirty \in BOOLEAN
    /\ work \in [left : -1..CommitTicks, running : BOOLEAN]
    /\ active \in BOOLEAN /\ fault \in BOOLEAN /\ enabled \in BOOLEAN
    /\ preserve \in BOOLEAN
    /\ bufSeq \in [Buffer -> Nat] /\ nextSeq \in Nat /\ frontSeq \in Nat
    /\ presented \in Buffer /\ presentedSeq \in Nat
    /\ drawn \in Nat /\ image \in [Buffer -> SUBSET (1..drawn)]
    /\ lock \in Writer \cup {"free", "mode"}
    /\ wpc \in [Writer -> {"idle", "gate", "copy", "draw"}]
    /\ copySrc \in Buffer
    /\ irq \in {"none", "done", "done_error", "error"}
    /\ state \in {"READY", "QUALIFIED", "REVEALING", "REVEALED", "UNVERIFIED",
                  "DOWN"}
    /\ mpc \in {"idle", "cancel", "commit", "wait", "window", "light", "lit",
                "fail", "faillit", "close", "drain", "unwork", "stop", "blank", "unblank",
                "off", "dmastop", "select", "start", "qualify"}
    /\ target \in Nat /\ frames \in 0..StableFrames
    /\ seen \in Buffer \X Nat

InSection(w) == wpc[w] \in {"copy", "draw"}

\* No pixel is written into the buffer the transfer engine reads, though the
\* renderer copies and draws outside state_lock while the interrupt flips and
\* unblank chooses a new front.
NoTearing == \A w \in Writer : InSection(w) => dma # render

\* Under ABI 3 the engine reads the front buffer or nothing, and the front
\* buffer only gains strokes: across flips, refused commits and rearms no
\* frame is transferred that is older than one transferred before.
NeverRegresses ==
    [][native => /\ dma' \in {front', NoBuffer}
                 /\ image[front] \subseteq image'[front']]_vars

\* What a commit publishes under ABI 3 is everything drawn so far ("Publish a
\* complete back buffer", micronux_queue_render_locked).
PublishedComplete ==
    [][native /\ nextSeq' # nextSeq => image[queued'] = 1..drawn]_vars

\* The same of ABI 2, where blank and unblank move the roles as well.
LegacyPublishedComplete ==
    [][~native /\ nextSeq' # nextSeq => image[queued'] = 1..drawn]_vars

Ownership == INSTANCE BufferOwnership WITH faulted <- fault

\* The driver moves the roles of its buffers only as the reference model of the
\* contract test does (OwnershipModel), under both ABIs and although rendering,
\* the interrupt, faults, blanking and teardown interleave; and every state
\* satisfies its assert_valid.
ImplementsOwnership == Ownership!Spec /\ []Ownership!assert_valid

\* When the panel may be lit for the first time, the engine has transferred,
\* and goes on transferring, a frame with everything userspace has drawn.
RevealShowsAll ==
    mpc = "lit" => /\ front = presented /\ presentedSeq >= target /\ target > 0
                   /\ image[front] = 1..drawn
                   /\ dma \in {front, NoBuffer}

\* Every variable keeps its type, and after teardown no renderer is left in its
\* section and no work is armed: the framebuffer device can go.
TornDownIsQuiet ==
    /\ TypeOK
    /\ state = "DOWN" => /\ dma = NoBuffer /\ work = NoWork
                         /\ \A w \in Writer : ~InSection(w)

\* Under ABI 3 every stroke gets to the panel, unless a fault or the teardown comes
\* first, or the commit stays armed for ever and is never begun: every drawing call
\* puts it off again, so this takes tasks that always draw before it is taken up.
StrokesShown ==
    \/ \A n \in 1..MaxDraws :
         native /\ drawn >= n ~> \/ fault \/ ~active
                                 \/ dma # NoBuffer /\ n \in image[dma]
    \/ <>[](work.left >= 0 /\ ~work.running)
=============================================================================

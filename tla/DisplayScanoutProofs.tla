------------------------ MODULE DisplayScanoutProofs ------------------------
(***************************************************************************)
(* Proofs about DisplayScanout, for any set of tasks and any number of     *)
(* strokes: the roles of the three buffers exclude tearing under both      *)
(* handoff ABIs; under ABI 3 every commit publishes all that was drawn,    *)
(* the picture on the panel never loses a stroke, a reveal lights the      *)
(* panel on a frame with all that was drawn, and a teardown leaves nothing *)
(* behind; and under both the driver implements BufferOwnership, the       *)
(* reference model of the contract test.                                   *)
(***************************************************************************)
EXTENDS DisplayScanout, TLAPS

LegacyPc == {"blank", "unblank", "off", "dmastop", "select", "start", "qualify"}
NativePc == {"cancel", "commit", "wait", "window", "light", "lit", "fail", "faillit",
             "close", "drain", "unwork", "stop"}

\* The renderer owns a buffer that is neither transferred nor queued, and the
\* engine reads the front buffer or nothing.  An unblank may move the front
\* only because nothing is transferred then.
RolesInv ==
    /\ front \in Buffer /\ render \in Buffer
    /\ queued \in Buffer \cup {NoBuffer}
    /\ render # front
    /\ active => render # queued
    /\ dma \in {NoBuffer, front}
    /\ native => mpc \notin LegacyPc
    /\ ~native => mpc \notin NativePc
    /\ mpc = "select" => ~active
    /\ mpc \in {"start", "qualify"} => active
    /\ ~native /\ ~active /\ mpc # "dmastop" => dma = NoBuffer

\* The newest picture is in the render buffer or waits to be copied there,
\* and the task in the render section copies from where it is.
ContentInv ==
    /\ drawn \in Nat
    /\ image \in [Buffer -> SUBSET (1..drawn)]
    /\ needsSync \in BOOLEAN /\ dirty \in BOOLEAN
    /\ needsSync => ~dirty /\ image[Newest] = 1..drawn
    /\ ~needsSync => image[render] = 1..drawn
    /\ wpc \in [Writer -> {"idle", "gate", "copy", "draw"}]
    /\ \A w \in Writer : InSection(w) => lock = w
    /\ \A w \in Writer : wpc[w] = "copy" => needsSync /\ copySrc = Newest
    /\ \A w \in Writer : wpc[w] = "draw" => ~needsSync
    /\ queued # NoBuffer => image[front] \subseteq image[queued]

\* The reveal holds render_lock from its commit to its end.
HoldInv ==
    mpc \in {"wait", "window", "light", "lit", "fail", "faillit"} => lock = "mode"

-----------------------------------------------------------------------------
\* The search of micronux_free_buffer_locked ends at a buffer with no role.
LEMMA FreeBufferFree ==
    ASSUME NEW f \in Buffer, NEW q \in Buffer
    PROVE  FreeBuffer(f, q) \in Buffer \ {f, q}
<1>1. \E b \in Buffer \ {f, q} : \A c \in Buffer \ {f, q} : b <= c
  <2>1. CASE 0 \notin {f, q}
    BY <2>1 DEF Buffer
  <2>2. CASE 0 \in {f, q} /\ 1 \notin {f, q}
    BY <2>2 DEF Buffer
  <2>3. CASE 0 \in {f, q} /\ 1 \in {f, q}
    BY <2>3 DEF Buffer
  <2> QED BY Zenon, <2>1, <2>2, <2>3
<1> QED BY Zenon, <1>1 DEF FreeBuffer

\* A commit leaves the renderer a buffer of its own.
LEMMA CommitKeepsRoles ==
    ASSUME RolesInv, CommitRender
    PROVE  /\ front' = front
           /\ render' \in Buffer /\ queued' \in Buffer \cup {NoBuffer}
           /\ render' # front
           /\ active => render' # queued'
<1>1. CASE dirty /\ ~fault
  <2>1. queued' = render /\ front' = front
    BY Zenon, <1>1 DEF CommitRender, QueueRender
  <2>2. CASE active
    <3>1. render' = FreeBuffer(front, render)
      BY Zenon, <1>1, <2>2 DEF CommitRender, QueueRender
    <3>2. FreeBuffer(front, render) \in Buffer \ {front, render}
      BY Zenon, FreeBufferFree DEF RolesInv
    <3> QED BY Zenon, <2>1, <3>1, <3>2 DEF RolesInv
  <2>3. CASE ~active
    BY Zenon, <1>1, <2>1, <2>3 DEF CommitRender, QueueRender, RolesInv
  <2> QED BY Zenon, <2>2, <2>3
<1>2. CASE ~(dirty /\ ~fault)
  BY Zenon, <1>2 DEF CommitRender, QueueRender, roles, RolesInv
<1> QED BY Zenon, <1>1, <1>2

\* The loader chooses the handoff ABI once.
LEMMA AbiFixed == [Next]_vars => native' = native
<1> SUFFICES ASSUME [Next]_vars PROVE native' = native
  OBVIOUS
<1>1. ASSUME NEW w \in Writer, WriterStep(w) PROVE native' = native
  BY Zenon, <1>1 DEF WriterStep, Gate, Enter, CopyFrame, Draw, Stroke, DrawNothing
<1>2. CASE WorkTick \/ WorkStarts \/ RenderWork \/ TransferEnds \/ Interrupt \/ LatchFault
  BY Zenon, <1>2 DEF WorkTick, WorkStarts, RenderWork, TransferEnds, Interrupt, NativeIrq, LegacyIrq,
              LatchFault
<1>3. CASE RevealStart \/ RevealRefused \/ RevealStep
  BY Zenon, <1>3 DEF RevealStart, RevealRefused, RevealStep, RevealCancel,
              RevealCommit, RevealTarget, RevealWindow, RevealLight,
              RevealDone, RevealFail
<1>4. CASE TeardownStep \/ \E dark \in BOOLEAN : FaultWork(dark)
  BY Zenon, <1>4 DEF TeardownStep, TeardownClose, TeardownDrain, TeardownCancel,
              TeardownStop, FaultWork
<1>5. CASE BlankStep \/ \E to \in {"blank", "unblank"} : BlankBegin(to)
  BY Zenon, <1>5 DEF BlankStep, BlankBegin, FlushRender, ScanoutOff, DmaStop,
              SelectInitialFront, DmaStart, Qualify
<1>6. CASE UNCHANGED vars
  BY Zenon, <1>6 DEF vars
<1> QED BY Zenon, <1>1, <1>2, <1>3, <1>4, <1>5, <1>6 DEF Next

\* The roles are kept by every step.
LEMMA RolesStep == RolesInv /\ [Next]_vars => RolesInv'
<1> SUFFICES ASSUME RolesInv, [Next]_vars PROVE RolesInv'
  OBVIOUS
<1> USE AbiFixed DEF roles, seqs, drawing, scan, mode, LegacyPc, NativePc
<1>1. ASSUME NEW w \in Writer, WriterStep(w) PROVE RolesInv'
  BY <1>1 DEF RolesInv, WriterStep, Gate, Enter, CopyFrame, Draw, Stroke, DrawNothing
<1>2. CASE RenderWork
  BY Zenon, <1>2, CommitKeepsRoles DEF RolesInv, RenderWork
<1>3. CASE TransferEnds \/ WorkTick \/ WorkStarts
  <2>1. CASE TransferEnds
    BY Zenon, <2>1 DEF RolesInv, TransferEnds
  <2>2. CASE WorkTick
    BY Zenon, <2>2 DEF RolesInv, WorkTick
  <2>3. CASE WorkStarts
    BY Zenon, <2>3 DEF RolesInv, WorkStarts
  <2> QED BY Zenon, <1>3, <2>1, <2>2, <2>3
<1>4. CASE NativeIrq
  BY <1>4 DEF RolesInv, NativeIrq, Flip, Buffer, NoBuffer
<1>5. ASSUME NEW armed \in BOOLEAN, LegacyIrq(armed) PROVE RolesInv'
  BY <1>5 DEF RolesInv, LegacyIrq, Flip, Buffer, NoBuffer
<1>6. CASE LatchFault
  BY Zenon, <1>6 DEF RolesInv, LatchFault
<1>7. CASE RevealStart \/ RevealRefused
  BY <1>7 DEF RolesInv, RevealStart, RevealRefused
<1>8. CASE RevealCommit
  <2>1. native /\ mpc' \in {"wait", "fail"}
    BY Zenon, <1>8 DEF RolesInv, RevealCommit
  <2> QED BY Zenon, <1>8, <2>1, CommitKeepsRoles DEF RolesInv, RevealCommit
<1>9. CASE RevealStep /\ ~RevealCommit
  <2>1. CASE RevealCancel \/ RevealTarget
    BY <2>1 DEF RolesInv, RevealCancel, RevealTarget
  <2>2. CASE RevealWindow
    BY Zenon, <2>2 DEF RolesInv, RevealWindow
  <2>3. CASE RevealLight \/ RevealDone
    BY <2>3 DEF RolesInv, RevealLight, RevealDone
  <2>4. ASSUME NEW dark \in BOOLEAN, RevealFail(dark) PROVE RolesInv'
    BY Zenon, <2>4 DEF RolesInv, RevealFail
  <2> QED BY Zenon, <1>9, <2>1, <2>2, <2>3, <2>4 DEF RevealStep
<1>10. ASSUME NEW dark \in BOOLEAN, FaultWork(dark) PROVE RolesInv'
  BY Zenon, <1>10 DEF RolesInv, FaultWork
<1>11. CASE TeardownStep
  BY <1>11 DEF RolesInv, TeardownStep, TeardownClose, TeardownDrain,
               TeardownCancel, TeardownStop
<1>12. ASSUME NEW to \in {"blank", "unblank"}, BlankBegin(to) PROVE RolesInv'
  BY Zenon, <1>12 DEF RolesInv, BlankBegin
<1>13. CASE FlushRender
  BY Zenon, <1>13, CommitKeepsRoles DEF RolesInv, FlushRender
<1>14. CASE ScanoutOff \/ DmaStop \/ DmaStart \/ Qualify
  BY <1>14 DEF RolesInv, ScanoutOff, DmaStop, DmaStart, Qualify
<1>15. CASE SelectInitialFront
  <2>1. Newest \in Buffer
    BY Zenon DEF RolesInv, Newest
  <2>2. FreeBuffer(Newest, Newest) \in Buffer \ {Newest}
    BY Zenon, <2>1, FreeBufferFree
  <2>3. front' = Newest /\ render' \in Buffer \ {Newest} /\ queued' = NoBuffer
    BY Zenon, <1>15, <2>2 DEF SelectInitialFront, RolesInv
  <2>4. ~native /\ dma' = NoBuffer /\ active' /\ mpc' = "start"
    BY Zenon, <1>15 DEF SelectInitialFront, RolesInv
  <2> QED BY <2>1, <2>3, <2>4 DEF RolesInv, Buffer, NoBuffer
<1>16. CASE UNCHANGED vars
  BY Zenon, <1>16 DEF RolesInv, vars
<1> QED
  BY Zenon, <1>1, <1>2, <1>3, <1>4, <1>5, <1>6, <1>7, <1>8, <1>9, <1>10, <1>11,
     <1>12, <1>13, <1>14, <1>15, <1>16
  DEF Next, Interrupt, BlankStep

\* The roles the driver starts with.
LEMMA RolesInit == Init => RolesInv
BY DEF Init, RolesInv, Buffer, NoBuffer, LegacyPc, NativePc

\* The roles hold for ever, under both ABIs.
LEMMA RolesAlways == Spec => []RolesInv
BY RolesInit, RolesStep, PTL DEF Spec

\* No task ever writes the buffer that is being transferred, however drawing,
\* commits, flips, faults, reveals and blanking interleave.
THEOREM NoTearingHolds == Spec => []NoTearing
<1>1. RolesInv => NoTearing
  BY DEF RolesInv, NoTearing, Buffer, NoBuffer
<1> QED BY <1>1, RolesAlways, PTL

-----------------------------------------------------------------------------
\* A commit publishes everything drawn, and the buffer the renderer gets is to
\* be brought up to date before it is drawn into.
LEMMA CommitPublishesAll ==
    ASSUME RolesInv, ContentInv, CommitRender, UNCHANGED drawing,
           \A w \in Writer : ~InSection(w)
    PROVE  /\ ContentInv'
           /\ nextSeq' # nextSeq => image[queued'] = 1..drawn
<1>1. CASE dirty /\ ~fault
  <2>1. /\ ~needsSync /\ image[render] = 1..drawn
        /\ queued' = render /\ front' = front /\ dirty' = FALSE
        /\ needsSync' \in BOOLEAN
    BY Zenon, <1>1 DEF CommitRender, QueueRender, ContentInv
  <2>2. Newest' = render
    BY <2>1 DEF Newest, RolesInv, Buffer, NoBuffer
  <2>3. ~needsSync' => render' = render
    BY Zenon, <1>1 DEF CommitRender, QueueRender
  <2>4. image[front] \subseteq 1..drawn
    BY Zenon DEF ContentInv, RolesInv
  <2>5. /\ needsSync' => ~dirty' /\ image'[Newest'] = 1..drawn'
        /\ ~needsSync' => image'[render'] = 1..drawn'
        /\ image'[front'] \subseteq image'[queued']
    BY Zenon, <2>1, <2>2, <2>3, <2>4 DEF drawing
  <2>6. \A w \in Writer : wpc'[w] \notin {"copy", "draw"}
    BY Zenon DEF InSection, drawing
  <2> QED BY Zenon, <2>1, <2>5, <2>6 DEF ContentInv, drawing, InSection
<1>2. CASE ~(dirty /\ ~fault)
  <2>1. UNCHANGED <<roles, nextSeq>> /\ dirty' = FALSE
    BY Zenon, <1>2 DEF CommitRender, QueueRender, roles
  <2> QED BY Zenon, <2>1 DEF ContentInv, roles, drawing, InSection, Newest
<1> QED BY Zenon, <1>1, <1>2

\* With render_lock free, or held by the reveal, no task is in its section.
LEMMA LockExcludes ==
    ASSUME ContentInv, lock \in {"free", "mode"}
    PROVE  \A w \in Writer : ~InSection(w)
BY Zenon, ScanoutAssumption DEF ContentInv

\* A step of a task in the render section keeps the newest picture.
LEMMA WriterKeepsContent ==
    ASSUME RolesInv, ContentInv, NEW v \in Writer, WriterStep(v)
    PROVE  ContentInv'
<1>1. CASE Gate(v)
  BY Zenon, <1>1 DEF Gate, ContentInv, roles, InSection, Newest
<1>2. CASE Enter(v)
  <2>1. \A w \in Writer : ~InSection(w)
    BY Zenon, <1>2, LockExcludes DEF Enter
  <2>2. UNCHANGED <<roles, image, drawn, dirty>>
    BY Zenon, <1>2 DEF Enter
  <2>3. Newest' = Newest
    BY Zenon, <2>2 DEF Newest, roles
  <2>4. /\ wpc' \in [Writer -> {"idle", "gate", "copy", "draw"}]
        /\ \A w \in Writer : InSection(w)' => w = v /\ lock' = v
        /\ wpc'[v] = "copy" => needsSync /\ copySrc' = Newest
        /\ wpc'[v] = "draw" => ~needsSync
    BY <1>2, <2>1 DEF Enter, ContentInv, InSection
  <2> QED BY Zenon, <2>2, <2>3, <2>4 DEF ContentInv, InSection, roles
<1>3. CASE CopyFrame(v)
  <2>1. lock = v /\ needsSync /\ copySrc = Newest /\ ~dirty
    BY Zenon, <1>3 DEF CopyFrame, ContentInv, InSection
  <2>2. \A w \in Writer \ {v} : ~InSection(w)
    BY Zenon, <2>1 DEF ContentInv
  <2>3. image' = [image EXCEPT ![render] = 1..drawn]
    BY Zenon, <1>3, <2>1 DEF CopyFrame, ContentInv
  <2>4. /\ UNCHANGED <<front, queued, render, drawn, dirty, lock>>
        /\ needsSync' = FALSE /\ wpc' = [wpc EXCEPT ![v] = "draw"]
    BY Zenon, <1>3 DEF CopyFrame
  <2>5. /\ image' \in [Buffer -> SUBSET (1..drawn')]
        /\ image'[render'] = 1..drawn'
    BY Zenon, <2>3, <2>4 DEF ContentInv, RolesInv
  <2>6. queued' # NoBuffer => image'[front'] \subseteq image'[queued']
    BY Zenon, <2>3, <2>4 DEF ContentInv, RolesInv
  <2> QED BY Zenon, <2>1, <2>2, <2>4, <2>5, <2>6 DEF ContentInv, InSection
<1>4. CASE Draw(v)
  <2>1. lock = v /\ ~needsSync /\ image[render] = 1..drawn /\ drawn \in Nat
    BY Zenon, <1>4 DEF Draw, Stroke, ContentInv, InSection
  <2>2. \A w \in Writer \ {v} : ~InSection(w)
    BY Zenon, <2>1 DEF ContentInv
  <2>3. /\ UNCHANGED <<front, queued, render, needsSync>>
        /\ dirty' = TRUE /\ lock' = "free"
        /\ drawn' \in 1..MaxDraws /\ (drawn' = drawn + 1 \/ drawn' = drawn)
        /\ wpc' = [wpc EXCEPT ![v] = "idle"]
        /\ image' = [image EXCEPT ![render] = @ \cup {drawn'}]
    BY Zenon, <1>4 DEF Draw, Stroke, roles
  <2>4. (1..drawn) \cup {drawn'} = 1..drawn' /\ 1..drawn \subseteq 1..drawn' /\ drawn' \in Nat
    BY <2>1, <2>3, ScanoutAssumption
  <2>5. image' = [image EXCEPT ![render] = 1..drawn']
    BY Zenon, <2>1, <2>3, <2>4
  <2>6. /\ image' \in [Buffer -> SUBSET (1..drawn')]
        /\ image'[render'] = 1..drawn'
    BY Zenon, <2>1, <2>3, <2>4, <2>5 DEF ContentInv, RolesInv
  <2>7. queued' # NoBuffer => image'[front'] \subseteq image'[queued']
    BY Zenon, <2>3, <2>5, <2>4, <2>1 DEF ContentInv, RolesInv
  <2>8. \A w \in Writer : wpc'[w] \notin {"copy", "draw"}
    BY Zenon, <2>2, <2>3 DEF ContentInv, InSection
  <2>9. wpc' \in [Writer -> {"idle", "gate", "copy", "draw"}]
    BY Zenon, <2>3 DEF ContentInv
  <2> QED BY <2>1, <2>3, <2>6, <2>7, <2>8, <2>9 DEF ContentInv, InSection
<1>5. CASE DrawNothing(v)
  <2>1. lock = v
    BY Zenon, <1>5 DEF DrawNothing, ContentInv, InSection
  <2>2. \A w \in Writer \ {v} : ~InSection(w)
    BY Zenon, <2>1 DEF ContentInv
  <2> QED BY Zenon, <1>5, <2>2 DEF DrawNothing, ContentInv, InSection, roles, Newest
<1> QED BY Zenon, <1>1, <1>2, <1>3, <1>4, <1>5 DEF WriterStep

\* The interrupt moves the newest frame from the queue to the front, so a copy
\* that began before the flip still reads it.
LEMMA FlipKeepsContent ==
    ASSUME RolesInv, ContentInv, NativeIrq
    PROVE  ContentInv'
<1>1. UNCHANGED <<render, needsSync, drawing, dirty, lock>>
  BY Zenon DEF NativeIrq
<1>2. \/ UNCHANGED <<front, queued>>
      \/ queued # NoBuffer /\ front' = queued /\ queued' = NoBuffer
  BY Zenon DEF NativeIrq, Flip
<1>3. Newest' = Newest
  BY Zenon, <1>2 DEF Newest
<1> QED BY Zenon, <1>1, <1>2, <1>3 DEF ContentInv, drawing, InSection

\* The pictures, and the hold of render_lock, are kept by every step of ABI 3.
LEMMA ContentStep ==
    ASSUME native, RolesInv, ContentInv, HoldInv, [Next]_vars
    PROVE  ContentInv' /\ HoldInv'
<1> USE DEF roles, seqs, drawing, scan, mode
<1>1. ASSUME NEW w \in Writer, WriterStep(w) PROVE ContentInv' /\ HoldInv'
  <2>1. lock # "mode" => lock' # "mode" /\ mpc' = mpc
    BY Zenon, <1>1, ScanoutAssumption
       DEF WriterStep, Gate, Enter, CopyFrame, Draw, Stroke, DrawNothing
  <2>2. lock = "mode" => lock' = "mode"
    BY Zenon, <1>1, LockExcludes DEF WriterStep, Gate, Enter, CopyFrame, Draw, Stroke,
                              DrawNothing, InSection
  <2> QED BY Zenon, <1>1, <2>1, <2>2, WriterKeepsContent DEF HoldInv
<1>2. CASE RenderWork
  <2>1. \A w \in Writer : ~InSection(w)
    BY Zenon, <1>2, LockExcludes DEF RenderWork
  <2> QED BY Zenon, <1>2, <2>1, CommitPublishesAll DEF RenderWork, HoldInv
<1>3. CASE NativeIrq
  BY Zenon, <1>3, FlipKeepsContent DEF NativeIrq, HoldInv
<1>4. CASE RevealCommit
  <2>1. \A w \in Writer : ~InSection(w)
    BY Zenon, <1>4, LockExcludes DEF RevealCommit
  <2>2. CommitRender /\ UNCHANGED drawing /\ lock' = "mode"
    BY Zenon, <1>4 DEF RevealCommit
  <2> QED BY Zenon, <2>1, <2>2, CommitPublishesAll DEF HoldInv
<1>5. CASE RevealDone \/ \E dark \in BOOLEAN : RevealFail(dark)
  <2>1. \A w \in Writer : ~InSection(w)
    BY Zenon, <1>5, LockExcludes DEF HoldInv, RevealDone, RevealFail
  <2>2. UNCHANGED <<roles, drawing, dirty>> /\ mpc' \in {"idle", "close"}
    BY Zenon, <1>5 DEF RevealDone, RevealFail
  <2> QED BY Zenon, <2>1, <2>2 DEF ContentInv, HoldInv, InSection, Newest
<1>6. CASE TeardownDrain
  BY Zenon, <1>6 DEF TeardownDrain, ContentInv, HoldInv, InSection, Newest
<1>7. CASE UNCHANGED <<roles, drawing, dirty, lock>>
           /\ (mpc' \in {"wait", "window", "light", "lit", "fail", "faillit"}
               => mpc \in {"wait", "window", "light", "lit", "fail", "faillit"})
  BY Zenon, <1>7 DEF ContentInv, HoldInv, InSection, Newest
<1>8. CASE WorkTick \/ WorkStarts \/ TransferEnds \/ LatchFault \/ RevealStart \/ RevealRefused
           \/ RevealCancel \/ RevealTarget \/ RevealWindow \/ RevealLight
  BY Zenon, <1>7, <1>8 DEF WorkTick, WorkStarts, TransferEnds, LatchFault, RevealStart, RevealRefused,
                    RevealCancel, RevealTarget, RevealWindow, RevealLight
<1>9. CASE TeardownClose \/ TeardownCancel \/ TeardownStop
  BY Zenon, <1>7, <1>9 DEF TeardownClose, TeardownCancel, TeardownStop
<1>10. ASSUME NEW dark \in BOOLEAN, FaultWork(dark)
       PROVE  ContentInv' /\ HoldInv'
  BY Zenon, <1>7, <1>10 DEF FaultWork
<1>11. ~BlankStep /\ ~(\E to \in {"blank", "unblank"} : BlankBegin(to))
  BY Zenon DEF BlankStep, BlankBegin, RolesInv, LegacyPc, FlushRender, ScanoutOff,
         DmaStop, SelectInitialFront, DmaStart, Qualify
<1>12. ~(\E armed \in BOOLEAN : LegacyIrq(armed))
  BY Zenon DEF LegacyIrq
<1>13. CASE UNCHANGED vars
  BY Zenon, <1>7, <1>13 DEF vars
<1> QED BY Zenon, <1>1, <1>2, <1>3, <1>4, <1>5, <1>6, <1>8, <1>9, <1>10, <1>11,
           <1>12, <1>13
        DEF Next, Interrupt, RevealStep, TeardownStep

\* Nothing is drawn at the start.
LEMMA ContentInit == Init => ContentInv /\ HoldInv
<1>1. SUFFICES ASSUME Init PROVE ContentInv /\ HoldInv
  OBVIOUS
<1>2. drawn = 0 /\ 1..drawn = {} /\ image = [b \in Buffer |-> {}]
  BY <1>1 DEF Init
<1>3. front = 0 /\ render = 1 /\ needsSync = FALSE /\ dirty = FALSE
      /\ queued = NoBuffer
  BY Zenon, <1>1 DEF Init
<1>4. wpc = [w \in Writer |-> "idle"] /\ mpc = "idle"
  BY Zenon, <1>1 DEF Init
<1>5. image \in [Buffer -> SUBSET (1..drawn)] /\ image[1] = {}
  BY <1>2 DEF Buffer
<1>6. \A w \in Writer : wpc[w] = "idle"
  BY Zenon, <1>4
<1> QED BY Zenon, <1>2, <1>3, <1>4, <1>5, <1>6 DEF ContentInv, HoldInv, InSection

\* The three together are an inductive invariant of ABI 3.
LEMMA ContentAlways ==
    Spec => [](RolesInv /\ (native => ContentInv /\ HoldInv))
<1> DEFINE Inv == RolesInv /\ (native => ContentInv /\ HoldInv)
<1>2. Init => Inv
  BY Zenon, ContentInit, RolesInit
<1>3. Inv /\ [Next]_vars => Inv'
  BY Zenon, AbiFixed, RolesStep, ContentStep
<1> HIDE DEF Inv
<1>4. Spec => []Inv
  BY <1>2, <1>3, PTL DEF Spec
<1> QED BY Zenon, <1>4 DEF Inv

-----------------------------------------------------------------------------
\* Only a commit advances next_sequence.
LEMMA CommitAlone ==
    ASSUME native, RolesInv, ContentInv, [Next]_vars, nextSeq' # nextSeq
    PROVE  image[queued'] = 1..drawn
<1> USE DEF roles, seqs, drawing, scan, mode
<1>1. RenderWork \/ RevealCommit
  <2>1. \A w \in Writer : ~WriterStep(w)
    BY Zenon DEF WriterStep, Gate, Enter, CopyFrame, Draw, Stroke, DrawNothing
  <2>2. ~WorkTick /\ ~WorkStarts /\ ~TransferEnds /\ ~Interrupt /\ ~LatchFault
    BY Zenon DEF WorkTick, WorkStarts, TransferEnds, Interrupt, NativeIrq, LegacyIrq, LatchFault
  <2>3. ~RevealStart /\ ~RevealRefused /\ (RevealStep => RevealCommit)
    BY Zenon DEF RevealStart, RevealRefused, RevealStep, RevealCancel, RevealTarget,
           RevealWindow, RevealLight, RevealDone, RevealFail
  <2>4. ~TeardownStep /\ ~(\E dark \in BOOLEAN : FaultWork(dark))
    BY Zenon DEF TeardownStep, TeardownClose, TeardownDrain, TeardownCancel,
           TeardownStop, FaultWork
  <2>5. ~BlankStep /\ ~(\E to \in {"blank", "unblank"} : BlankBegin(to))
    BY Zenon DEF BlankStep, BlankBegin, RolesInv, LegacyPc, FlushRender, ScanoutOff,
           DmaStop, SelectInitialFront, DmaStart, Qualify
  <2>6. ~UNCHANGED vars
    BY Zenon DEF vars
  <2> QED BY Zenon, <2>1, <2>2, <2>3, <2>4, <2>5, <2>6 DEF Next
<1>2. CommitRender /\ UNCHANGED drawing /\ lock \in {"free", "mode"}
  BY Zenon, <1>1 DEF RenderWork, RevealCommit
<1> QED BY Zenon, <1>2, LockExcludes, CommitPublishesAll

\* Under ABI 3 every commit (micronux_queue_render_locked) publishes a buffer
\* that holds everything drawn so far, whatever tasks, interrupts, reveals,
\* faults and teardowns interleave.
THEOREM PublishedCompleteHolds == Spec => PublishedComplete
<1>1. RolesInv /\ (native => ContentInv /\ HoldInv) /\ [Next]_vars
      => [native /\ nextSeq' # nextSeq => image[queued'] = 1..drawn]_vars
  BY Zenon, CommitAlone
<1> QED BY <1>1, ContentAlways, PTL DEF Spec, PublishedComplete

\* The front buffer only gains strokes.
LEMMA FrontGains ==
    ASSUME native, RolesInv, ContentInv, [Next]_vars
    PROVE  image[front] \subseteq image'[front']
<1> USE DEF roles, seqs, drawing, scan, mode
<1>1. ASSUME NEW w \in Writer, WriterStep(w)
      PROVE  image[front] \subseteq image'[front']
  <2>1. front' = front /\ \A b \in Buffer \ {render} : image'[b] = image[b]
    BY Zenon, <1>1 DEF WriterStep, Gate, Enter, CopyFrame, Draw, Stroke, DrawNothing,
                ContentInv
  <2> QED BY Zenon, <2>1 DEF RolesInv
<1>2. CASE NativeIrq
  BY Zenon, <1>2 DEF NativeIrq, Flip, ContentInv
<1>3. CASE RenderWork \/ RevealCommit
  BY Zenon, <1>3 DEF RenderWork, RevealCommit, CommitRender, QueueRender
<1>4. CASE UNCHANGED <<front, image>>
  BY Zenon, <1>4
<1>5. CASE WorkTick \/ WorkStarts \/ TransferEnds \/ LatchFault \/ RevealStart \/ RevealRefused
  BY Zenon, <1>4, <1>5 DEF WorkTick, WorkStarts, TransferEnds, LatchFault, RevealStart, RevealRefused
<1>6. CASE RevealStep /\ ~RevealCommit
  BY Zenon, <1>4, <1>6 DEF RevealStep, RevealCancel, RevealTarget, RevealWindow,
                    RevealLight, RevealDone, RevealFail
<1>7. CASE TeardownStep \/ \E dark \in BOOLEAN : FaultWork(dark)
  BY Zenon, <1>4, <1>7 DEF TeardownStep, TeardownClose, TeardownDrain,
                    TeardownCancel, TeardownStop, FaultWork
<1>8. ~BlankStep /\ ~(\E to \in {"blank", "unblank"} : BlankBegin(to))
  BY Zenon DEF BlankStep, BlankBegin, RolesInv, LegacyPc, FlushRender, ScanoutOff,
         DmaStop, SelectInitialFront, DmaStart, Qualify
<1>9. ~(\E armed \in BOOLEAN : LegacyIrq(armed))
  BY Zenon DEF LegacyIrq
<1>10. CASE UNCHANGED vars
  BY Zenon, <1>4, <1>10 DEF vars
<1> QED BY Zenon, <1>1, <1>2, <1>3, <1>5, <1>6, <1>7, <1>8, <1>9, <1>10
        DEF Next, Interrupt

\* Under ABI 3 the transfer engine (micronux_native_dma_irq) never goes back to
\* an older picture: it reads the front buffer or nothing, and the front buffer
\* only gains strokes.
THEOREM NeverRegressesHolds == Spec => NeverRegresses
<1>1. RolesInv /\ RolesInv' /\ (native => ContentInv /\ HoldInv)
      /\ [Next]_vars
      => [native => /\ dma' \in {front', NoBuffer}
                    /\ image[front] \subseteq image'[front']]_vars
  BY Zenon, FrontGains DEF RolesInv
<1> QED BY <1>1, ContentAlways, PTL DEF Spec, NeverRegresses
-----------------------------------------------------------------------------
\* TypeOK in parts, by the variables that change together.
RoleTypes ==
    /\ front \in Buffer /\ render \in Buffer /\ queued \in Buffer \cup {NoBuffer}
    /\ dma \in Buffer \cup {NoBuffer} /\ needsSync \in BOOLEAN
SeqTypes ==
    /\ bufSeq \in [Buffer -> Nat] /\ nextSeq \in Nat /\ frontSeq \in Nat
    /\ presented \in Buffer /\ presentedSeq \in Nat
DrawTypes ==
    /\ drawn \in Nat /\ image \in [Buffer -> SUBSET (1..drawn)]
    /\ wpc \in [Writer -> {"idle", "gate", "copy", "draw"}] /\ copySrc \in Buffer
LockTypes ==
    /\ lock \in Writer \cup {"free", "mode"} /\ dirty \in BOOLEAN
    /\ work \in [left : -1..CommitTicks, running : BOOLEAN]
ScanTypes ==
    active \in BOOLEAN /\ fault \in BOOLEAN /\ irq \in {"none", "done", "done_error", "error"}
StateTypes ==
    /\ state \in {"READY", "QUALIFIED", "REVEALING", "REVEALED", "UNVERIFIED", "DOWN"}
    /\ enabled \in BOOLEAN /\ preserve \in BOOLEAN
PcTypes ==
    mpc \in {"idle", "cancel", "commit", "wait", "window", "light", "lit",
             "fail", "faillit", "close", "drain", "unwork", "stop", "blank", "unblank",
             "off", "dmastop", "select", "start", "qualify"}
HoldTypes == target \in Nat /\ frames \in 0..StableFrames /\ seen \in Buffer \X Nat
AllTypes ==
    /\ RoleTypes /\ SeqTypes /\ DrawTypes /\ LockTypes /\ ScanTypes /\ StateTypes /\ PcTypes
    /\ HoldTypes

\* The parts make up TypeOK.
LEMMA TypeParts == AllTypes <=> TypeOK
BY Zenon DEF AllTypes, RoleTypes, SeqTypes, DrawTypes, LockTypes, ScanTypes, StateTypes, PcTypes,
       HoldTypes, TypeOK

\* A part holds on when its variables do not change.
LEMMA PartsKept ==
    /\ RoleTypes /\ UNCHANGED <<front, queued, render, needsSync, dma>> => RoleTypes'
    /\ SeqTypes /\ UNCHANGED <<bufSeq, nextSeq, frontSeq, presented, presentedSeq>> => SeqTypes'
    /\ DrawTypes /\ UNCHANGED <<image, drawn, wpc, copySrc>> => DrawTypes'
    /\ LockTypes /\ UNCHANGED <<lock, dirty, work>> => LockTypes'
    /\ ScanTypes /\ UNCHANGED <<active, fault, irq>> => ScanTypes'
    /\ StateTypes /\ UNCHANGED <<state, enabled, preserve>> => StateTypes'
    /\ PcTypes /\ UNCHANGED mpc => PcTypes'
    /\ HoldTypes /\ UNCHANGED <<target, frames, seen>> => HoldTypes'
<1>1. RoleTypes /\ UNCHANGED <<front, queued, render, needsSync, dma>> => RoleTypes'
  BY Zenon DEF RoleTypes
<1>2. SeqTypes /\ UNCHANGED <<bufSeq, nextSeq, frontSeq, presented, presentedSeq>> => SeqTypes'
  BY Zenon DEF SeqTypes
<1>3. DrawTypes /\ UNCHANGED <<image, drawn, wpc, copySrc>> => DrawTypes'
  BY Zenon DEF DrawTypes
<1>4. LockTypes /\ UNCHANGED <<lock, dirty, work>> => LockTypes'
  BY Zenon DEF LockTypes
<1>5. ScanTypes /\ UNCHANGED <<active, fault, irq>> => ScanTypes'
  BY Zenon DEF ScanTypes
<1>6. StateTypes /\ UNCHANGED <<state, enabled, preserve>> => StateTypes'
  BY Zenon DEF StateTypes
<1>7. PcTypes /\ UNCHANGED mpc => PcTypes'
  BY Zenon DEF PcTypes
<1>8. HoldTypes /\ UNCHANGED <<target, frames, seen>> => HoldTypes'
  BY Zenon DEF HoldTypes
<1> QED BY Zenon, <1>1, <1>2, <1>3, <1>4, <1>5, <1>6, <1>7, <1>8

\* Every step keeps the types.
LEMMA TypeStep ==
    ASSUME AllTypes, RolesInv, RolesInv', [Next]_vars
    PROVE  AllTypes'
<1> USE PartsKept DEF roles, seqs, drawing, scan, mode, AllTypes
<1>0. needsSync' \in BOOLEAN => RoleTypes'
  BY Zenon DEF RolesInv, RoleTypes
<1>01. needsSync \in BOOLEAN
  BY Zenon DEF RoleTypes
<1>02. /\ NoWork \in [left : -1..CommitTicks, running : BOOLEAN]
       /\ [work EXCEPT !.left = CommitTicks] \in [left : -1..CommitTicks, running : BOOLEAN]
       /\ [work EXCEPT !.running = FALSE] \in [left : -1..CommitTicks, running : BOOLEAN]
  <2>1. work \in [left : -1..CommitTicks, running : BOOLEAN]
    BY Zenon DEF LockTypes
  <2>2. CommitTicks \in -1..CommitTicks /\ -1 \in -1..CommitTicks
    BY ScanoutAssumption
  <2> QED BY Zenon, <2>1, <2>2 DEF NoWork
<1>1. ASSUME NEW w \in Writer, WriterStep(w) PROVE AllTypes'
  <2>1. CASE Gate(w)
    <3>1. DrawTypes'
      BY Zenon, <2>1 DEF Gate, DrawTypes
    <3> QED BY Zenon, <2>1, <3>1 DEF Gate
  <2>2. CASE Enter(w)
    <3>1. Newest \in Buffer /\ 0 \in Buffer
      BY DEF Newest, RoleTypes, Buffer, NoBuffer
    <3>2. DrawTypes'
      <4>1. wpc' \in [Writer -> {"idle", "gate", "copy", "draw"}]
        BY Zenon, <2>2 DEF Enter, DrawTypes
      <4>2. copySrc' \in Buffer
        BY Zenon, <2>2, <3>1 DEF Enter, DrawTypes
      <4> QED BY Zenon, <2>2, <4>1, <4>2 DEF Enter, DrawTypes
    <3>3. LockTypes'
      BY Zenon, <2>2 DEF Enter, LockTypes
    <3> QED BY Zenon, <2>2, <3>2, <3>3 DEF Enter
  <2>3. CASE CopyFrame(w)
    <3>1. 0 \in Buffer
      BY DEF Buffer
    <3>2. DrawTypes'
      <4>1. image' \in [Buffer -> SUBSET (1..drawn)]
        BY Zenon, <2>3 DEF CopyFrame, DrawTypes
      <4>2. wpc' \in [Writer -> {"idle", "gate", "copy", "draw"}]
        BY Zenon, <2>3 DEF CopyFrame, DrawTypes
      <4> QED BY Zenon, <2>3, <3>1, <4>1, <4>2 DEF CopyFrame, DrawTypes
    <3> QED BY Zenon, <1>0, <2>3, <3>2 DEF CopyFrame
  <2>4. CASE Draw(w)
    <3>1. drawn' \in Nat /\ drawn' \in 1..drawn' /\ 1..drawn \subseteq 1..drawn'
      BY <2>4, ScanoutAssumption DEF Draw, Stroke, DrawTypes
    <3>2. image' \in [Buffer -> SUBSET (1..drawn')]
      <4>1. image' = [image EXCEPT ![render] = image[render] \cup {drawn'}]
        BY Zenon, <2>4 DEF Draw, Stroke
      <4>2. image \in [Buffer -> SUBSET (1..drawn')]
        BY Zenon, <3>1 DEF DrawTypes
      <4>3. image[render] \cup {drawn'} \in SUBSET (1..drawn')
        BY Zenon, <3>1, <4>2 DEF RoleTypes
      <4> QED BY Zenon, <4>1, <4>2, <4>3
    <3>3. DrawTypes'
      <4>1. wpc' \in [Writer -> {"idle", "gate", "copy", "draw"}] /\ copySrc' = copySrc
        BY Zenon, <2>4 DEF Draw, Stroke, DrawTypes
      <4> QED BY Zenon, <3>1, <3>2, <4>1 DEF DrawTypes
    <3>4. LockTypes'
      BY Zenon, <1>02, <2>4 DEF Draw, Stroke, LockTypes
    <3> QED BY Zenon, <2>4, <3>3, <3>4 DEF Draw, Stroke
  <2>5. CASE DrawNothing(w)
    <3>1. DrawTypes'
      BY Zenon, <2>5 DEF DrawNothing, DrawTypes
    <3>2. LockTypes'
      BY Zenon, <2>5 DEF DrawNothing, LockTypes
    <3> QED BY Zenon, <2>5, <3>1, <3>2 DEF DrawNothing
  <2> QED BY Zenon, <1>1, <2>1, <2>2, <2>3, <2>4, <2>5 DEF WriterStep
<1>2. ASSUME CommitRender, UNCHANGED <<frontSeq, presented, presentedSeq>>,
             lock' \in {lock, "mode"}, work' \in {work, [work EXCEPT !.running = FALSE]}
      PROVE  RoleTypes' /\ SeqTypes' /\ LockTypes'
  <2>1. needsSync' \in BOOLEAN /\ dirty' = FALSE
    BY Zenon, <1>2, <1>01 DEF CommitRender, QueueRender
  <2>2. bufSeq' \in [Buffer -> Nat] /\ nextSeq' \in Nat
    <3>1. nextSeq + 1 \in Nat
      BY DEF SeqTypes
    <3> QED BY Zenon, <1>2, <3>1 DEF CommitRender, QueueRender, SeqTypes
  <2>3. RoleTypes'
    BY Zenon, <1>0, <2>1
  <2>4. SeqTypes'
    BY Zenon, <1>2, <2>2 DEF SeqTypes
  <2>5. LockTypes'
    BY Zenon, <1>02, <1>2, <2>1 DEF LockTypes
  <2> QED BY Zenon, <2>3, <2>4, <2>5
<1>3. CASE RenderWork
  BY Zenon, <1>2, <1>3 DEF RenderWork
<1>31. CASE WorkTick \/ WorkStarts
  <2>1. work' \in [left : -1..CommitTicks, running : BOOLEAN]
    <3>1. work \in [left : -1..CommitTicks, running : BOOLEAN]
      BY Zenon DEF LockTypes
    <3>2. CASE WorkTick
      <4>1. work.left - 1 \in -1..CommitTicks
        BY <3>1, <3>2, ScanoutAssumption DEF WorkTick
      <4> QED BY Zenon, <3>1, <3>2, <4>1 DEF WorkTick
    <3>3. CASE WorkStarts
      BY <3>3, ScanoutAssumption DEF WorkStarts
    <3> QED BY Zenon, <1>31, <3>2, <3>3
  <2>2. LockTypes'
    BY Zenon, <1>31, <2>1 DEF WorkTick, WorkStarts, LockTypes
  <2> QED BY Zenon, <1>31, <2>2 DEF WorkTick, WorkStarts
<1>4. CASE TransferEnds \/ LatchFault
  <2>1. ScanTypes' /\ needsSync' = needsSync
    BY Zenon, <1>4 DEF TransferEnds, LatchFault, ScanTypes
  <2> QED BY Zenon, <1>0, <1>01, <1>4, <2>1 DEF TransferEnds, LatchFault
<1>5. CASE NativeIrq
  <2>1. NextFrames \in 0..StableFrames
    BY ScanoutAssumption DEF NextFrames, HoldTypes
  <2>2. HoldTypes'
    BY Zenon, <1>5, <2>1 DEF NativeIrq, HoldTypes
  <2>3. SeqTypes'
    <3>1. presented' \in Buffer /\ presentedSeq' \in Nat
      BY Zenon, <1>5 DEF NativeIrq, SeqTypes, RoleTypes
    <3>2. frontSeq' \in Nat
      BY Zenon, <1>5 DEF NativeIrq, Flip, SeqTypes, RoleTypes
    <3> QED BY Zenon, <1>5, <3>1, <3>2 DEF NativeIrq, SeqTypes
  <2>4. ScanTypes'
    <3>1. fault' \in BOOLEAN
      BY Zenon, <1>5 DEF NativeIrq
    <3> QED BY Zenon, <1>5, <3>1 DEF NativeIrq, ScanTypes
  <2> QED BY Zenon, <1>0, <1>01, <1>5, <2>2, <2>3, <2>4 DEF NativeIrq
<1>6. ASSUME NEW armed \in BOOLEAN, LegacyIrq(armed) PROVE AllTypes'
  <2>1. fault' \in BOOLEAN
    BY Zenon, <1>6 DEF LegacyIrq, ScanTypes
  <2>2. ScanTypes'
    BY Zenon, <1>6, <2>1 DEF LegacyIrq, ScanTypes
  <2> QED BY Zenon, <1>0, <1>01, <1>6, <2>2 DEF LegacyIrq
<1>7. CASE RevealStart \/ RevealCancel \/ RevealLight
  <2>1. PcTypes' /\ StateTypes' /\ LockTypes'
    BY Zenon, <1>02, <1>7 DEF RevealStart, RevealCancel, CancelWork, RevealLight, PcTypes, StateTypes, LockTypes
  <2> QED BY Zenon, <1>7, <2>1 DEF RevealStart, RevealCancel, RevealLight
<1>8. CASE RevealRefused \/ RevealTarget \/ RevealWindow
  <2>1. frames' \in 0..StableFrames /\ seen' \in Buffer \X Nat
    <3>1. /\ 0 \in 0..StableFrames /\ <<0, 0>> \in Buffer \X Nat
          /\ <<presented, presentedSeq>> \in Buffer \X Nat
      BY ScanoutAssumption DEF SeqTypes, Buffer
    <3> QED BY Zenon, <1>8, <3>1 DEF RevealRefused, RevealTarget, RevealWindow
  <2>2. mpc' \in {"fail", "faillit", "window", "light"}
    BY Zenon, <1>8 DEF RevealRefused, RevealTarget, RevealWindow
  <2>3. HoldTypes' /\ PcTypes'
    BY Zenon, <1>8, <2>1, <2>2 DEF RevealRefused, RevealTarget, RevealWindow, HoldTypes, PcTypes
  <2> QED BY Zenon, <1>8, <2>3 DEF RevealRefused, RevealTarget, RevealWindow
<1>9. CASE RevealCommit
  <2>1. RoleTypes' /\ SeqTypes' /\ LockTypes'
    BY Zenon, <1>2, <1>9 DEF RevealCommit
  <2>2. target' \in Nat /\ mpc' \in {"wait", "fail"}
    BY Zenon, <1>9, <2>1 DEF RevealCommit, RoleTypes, SeqTypes
  <2>3. HoldTypes' /\ PcTypes'
    BY Zenon, <1>9, <2>2 DEF RevealCommit, HoldTypes, PcTypes
  <2> QED BY Zenon, <1>9, <2>1, <2>3 DEF RevealCommit
<1>10. CASE RevealDone \/ \E dark \in BOOLEAN : RevealFail(dark)
  <2>1. target' \in Nat
    BY <1>10 DEF RevealDone, RevealFail
  <2>2. HoldTypes' /\ PcTypes' /\ LockTypes' /\ StateTypes'
    BY Zenon, <1>10, <2>1
       DEF RevealDone, RevealFail, HoldTypes, PcTypes, LockTypes, StateTypes
  <2> QED BY Zenon, <1>10, <2>2 DEF RevealDone, RevealFail
<1>11. ASSUME NEW dark \in BOOLEAN, FaultWork(dark) PROVE AllTypes'
  <2>1. StateTypes' /\ PcTypes'
    BY Zenon, <1>11 DEF FaultWork, StateTypes, PcTypes
  <2> QED BY Zenon, <1>11, <2>1 DEF FaultWork
<1>12. CASE TeardownStep
  <2>1. StateTypes' /\ LockTypes' /\ ScanTypes' /\ needsSync' = needsSync
    <3> USE DEF TeardownStep, TeardownClose, TeardownDrain, TeardownCancel, TeardownStop
    <3>1. StateTypes'
      BY Zenon, <1>12 DEF StateTypes
    <3>2. LockTypes' /\ needsSync' = needsSync
      BY Zenon, <1>02, <1>12 DEF LockTypes, CancelWork
    <3>3. ScanTypes'
      BY Zenon, <1>12 DEF ScanTypes
    <3> QED BY Zenon, <3>1, <3>2, <3>3
  <2>2. mpc' \in {"drain", "unwork", "stop", "idle"}
    BY Zenon, <1>12 DEF TeardownStep, TeardownClose, TeardownDrain, TeardownCancel, TeardownStop
  <2>3. PcTypes'
    BY Zenon, <2>2 DEF PcTypes
  <2> QED BY Zenon, <1>0, <1>01, <1>12, <2>1, <2>3
          DEF TeardownStep, TeardownClose, TeardownDrain, TeardownCancel, TeardownStop
<1>13. ASSUME NEW to \in {"blank", "unblank"}, BlankBegin(to) PROVE AllTypes'
  <2>1. PcTypes' /\ LockTypes'
    BY Zenon, <1>02, <1>13 DEF BlankBegin, CancelWork, PcTypes, LockTypes
  <2> QED BY Zenon, <1>13, <2>1 DEF BlankBegin
<1>14. CASE FlushRender
  <2>1. RoleTypes' /\ SeqTypes' /\ LockTypes'
    BY Zenon, <1>2, <1>14 DEF FlushRender
  <2>2. PcTypes'
    BY Zenon, <1>14 DEF FlushRender, PcTypes
  <2> QED BY Zenon, <1>14, <2>1, <2>2 DEF FlushRender
<1>15. CASE ScanoutOff \/ DmaStop \/ DmaStart \/ Qualify
  <2>1. PcTypes' /\ ScanTypes' /\ needsSync' = needsSync
    BY Zenon, <1>15 DEF ScanoutOff, DmaStop, DmaStart, Qualify, PcTypes, ScanTypes
  <2> QED BY Zenon, <1>0, <1>01, <1>15, <2>1 DEF ScanoutOff, DmaStop, DmaStart, Qualify
<1>16. CASE SelectInitialFront
  <2>1. PcTypes' /\ ScanTypes' /\ needsSync' = TRUE
    BY Zenon, <1>16 DEF SelectInitialFront, PcTypes, ScanTypes
  <2> QED BY Zenon, <1>0, <1>16, <2>1 DEF SelectInitialFront
<1>17. CASE UNCHANGED vars
  BY Zenon, <1>17 DEF vars
<1> QED
  BY Zenon, <1>1, <1>3, <1>31, <1>4, <1>5, <1>6, <1>7, <1>8, <1>9, <1>10, <1>11,
     <1>12, <1>13, <1>14, <1>15, <1>16, <1>17
  DEF Next, Interrupt, BlankStep, RevealStep

\* The types at the start.
LEMMA TypesInit == Init => AllTypes
<1> SUFFICES ASSUME Init PROVE AllTypes
  OBVIOUS
<1>1. RoleTypes /\ LockTypes /\ ScanTypes /\ StateTypes /\ PcTypes
  <2>1. RoleTypes
    <3>1. dma \in {0, NoBuffer} /\ needsSync \in BOOLEAN /\ front = 0 /\ render = 1 /\ queued = NoBuffer
      BY Zenon DEF Init
    <3> QED BY <3>1 DEF RoleTypes, Buffer
  <2>2. LockTypes /\ ScanTypes /\ StateTypes
    <3>1. NoWork \in [left : -1..CommitTicks, running : BOOLEAN]
      BY ScanoutAssumption DEF NoWork
    <3> QED BY Zenon, <3>1 DEF Init, LockTypes, ScanTypes, StateTypes
  <2>3. PcTypes
    BY Zenon DEF Init, PcTypes
  <2> QED BY Zenon, <2>1, <2>2, <2>3
<1>2. SeqTypes /\ DrawTypes /\ HoldTypes
  BY ScanoutAssumption DEF Init, SeqTypes, DrawTypes, HoldTypes, Buffer
<1> QED BY Zenon, <1>1, <1>2 DEF AllTypes

-----------------------------------------------------------------------------
\* What leads up to a lit panel: unless a drawing waits for its commit, or a
\* fault has been latched, the newest frame has everything; from the commit of
\* the reveal on nothing is drawn; the window knows what it saw; and after it
\* the frame that was seen stays where it is.
RevealInv ==
    /\ (state = "QUALIFIED" /\ mpc = "idle")
         \/ mpc \in {"cancel", "commit", "wait", "window"}
       => dirty \/ fault \/ image[Newest] = 1..drawn
    /\ mpc \in {"wait", "window"} => ~dirty /\ target > 0
    /\ mpc = "window" => seen[2] >= target
    /\ mpc \in {"light", "lit"} =>
         /\ queued = NoBuffer /\ front = presented /\ presentedSeq = frontSeq
         /\ frontSeq >= target /\ target > 0 /\ image[front] = 1..drawn

\* A commit keeps the newest frame complete.
LEMMA CommitNewest ==
    ASSUME RolesInv, ContentInv, CommitRender, UNCHANGED drawing,
           dirty \/ fault \/ image[Newest] = 1..drawn
    PROVE  fault \/ image'[Newest'] = 1..drawn'
<1>1. CASE dirty /\ ~fault
  <2>1. image[render] = 1..drawn /\ queued' = render
    BY Zenon, <1>1 DEF CommitRender, QueueRender, ContentInv
  <2>2. Newest' = render
    BY <2>1 DEF Newest, RolesInv, Buffer, NoBuffer
  <2> QED BY Zenon, <2>1, <2>2 DEF drawing
<1>2. CASE ~dirty
  BY Zenon, <1>2 DEF CommitRender, roles, drawing, Newest
<1> QED BY Zenon, <1>1, <1>2

\* Every step of ABI 3 keeps it.
LEMMA RevealInvStep ==
    ASSUME native, RolesInv, AllTypes, ContentInv, HoldInv, RevealInv, [Next]_vars
    PROVE  RevealInv'
<1> USE DEF roles, seqs, drawing, scan, mode
<1>1. ASSUME NEW w \in Writer, WriterStep(w) PROVE RevealInv'
  <2>1. UNCHANGED <<front, queued, mpc, state, target, seen, presented, presentedSeq, frontSeq, fault>>
    BY Zenon, <1>1 DEF WriterStep, Gate, Enter, CopyFrame, Draw, Stroke, DrawNothing
  <2>2. Newest' = Newest
    BY Zenon, <2>1 DEF Newest
  <2>3. \/ dirty'
        \/ UNCHANGED <<image, drawn, dirty>>
        \/ ~dirty /\ image[Newest] = 1..drawn /\ image'[Newest] = 1..drawn'
    <3>1. CASE CopyFrame(w)
      <4>1. /\ image[copySrc] = 1..drawn /\ copySrc = Newest /\ ~dirty /\ drawn' = drawn
            /\ image' = [image EXCEPT ![render] = image[copySrc]]
        BY Zenon, <3>1 DEF CopyFrame, ContentInv
      <4>2. Newest \in Buffer /\ image \in [Buffer -> SUBSET (1..drawn)]
        BY Zenon DEF ContentInv, RolesInv, Newest
      <4>3. image'[Newest] = image[Newest]
        BY Zenon, <4>1, <4>2
      <4> QED BY Zenon, <4>1, <4>3
    <3> QED BY Zenon, <1>1, <3>1 DEF WriterStep, Gate, Enter, Draw, Stroke, DrawNothing
  <2>4. CASE InSection(w)
    <3>1. lock = w
      BY Zenon, <2>4 DEF ContentInv
    <3>2. mpc \notin {"wait", "window", "light", "lit"}
      BY Zenon, <3>1, ScanoutAssumption DEF HoldInv
    <3> QED BY Zenon, <2>1, <2>2, <2>3, <3>2 DEF RevealInv
  <2>5. CASE ~InSection(w)
    <3>1. UNCHANGED <<image, drawn, dirty>>
      BY Zenon, <1>1, <2>5 DEF WriterStep, Gate, Enter, CopyFrame, Draw, Stroke, DrawNothing, InSection
    <3> QED BY Zenon, <2>1, <2>2, <3>1 DEF RevealInv
  <2> QED BY Zenon, <2>4, <2>5
<1>2. CASE RenderWork
  <2>1. /\ CommitRender /\ UNCHANGED <<image, drawn, mpc, state, fault>> /\ lock = "free"
    BY Zenon, <1>2 DEF RenderWork
  <2>2. mpc \notin {"wait", "window", "light", "lit"}
    BY Zenon, <2>1 DEF HoldInv
  <2>3. dirty \/ fault \/ image[Newest] = 1..drawn => fault \/ image'[Newest'] = 1..drawn'
    BY Zenon, <1>2, CommitNewest DEF RenderWork
  <2> QED BY Zenon, <2>1, <2>2, <2>3 DEF RevealInv
<1>3. CASE NativeIrq
  <2>1. /\ UNCHANGED <<image, drawn, dirty, state, mpc, target, seen>>
        /\ fault => fault'
    BY Zenon, <1>3 DEF NativeIrq
  <2>2. \/ UNCHANGED <<front, queued, frontSeq>>
        \/ queued # NoBuffer /\ front' = queued /\ queued' = NoBuffer
    BY Zenon, <1>3 DEF NativeIrq, Flip
  <2>3. Newest' = Newest
    BY Zenon, <2>2 DEF Newest
  <2>4. \/ UNCHANGED <<presented, presentedSeq>>
        \/ presented' = front /\ presentedSeq' = frontSeq
    BY Zenon, <1>3 DEF NativeIrq
  <2>5. queued = NoBuffer => UNCHANGED <<front, queued, frontSeq>>
    BY Zenon, <1>3 DEF NativeIrq, Flip
  <2> QED BY Zenon, <2>1, <2>3, <2>4, <2>5 DEF RevealInv
<1>4. CASE RevealCommit
  <2>1. /\ CommitRender /\ UNCHANGED <<image, drawn, fault>> /\ mpc = "commit" /\ dirty' = FALSE
        /\ mpc' \in {"wait", "fail"} /\ (mpc' = "wait" => target' > 0)
    BY Zenon, <1>4 DEF RevealCommit, CommitRender
  <2>2. fault \/ image'[Newest'] = 1..drawn'
    BY Zenon, <1>4, <2>1, CommitNewest DEF RevealInv, RevealCommit
  <2>3. CASE mpc' = "wait"
    BY Zenon, <2>1, <2>2, <2>3 DEF RevealInv
  <2>4. CASE mpc' = "fail"
    BY Zenon, <2>4 DEF RevealInv
  <2> QED BY Zenon, <2>1, <2>3, <2>4
<1>5. CASE RevealTarget
  <2>1. /\ UNCHANGED <<front, queued, image, drawn, dirty, fault, state, target>> /\ mpc = "wait"
        /\ (mpc' = "fail") \/ (mpc' = "window" /\ ~fault /\ presentedSeq >= target)
        /\ seen' = <<presented, presentedSeq>>
    BY Zenon, <1>5 DEF RevealTarget
  <2>2. Newest' = Newest
    BY Zenon, <2>1 DEF Newest
  <2>3. CASE mpc' = "window"
    <3>1. seen'[2] >= target
      BY Zenon, <2>1, <2>3
    <3>2. ~dirty /\ target > 0 /\ (dirty \/ fault \/ image[Newest] = 1..drawn)
      BY Zenon, <2>1 DEF RevealInv
    <3> QED BY Zenon, <2>1, <2>2, <2>3, <3>1, <3>2 DEF RevealInv
  <2>4. CASE mpc' = "fail"
    BY Zenon, <2>4 DEF RevealInv
  <2> QED BY Zenon, <2>1, <2>3, <2>4
<1>6. CASE RevealWindow
  <2>1. /\ UNCHANGED <<front, queued, image, drawn, dirty, fault, frontSeq, presented, presentedSeq, target>>
        /\ mpc = "window"
        /\ \/ mpc' = "fail"
           \/ mpc' = "light" /\ ~fault /\ queued = NoBuffer /\ seen = <<presented, presentedSeq>>
                /\ seen = <<front, frontSeq>>
    BY Zenon, <1>6 DEF RevealWindow
  <2>2. CASE mpc' = "light"
    <3>1. /\ queued = NoBuffer /\ seen = <<presented, presentedSeq>> /\ seen = <<front, frontSeq>>
          /\ ~fault
      BY Zenon, <2>1, <2>2
    <3>2. ~dirty /\ target > 0 /\ image[Newest] = 1..drawn /\ seen[2] >= target
      BY Zenon, <2>1, <3>1 DEF RevealInv
    <3>3. presented = front /\ presentedSeq = frontSeq /\ frontSeq >= target
      BY <3>1, <3>2
    <3>4. image[front] = 1..drawn
      BY Zenon, <3>1, <3>2 DEF Newest
    <3> QED BY Zenon, <2>1, <2>2, <3>1, <3>2, <3>3, <3>4 DEF RevealInv
  <2>3. CASE mpc' = "fail"
    BY Zenon, <2>3 DEF RevealInv
  <2> QED BY Zenon, <2>1, <2>2, <2>3
<1>7. CASE RevealLight
  <2>1. /\ UNCHANGED <<front, queued, image, drawn, frontSeq, presented, presentedSeq, target>>
        /\ mpc = "light" /\ mpc' = "lit"
    BY Zenon, <1>7 DEF RevealLight
  <2> QED BY Zenon, <2>1 DEF RevealInv
<1>8. CASE RevealStart \/ RevealCancel
  <2>1. /\ UNCHANGED <<front, queued, image, drawn, dirty, fault>>
        /\ (state = "QUALIFIED" /\ mpc = "idle" /\ mpc' = "cancel") \/ (mpc = "cancel" /\ mpc' = "commit")
    BY Zenon, <1>8 DEF RevealStart, RevealCancel
  <2>2. Newest' = Newest
    BY Zenon, <2>1 DEF Newest
  <2>3. dirty \/ fault \/ image[Newest] = 1..drawn
    BY Zenon, <2>1 DEF RevealInv
  <2>4. mpc' \notin {"wait", "window", "light", "lit"}
    BY Zenon, <2>1
  <2> QED BY Zenon, <2>1, <2>2, <2>3, <2>4 DEF RevealInv
<1>9. CASE TransferEnds \/ LatchFault \/ WorkTick \/ WorkStarts
  <2>1. /\ UNCHANGED <<front, queued, image, drawn, dirty, state, mpc, frontSeq, presented, presentedSeq,
                       target, seen>>
        /\ fault => fault'
    <3>1. CASE TransferEnds
      BY Zenon, <3>1 DEF TransferEnds
    <3>2. CASE LatchFault
      BY Zenon, <3>2 DEF LatchFault
    <3>3. CASE WorkTick
      BY Zenon, <3>3 DEF WorkTick
    <3>4. CASE WorkStarts
      BY Zenon, <3>4 DEF WorkStarts
    <3> QED BY Zenon, <1>9, <3>1, <3>2, <3>3, <3>4
  <2>2. Newest' = Newest
    BY Zenon, <2>1 DEF Newest
  <2> QED BY Zenon, <2>1, <2>2 DEF RevealInv
<1>10. CASE \/ RevealRefused \/ RevealDone \/ TeardownStep
            \/ \E dark \in BOOLEAN : RevealFail(dark) \/ FaultWork(dark)
  <2>1. \/ mpc' \in {"fail", "faillit", "close", "drain", "unwork", "stop"}
        \/ mpc' = "idle" /\ state' \in {"REVEALED", "UNVERIFIED", "DOWN"}
    BY Zenon, <1>10 DEF RevealRefused, RevealDone, RevealFail, TeardownStep, TeardownClose,
                        TeardownDrain, TeardownCancel, TeardownStop, FaultWork
  <2> QED BY Zenon, <2>1 DEF RevealInv
<1>11. ~BlankStep /\ ~(\E to \in {"blank", "unblank"} : BlankBegin(to))
  BY Zenon DEF BlankStep, BlankBegin, RolesInv, LegacyPc, FlushRender, ScanoutOff,
         DmaStop, SelectInitialFront, DmaStart, Qualify
<1>12. ~(\E armed \in BOOLEAN : LegacyIrq(armed))
  BY Zenon DEF LegacyIrq
<1>13. CASE UNCHANGED vars
  BY Zenon, <1>13 DEF vars, RevealInv, Newest
<1> QED BY Zenon, <1>1, <1>2, <1>3, <1>4, <1>5, <1>6, <1>7, <1>8, <1>9, <1>10, <1>11, <1>12, <1>13
        DEF Next, Interrupt, RevealStep

\* The teardown, step by step: the gate is closed, no task is left in the render
\* section, no work is armed, the engine is stopped.
DownInv ==
    /\ mpc \in {"drain", "unwork", "stop"} \/ state = "DOWN" => ~enabled
    /\ mpc \in {"unwork", "stop"} \/ state = "DOWN" => \A w \in Writer : ~InSection(w)
    /\ mpc = "stop" \/ state = "DOWN" => work = NoWork
    /\ state = "DOWN" => mpc = "idle" /\ dma = NoBuffer /\ irq = "none"
    /\ mpc \in {"cancel", "commit", "wait", "window", "light", "lit", "fail", "faillit"} => state # "DOWN"

\* Every step of ABI 3 keeps it.
LEMMA DownInvStep ==
    ASSUME native, RolesInv, ContentInv, HoldInv, DownInv, [Next]_vars
    PROVE  DownInv'
<1> USE DEF roles, seqs, drawing, scan, mode
<1>1. ASSUME NEW w \in Writer, WriterStep(w) PROVE DownInv'
  <2>1. UNCHANGED <<mpc, state, enabled, dma, irq>>
    BY Zenon, <1>1 DEF WriterStep, Gate, Enter, CopyFrame, Draw, Stroke, DrawNothing
  <2>2. ASSUME ~enabled, \A v \in Writer : ~InSection(v)
        PROVE  work' = work /\ \A v \in Writer : ~InSection(v)'
    <3>1. ~RenderAllowed
      BY Zenon, <2>2 DEF RenderAllowed
    <3>2. wpc' = [wpc EXCEPT ![w] = "idle"] /\ work' = work
      BY Zenon, <1>1, <2>2, <3>1 DEF WriterStep, Gate, Enter, CopyFrame, Draw, Stroke, DrawNothing, InSection
    <3>3. ASSUME NEW v \in Writer PROVE wpc'[v] \in {wpc[v], "idle"}
      BY Zenon, <3>2 DEF ContentInv
    <3>4. "idle" \notin {"copy", "draw"}
      OBVIOUS
    <3> QED BY Zenon, <2>2, <3>2, <3>3, <3>4 DEF InSection
  <2>3. CASE mpc \in {"unwork", "stop"} \/ state = "DOWN"
    <3>1. ~enabled /\ \A v \in Writer : ~InSection(v)
      BY Zenon, <2>3 DEF DownInv
    <3>2. work' = work /\ \A v \in Writer : ~InSection(v)'
      BY Zenon, <2>2, <3>1
    <3> QED BY Zenon, <2>1, <3>2 DEF DownInv
  <2>4. CASE ~(mpc \in {"unwork", "stop"} \/ state = "DOWN")
    <3>1. mpc # "stop"
      BY Zenon, <2>4
    <3> QED BY Zenon, <2>1, <2>4, <3>1 DEF DownInv
  <2> QED BY Zenon, <2>3, <2>4
<1>2. CASE RenderWork
  <2>1. UNCHANGED <<mpc, state, enabled, dma, irq, wpc>> /\ work # NoWork
    BY <1>2 DEF RenderWork, NoWork
  <2> QED BY Zenon, <2>1 DEF DownInv, InSection
<1>12. CASE WorkTick \/ WorkStarts
  <2>1. UNCHANGED <<mpc, state, enabled, dma, irq, wpc>> /\ work # NoWork
    <3>1. UNCHANGED <<mpc, state, enabled, dma, irq, wpc>> /\ (work.left > 0 \/ work.left = 0)
      BY Zenon, <1>12 DEF WorkTick, WorkStarts, scan, mode
    <3>2. work # NoWork
      BY <3>1 DEF NoWork
    <3> QED BY Zenon, <3>1, <3>2
  <2> QED BY Zenon, <2>1 DEF DownInv, InSection
<1>3. CASE TransferEnds \/ NativeIrq \/ LatchFault
  <2>1. UNCHANGED <<mpc, state, enabled, wpc, work>>
    BY Zenon, <1>3 DEF TransferEnds, NativeIrq, LatchFault
  <2>2. dma = NoBuffer /\ irq = "none" => dma' = NoBuffer /\ irq' = "none"
    BY Zenon, <1>3 DEF TransferEnds, NativeIrq, LatchFault
  <2> QED BY Zenon, <2>1, <2>2 DEF DownInv, InSection
<1>4. CASE RevealStart \/ RevealRefused \/ RevealStep \/ \E dark \in BOOLEAN : FaultWork(dark)
  <2>1. state # "DOWN"
    BY Zenon, <1>4 DEF RevealStart, RevealRefused, RevealStep, RevealCancel, RevealCommit, RevealTarget,
                       RevealWindow, RevealLight, RevealDone, RevealFail, FaultWork, DownInv
  <2>2. /\ state' \in {state, "REVEALING", "REVEALED", "UNVERIFIED"}
        /\ mpc' \in {mpc, "cancel", "commit", "wait", "window", "light", "lit", "fail", "faillit", "close", "idle"}
        /\ mpc \notin {"drain", "unwork", "stop"}
    BY Zenon, <1>4 DEF RevealStart, RevealRefused, RevealStep, RevealCancel, RevealCommit, RevealTarget,
                       RevealWindow, RevealLight, RevealDone, RevealFail, FaultWork
  <2> QED BY Zenon, <2>1, <2>2 DEF DownInv
<1>5. CASE TeardownClose
  <2>1. mpc = "close" /\ ~enabled' /\ mpc' = "drain" /\ state' = state
    BY Zenon, <1>5 DEF TeardownClose
  <2> QED BY Zenon, <2>1 DEF DownInv
<1>6. CASE TeardownDrain
  <2>1. mpc = "drain" /\ mpc' = "unwork" /\ UNCHANGED <<state, enabled, wpc>> /\ lock = "free"
    BY Zenon, <1>6 DEF TeardownDrain
  <2>2. \A w \in Writer : ~InSection(w)
    BY Zenon, <2>1, LockExcludes
  <2>3. ~enabled /\ state # "DOWN"
    BY Zenon, <2>1 DEF DownInv
  <2> QED BY Zenon, <2>1, <2>2, <2>3 DEF DownInv, InSection
<1>7. CASE TeardownCancel
  <2>1. mpc = "unwork" /\ mpc' = "stop" /\ UNCHANGED <<state, enabled, wpc>> /\ work' = NoWork
    BY Zenon, <1>7 DEF TeardownCancel, CancelWork
  <2>2. ~enabled /\ state # "DOWN" /\ \A w \in Writer : ~InSection(w)
    BY Zenon, <2>1 DEF DownInv
  <2> QED BY Zenon, <2>1, <2>2 DEF DownInv, InSection
<1>8. CASE TeardownStop
  <2>1. /\ mpc = "stop" /\ mpc' = "idle" /\ state' = "DOWN" /\ UNCHANGED <<enabled, wpc, work>>
        /\ dma' = NoBuffer /\ irq' = "none"
    BY Zenon, <1>8 DEF TeardownStop
  <2>2. ~enabled /\ work = NoWork /\ \A w \in Writer : ~InSection(w)
    BY Zenon, <2>1 DEF DownInv
  <2> QED BY Zenon, <2>1, <2>2 DEF DownInv, InSection
<1>9. ~BlankStep /\ ~(\E to \in {"blank", "unblank"} : BlankBegin(to))
  BY Zenon DEF BlankStep, BlankBegin, RolesInv, LegacyPc, FlushRender, ScanoutOff,
         DmaStop, SelectInitialFront, DmaStart, Qualify
<1>10. ~(\E armed \in BOOLEAN : LegacyIrq(armed))
  BY Zenon DEF LegacyIrq
<1>11. CASE UNCHANGED vars
  BY Zenon, <1>11 DEF vars, DownInv, InSection
<1> QED BY Zenon, <1>1, <1>2, <1>3, <1>4, <1>5, <1>6, <1>7, <1>8, <1>9, <1>10, <1>11, <1>12
        DEF Next, Interrupt, TeardownStep

\* Neither concerns ABI 2, whose driver is never torn down while it runs.
LegacyInv == state # "DOWN"

\* Every step of ABI 2 keeps it.
LEMMA LegacyStep ==
    ASSUME ~native, RolesInv, LegacyInv, [Next]_vars
    PROVE  LegacyInv'
<1> USE DEF mode
<1>1. ~TeardownStep
  BY Zenon DEF RolesInv, NativePc, TeardownStep, TeardownClose, TeardownDrain, TeardownCancel, TeardownStop
<1>2. ASSUME NEW w \in Writer, WriterStep(w) PROVE state' = state
  BY Zenon, <1>2 DEF WriterStep, Gate, Enter, CopyFrame, Draw, Stroke, DrawNothing
<1>3. CASE WorkTick \/ WorkStarts \/ RenderWork \/ TransferEnds \/ Interrupt \/ LatchFault
  BY Zenon, <1>3 DEF WorkTick, WorkStarts, RenderWork, TransferEnds, Interrupt, NativeIrq, LegacyIrq, LatchFault, LegacyInv
<1>4. CASE RevealStart \/ RevealRefused \/ RevealStep \/ \E dark \in BOOLEAN : FaultWork(dark)
  <2>1. state' \in {state, "REVEALING", "REVEALED", "UNVERIFIED"}
    BY Zenon, <1>4 DEF RevealStart, RevealRefused, RevealStep, RevealCancel, RevealCommit, RevealTarget,
                       RevealWindow, RevealLight, RevealDone, RevealFail, FaultWork
  <2> QED BY Zenon, <2>1 DEF LegacyInv
<1>5. CASE BlankStep \/ \E to \in {"blank", "unblank"} : BlankBegin(to)
  BY Zenon, <1>5 DEF BlankStep, BlankBegin, FlushRender, ScanoutOff, DmaStop, SelectInitialFront,
                     DmaStart, Qualify, LegacyInv
<1>6. CASE UNCHANGED vars
  BY Zenon, <1>6 DEF vars, LegacyInv
<1> QED BY Zenon, <1>1, <1>2, <1>3, <1>4, <1>5, <1>6 DEF Next, LegacyInv

\* The invariant of both ABIs.
ScanoutInv ==
    /\ RolesInv /\ AllTypes
    /\ native => ContentInv /\ HoldInv /\ RevealInv /\ DownInv
    /\ ~native => LegacyInv

\* It holds for ever.
LEMMA ScanoutAlways == Spec => []ScanoutInv
<1>1. Init => ScanoutInv
  <2> SUFFICES ASSUME Init PROVE RevealInv /\ DownInv /\ LegacyInv
    BY Zenon, RolesInit, ContentInit, TypesInit DEF ScanoutInv
  <2>1. /\ mpc = "idle" /\ (state = "QUALIFIED" \/ state = "READY") /\ drawn = 0 /\ queued = NoBuffer
        /\ image = [b \in Buffer |-> {}] /\ front = 0
    BY Zenon DEF Init
  <2>2. state # "DOWN"
    BY Zenon, <2>1
  <2>3. 1..drawn = {} /\ image[Newest] = {}
    BY <2>1 DEF Newest, Buffer
  <2> QED BY Zenon, <2>1, <2>2, <2>3 DEF RevealInv, DownInv, LegacyInv
<1>2. ScanoutInv /\ [Next]_vars => ScanoutInv'
  <2> SUFFICES ASSUME ScanoutInv, [Next]_vars PROVE ScanoutInv'
    OBVIOUS
  <2>1. RolesInv' /\ AllTypes' /\ native' = native
    BY Zenon, AbiFixed, RolesStep, TypeStep DEF ScanoutInv
  <2>2. CASE native
    BY Zenon, <2>1, <2>2, ContentStep, RevealInvStep, DownInvStep DEF ScanoutInv
  <2>3. CASE ~native
    BY Zenon, <2>1, <2>3, LegacyStep DEF ScanoutInv
  <2> QED BY Zenon, <2>2, <2>3
<1> QED BY <1>1, <1>2, PTL DEF Spec

\* When the panel is lit (micronux_native_reveal), what is transferred is what was
\* seen in the window, and it has everything that was drawn.
THEOREM RevealShowsAllHolds == Spec => []RevealShowsAll
<1>1. ScanoutInv => RevealShowsAll
  <2> SUFFICES ASSUME ScanoutInv, mpc = "lit"
               PROVE  /\ front = presented /\ presentedSeq >= target /\ target > 0
                      /\ image[front] = 1..drawn /\ dma \in {front, NoBuffer}
    BY Zenon DEF RevealShowsAll
  <2>1. native
    BY Zenon DEF ScanoutInv, RolesInv, NativePc
  <2>2. RolesInv /\ RevealInv
    BY Zenon, <2>1 DEF ScanoutInv
  <2> QED BY Zenon, <2>2 DEF RolesInv, RevealInv
<1> QED BY <1>1, ScanoutAlways, PTL

\* After the teardown (micronux_cold_runtime_teardown) no task is in the render
\* section, no work is armed and nothing is transferred, for any number of tasks
\* that drew when it began.
THEOREM TornDownIsQuietHolds == Spec => []TornDownIsQuiet
<1>1. ScanoutInv => TornDownIsQuiet
  <2> SUFFICES ASSUME ScanoutInv PROVE TornDownIsQuiet
    OBVIOUS
  <2>1. TypeOK
    BY Zenon, TypeParts DEF ScanoutInv
  <2>2. state = "DOWN" => DownInv
    BY Zenon DEF ScanoutInv, LegacyInv
  <2> QED BY Zenon, <2>1, <2>2 DEF TornDownIsQuiet, DownInv
<1> QED BY <1>1, ScanoutAlways, PTL

-----------------------------------------------------------------------------
\* RolesInv with what the reference says beyond it: a frame that waits for its
\* flip is not the one on the panel.
OwnInv ==
    /\ RolesInv
    /\ queued # front
    /\ active \in BOOLEAN /\ fault \in BOOLEAN

\* The roles a step leaves alone.
Kept == UNCHANGED <<front, render, queued, active, fault>>

\* The steps that neither draw, flip, fault nor switch the scanout.
LEMMA QuietSteps ==
    ASSUME \/ \E w \in Writer : WriterStep(w)
           \/ WorkTick \/ WorkStarts \/ TransferEnds \/ RevealStart \/ RevealRefused
           \/ RevealStep /\ ~RevealCommit
           \/ \E dark \in BOOLEAN : FaultWork(dark)
           \/ TeardownDrain \/ TeardownCancel \/ TeardownStop
           \/ \E to \in {"blank", "unblank"} : BlankBegin(to)
           \/ DmaStop \/ DmaStart \/ Qualify
           \/ UNCHANGED vars
    PROVE  Kept
<1> USE DEF roles, seqs, drawing, scan, mode, Kept
<1>1. ASSUME NEW w \in Writer, WriterStep(w) PROVE Kept
  BY Zenon, <1>1 DEF WriterStep, Gate, Enter, CopyFrame, Draw, Stroke, DrawNothing
<1>2. CASE WorkTick \/ WorkStarts \/ TransferEnds \/ RevealStart \/ RevealRefused
  BY Zenon, <1>2 DEF WorkTick, WorkStarts, TransferEnds, RevealStart, RevealRefused
<1>3. CASE RevealStep /\ ~RevealCommit
  BY Zenon, <1>3 DEF RevealStep, RevealCancel, RevealTarget, RevealWindow,
              RevealLight, RevealDone, RevealFail
<1>4. ASSUME NEW dark \in BOOLEAN, FaultWork(dark) PROVE Kept
  BY Zenon, <1>4 DEF FaultWork
<1>5. CASE TeardownDrain \/ TeardownCancel \/ TeardownStop
  BY Zenon, <1>5 DEF TeardownDrain, TeardownCancel, TeardownStop
<1>6. ASSUME NEW to \in {"blank", "unblank"}, BlankBegin(to) PROVE Kept
  BY Zenon, <1>6 DEF BlankBegin
<1>7. CASE DmaStop \/ DmaStart \/ Qualify
  BY Zenon, <1>7 DEF DmaStop, DmaStart, Qualify
<1>8. CASE UNCHANGED vars
  BY Zenon, <1>8 DEF vars
<1> QED BY Zenon, <1>1, <1>2, <1>3, <1>4, <1>5, <1>6, <1>7, <1>8

\* Both modules search for a free buffer in the same way.
LEMMA SameSearch ==
    ASSUME NEW f, NEW q PROVE FreeBuffer(f, q) = Ownership!Other(f, q)
BY Zenon DEF FreeBuffer, Buffer, Ownership!Other, Ownership!Index

\* A commit is queue_render, or nothing if there is nothing to commit.
LEMMA CommitIsQueue ==
    ASSUME CommitRender, active' = active, fault' = fault, OwnInv
    PROVE  Ownership!queue_render \/ Kept
<1>1. CASE dirty /\ ~fault
  <2>1. queued' = render /\ front' = front
    BY Zenon, <1>1 DEF CommitRender, QueueRender
  <2>2. render' = IF active THEN FreeBuffer(front, render) ELSE render
    BY Zenon, <1>1 DEF CommitRender, QueueRender, OwnInv
  <2> QED BY Zenon, <1>1, <2>1, <2>2, SameSearch DEF Ownership!queue_render
<1>2. CASE ~(dirty /\ ~fault)
  BY Zenon, <1>2 DEF CommitRender, QueueRender, roles, Kept
<1> QED BY Zenon, <1>1, <1>2

\* The interrupt flips, faults or does nothing to the roles.
LEMMA InterruptIsComplete ==
    ASSUME Interrupt, OwnInv
    PROVE  Ownership!complete \/ Ownership!Fault \/ Kept
<1> USE DEF OwnInv, Ownership!complete, Ownership!Fault, Ownership!None,
            NoBuffer, Kept, Flip, Error, Done, mode
<1>1. CASE NativeIrq
  <2>1. fault' = fault \/ fault' = TRUE
    BY Zenon, <1>1 DEF NativeIrq
  <2>2. active' = active /\ render' = render
    BY Zenon, <1>1 DEF NativeIrq
  <2>3. CASE Done /\ active /\ (preserve \/ ~(fault \/ Error)) /\ Flip
    BY Zenon, <1>1, <2>2, <2>3 DEF NativeIrq
  <2>4. CASE ~(Done /\ active /\ (preserve \/ ~(fault \/ Error)) /\ Flip)
    <3>1. front' = front /\ queued' = queued
      BY Zenon, <1>1, <2>4 DEF NativeIrq
    <3> QED BY Zenon, <2>1, <2>2, <3>1
  <2> QED BY Zenon, <2>3, <2>4
<1>2. ASSUME NEW armed \in BOOLEAN, LegacyIrq(armed)
      PROVE  Ownership!complete \/ Ownership!Fault \/ Kept
  <2>1. active' = active /\ render' = render
    BY Zenon, <1>2 DEF LegacyIrq
  <2>2. CASE Done /\ active /\ ~Error /\ armed /\ Flip
    BY Zenon, <1>2, <2>1, <2>2 DEF LegacyIrq
  <2>3. CASE ~(Done /\ active /\ ~Error /\ armed /\ Flip)
    <3>1. front' = front /\ queued' = queued
      BY Zenon, <1>2, <2>3 DEF LegacyIrq
    <3>2. fault' = fault \/ fault' = TRUE
      BY Zenon, <1>2 DEF LegacyIrq
    <3> QED BY Zenon, <2>1, <3>1, <3>2
  <2> QED BY Zenon, <2>2, <2>3
<1> QED BY Zenon, <1>1, <1>2 DEF Interrupt

\* Every step of the driver is a step of the reference model.
LEMMA StepImplements ==
    ASSUME OwnInv, [Next]_vars PROVE [Ownership!Next]_(Ownership!vars)
<1> USE DEF Ownership!Next, Ownership!vars
<1>0. CASE Kept
  BY Zenon, <1>0 DEF Kept
<1>1. CASE RenderWork \/ FlushRender \/ RevealCommit
  <2>1. CommitRender /\ active' = active /\ fault' = fault
    BY Zenon, <1>1 DEF RenderWork, FlushRender, RevealCommit, scan
  <2> QED BY Zenon, <2>1, CommitIsQueue, <1>0
<1>2. CASE Interrupt
  BY Zenon, <1>2, InterruptIsComplete, <1>0
<1>3. CASE LatchFault
  BY Zenon, <1>3 DEF LatchFault, roles, Ownership!Fault
<1>4. CASE TeardownClose \/ ScanoutOff
  BY Zenon, <1>4 DEF TeardownClose, ScanoutOff, roles, Ownership!Deactivate
<1>5. CASE SelectInitialFront
  <2>1. ~active /\ active' = TRUE /\ front' = Newest /\ queued' = NoBuffer /\ fault' = fault
    BY Zenon, <1>5 DEF SelectInitialFront, OwnInv, RolesInv
  <2>2. render' = IF render = Newest THEN Ownership!Other(Newest, Newest) ELSE render
    BY Zenon, <1>5, SameSearch DEF SelectInitialFront
  <2> QED BY Zenon, <2>1, <2>2 DEF Ownership!start, Ownership!None, Newest, NoBuffer
<1> QED BY Zenon, <1>0, <1>1, <1>2, <1>3, <1>4, <1>5, QuietSteps
        DEF Next, RevealStep, TeardownStep, BlankStep

\* The stronger invariant is kept.
LEMMA OwnStep == OwnInv /\ [Next]_vars => OwnInv'
<1> SUFFICES ASSUME OwnInv, [Next]_vars PROVE OwnInv'
  OBVIOUS
<1>1. RolesInv'
  BY Zenon, RolesStep DEF OwnInv
<1>2. [Ownership!Next]_(Ownership!vars)
  BY Zenon, StepImplements
<1>3. (queued # front)' /\ active' \in BOOLEAN /\ fault' \in BOOLEAN
  <2> USE DEF OwnInv, RolesInv, Buffer, NoBuffer, Ownership!None
  <2>1. CASE Ownership!queue_render
    BY Zenon, <2>1 DEF Ownership!queue_render
  <2>2. CASE Ownership!start
    BY Zenon, <2>2, <1>1 DEF Ownership!start
  <2>3. CASE Ownership!complete
    BY Zenon, <2>3 DEF Ownership!complete
  <2>4. CASE Ownership!Deactivate \/ Ownership!Fault
    BY Zenon, <2>4 DEF Ownership!Deactivate, Ownership!Fault
  <2>5. CASE UNCHANGED Ownership!vars
    BY Zenon, <2>5 DEF Ownership!vars
  <2> QED BY Zenon, <1>2, <2>1, <2>2, <2>3, <2>4, <2>5 DEF Ownership!Next
<1> QED BY Zenon, <1>1, <1>3 DEF OwnInv

\* The driver's buffers (micronux_queue_render_locked, the transfer interrupts,
\* micronux_select_initial_front) implement the reference model of the contract
\* test, and always satisfy its assert_valid.
THEOREM ImplementsOwnershipHolds == Spec => ImplementsOwnership
<1>1. Init => OwnInv /\ Ownership!Init
  <2>1. Init => RolesInv
    BY Zenon, RolesInit
  <2>2. Init => queued # front
    BY DEF Init, NoBuffer
  <2>3. Init => active \in BOOLEAN /\ fault \in BOOLEAN
    BY Zenon DEF Init
  <2>4. Init => front = 0 /\ render = 1 /\ queued = Ownership!None /\ fault = FALSE
    BY Zenon DEF Init, NoBuffer, Ownership!None
  <2> QED BY Zenon, <2>1, <2>2, <2>3, <2>4 DEF OwnInv, Ownership!Init
<1>2. OwnInv => Ownership!assert_valid
  BY Zenon DEF OwnInv, RolesInv, Buffer, NoBuffer, Ownership!assert_valid,
         Ownership!Index, Ownership!None
<1>3. OwnInv /\ [Next]_vars => [Ownership!Next]_(Ownership!vars)
  BY Zenon, StepImplements
<1> QED BY <1>1, <1>2, <1>3, OwnStep, PTL DEF Spec, ImplementsOwnership, Ownership!Spec
=============================================================================

---------------------------- MODULE LoaderHandoff ----------------------------
(***************************************************************************)
(* The second-stage loader (micronux_loader.c, micronux_mipi_dsi.c,        *)
(* micronux_dma_pms.c): app_main from reset to the jump into Linux, over   *)
(* several boots.  Any step may fail, which ends the boot in fail() and a  *)
(* reset.  A reset does not reset the external panel controller, and it    *)
(* leaves the display contract of the previous boot in PSRAM; the contract *)
(* is seen by the loader and by Linux through a cache line.  The profile   *)
(* the loader is built with is "cold" (the panel is relinquished dark,     *)
(* ABI 3), "splash" (it shows a splash and hands over its scanout, ABI 2)  *)
(* or "off" (no display, or only a probe for its adapter), each with the   *)
(* M7 deny baseline; between two boots the flash may get another.          *)
(***************************************************************************)
EXTENDS Integers, Sequences

CONSTANTS
    MaxBoots,       \* bound: boots in a behaviour
    Line,           \* MICRONUX_CACHE_ALIGNMENT, in model units
    KernelBase, PoolBase    \* where the kernel goes, where the display pool is

ASSUME LoaderAssumption ==
    /\ MaxBoots \in Nat \ {0} /\ Line \in Nat \ {0}
    /\ KernelBase \in Nat /\ PoolBase \in Nat /\ KernelBase < PoolBase
    /\ KernelBase % Line = 0

VARIABLES
    profile,        \* how the loader was configured
    mode,           \* loader, failing, entry (just jumped), linux, reset
    at,             \* index into Steps
    boot,
    pwm, control,   \* the panel controller: PWM on, and its control register
    src,            \* what the DSI host shows
    idle,           \* GDMA, DSI and D-PHY are as cold_prepare left them
    mem, cache,     \* the contract in PSRAM and in the cache line
    route, dma, pmp,    \* the interrupt route, DMA permissions, PMP window
    stuck,          \* registers that do not take what is written in this boot
    alive,          \* the IDF scheduler and interrupts are running
    image,          \* the payload in flash: what its manifest says and is
    kernelEnd       \* end of the kernel allocation

Profiles == {"cold", "splash", "off"}

Cold == profile = "cold"

panel == <<pwm, control>>
record == <<mem, cache>>
regs == <<route, dma, pmp, stuck>>
vars == <<profile, mode, at, boot, panel, src, idle, record, regs, alive, image, kernelEnd>>

None == [magic |-> FALSE, boot |-> 0]
Empty == [magic |-> FALSE, boot |-> -1]     \* no line in the cache
Seen == IF cache = Empty THEN mem ELSE cache

\* As Steps, but the contract is staged after the scheduler has been stopped.
StepsStageLate ==
    <<"revision", "dark", "prepare", "provision", "load", "handoff", "route",
      "pms", "pmp", "stop", "stage", "commit">>

\* app_main, in the order of its calls.
Steps ==
    IF Cold
    THEN <<"revision", "dark", "prepare", "provision", "load", "handoff", "route",
           "pms", "pmp", "stage", "stop", "commit">>
    ELSE <<"revision", "provision", "splash", "load", "handoff", "route", "pms",
           "pmp", "stop", "commit">>

\* Payloads up to one that passes the pool by two units.
Sizes == 1..(PoolBase - KernelBase + 2)
Images == [hash : {"good", "bad"}, file : Sizes, memory : Sizes]
GoodImage == [hash |-> "good", file |-> 1, memory |-> 1]

\* The commands of the control register: reset released, reset asserted, and
\* reset released with BL_ENABLE.
Controls == {"released", "asserted", "reveal"}

Init ==
    /\ profile \in Profiles
    /\ mode = "loader" /\ at = 1 /\ boot = 1
    /\ pwm \in BOOLEAN /\ control \in Controls     \* as an earlier boot left it
    /\ src = "none" /\ idle = FALSE
    /\ mem \in {None, [magic |-> TRUE, boot |-> 0]} /\ cache = Empty
    /\ route = FALSE /\ dma = "reset" /\ pmp = FALSE
    /\ stuck \in {{}, {"route"}, {"dma"}, {"pmp"}}
    /\ alive = TRUE /\ image = GoodImage /\ kernelEnd = KernelBase

Lit == pwm /\ control = "reveal"

Doing(s) == mode = "loader" /\ Steps[at] = s

Advance == at' = at + 1 /\ UNCHANGED <<mode, boot>>

\* The macro MICRONUX_RUNTIME_CHECK and the calls of fail().
Fail == mode' = "failing" /\ UNCHANGED <<at, boot>>

-----------------------------------------------------------------------------
(* Parts the steps are made of *)

\* cold_invalidate_contract: a line of zeros, written back unless that fails.
Invalidate(ok) ==
    /\ cache' = None
    /\ mem' = IF ok THEN None ELSE mem

\* cold_execute_external_command_sequence: every write acknowledged, or any of
\* them missing, those of the second attempt included.
CommandSequence(ok) ==
    IF ok THEN pwm' = FALSE /\ control' = "asserted"
    ELSE pwm' \in {pwm, FALSE} /\ control' \in {control, "released", "asserted"}

\* As StateMatches, but what was checked in cold_prepare is taken for granted.
StateMatchesAssumed == TRUE

\* cold_reset_and_clock_state_matches and cold_descriptors_are_zero.
StateMatches == idle

-----------------------------------------------------------------------------
(* The steps of app_main *)

CheckRevision ==
    /\ Doing("revision")
    /\ Advance \/ Fail
    /\ UNCHANGED <<profile, panel, src, idle, record, regs, alive, image, kernelEnd>>

\* As EarlyDark, but a write-back that failed is only logged.
EarlyDarkKeepsGoing(ok) ==
    /\ Doing("dark")
    /\ Invalidate(ok)
    /\ (CommandSequence(TRUE) /\ Advance) \/ (CommandSequence(FALSE) /\ Fail)
    /\ UNCHANGED <<profile, src, idle, regs, alive, image, kernelEnd>>

\* micronux_mipi_dsi_cold_early_dark.
EarlyDark(ok) ==
    /\ Doing("dark")
    /\ Invalidate(ok)
    /\ IF ok THEN (CommandSequence(TRUE) /\ Advance) \/ (CommandSequence(FALSE) /\ Fail)
       ELSE Fail /\ UNCHANGED panel
    /\ UNCHANGED <<profile, src, idle, regs, alive, image, kernelEnd>>

\* micronux_mipi_dsi_cold_prepare.
ColdPrepare ==
    /\ Doing("prepare")
    /\ \/ idle' = TRUE /\ Advance
       \/ idle' \in BOOLEAN /\ Fail
    /\ UNCHANGED <<profile, panel, src, record, regs, alive, image, kernelEnd>>

\* Provisioning and the SD host run IDF drivers, which may touch clocks,
\* resets and memory; errors of provisioning are not fatal, those of the SD
\* host are.
Provision ==
    /\ Doing("provision")
    /\ idle' \in {idle, FALSE}
    /\ Advance \/ Fail
    /\ UNCHANGED <<profile, panel, src, record, regs, alive, image, kernelEnd>>

\* micronux_mipi_dsi_prepare: the panel is made dark and pulsed in reset
\* (prepare_backlight_off), the splash drawn, the PWM staged and BL_ENABLE
\* written last; a failure while darkening or revealing ends in two attempts
\* to make the panel dark, whose results are ignored.
ShowSplash ==
    /\ profile = "splash" /\ Doing("splash")
    /\ \/ pwm' = TRUE /\ control' = "reveal" /\ src' = "splash" /\ Advance
       \/ pwm' \in {pwm, FALSE} /\ control' \in {control, "released", "asserted"}
          /\ UNCHANGED src /\ Fail
       \/ pwm' = FALSE /\ control' = "released" /\ src' \in {"none", "splash"} /\ Fail
       \/ pwm' \in BOOLEAN /\ control' \in {"released", "reveal"} /\ src' = "splash" /\ Fail
    /\ UNCHANGED <<profile, idle, record, regs, alive, image, kernelEnd>>

\* micronux_mipi_dsi_prepare and micronux_mipi_dsi_handoff with the display
\* configured out, or only probed: they return without having written anything.
NoDisplay ==
    /\ profile = "off" /\ (Doing("splash") \/ Doing("handoff"))
    /\ Advance
    /\ UNCHANGED <<profile, panel, src, idle, record, regs, alive, image, kernelEnd>>

\* align_up.
AlignUp(n) == ((n + Line - 1) \div Line) * Line

\* validate_manifest.
ManifestOk(i) ==
    /\ i.memory >= i.file
    /\ KernelBase + i.memory <= PoolBase

\* validate_manifest, the buffers, load_kernel and verify_hash; the end of the
\* allocation is checked again after it has been rounded up.
Load ==
    /\ Doing("load")
    /\ kernelEnd' = KernelBase + AlignUp(image.memory)
    /\ \/ ManifestOk(image) /\ kernelEnd' <= PoolBase /\ image.hash = "good" /\ Advance
       \/ Fail
    /\ UNCHANGED <<profile, panel, src, idle, record, regs, alive, image>>

\* micronux_mipi_dsi_cold_handoff.
ColdHandoff ==
    /\ Cold /\ Doing("handoff")
    /\ IF StateMatches THEN Advance ELSE Fail
    /\ UNCHANGED <<profile, panel, src, idle, record, regs, alive, image, kernelEnd>>

\* disable_backlight_gate when it succeeds: BL_ENABLE is known to be off,
\* whatever became of the PWM write.
GateOff == pwm' \in {pwm, FALSE} /\ control' = "released"

\* micronux_mipi_dsi_handoff: the gate goes off before the pattern takes the
\* place of the framebuffer, and the contract is written when nothing but its
\* own write-back can fail any more.
SplashHandoff ==
    /\ profile = "splash" /\ Doing("handoff")
    /\ LET contract == [magic |-> TRUE, boot |-> boot] IN
       \/ GateOff /\ src' = "bars" /\ cache' = contract /\ mem' = contract /\ Advance
       \/ /\ pwm' \in {pwm, FALSE} /\ control' \in {control, "released"} /\ Fail
          /\ UNCHANGED <<src, record>>
       \/ /\ GateOff /\ src' \in {src, "bars"} /\ Fail
          /\ cache' \in {cache, contract} /\ UNCHANGED mem
    /\ UNCHANGED <<profile, idle, regs, alive, image, kernelEnd>>

\* prepare_gdma_for_linux and prepare_sdmmc_for_linux.
Route ==
    /\ Doing("route")
    /\ route' = ("route" \notin stuck)
    /\ (route' /\ Advance) \/ Fail
    /\ UNCHANGED <<profile, panel, src, idle, record, dma, pmp, stuck, alive, image, kernelEnd>>

\* micronux_dma_pms_prepare: everything is denied, the SD window and the
\* display's windows are opened, and all of it is read back.
DmaPms ==
    /\ Doing("pms")
    /\ dma' = IF "dma" \in stuck THEN dma ELSE "policy"
    /\ (dma' = "policy" /\ Advance) \/ Fail
    /\ UNCHANGED <<profile, panel, src, idle, record, route, pmp, stuck, alive, image, kernelEnd>>

\* prepare_pmp_for_linux with its audits.
PmpWindow ==
    /\ Doing("pmp")
    /\ pmp' = ("pmp" \notin stuck)
    /\ (pmp' /\ Advance) \/ Fail
    /\ UNCHANGED <<profile, panel, src, idle, record, route, dma, stuck, alive, image, kernelEnd>>

\* As ColdStage, but the line is written back and kept.
ColdStageKeepsLine ==
    /\ Doing("stage")
    /\ IF StateMatches /\ route
       THEN /\ mem' = [magic |-> FALSE, boot |-> boot] /\ cache' = mem'
            /\ Advance
       ELSE Fail /\ UNCHANGED record
    /\ UNCHANGED <<profile, panel, src, idle, regs, alive, image, kernelEnd>>

\* micronux_mipi_dsi_cold_stage: everything but the magic is written, the line
\* written back and dropped.
ColdStage ==
    /\ Doing("stage")
    /\ \/ /\ StateMatches /\ route
          /\ mem' = [magic |-> FALSE, boot |-> boot] /\ cache' = Empty
          /\ Advance
       \/ /\ cache' \in {cache, [magic |-> FALSE, boot |-> boot]} /\ UNCHANGED mem
          /\ Fail
    /\ UNCHANGED <<profile, panel, src, idle, regs, alive, image, kernelEnd>>

\* The other core is stalled, the scheduler and the interrupts stopped; the
\* splash profile moves the USB interrupt, which it checks, only now.
StopRuntime ==
    /\ Doing("stop")
    /\ alive' = FALSE
    /\ Advance \/ (~Cold /\ Fail)
    /\ UNCHANGED <<profile, panel, src, idle, record, regs, image, kernelEnd>>

\* micronux_mipi_dsi_cold_commit writes the magic past the cache; the jump
\* follows.
Commit ==
    /\ Doing("commit")
    /\ mem' = IF Cold THEN [mem EXCEPT !.magic = TRUE] ELSE mem
    /\ mode' = "entry"
    /\ UNCHANGED <<profile, at, boot, panel, src, idle, cache, regs, alive, image, kernelEnd>>

\* fail(): the cold profile first tries to make the panel dark and to drop the
\* contract, then the loader aborts.
FailCleanup(ok, done) ==
    /\ mode = "failing"
    /\ IF Cold /\ at > 1
       THEN Invalidate(ok) /\ CommandSequence(done)
       ELSE UNCHANGED <<panel, record>>
    /\ mode' = "reset"
    /\ UNCHANGED <<profile, at, boot, src, idle, regs, alive, image, kernelEnd>>

-----------------------------------------------------------------------------
(* The rest of the world *)

\* Linux takes the display over and may be using it when it is reset.
LinuxRuns ==
    /\ mode = "entry"
    /\ mode' = "linux"
    /\ pwm' \in BOOLEAN /\ control' \in Controls
    /\ src' = "linux" /\ idle' = FALSE
    /\ UNCHANGED <<profile, at, boot, record, regs, alive, image, kernelEnd>>

Crash ==
    /\ mode = "linux"
    /\ mode' = "reset"
    /\ UNCHANGED <<profile, at, boot, panel, src, idle, record, regs, alive, image, kernelEnd>>

\* A reset clears the chip, not the panel controller and not PSRAM; a dirty
\* line is lost.  The loader and the payload may have been flashed in between.
Reset ==
    /\ mode = "reset" /\ boot < MaxBoots
    /\ profile' \in Profiles
    /\ mode' = "loader" /\ at' = 1 /\ boot' = boot + 1
    /\ src' = "none" /\ idle' = FALSE /\ cache' = Empty
    /\ route' = FALSE /\ dma' = "reset" /\ pmp' = FALSE /\ alive' = TRUE
    /\ stuck' \in {{}, {"route"}, {"dma"}, {"pmp"}}
    /\ image' \in Images /\ kernelEnd' = KernelBase
    /\ UNCHANGED <<panel, mem>>

AppMain ==
    \/ CheckRevision \/ ColdPrepare \/ Provision \/ ShowSplash \/ NoDisplay \/ Load
    \/ \E ok \in BOOLEAN : EarlyDark(ok)
    \/ ColdHandoff \/ SplashHandoff \/ Route \/ DmaPms \/ PmpWindow \/ ColdStage
    \/ StopRuntime \/ Commit
    \/ \E ok, done \in BOOLEAN : FailCleanup(ok, done)

Next == AppMain \/ LinuxRuns \/ Crash \/ Reset

Spec == Init /\ [][Next]_vars

-----------------------------------------------------------------------------
(* Properties *)

\* Every variable keeps its type; a contract is never of a boot to come.
TypeOK ==
    /\ profile \in Profiles
    /\ mode \in {"loader", "failing", "entry", "linux", "reset"}
    /\ at \in 1..Len(Steps) /\ boot \in 1..MaxBoots
    /\ {pwm, idle, route, pmp, alive} \subseteq BOOLEAN /\ control \in Controls
    /\ mem.boot \in 0..boot /\ cache.boot \in -1..boot
    /\ src \in {"none", "splash", "bars", "linux"}
    /\ dma \in {"reset", "policy"}

\* A Linux that is handed a display finds the contract of this boot, valid,
\* through whatever the cache
\* holds: neither that of an earlier boot, nor the staged one whose magic is
\* still zero ("so Linux cannot inherit a cache line whose magic is still
\* zero after the final uncached commit").
ContractIsCurrent ==
    mode = "entry" /\ profile # "off" => Seen = [magic |-> TRUE, boot |-> boot]

\* From the early dark step on, no contract is valid, in memory or in the cache,
\* until the one of this boot is committed ("The staged contract remains
\* invalid because its magic word is still zero"): a boot that ends in between
\* leaves none behind.
NoEarlyContract == Cold /\ mode = "loader" /\ at > 2 => ~Seen.magic /\ ~mem.magic

\* What Linux is told, and relies on, is so when it is entered, also when a
\* register did not take what was written.  The panel is dark, unless the loader
\* has nothing to do with it; in the cold profile it is held in reset and nothing has started the display hardware
\* since cold_prepare.  DMA masters and the PMP window are as the policy says
\* (micronux_dma_pms_prepare, prepare_pmp_for_linux).  The kernel was verified,
\* and its memory, rounded up to whole cache lines and zeroed by the loader,
\* ends before the display pool.  The IDF scheduler has stopped (esp_cpu_stall,
\* vTaskSuspendAll before the jump).  And the test pattern that keeps the DSI
\* host fed is never seen ("the diagnostic bars are never exposed here").
HandoffIsTrue ==
    /\ TypeOK
    /\ src = "bars" => ~Lit
    /\ mode = "entry" =>
        /\ ~alive
        /\ route /\ (profile # "off" => ~Lit) /\ (Cold => ~pwm /\ control = "asserted" /\ idle)
        /\ dma = "policy" /\ pmp
        /\ image.hash = "good" /\ kernelEnd <= PoolBase
        /\ KernelBase + image.memory <= kernelEnd

\* In the cold profile nothing fails once the runtime that the clean-up of
\* fail() needs has been shut down ("Complete every operation that can fail,
\* log, delay, or depend on the scheduler before shutting the IDF runtime
\* down").
CleanupCanRun == Cold /\ mode = "failing" => alive
=============================================================================

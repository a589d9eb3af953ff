-------------------------- MODULE DisplayLifecycle --------------------------
(***************************************************************************)
(* The life of the native (ABI 3) display driver from probe to remove:     *)
(* the one-shot cold_init and boot_ready, the backlight that tasks set     *)
(* through sysfs and FBIOBLANK, the fault worker, the touch worker and     *)
(* remove, with the locks they take (mode_lock, the backlight's ops_lock   *)
(* and the framebuffer core's lock) and the external panel controller      *)
(* behind I2C.  What is drawn and scanned is in DisplayScanout.            *)
(***************************************************************************)
EXTENDS Integers, FiniteSets

VARIABLES
    state,          \* display_state
    mode, mpc, why, \* holder of mode_lock, its position, what it contains
    ops, bpc,       \* holder of ops_lock, position in update_status
    fbLock, fto,    \* console and fb_info lock, what FBIOBLANK asks for
    spc,            \* a sysfs store to the backlight
    bright, power, oldPower, refused,   \* backlight->props, positive or not
    pwm, gate,      \* the external controller
    up,             \* what is switched on or registered
    i2cState, gateEnabled, blReg, touch,
    consumed, preserve, dark, mayBeLit, bootReady, unverified, runtimeOff,
    fault, fwork, twork, removing, was, removed

modes == <<state, mode, mpc, why>>
props == <<bright, power, oldPower, refused>>
panel == <<pwm, gate, gateEnabled>>
devices == <<up, i2cState, blReg, touch>>
flags == <<consumed, preserve, dark, mayBeLit, bootReady, unverified, runtimeOff>>
faults == <<fault, fwork>>
exits == <<removing, was, removed>>
locks == <<ops, bpc, fbLock, fto, spc>>
vars == <<modes, props, panel, devices, flags, faults, twork, exits, locks>>

Parts == {"i2c", "ldo", "dsi", "gdma", "irq", "timer", "fb"}
Runtime == {"irq", "timer", "fb"}      \* known by flags, which a teardown clears

\* The loader left the panel dark and in reset; probe checked it.
Init ==
    /\ state = "PROBED_QUIESCENT" /\ mode = "free" /\ mpc = "none" /\ why = "none"
    /\ ops = "free" /\ bpc = "none" /\ fbLock = "free" /\ fto = FALSE
    /\ spc = "idle"
    /\ bright = FALSE /\ power = FALSE /\ oldPower = FALSE /\ refused = FALSE
    /\ pwm = FALSE /\ gate = FALSE /\ gateEnabled = FALSE
    /\ up = {} /\ i2cState = "RELEASED" /\ blReg = FALSE /\ touch = FALSE
    /\ consumed = FALSE /\ preserve = FALSE /\ dark = FALSE
    /\ mayBeLit = FALSE /\ bootReady = FALSE /\ unverified = FALSE /\ runtimeOff = TRUE
    /\ fault = FALSE /\ fwork = FALSE /\ twork = FALSE
    /\ removing = FALSE /\ was = "none" /\ removed = "no"

\* An I2C write is acknowledged, refused, or reported as failed though the
\* controller took it.
Ack == {"acked", "refused", "lost"}
Written(a, old, new) == IF a = "refused" THEN old ELSE new

\* micronux_native_latch_backlight_fault.
LatchIf(failed) ==
    /\ fault' = (fault \/ failed)
    /\ fwork' = (fwork \/ failed)

Lit == pwm /\ gate

-----------------------------------------------------------------------------
(* cold_init, holding mode_lock *)

Goto(pc) == mpc' = pc /\ UNCHANGED <<mode, why>>
Release == mode' = "free" /\ mpc' = "none" /\ why' = "none"

\* Fail after only some of the parts came up.
FailAfter(parts, pc) ==
    /\ \E s \in SUBSET parts : up' = up \cup s
    /\ mpc' = pc /\ why' = "cold"
    /\ UNCHANGED <<state, mode>>

ColdInitStore ==
    /\ ~removing /\ mode = "free" /\ state = "PROBED_QUIESCENT"
    /\ state' = "COLD_INITIALIZING"
    /\ mode' = "cold" /\ mpc' = "ldo" /\ UNCHANGED why
    /\ UNCHANGED <<props, panel, devices, flags, faults, twork, exits, locks>>

LdoStage ==
    /\ mode = "cold" /\ mpc = "ldo"
    /\ \/ /\ up' = up \cup {"ldo"} /\ state' = "LDO_READY"
          /\ Goto("panel")
       \/ FailAfter({"i2c", "ldo"}, "contain")
    /\ UNCHANGED <<props, panel, i2cState, blReg, touch, flags, faults, twork,
                   exits, locks>>

PanelStage ==
    /\ mode = "cold" /\ mpc = "panel"
    /\ \/ /\ up' = up \cup {"dsi"} /\ state' = "PANEL_PROGRAMMED_QUIESCENT"
          /\ Goto("scanout")
       \/ FailAfter({"i2c", "dsi"}, "contain")
    /\ UNCHANGED <<props, panel, i2cState, blReg, touch, flags, faults, twork,
                   exits, locks>>

\* The interrupt is live from here on and may latch a fault.
ScanoutStage ==
    /\ mode = "cold" /\ mpc = "scanout"
    /\ fault' = FALSE
    /\ \/ /\ up' = up \cup {"gdma", "irq"} /\ state' = "SCANOUT_INITIALIZING"
          /\ Goto("regfb")
       \/ FailAfter({"gdma", "irq"}, "teardown")
    /\ UNCHANGED <<props, panel, i2cState, blReg, touch, flags, fwork, twork,
                   exits, locks>>

RegisterFramebuffer ==
    /\ mode = "cold" /\ mpc = "regfb" /\ fbLock = "free"
    /\ \/ up' = up \cup {"fb"} /\ Goto("publish") /\ UNCHANGED state
       \/ FailAfter({}, "teardown")
    /\ UNCHANGED <<props, panel, i2cState, blReg, touch, flags, faults, twork,
                   exits, locks>>

PublishScanout ==
    /\ mode = "cold" /\ mpc = "publish"
    /\ \/ /\ ~fault
          /\ up' = up \cup {"timer"}
          /\ state' = "SCANOUT_QUALIFIED_QUIESCENT"
          /\ Goto("unlock")
       \/ FailAfter({}, "teardown")
    /\ UNCHANGED <<props, panel, i2cState, blReg, touch, flags, faults, twork,
                   exits, locks>>

\* The state is published before mode_lock is released.
Unlock ==
    /\ mpc = "unlock"
    /\ Release
    /\ UNCHANGED <<state, props, panel, devices, flags, faults, twork, exits,
                   locks>>

ColdInit ==
    \/ LdoStage \/ PanelStage \/ ScanoutStage \/ RegisterFramebuffer
    \/ PublishScanout \/ Unlock

-----------------------------------------------------------------------------
(* boot_ready, holding mode_lock *)

\* The store goes through once.
BootReadyStore ==
    /\ ~removing /\ mode = "free" /\ ~consumed
    /\ state = "SCANOUT_QUALIFIED_QUIESCENT"
    /\ consumed' = TRUE /\ dark' = FALSE /\ preserve' = TRUE
    /\ state' = "REVEALING"
    /\ mode' = "boot" /\ mpc' = "qualify" /\ UNCHANGED why
    /\ UNCHANGED <<props, panel, devices, mayBeLit, bootReady, unverified,
                   runtimeOff, faults, twork, exits, locks>>

\* fail_render.
BootFail(lit) ==
    /\ ops' = IF ops = "boot" THEN "free" ELSE ops
    /\ mpc' = IF lit THEN "revoke" ELSE "unregister"
    /\ why' = IF lit THEN "reveal" ELSE "cold"
    /\ UNCHANGED <<state, mode>>

\* The commit, its presentation and the window of DisplayScanout.
BootQualify ==
    /\ mode = "boot" /\ mpc = "qualify"
    /\ \/ ~fault /\ Goto("i2c") /\ UNCHANGED <<state, ops>>
       \/ BootFail(FALSE)
    /\ UNCHANGED <<props, panel, devices, flags, faults, twork, exits, bpc,
                   fbLock, fto, spc>>

\* The controller is brought up and the backlight registered.
BootI2c ==
    /\ mode = "boot" /\ mpc = "i2c"
    /\ \/ /\ up' = up \cup {"i2c"} /\ i2cState' = "ACTIVE" /\ blReg' = TRUE
          /\ bright' = TRUE /\ power' = FALSE
          /\ Goto("ops") /\ UNCHANGED <<state, ops>>
       \/ /\ i2cState' \in {"TRANSITION", "ACTIVE"}
          /\ up' \in {up, up \cup {"i2c"}}
          /\ i2cState' = "ACTIVE" => "i2c" \in up'
          /\ BootFail(FALSE) /\ UNCHANGED <<blReg, bright, power>>
    /\ UNCHANGED <<oldPower, refused, panel, touch, flags, faults, twork, exits,
                   bpc, fbLock, fto, spc>>

\* ops_lock is taken, rejected cached writes are erased.
BootOps ==
    /\ mode = "boot" /\ mpc = "ops" /\ ops = "free"
    /\ \/ /\ ~fault /\ ops' = "boot"
          /\ bright' = TRUE /\ power' = FALSE /\ refused' = FALSE
          /\ Goto("gate") /\ UNCHANGED state
       \/ BootFail(FALSE) /\ UNCHANGED <<bright, power, refused>>
    /\ UNCHANGED <<oldPower, panel, devices, flags, faults, twork, exits, bpc,
                   fbLock, fto, spc>>

BootGate(a) ==
    /\ mode = "boot" /\ mpc = "gate"
    /\ mayBeLit' = TRUE
    /\ gate' = Written(a, gate, TRUE)
    /\ IF a = "acked"
       THEN gateEnabled' = TRUE /\ Goto("pwm") /\ UNCHANGED <<state, ops>>
       ELSE BootFail(TRUE) /\ UNCHANGED gateEnabled
    /\ UNCHANGED <<props, pwm, devices, consumed, preserve, dark, bootReady,
                   unverified, runtimeOff, faults, twork, exits, bpc, fbLock, fto, spc>>

BootPwm(a) ==
    /\ mode = "boot" /\ mpc = "pwm"
    /\ \/ /\ ~fault
          /\ pwm' = Written(a, pwm, TRUE)
          /\ IF a = "acked"
             THEN power' = TRUE /\ Goto("reveal") /\ UNCHANGED <<state, ops>>
             ELSE BootFail(TRUE) /\ UNCHANGED power
       \/ a = "refused" /\ BootFail(TRUE) /\ UNCHANGED <<pwm, power>>
    /\ UNCHANGED <<bright, oldPower, refused, gate, gateEnabled, devices, flags,
                   faults, twork, exits, bpc, fbLock, fto, spc>>

BootReveal ==
    /\ mode = "boot" /\ mpc = "reveal"
    /\ \/ /\ ~fault
          /\ bootReady' = TRUE /\ state' = "RUNTIME_REVEALED"
          /\ ops' = "free" /\ twork' = TRUE
          /\ Goto("unlock")
       \/ BootFail(TRUE) /\ UNCHANGED <<bootReady, twork>>
    /\ UNCHANGED <<props, panel, devices, consumed, preserve, dark, mayBeLit,
                   unverified, runtimeOff, faults, exits, bpc, fbLock, fto, spc>>

BootReady ==
    \/ BootQualify \/ BootI2c \/ BootOps \/ BootReveal
    \/ \E a \in Ack : BootGate(a) \/ BootPwm(a)

-----------------------------------------------------------------------------
(* The backlight: sysfs stores hold ops_lock, FBIOBLANK mode_lock as well *)

StoreBegin(what) ==
    /\ blReg /\ spc = "idle"
    /\ spc' = what
    /\ UNCHANGED <<modes, props, panel, devices, flags, faults, twork, exits,
                   ops, bpc, fbLock, fto>>

\* brightness_store and bl_power_store of the backlight core (external).
StoreLocked ==
    /\ spc # "idle" /\ ops = "free"
    /\ IF blReg /\ ~(spc = "on" /\ power) /\ ~(spc = "off" /\ ~power)
       THEN /\ ops' = "store" /\ bpc' = "check"
            /\ bright' = IF spc = "bright" THEN TRUE
                         ELSE IF spc = "dim" THEN FALSE ELSE bright
            /\ power' = IF spc = "on" THEN TRUE
                        ELSE IF spc = "off" THEN FALSE ELSE power
            /\ oldPower' = power
            /\ refused' = (refused /\ spc # "bright")
            /\ UNCHANGED spc
       ELSE spc' = "idle" /\ UNCHANGED <<ops, bpc, props>>
    /\ UNCHANGED <<modes, panel, devices, flags, faults, twork, exits, fbLock,
                   fto>>

\* FBIOBLANK and the console blanker call micronux_fb_blank with the
\* framebuffer core's lock held; the state is looked at without mode_lock ...
FbBlankBegin(to) ==
    /\ fbLock = "free" /\ "fb" \in up
    /\ state = "RUNTIME_REVEALED" /\ blReg
    /\ fbLock' = "blank" /\ fto' = to
    /\ UNCHANGED <<modes, props, panel, devices, flags, faults, twork, exits,
                   ops, bpc, spc>>

\* ... and again with it.
FbBlankLocked ==
    /\ fbLock = "blank" /\ mode = "free"
    /\ IF state = "RUNTIME_REVEALED" /\ blReg
       THEN mode' = "blank" /\ mpc' = "ops" /\ UNCHANGED <<fbLock, fto, why>>
       ELSE fbLock' = "free" /\ fto' = FALSE /\ UNCHANGED <<mode, mpc, why>>
    /\ UNCHANGED <<state, props, panel, devices, flags, faults, twork, exits,
                   ops, bpc, spc>>

\* micronux_backlight_set_power.
FbBlankOps ==
    /\ mode = "blank" /\ mpc = "ops" /\ ops = "free"
    /\ ops' = "blank" /\ bpc' = "check"
    /\ power' = fto /\ oldPower' = power
    /\ Goto("update")
    /\ UNCHANGED <<state, bright, refused, panel, devices, flags, faults, twork,
                   exits, fbLock, fto, spc>>

\* The update is over: its error gives the old power state back to a caller
\* that set it, and the locks are released.
Return(failed, b, p) ==
    /\ ops' = "free" /\ bpc' = "none" /\ oldPower' = FALSE
    /\ bright' = b
    /\ power' = IF failed /\ (ops = "blank" \/ spc \in {"on", "off"})
                THEN oldPower ELSE p
    /\ IF ops = "blank"
       THEN Release /\ fbLock' = "free" /\ fto' = FALSE /\ UNCHANGED spc
       ELSE spc' = "idle" /\ UNCHANGED <<mode, mpc, why, fbLock, fto>>

SourceValid ==
    /\ state = "RUNTIME_REVEALED" /\ bootReady /\ "gdma" \in up /\ ~fault

\* micronux_native_backlight_update; a valid source may also have gone stale.
UpdateCheck ==
    /\ bpc = "check"
    /\ IF state # "RUNTIME_REVEALED"
       THEN Return(TRUE, bright, power) /\ refused' = (bright /\ power)
       ELSE /\ IF bright /\ power
               THEN \/ SourceValid /\ bpc' = IF gateEnabled THEN "pwm" ELSE "pwm0"
                    \/ bpc' = "invalid"
               ELSE bpc' = "off"
            /\ UNCHANGED <<mode, mpc, why, props, ops, fbLock, fto, spc>>
    /\ UNCHANGED <<state, panel, devices, flags, faults, twork, exits>>

UpdatePwm0(a) ==
    /\ bpc = "pwm0"
    /\ pwm' = Written(a, pwm, FALSE)
    /\ bpc' = IF a = "acked" THEN "gate" ELSE "rollback"
    /\ LatchIf(a # "acked")
    /\ UNCHANGED <<modes, props, gate, gateEnabled, devices, flags, twork, exits,
                   ops, fbLock, fto, spc>>

UpdateGate(a) ==
    /\ bpc = "gate"
    /\ gate' = Written(a, gate, TRUE)
    /\ gateEnabled' = (gateEnabled \/ a = "acked")
    /\ bpc' = IF a = "acked" THEN "pwm" ELSE "rollback"
    /\ LatchIf(a # "acked")
    /\ UNCHANGED <<modes, props, pwm, devices, flags, twork, exits, ops, fbLock,
                   fto, spc>>

UpdatePwm(a) ==
    /\ bpc = "pwm"
    /\ pwm' = Written(a, pwm, TRUE)
    /\ bpc' = IF a = "acked" THEN "recheck" ELSE "rollback"
    /\ LatchIf(a # "acked")
    /\ UNCHANGED <<modes, props, gate, gateEnabled, devices, flags, twork, exits,
                   ops, fbLock, fto, spc>>

UpdateRecheck ==
    /\ bpc = "recheck"
    /\ \/ SourceValid /\ Return(FALSE, bright, power)
       \/ /\ bpc' = "rollback"
          /\ UNCHANGED <<mode, mpc, why, bright, power, oldPower, ops, fbLock,
                         fto, spc>>
    /\ UNCHANGED <<state, refused, panel, devices, flags, faults, twork, exits>>

\* As UpdateOff, but a failed positive request stays in props.brightness.
UpdateOffKeepsRequest(a, b) ==
    /\ bpc \in {"off", "invalid", "rollback"}
    /\ pwm' = Written(a, pwm, FALSE)
    /\ gate' = Written(b, gate, FALSE)
    /\ gateEnabled' = (gateEnabled /\ b # "acked")
    /\ LatchIf(a # "acked" \/ b # "acked")
    /\ Return(bpc # "off" \/ a # "acked" \/ b # "acked", bright,
              power /\ bpc = "off")
    /\ refused' = (refused \/ bpc # "off")
    /\ UNCHANGED <<state, devices, flags, twork, exits>>

\* micronux_native_backlight_disable, for a request of zero, an invalid source
\* or a rollback; the latter two also take the request back.
UpdateOff(a, b) ==
    /\ bpc \in {"off", "invalid", "rollback"}
    /\ pwm' = Written(a, pwm, FALSE)
    /\ gate' = Written(b, gate, FALSE)
    /\ gateEnabled' = (gateEnabled /\ b # "acked")
    /\ LatchIf(a # "acked" \/ b # "acked")
    /\ Return(bpc # "off" \/ a # "acked" \/ b # "acked",
              bright /\ bpc = "off", power /\ bpc = "off")
    /\ refused' = (refused \/ bpc # "off")
    /\ UNCHANGED <<state, devices, flags, twork, exits>>

Update ==
    \/ UpdateCheck \/ UpdateRecheck
    \/ \E a \in Ack : UpdatePwm0(a) \/ UpdateGate(a) \/ UpdatePwm(a)
    \/ \E a, b \in Ack : UpdateOff(a, b)

-----------------------------------------------------------------------------
(* Faults, touch and remove *)

\* The interrupt or the health timer; the interrupt always schedules the work.
LatchFault ==
    /\ up \cap {"irq", "timer"} # {}
    /\ fault' = TRUE /\ fwork' = TRUE
    /\ UNCHANGED <<modes, props, panel, devices, flags, twork, exits, locks>>

\* As FaultWork, but the work is dropped when mode_lock is held.
FaultWorkTrylock ==
    /\ fwork
    /\ fwork' = FALSE
    /\ IF /\ fault /\ mode = "free"
          /\ state \in {"SCANOUT_QUALIFIED_QUIESCENT", "RUNTIME_REVEALED"}
       THEN /\ mode' = "fault"
            /\ IF state = "SCANOUT_QUALIFIED_QUIESCENT"
               THEN mpc' = "teardown" /\ why' = "cold"
               ELSE mpc' = "revoke" /\ why' = "reveal"
       ELSE UNCHANGED <<mode, mpc, why>>
    /\ UNCHANGED <<state, props, panel, devices, flags, fault, twork, exits,
                   locks>>

\* micronux_fault_work.
FaultWork ==
    /\ fwork /\ mode = "free"
    /\ fwork' = FALSE
    /\ IF fault /\ state \in {"SCANOUT_QUALIFIED_QUIESCENT", "REVEALING",
                              "RUNTIME_REVEALED"}
       THEN /\ mode' = "fault"
            /\ IF state = "SCANOUT_QUALIFIED_QUIESCENT"
               THEN mpc' = "teardown" /\ why' = "cold"
               ELSE mpc' = "revoke" /\ why' = "reveal"
       ELSE UNCHANGED <<mode, mpc, why>>
    /\ UNCHANGED <<state, props, panel, devices, flags, fault, twork, exits,
                   locks>>

\* micronux_native_register_touch_work.
TouchWork ==
    /\ twork /\ mode = "free"
    /\ twork' = FALSE
    /\ IF state = "RUNTIME_REVEALED" /\ i2cState = "ACTIVE"
       THEN touch' \in BOOLEAN
       ELSE UNCHANGED touch
    /\ UNCHANGED <<modes, props, panel, up, i2cState, blReg, flags, faults,
                   exits, locks>>

\* The sysfs files go first, which waits for a store under way; then the touch
\* work is cancelled.
RemoveBegin ==
    /\ ~removing /\ mode \notin {"cold", "boot"}
    /\ removing' = TRUE /\ twork' = FALSE
    /\ UNCHANGED <<modes, props, panel, devices, flags, faults, was, removed,
                   locks>>

RemoveLock ==
    /\ removing /\ removed = "no" /\ mode = "free"
    /\ LET lit == \/ state \in {"REVEALING", "RUNTIME_REVEALED"}
                  \/ state = "FAILED_UNVERIFIED" /\ preserve
       IN  IF state = "PROBED_QUIESCENT"
           THEN removed' = "quiescent" /\ UNCHANGED <<mode, mpc, why, was>>
           ELSE /\ mode' = "remove" /\ why' = "remove"
                /\ mpc' = IF lit THEN "offfirst" ELSE "unregister"
                /\ was' = IF lit THEN "lit"
                          ELSE IF state = "FAILED_QUIESCENT" THEN "contained"
                          ELSE "other"
                /\ UNCHANGED removed
    /\ state' = "REMOVING" /\ runtimeOff' = TRUE
    /\ UNCHANGED <<props, panel, devices, consumed, preserve, dark, mayBeLit,
                   bootReady, unverified, faults, twork, removing, locks>>

-----------------------------------------------------------------------------
(* Containment, holding mode_lock *)

\* micronux_native_fail_reveal_locked: the callbacks are revoked first.
Revoke ==
    /\ mpc = "revoke"
    /\ bootReady' = FALSE /\ state' = "REVEALING"
    /\ Goto("offfirst")
    /\ UNCHANGED <<props, panel, devices, consumed, preserve, dark, mayBeLit,
                   unverified, runtimeOff, faults, twork, exits, locks>>

\* As OffFirst, but an update under way is not waited for.
OffFirstUnlocked(a, b) ==
    /\ mpc = "offfirst"
    /\ LET off == a = "acked" /\ b = "acked"
       IN  /\ pwm' = Written(a, pwm, FALSE) /\ gate' = Written(b, gate, FALSE)
           /\ gateEnabled' = (gateEnabled /\ b # "acked")
           /\ bright' = FALSE /\ power' = FALSE
           /\ dark' = (dark \/ off) /\ preserve' = (preserve /\ ~off)
           /\ Goto(IF why = "reveal" /\ ~off THEN "keep" ELSE "unregister")
    /\ UNCHANGED <<state, oldPower, refused, devices, consumed, mayBeLit,
                   bootReady, unverified, runtimeOff, faults, twork, exits, locks>>

\* micronux_native_off_first: only two acknowledged writes and the settling
\* time confirm darkness.
OffFirst(a, b) ==
    /\ mpc = "offfirst"
    /\ LET usable == i2cState = "ACTIVE" /\ "i2c" \in up
           off == usable /\ a = "acked" /\ b = "acked"
       IN  /\ usable /\ blReg => ops = "free"
           /\ ~usable => a = "refused" /\ b = "refused"
           /\ pwm' = Written(a, pwm, FALSE) /\ gate' = Written(b, gate, FALSE)
           /\ gateEnabled' = (gateEnabled /\ b # "acked")
           /\ bright' = (bright /\ ~usable) /\ power' = (power /\ ~usable)
           /\ dark' = (dark \/ off) /\ preserve' = (preserve /\ ~off)
           /\ Goto(IF why = "reveal" /\ ~off THEN "keep" ELSE "unregister")
    /\ UNCHANGED <<state, oldPower, refused, devices, consumed, mayBeLit,
                   bootReady, unverified, runtimeOff, faults, twork, exits, locks>>

\* micronux_native_unregister_runtime_objects; the backlight core takes
\* ops_lock and then waits for stores under way.
Unregister ==
    /\ mpc \in {"keep", "unregister"} /\ (blReg => ops = "free")
    /\ blReg' = FALSE /\ touch' = FALSE
    /\ bright' = FALSE /\ power' = FALSE /\ refused' = FALSE
    /\ Goto(IF mpc = "keep" THEN "drainkeep" ELSE "drain")
    /\ UNCHANGED <<state, oldPower, panel, up, i2cState, flags, faults, twork,
                   exits, locks>>

\* When darkness is not confirmed the source is left running.
Unregistered ==
    /\ mpc \in {"drain", "drainkeep"} /\ spc = "idle"
    /\ IF mpc = "drainkeep"
       THEN unverified' = TRUE /\ state' = "FAILED_UNVERIFIED" /\ Release
       ELSE /\ Goto(IF why = "remove" /\ up \cap Runtime = {}
                    THEN "finish" ELSE "teardown")
            /\ UNCHANGED <<state, unverified>>
    /\ UNCHANGED <<props, panel, devices, consumed, preserve, dark, mayBeLit,
                   bootReady, runtimeOff, faults, twork, exits, locks>>

\* micronux_cold_runtime_teardown; a channel may fail to stop.
Teardown(ok) ==
    /\ mpc = "teardown"
    /\ preserve' = FALSE /\ bootReady' = FALSE /\ runtimeOff' = ok
    /\ up' \in {up \ {"timer", "irq", "gdma"}, up \ {"timer", "irq"}}
    /\ ok => "gdma" \notin up'
    /\ Goto("unfb")
    /\ UNCHANGED <<state, props, panel, i2cState, blReg, touch, consumed, dark,
                   mayBeLit, unverified, faults, twork, exits, locks>>

\* unregister_framebuffer takes the framebuffer core's lock.
UnregisterFb ==
    /\ mpc = "unfb" /\ ("fb" \in up => fbLock = "free")
    /\ up' = up \ {"fb"}
    /\ unverified' = IF why = "cold" THEN ~runtimeOff ELSE unverified
    /\ Goto(IF why = "cold" THEN "contain" ELSE "finish")
    /\ UNCHANGED <<state, props, panel, i2cState, blReg, touch, consumed,
                   preserve, dark, mayBeLit, bootReady, runtimeOff, faults, twork,
                   exits, locks>>

\* As SwitchOff, but the DMA controller is not looked at.
SwitchOffUnchecked(ok) ==
    /\ \E stuck \in SUBSET ((up \cup {"i2c"}) \ {"gdma"}) :
          /\ ok => stuck = {}
          /\ up' = stuck \cup (up \cap {"gdma"})
    /\ i2cState' = IF "i2c" \in up' THEN i2cState ELSE "RELEASED"
    /\ UNCHANGED <<blReg, touch>>

\* I2C, DSI and LDO are switched off; what is reported off is off.  The report on
\* the DSI also asks that the DMA controller is in reset and without clocks
\* (micronux_cold_display_blocks_quiescent).
SwitchOff(ok) ==
    /\ \E stuck \in SUBSET ((up \cup {"i2c"}) \ {"gdma"}) :
          /\ ok => stuck = {} /\ "gdma" \notin up
          /\ up' = stuck \cup (up \cap {"gdma"})
    /\ i2cState' = IF "i2c" \in up' THEN i2cState ELSE "RELEASED"
    /\ UNCHANGED <<blReg, touch>>

\* micronux_cold_fail_quiescent.
Contain(a, b, ok) ==
    /\ mpc = "contain"
    /\ pwm' = Written(a, pwm, FALSE) /\ gate' = Written(b, gate, FALSE)
    /\ SwitchOff(ok)
    /\ state' = IF a = "acked" /\ b = "acked" /\ ok /\ ~unverified
                THEN "FAILED_QUIESCENT" ELSE "FAILED_UNVERIFIED"
    /\ Release
    /\ UNCHANGED <<props, gateEnabled, flags, faults, twork, exits, locks>>

\* The end of micronux_native_fail_reveal_locked.
FinishReveal(ok) ==
    /\ mpc = "finish" /\ why = "reveal"
    /\ SwitchOff(ok)
    /\ LET contained == dark /\ runtimeOff /\ ok
       IN  /\ unverified' = ~contained
           /\ state' = IF contained THEN "FAILED_QUIESCENT" ELSE "FAILED_UNVERIFIED"
    /\ Release
    /\ UNCHANGED <<props, panel, consumed, preserve, dark, mayBeLit, bootReady,
                   runtimeOff, faults, twork, exits, locks>>

\* The end of micronux_dsi_remove; the commands are sent again unless they
\* are known to have been acknowledged.
FinishRemove(a, b, ok) ==
    /\ mpc = "finish" /\ why = "remove"
    /\ IF was = "other"
       THEN pwm' = Written(a, pwm, FALSE) /\ gate' = Written(b, gate, FALSE)
       ELSE a = "acked" /\ b = "acked" /\ UNCHANGED <<pwm, gate>>
    /\ SwitchOff(ok)
    /\ removed' = IF /\ (was = "lit" => dark)
                     /\ a = "acked" /\ b = "acked" /\ runtimeOff /\ ok
                  THEN "quiescent" ELSE "unverified"
    /\ fwork' = FALSE
    /\ Release
    /\ UNCHANGED <<state, props, gateEnabled, flags, fault, twork, removing, was,
                   locks>>

Containment ==
    \/ Revoke \/ Unregister \/ Unregistered \/ UnregisterFb
    \/ \E a, b \in Ack : OffFirst(a, b)
    \/ \E ok \in BOOLEAN : Teardown(ok) \/ FinishReveal(ok)
    \/ \E a, b \in Ack, ok \in BOOLEAN : Contain(a, b, ok) \/ FinishRemove(a, b, ok)

-----------------------------------------------------------------------------
\* What the holder of mode_lock does with it.
HolderStep == ColdInit \/ BootReady \/ FbBlankOps \/ Containment

Next ==
    \/ ColdInitStore \/ BootReadyStore \/ HolderStep
    \/ \E what \in {"bright", "dim", "on", "off"} : StoreBegin(what)
    \/ \E to \in BOOLEAN : FbBlankBegin(to)
    \/ StoreLocked \/ FbBlankLocked \/ Update
    \/ LatchFault \/ FaultWork \/ TouchWork \/ RemoveBegin \/ RemoveLock

Spec == Init /\ [][Next]_vars

\* The holder of mode_lock goes on and gets a lock it waits for that is free
\* again and again, and so do the worker and the stores; nobody has to open,
\* store, blank or remove anything.
Fairness ==
    /\ SF_vars(HolderStep) /\ SF_vars(FaultWork)
    /\ WF_vars(Update) /\ WF_vars(StoreLocked) /\ WF_vars(FbBlankLocked)

FairSpec == Spec /\ Fairness

-----------------------------------------------------------------------------
(* Properties *)

\* Every variable keeps its type, and a lock is held exactly while its holder
\* has a position in the code.
TypeOK ==
    /\ mode \in {"free", "cold", "boot", "blank", "fault", "remove"}
    /\ (mode = "free") = (mpc = "none")
    /\ ops \in {"free", "store", "blank", "boot"}
    /\ (bpc # "none") = (ops \in {"store", "blank"})
    /\ fbLock \in {"free", "blank"}
    /\ spc \in {"idle", "bright", "dim", "on", "off"}
    /\ up \subseteq Parts
    /\ i2cState \in {"RELEASED", "TRANSITION", "ACTIVE"}
    /\ was \in {"none", "lit", "contained", "other"}
    /\ removed \in {"no", "quiescent", "unverified"}
    /\ {bright, power, oldPower, refused, pwm, gate, gateEnabled, blReg, touch,
        consumed, preserve, dark, mayBeLit, bootReady, unverified, runtimeOff,
        fault, fwork, twork, removing, fto} \subseteq BOOLEAN

\* Once the driver has confirmed darkness (native_dark_confirmed), no store,
\* unblank or worker under way lights the panel again; and while the panel
\* shines its source is running and is kept running across faults, which only a
\* remove gives up ("A published lit-capable state always has
\* preserve-until-dark armed").
LitIsSafe == Lit => ~dark /\ (("gdma" \in up /\ preserve) \/ state = "REMOVING")

\* FAILED_QUIESCENT and REMOVE_QUIESCENT are said of a panel that is dark and
\* of parts that are all off, whichever of the many steps had failed; until then
\* the touch poller never talks to an I2C controller that is gated.
ContainedIsOff ==
    /\ TypeOK
    /\ state = "FAILED_QUIESCENT" \/ removed = "quiescent"
           => up = {} /\ ~pwm /\ ~gate
    /\ touch => "i2c" \in up

\* A positive request that failed is not carried out by a later unblank ("Do
\* not leave a failed positive request armed for a later unblank").
NoDelayedLight == [][~Lit /\ Lit' => ~refused]_vars

FaultOfLiveDisplay ==
    fault /\ state \in {"SCANOUT_QUALIFIED_QUIESCENT", "REVEALING",
                        "RUNTIME_REVEALED"}
Failed == state \in {"FAILED_QUIESCENT", "FAILED_UNVERIFIED", "REMOVING"}

\* A fault of a live display is contained: the driver gets to a failed state.
FaultContained == FaultOfLiveDisplay ~> Failed

\* The only thing that keeps the fault worker from it is a task in
\* micronux_fb_blank: it waits for mode_lock with the framebuffer core's lock
\* held, which the worker needs for unregister_framebuffer.
FaultContainedUnlessBlanking ==
    FaultOfLiveDisplay ~> Failed \/ (fbLock = "blank" /\ mpc = "unfb")
=============================================================================

----------------------- MODULE DisplayLifecycleProofs -----------------------
(***************************************************************************)
(* Why the panel cannot shine unsafely or be lit again after a failure:    *)
(* the inductive invariant behind the safety properties of                 *)
(* DisplayLifecycle, and its proof.                                        *)
(***************************************************************************)
EXTENDS DisplayLifecycle, TLAPS

Settled == {"PROBED_QUIESCENT", "SCANOUT_QUALIFIED_QUIESCENT", "RUNTIME_REVEALED",
            "FAILED_QUIESCENT", "FAILED_UNVERIFIED", "REMOVING"}
Bringup == {"COLD_INITIALIZING", "LDO_READY", "PANEL_PROGRAMMED_QUIESCENT",
            "SCANOUT_INITIALIZING", "SCANOUT_QUALIFIED_QUIESCENT"}
Revealed == state = "RUNTIME_REVEALED"
Booting(pcs) == mode = "boot" /\ mpc \in pcs

\* Types, by the groups of variables that the actions leave alone together.
PropsType == bright \in BOOLEAN /\ power \in BOOLEAN /\ oldPower \in BOOLEAN /\ refused \in BOOLEAN
PanelType == pwm \in BOOLEAN /\ gate \in BOOLEAN /\ gateEnabled \in BOOLEAN
DevicesType ==
    /\ up \subseteq Parts /\ i2cState \in {"RELEASED", "TRANSITION", "ACTIVE"}
    /\ blReg \in BOOLEAN /\ touch \in BOOLEAN
FlagsType ==
    /\ consumed \in BOOLEAN /\ preserve \in BOOLEAN /\ dark \in BOOLEAN /\ mayBeLit \in BOOLEAN
    /\ bootReady \in BOOLEAN /\ unverified \in BOOLEAN /\ runtimeOff \in BOOLEAN
FaultsType == fault \in BOOLEAN /\ fwork \in BOOLEAN /\ twork \in BOOLEAN
ExitsType ==
    /\ removing \in BOOLEAN /\ was \in {"none", "lit", "contained", "other"}
    /\ removed \in {"no", "quiescent", "unverified"}
LocksType ==
    /\ ops \in {"free", "store", "blank", "boot"} /\ fbLock \in {"free", "blank"}
    /\ fto \in BOOLEAN /\ spc \in {"idle", "bright", "dim", "on", "off"}
Types == PropsType /\ PanelType /\ DevicesType /\ FlagsType /\ FaultsType /\ ExitsType /\ LocksType

\* Where the holder of mode_lock is, what it contains, and the state it has published.
Place(m, p, w, s) ==
    \/ m = "free" /\ p = "none" /\ w = "none" /\ s \in Settled
    \/ /\ m = "cold" /\ w = "none"
       /\ \/ p = "ldo" /\ s = "COLD_INITIALIZING"
          \/ p = "panel" /\ s = "LDO_READY"
          \/ p = "scanout" /\ s = "PANEL_PROGRAMMED_QUIESCENT"
          \/ p \in {"regfb", "publish"} /\ s = "SCANOUT_INITIALIZING"
          \/ p = "unlock" /\ s = "SCANOUT_QUALIFIED_QUIESCENT"
    \/ /\ m = "boot" /\ w = "none"
       /\ \/ p \in {"qualify", "i2c", "ops", "gate", "pwm", "reveal"} /\ s = "REVEALING"
          \/ p = "unlock" /\ s = "RUNTIME_REVEALED"
    \/ m = "blank" /\ w = "none" /\ p \in {"ops", "update"} /\ s = "RUNTIME_REVEALED"
    \/ /\ w = "cold" /\ m \in {"cold", "boot", "fault"}
       /\ p \in {"unregister", "drain", "teardown", "unfb", "contain"}
       /\ s \in Bringup \cup {"REVEALING"}
    \/ /\ w = "reveal" /\ m \in {"boot", "fault"}
       /\ \/ p = "revoke" /\ s \in {"REVEALING", "RUNTIME_REVEALED"}
          \/ /\ p \in {"offfirst", "keep", "unregister", "drain", "drainkeep", "teardown",
                         "unfb", "finish"}
             /\ s = "REVEALING"
    \/ /\ w = "remove" /\ m = "remove" /\ s = "REMOVING"
       /\ p \in {"offfirst", "unregister", "drain", "teardown", "unfb", "finish"}
Where == Place(mode, mpc, why, state)

\* Who holds ops_lock.
Locks ==
    /\ ops = "boot" <=> Booting({"gate", "pwm", "reveal"})
    /\ ops = "blank" <=> mode = "blank" /\ mpc = "update"
    /\ bpc # "none" <=> ops \in {"store", "blank"}

\* When the panel may shine, and what is known once darkness is confirmed.
Light ==
    /\ dark => ~pwm /\ ~gate /\ ~preserve
    /\ pwm \/ gate => preserve \/ (state = "REMOVING" /\ was = "lit")
    /\ preserve => /\ "gdma" \in up /\ "irq" \in up
                   /\ state \in {"REVEALING", "RUNTIME_REVEALED", "FAILED_UNVERIFIED", "REMOVING"}
    /\ state = "REMOVING" /\ was # "lit" => ~preserve
    /\ Booting({"qualify", "i2c", "ops", "gate"}) \/ why = "cold" => ~pwm /\ ~gate

\* Whether the source is still to be kept.
Keeping ==
    /\ mode = "boot" /\ why = "none" => preserve
    /\ Revealed => preserve
    /\ mpc \in {"revoke", "offfirst", "keep", "drainkeep"} => preserve
    /\ mpc \in {"unfb", "contain", "finish"} => ~preserve
    /\ why = "reveal" /\ mpc \in {"unregister", "drain", "teardown", "unfb", "finish"} => dark

\* An update that got past its check, and what is registered with the backlight.
Registered ==
    /\ bpc \notin {"none", "check"} => blReg /\ (Revealed \/ mpc = "offfirst")
    /\ blReg => /\ "i2c" \in up /\ i2cState = "ACTIVE"
                /\ Revealed \/ Booting({"ops", "gate", "pwm", "reveal"})
                   \/ mpc \in {"revoke", "offfirst", "keep", "unregister"}
    /\ Revealed \/ Booting({"ops", "gate", "pwm", "reveal"}) => blReg
    /\ touch => blReg

\* A request that was refused is not one that can light the panel.
Requests ==
    /\ Booting({"gate", "pwm", "reveal"}) => ~refused
    /\ bpc \in {"pwm0", "gate", "pwm", "recheck"} => ~refused
    /\ Revealed => ~(refused /\ bright)

\* Which parts are known to be off.
Parked ==
    /\ mode = "cold" /\ mpc \in {"ldo", "panel", "scanout"} => "gdma" \notin up /\ ~unverified
    /\ mode = "cold" /\ mpc \in {"regfb", "publish"} => "gdma" \in up /\ "irq" \in up
    /\ state = "SCANOUT_QUALIFIED_QUIESCENT" /\ mpc \in {"none", "unlock"} => "gdma" \in up /\ "irq" \in up
    /\ state = "PROBED_QUIESCENT" => up = {} /\ ~unverified
    /\ state = "FAILED_QUIESCENT" => up = {}
    /\ removed = "quiescent" => up = {} /\ ~pwm /\ ~gate
    /\ mode = "free" /\ state = "REMOVING" <=> removed # "no"

LifeInv == Types /\ Where /\ Locks /\ Light /\ Keeping /\ Registered /\ Requests /\ Parked

-----------------------------------------------------------------------------
\* A step that leaves a group of variables alone leaves their types alone.
LEMMA SameTypes ==
    ASSUME Types
    PROVE  /\ UNCHANGED props => PropsType'
           /\ UNCHANGED panel => PanelType'
           /\ UNCHANGED devices => DevicesType'
           /\ UNCHANGED flags => FlagsType'
           /\ UNCHANGED <<fault, fwork, twork>> => FaultsType'
           /\ UNCHANGED exits => ExitsType'
           /\ UNCHANGED locks => LocksType'
<1>1. UNCHANGED props => PropsType'
  BY Zenon DEF Types, PropsType, props
<1>2. UNCHANGED panel => PanelType'
  BY Zenon DEF Types, PanelType, panel
<1>3. UNCHANGED devices => DevicesType'
  BY Zenon DEF Types, DevicesType, devices
<1>4. UNCHANGED flags => FlagsType'
  BY Zenon DEF Types, FlagsType, flags
<1>5. UNCHANGED <<fault, fwork, twork>> => FaultsType'
  BY Zenon DEF Types, FaultsType
<1>6. UNCHANGED exits => ExitsType'
  BY Zenon DEF Types, ExitsType, exits
<1>7. UNCHANGED locks => LocksType'
  BY Zenon DEF Types, LocksType, locks
<1> QED BY Zenon, <1>1, <1>2, <1>3, <1>4, <1>5, <1>6, <1>7

\* The holder of mode_lock stays where it is while others step.
LEMMA SamePlace == Where /\ UNCHANGED modes => Where'
  BY Zenon DEF Where, modes

\* FBIOBLANK gives mode_lock back in the state it took it in.
LEMMA BlankPlace == Where /\ mode = "blank" /\ UNCHANGED state /\ Release => Where'
<1> SUFFICES ASSUME Where, mode = "blank", UNCHANGED state, Release PROVE Where'
  OBVIOUS
<1>1. state = "RUNTIME_REVEALED"
  BY Zenon DEF Where, Place
<1>2. mode' = "free" /\ mpc' = "none" /\ why' = "none" /\ state' \in Settled
  BY Zenon, <1>1 DEF Release, Settled
<1> QED BY Zenon, <1>2 DEF Where, Place

\* A step that only starts a store or a blank, latches a fault or begins a
\* remove keeps the invariant.
LEMMA Untouched ==
    ASSUME LifeInv, UNCHANGED <<modes, props, panel, devices, flags, was, removed, ops, bpc>>,
           UNCHANGED <<fault, fwork, twork>> \/ FaultsType',
           UNCHANGED exits \/ ExitsType',
           UNCHANGED locks \/ LocksType'
    PROVE  LifeInv'
<1>1. Types'
  BY Zenon, SameTypes DEF LifeInv, Types
<1>2. Where'
  BY Zenon, SamePlace DEF LifeInv
<1>3. Locks' /\ Light' /\ Keeping' /\ Registered' /\ Requests' /\ Parked'
  <2>1. Locks'
    BY Zenon DEF LifeInv, Locks, Booting, modes
  <2>2. Light'
    BY Zenon DEF LifeInv, Light, Booting, modes, panel, devices, flags
  <2>3. Keeping'
    BY Zenon DEF LifeInv, Keeping, Revealed, modes, flags
  <2>4. Registered'
    BY Zenon DEF LifeInv, Registered, Booting, Revealed, modes, devices
  <2>5. Requests'
    BY Zenon DEF LifeInv, Requests, Booting, Revealed, modes, props
  <2>6. Parked'
    BY Zenon DEF LifeInv, Parked, modes, panel, devices, flags
  <2> QED BY Zenon, <2>1, <2>2, <2>3, <2>4, <2>5, <2>6
<1> QED BY Zenon, <1>1, <1>2, <1>3 DEF LifeInv

\* The store to cold_init, which goes through in PROBED_QUIESCENT only.
LEMMA ColdInitStoreKeeps ==
    ASSUME LifeInv, ColdInitStore
    PROVE  LifeInv'
<1>1. Types'
  <2> QED BY Zenon, SameTypes DEF LifeInv, Types, ColdInitStore, faults
<1>2. Where'
  BY Zenon DEF LifeInv, Where, Place, ColdInitStore
<1>3. Locks'
  BY Zenon DEF LifeInv, Locks, Booting, ColdInitStore, locks
<1>4. Light'
  BY Zenon DEF LifeInv, Light, ColdInitStore, panel, flags
<1>5. Keeping'
  BY Zenon DEF LifeInv, Keeping, Revealed, ColdInitStore
<1>6. Registered'
  BY Zenon DEF LifeInv, Registered, Where, Place, Booting, Revealed, ColdInitStore, devices,
     locks
<1>7. Requests'
  BY Zenon DEF LifeInv, Requests, Booting, Revealed, ColdInitStore, props, locks
<1>8. Parked'
  BY Zenon DEF LifeInv, Parked, ColdInitStore, devices, flags, exits
<1> QED BY Zenon, <1>1, <1>2, <1>3, <1>4, <1>5, <1>6, <1>7, <1>8 DEF LifeInv

\* The LDO is switched on, or cold_init fails after some of it.
LEMMA LdoStageKeeps ==
    ASSUME LifeInv, LdoStage
    PROVE  LifeInv'
<1>1. Types'
  <2>1. DevicesType'
    BY Zenon DEF LifeInv, Types, DevicesType, LdoStage, FailAfter, Parts
  <2> QED BY Zenon, SameTypes, <2>1 DEF LifeInv, Types, LdoStage, FailAfter, faults
<1>2. Where'
  BY Zenon DEF LifeInv, Where, Place, Bringup, LdoStage, Goto, FailAfter
<1>3. Locks'
  BY Zenon DEF LifeInv, Locks, Booting, LdoStage, Goto, FailAfter, locks
<1>4. Light'
  BY Zenon DEF LifeInv, Light, Where, Place, LdoStage, FailAfter, panel, flags
<1>5. Keeping'
  BY Zenon DEF LifeInv, Keeping, Where, Place, Revealed, LdoStage, Goto, FailAfter, flags,
     Light
<1>6. Registered'
  BY Zenon DEF LifeInv, Registered, Where, Place, Booting, Revealed, LdoStage, Goto, FailAfter,
     locks
<1>7. Requests'
  BY Zenon DEF LifeInv, Requests, Booting, Revealed, LdoStage, Goto, FailAfter, props, locks
<1>8. Parked'
  BY Zenon DEF LifeInv, Parked, Where, Place, LdoStage, Goto, FailAfter, flags, exits
<1> QED BY Zenon, <1>1, <1>2, <1>3, <1>4, <1>5, <1>6, <1>7, <1>8 DEF LifeInv

\* The panel is programmed over DSI, or cold_init fails after some of it.
LEMMA PanelStageKeeps ==
    ASSUME LifeInv, PanelStage
    PROVE  LifeInv'
<1>1. Types'
  <2>1. DevicesType'
    BY Zenon DEF LifeInv, Types, DevicesType, PanelStage, FailAfter, Parts
  <2> QED BY Zenon, SameTypes, <2>1 DEF LifeInv, Types, PanelStage, FailAfter, faults
<1>2. Where'
  BY Zenon DEF LifeInv, Where, Place, Bringup, PanelStage, Goto, FailAfter
<1>3. Locks'
  BY Zenon DEF LifeInv, Locks, Booting, PanelStage, Goto, FailAfter, locks
<1>4. Light'
  BY Zenon DEF LifeInv, Light, Where, Place, PanelStage, FailAfter, panel, flags
<1>5. Keeping'
  BY Zenon DEF LifeInv, Keeping, Where, Place, Revealed, PanelStage, Goto, FailAfter, flags,
     Light
<1>6. Registered'
  BY Zenon DEF LifeInv, Registered, Where, Place, Booting, Revealed, PanelStage, Goto,
     FailAfter, locks
<1>7. Requests'
  BY Zenon DEF LifeInv, Requests, Booting, Revealed, PanelStage, Goto, FailAfter, props, locks
<1>8. Parked'
  BY Zenon DEF LifeInv, Parked, Where, Place, PanelStage, Goto, FailAfter, flags, exits
<1> QED BY Zenon, <1>1, <1>2, <1>3, <1>4, <1>5, <1>6, <1>7, <1>8 DEF LifeInv

\* The channel and the interrupt come up, or cold_init fails and tears them down.
LEMMA ScanoutStageKeeps ==
    ASSUME LifeInv, ScanoutStage
    PROVE  LifeInv'
<1>1. Types'
  <2>1. DevicesType'
    BY Zenon DEF LifeInv, Types, DevicesType, ScanoutStage, FailAfter, Parts
  <2>2. FaultsType'
    BY Zenon DEF LifeInv, Types, FaultsType, ScanoutStage, FailAfter
  <2> QED BY Zenon, SameTypes, <2>1, <2>2 DEF LifeInv, Types, ScanoutStage, FailAfter
<1>2. Where'
  BY Zenon DEF LifeInv, Where, Place, Bringup, ScanoutStage, Goto, FailAfter
<1>3. Locks'
  BY Zenon DEF LifeInv, Locks, Booting, ScanoutStage, Goto, FailAfter, locks
<1>4. Light'
  BY Zenon DEF LifeInv, Light, Where, Place, ScanoutStage, FailAfter, panel, flags
<1>5. Keeping'
  BY Zenon DEF LifeInv, Keeping, Revealed, ScanoutStage, Goto, FailAfter, flags
<1>6. Registered'
  BY Zenon DEF LifeInv, Registered, Where, Place, Booting, Revealed, ScanoutStage, Goto,
     FailAfter, locks
<1>7. Requests'
  BY Zenon DEF LifeInv, Requests, Booting, Revealed, ScanoutStage, Goto, FailAfter, props,
     locks
<1>8. Parked'
  BY Zenon DEF LifeInv, Parked, Where, Place, ScanoutStage, Goto, FailAfter, exits
<1> QED BY Zenon, <1>1, <1>2, <1>3, <1>4, <1>5, <1>6, <1>7, <1>8 DEF LifeInv

\* register_framebuffer, or a failure that tears the channel down.
LEMMA RegisterFramebufferKeeps ==
    ASSUME LifeInv, RegisterFramebuffer
    PROVE  LifeInv'
<1>1. Types'
  <2>1. DevicesType'
    BY Zenon DEF LifeInv, Types, DevicesType, RegisterFramebuffer, FailAfter, Parts
  <2> QED BY Zenon, SameTypes, <2>1 DEF LifeInv, Types, RegisterFramebuffer, FailAfter, faults
<1>2. Where'
  BY Zenon DEF LifeInv, Where, Place, Bringup, RegisterFramebuffer, Goto, FailAfter
<1>3. Locks'
  BY Zenon DEF LifeInv, Locks, Booting, RegisterFramebuffer, Goto, FailAfter, locks
<1>4. Light'
  BY Zenon DEF LifeInv, Light, Where, Place, RegisterFramebuffer, FailAfter, panel, flags
<1>5. Keeping'
  BY Zenon DEF LifeInv, Keeping, Revealed, RegisterFramebuffer, Goto, FailAfter, flags
<1>6. Registered'
  BY Zenon DEF LifeInv, Registered, Booting, Revealed, RegisterFramebuffer, Goto, FailAfter,
     locks
<1>7. Requests'
  BY Zenon DEF LifeInv, Requests, Booting, Revealed, RegisterFramebuffer, Goto, FailAfter,
     props, locks
<1>8. Parked'
  BY Zenon DEF LifeInv, Parked, RegisterFramebuffer, Goto, FailAfter, exits
<1> QED BY Zenon, <1>1, <1>2, <1>3, <1>4, <1>5, <1>6, <1>7, <1>8 DEF LifeInv

\* The health timer starts and the scanout is published as qualified.
LEMMA PublishScanoutKeeps ==
    ASSUME LifeInv, PublishScanout
    PROVE  LifeInv'
<1>1. Types'
  <2>1. DevicesType'
    BY Zenon DEF LifeInv, Types, DevicesType, PublishScanout, FailAfter, Parts
  <2> QED BY Zenon, SameTypes, <2>1 DEF LifeInv, Types, PublishScanout, FailAfter, faults
<1>2. Where'
  BY Zenon DEF LifeInv, Where, Place, Bringup, PublishScanout, Goto, FailAfter
<1>3. Locks'
  BY Zenon DEF LifeInv, Locks, Booting, PublishScanout, Goto, FailAfter, locks
<1>4. Light'
  BY Zenon DEF LifeInv, Light, Where, Place, PublishScanout, FailAfter, panel, flags
<1>5. Keeping'
  BY Zenon DEF LifeInv, Keeping, Revealed, PublishScanout, Goto, FailAfter, flags
<1>6. Registered'
  BY Zenon DEF LifeInv, Registered, Where, Place, Booting, Revealed, PublishScanout, Goto,
     FailAfter, locks
<1>7. Requests'
  BY Zenon DEF LifeInv, Requests, Booting, Revealed, PublishScanout, Goto, FailAfter, props,
     locks
<1>8. Parked'
  BY Zenon DEF LifeInv, Parked, PublishScanout, Goto, FailAfter, exits
<1> QED BY Zenon, <1>1, <1>2, <1>3, <1>4, <1>5, <1>6, <1>7, <1>8 DEF LifeInv

\* cold_init and boot_ready give mode_lock back after they have published the state.
LEMMA UnlockKeeps ==
    ASSUME LifeInv, Unlock
    PROVE  LifeInv'
<1>1. Types'
  <2> QED BY Zenon, SameTypes DEF LifeInv, Types, Unlock, faults
<1>2. Where'
  BY Zenon DEF LifeInv, Where, Place, Settled, Unlock, Release
<1>3. Locks'
  BY Zenon DEF LifeInv, Locks, Booting, Unlock, Release, locks
<1>4. Light'
  BY Zenon DEF LifeInv, Light, Booting, Unlock, Release, panel, devices, flags, exits
<1>5. Keeping'
  BY Zenon DEF LifeInv, Keeping, Revealed, Unlock, Release, flags
<1>6. Registered'
  BY Zenon DEF LifeInv, Registered, Booting, Revealed, Unlock, Release, devices, locks
<1>7. Requests'
  BY Zenon DEF LifeInv, Requests, Booting, Revealed, Unlock, Release, props, locks
<1>8. Parked'
  BY Zenon DEF LifeInv, Parked, Where, Place, Unlock, Release, devices, exits
<1> QED BY Zenon, <1>1, <1>2, <1>3, <1>4, <1>5, <1>6, <1>7, <1>8 DEF LifeInv

\* The store to boot_ready, which arms preserve-until-dark before anything can shine.
LEMMA BootReadyStoreKeeps ==
    ASSUME LifeInv, BootReadyStore
    PROVE  LifeInv'
<1>1. Types'
  <2>1. FlagsType'
    BY Zenon DEF LifeInv, Types, FlagsType, BootReadyStore
  <2> QED BY Zenon, SameTypes, <2>1 DEF LifeInv, Types, BootReadyStore, faults
<1>2. Where'
  BY Zenon DEF LifeInv, Where, Place, BootReadyStore
<1>3. Locks'
  BY Zenon DEF LifeInv, Locks, Booting, BootReadyStore, locks
<1>4. Light'
  BY Zenon DEF LifeInv, Light, Where, Place, BootReadyStore, panel, devices, Parked
<1>5. Keeping'
  BY Zenon DEF LifeInv, Keeping, BootReadyStore
<1>6. Registered'
  BY Zenon DEF LifeInv, Registered, Where, Place, Booting, Revealed, BootReadyStore, devices,
     locks
<1>7. Requests'
  BY Zenon DEF LifeInv, Requests, Booting, Revealed, BootReadyStore, props, locks
<1>8. Parked'
  BY Zenon DEF LifeInv, Parked, BootReadyStore, exits
<1> QED BY Zenon, <1>1, <1>2, <1>3, <1>4, <1>5, <1>6, <1>7, <1>8 DEF LifeInv

\* The first picture is presented, or boot_ready fails while the panel is dark.
LEMMA BootQualifyKeeps ==
    ASSUME LifeInv, BootQualify
    PROVE  LifeInv'
<1>1. Types'
  <2>1. LocksType'
    BY Zenon DEF LifeInv, Types, LocksType, BootQualify, BootFail
  <2> QED BY Zenon, SameTypes, <2>1 DEF LifeInv, Types, BootQualify, BootFail, faults
<1>2. Where'
  BY Zenon DEF LifeInv, Where, Place, BootQualify, Goto, BootFail
<1>3. Locks'
  BY Zenon DEF LifeInv, Locks, Booting, BootQualify, Goto, BootFail
<1>4. Light'
  BY Zenon DEF LifeInv, Light, Booting, BootQualify, BootFail, panel, devices, flags, exits
<1>5. Keeping'
  BY Zenon DEF LifeInv, Keeping, Revealed, BootQualify, Goto, BootFail, flags
<1>6. Registered'
  BY Zenon DEF LifeInv, Registered, Booting, Revealed, BootQualify, Goto, BootFail, devices
<1>7. Requests'
  BY Zenon DEF LifeInv, Requests, Booting, Revealed, BootQualify, Goto, BootFail, props
<1>8. Parked'
  BY Zenon DEF LifeInv, Parked, BootQualify, Goto, BootFail, devices, flags, exits
<1> QED BY Zenon, <1>1, <1>2, <1>3, <1>4, <1>5, <1>6, <1>7, <1>8 DEF LifeInv

\* The panel controller is reached and the backlight registered, or neither is.
LEMMA BootI2cKeeps ==
    ASSUME LifeInv, BootI2c
    PROVE  LifeInv'
<1>1. Types'
  <2>1. PropsType'
    BY Zenon DEF LifeInv, Types, PropsType, BootI2c, BootFail
  <2>2. DevicesType'
    BY Zenon DEF LifeInv, Types, DevicesType, BootI2c, BootFail, Parts
  <2>3. LocksType'
    BY Zenon DEF LifeInv, Types, LocksType, BootI2c, BootFail
  <2> QED BY Zenon, SameTypes, <2>1, <2>2, <2>3 DEF LifeInv, Types, BootI2c, BootFail, faults
<1>2. Where'
  BY Zenon DEF LifeInv, Where, Place, BootI2c, Goto, BootFail
<1>3. Locks'
  BY Zenon DEF LifeInv, Locks, Booting, BootI2c, Goto, BootFail
<1>4. Light'
  BY Zenon DEF LifeInv, Light, Booting, BootI2c, BootFail, panel, flags, exits
<1>5. Keeping'
  BY Zenon DEF LifeInv, Keeping, Revealed, BootI2c, Goto, BootFail, flags
<1>6. Registered'
  <2>1. ~blReg /\ bpc \in {"none", "check"} /\ state # "RUNTIME_REVEALED"
    BY Zenon DEF LifeInv, BootI2c, Registered, Where, Place, Booting, Revealed
  <2>2. CASE blReg'
    BY Zenon, <2>1, <2>2 DEF LifeInv, Registered, Booting, BootI2c, Goto, BootFail
  <2>3. CASE ~blReg'
    BY Zenon, <2>1, <2>3 DEF LifeInv, Registered, Booting, Revealed, BootI2c, BootFail
  <2> QED BY Zenon, <2>2, <2>3
<1>7. Requests'
  BY Zenon DEF LifeInv, Requests, Where, Place, Booting, Revealed, BootI2c, Goto, BootFail
<1>8. Parked'
  BY Zenon DEF LifeInv, Parked, Where, Place, BootI2c, Goto, BootFail, exits
<1> QED BY Zenon, <1>1, <1>2, <1>3, <1>4, <1>5, <1>6, <1>7, <1>8 DEF LifeInv

\* boot_ready takes ops_lock and erases what was cached before.
LEMMA BootOpsKeeps ==
    ASSUME LifeInv, BootOps
    PROVE  LifeInv'
<1>1. Types'
  <2>1. PropsType'
    BY Zenon DEF LifeInv, Types, PropsType, BootOps, BootFail
  <2>2. LocksType'
    BY Zenon DEF LifeInv, Types, LocksType, BootOps, BootFail
  <2> QED BY Zenon, SameTypes, <2>1, <2>2 DEF LifeInv, Types, BootOps, BootFail, faults
<1>2. Where'
  BY Zenon DEF LifeInv, Where, Place, BootOps, Goto, BootFail
<1>3. Locks'
  BY Zenon DEF LifeInv, Locks, Booting, BootOps, Goto, BootFail
<1>4. Light'
  BY Zenon DEF LifeInv, Light, Booting, BootOps, BootFail, panel, devices, flags, exits
<1>5. Keeping'
  BY Zenon DEF LifeInv, Keeping, Revealed, BootOps, Goto, BootFail, flags
<1>6. Registered'
  BY Zenon DEF LifeInv, Registered, Booting, Revealed, BootOps, Goto, BootFail, devices
<1>7. Requests'
  BY Zenon DEF LifeInv, Requests, Where, Place, Booting, Revealed, BootOps, BootFail, Locks
<1>8. Parked'
  BY Zenon DEF LifeInv, Parked, BootOps, Goto, BootFail, devices, flags, exits
<1> QED BY Zenon, <1>1, <1>2, <1>3, <1>4, <1>5, <1>6, <1>7, <1>8 DEF LifeInv

\* The gate is opened: from here on an error has to be taken for a lit panel.
LEMMA BootGateKeeps ==
    ASSUME LifeInv, NEW a \in Ack, BootGate(a)
    PROVE  LifeInv'
<1>1. Types'
  <2>1. PanelType'
    BY Zenon DEF LifeInv, Types, PanelType, BootGate, BootFail, Written
  <2>2. FlagsType'
    BY Zenon DEF LifeInv, Types, FlagsType, BootGate, BootFail
  <2>3. LocksType'
    BY Zenon DEF LifeInv, Types, LocksType, BootGate, BootFail
  <2> QED BY Zenon, SameTypes, <2>1, <2>2, <2>3 DEF LifeInv, Types, BootGate, BootFail, faults
<1>2. Where'
  BY Zenon DEF LifeInv, Where, Place, BootGate, Goto, BootFail
<1>3. Locks'
  BY Zenon DEF LifeInv, Locks, Booting, BootGate, Goto, BootFail
<1>4. Light'
  BY Zenon DEF LifeInv, Light, Where, Place, Booting, BootGate, Goto, BootFail, devices,
     Keeping
<1>5. Keeping'
  BY Zenon DEF LifeInv, Keeping, Where, Place, BootGate, Goto, BootFail
<1>6. Registered'
  BY Zenon DEF LifeInv, Registered, Booting, Revealed, BootGate, Goto, BootFail, devices
<1>7. Requests'
  BY Zenon DEF LifeInv, Requests, Booting, BootGate, BootFail, props
<1>8. Parked'
  BY Zenon DEF LifeInv, Parked, BootGate, Goto, BootFail, devices, exits
<1> QED BY Zenon, <1>1, <1>2, <1>3, <1>4, <1>5, <1>6, <1>7, <1>8 DEF LifeInv

\* The PWM is written, unless a fault was latched.
LEMMA BootPwmKeeps ==
    ASSUME LifeInv, NEW a \in Ack, BootPwm(a)
    PROVE  LifeInv'
<1>1. Types'
  <2>1. PropsType'
    BY Zenon DEF LifeInv, Types, PropsType, BootPwm, BootFail
  <2>2. PanelType'
    BY Zenon DEF LifeInv, Types, PanelType, BootPwm, BootFail, Written
  <2>3. LocksType'
    BY Zenon DEF LifeInv, Types, LocksType, BootPwm, BootFail
  <2> QED BY Zenon, SameTypes, <2>1, <2>2, <2>3 DEF LifeInv, Types, BootPwm, BootFail, faults
<1>2. Where'
  BY Zenon DEF LifeInv, Where, Place, BootPwm, Goto, BootFail
<1>3. Locks'
  BY Zenon DEF LifeInv, Locks, Booting, BootPwm, Goto, BootFail
<1>4. Light'
  BY Zenon DEF LifeInv, Light, Where, Place, Booting, BootPwm, Goto, BootFail, devices, flags,
     Keeping
<1>5. Keeping'
  BY Zenon DEF LifeInv, Keeping, Where, Place, BootPwm, Goto, BootFail, flags
<1>6. Registered'
  BY Zenon DEF LifeInv, Registered, Booting, Revealed, BootPwm, Goto, BootFail, devices
<1>7. Requests'
  BY Zenon DEF LifeInv, Requests, Booting, BootPwm, BootFail
<1>8. Parked'
  BY Zenon DEF LifeInv, Parked, BootPwm, Goto, BootFail, devices, flags, exits
<1> QED BY Zenon, <1>1, <1>2, <1>3, <1>4, <1>5, <1>6, <1>7, <1>8 DEF LifeInv

\* The reveal is published and ops_lock given back, or the failure contained.
LEMMA BootRevealKeeps ==
    ASSUME LifeInv, BootReveal
    PROVE  LifeInv'
<1>1. Types'
  <2>1. FlagsType'
    BY Zenon DEF LifeInv, Types, FlagsType, BootReveal, BootFail
  <2>2. FaultsType'
    BY Zenon DEF LifeInv, Types, FaultsType, BootReveal, BootFail, faults
  <2>3. LocksType'
    BY Zenon DEF LifeInv, Types, LocksType, BootReveal, BootFail
  <2> QED BY Zenon, SameTypes, <2>1, <2>2, <2>3 DEF LifeInv, Types, BootReveal, BootFail
<1>2. Where'
  BY Zenon DEF LifeInv, Where, Place, BootReveal, Goto, BootFail
<1>3. Locks'
  BY Zenon DEF LifeInv, Locks, Booting, BootReveal, Goto, BootFail
<1>4. Light'
  BY Zenon DEF LifeInv, Light, Where, Place, Booting, BootReveal, Goto, BootFail, panel,
     devices
<1>5. Keeping'
  BY Zenon DEF LifeInv, Keeping, Where, Place, BootReveal, Goto, BootFail
<1>6. Registered'
  BY Zenon DEF LifeInv, Registered, Booting, Revealed, BootReveal, BootFail, devices
<1>7. Requests'
  BY Zenon DEF LifeInv, Requests, Booting, BootReveal, BootFail, props
<1>8. Parked'
  BY Zenon DEF LifeInv, Parked, BootReveal, Goto, BootFail, devices, exits
<1> QED BY Zenon, <1>1, <1>2, <1>3, <1>4, <1>5, <1>6, <1>7, <1>8 DEF LifeInv

\* A task opens the backlight's sysfs file.
LEMMA StoreBeginKeeps ==
    ASSUME LifeInv, NEW what \in {"bright", "dim", "on", "off"}, StoreBegin(what)
    PROVE  LifeInv'
<1>1. LocksType'
  BY Zenon DEF LifeInv, Types, LocksType, StoreBegin
<1> QED
  BY Zenon, Untouched, <1>1 DEF StoreBegin, faults, exits

\* brightness_store and bl_power_store get ops_lock.
LEMMA StoreLockedKeeps ==
    ASSUME LifeInv, StoreLocked
    PROVE  LifeInv'
<1>1. Types'
  <2>1. PropsType'
    BY Zenon DEF LifeInv, Types, PropsType, StoreLocked, props
  <2>2. LocksType'
    BY Zenon DEF LifeInv, Types, LocksType, StoreLocked
  <2> QED BY Zenon, SameTypes, <2>1, <2>2 DEF LifeInv, Types, StoreLocked, faults
<1>2. Where'
  BY Zenon, SamePlace DEF LifeInv, StoreLocked
<1>3. Locks'
  BY Zenon DEF LifeInv, Locks, Booting, StoreLocked, modes
<1>4. Light'
  BY Zenon DEF LifeInv, Light, Booting, StoreLocked, modes, panel, devices, flags, exits
<1>5. Keeping'
  BY Zenon DEF LifeInv, Keeping, Revealed, StoreLocked, modes, flags
<1>6. Registered'
  BY Zenon DEF LifeInv, Registered, Booting, Revealed, StoreLocked, modes, devices
<1>7. Requests'
  BY Zenon DEF LifeInv, Requests, Booting, Revealed, StoreLocked, modes, props
<1>8. Parked'
  BY Zenon DEF LifeInv, Parked, StoreLocked, modes, panel, devices, flags, exits
<1> QED BY Zenon, <1>1, <1>2, <1>3, <1>4, <1>5, <1>6, <1>7, <1>8 DEF LifeInv

\* FBIOBLANK looks at the state without mode_lock.
LEMMA FbBlankBeginKeeps ==
    ASSUME LifeInv, NEW to \in BOOLEAN, FbBlankBegin(to)
    PROVE  LifeInv'
<1>1. LocksType'
  BY Zenon DEF LifeInv, Types, LocksType, FbBlankBegin
<1> QED
  BY Zenon, Untouched, <1>1 DEF FbBlankBegin, faults, exits

\* FBIOBLANK looks again with mode_lock.
LEMMA FbBlankLockedKeeps ==
    ASSUME LifeInv, FbBlankLocked
    PROVE  LifeInv'
<1>1. Types'
  <2>1. LocksType'
    BY Zenon DEF LifeInv, Types, LocksType, FbBlankLocked
  <2> QED BY Zenon, SameTypes, <2>1 DEF LifeInv, Types, FbBlankLocked, faults
<1>2. Where'
  BY Zenon DEF LifeInv, Where, Place, FbBlankLocked
<1>3. Locks'
  BY Zenon DEF LifeInv, Locks, Booting, FbBlankLocked
<1>4. Light'
  BY Zenon DEF LifeInv, Light, Booting, FbBlankLocked, panel, devices, flags, exits
<1>5. Keeping'
  BY Zenon DEF LifeInv, Keeping, Revealed, FbBlankLocked, flags
<1>6. Registered'
  BY Zenon DEF LifeInv, Registered, Booting, Revealed, FbBlankLocked, devices
<1>7. Requests'
  BY Zenon DEF LifeInv, Requests, Booting, Revealed, FbBlankLocked, props
<1>8. Parked'
  BY Zenon DEF LifeInv, Parked, FbBlankLocked, panel, devices, flags, exits
<1> QED BY Zenon, <1>1, <1>2, <1>3, <1>4, <1>5, <1>6, <1>7, <1>8 DEF LifeInv

\* FBIOBLANK takes ops_lock as well.
LEMMA FbBlankOpsKeeps ==
    ASSUME LifeInv, FbBlankOps
    PROVE  LifeInv'
<1>1. Types'
  <2>1. PropsType'
    BY Zenon DEF LifeInv, Types, PropsType, FbBlankOps, LocksType
  <2>2. LocksType'
    BY Zenon DEF LifeInv, Types, LocksType, FbBlankOps
  <2> QED BY Zenon, SameTypes, <2>1, <2>2 DEF LifeInv, Types, FbBlankOps, faults
<1>2. Where'
  BY Zenon DEF LifeInv, Where, Place, FbBlankOps, Goto
<1>3. Locks'
  BY Zenon DEF LifeInv, Locks, Booting, FbBlankOps, Goto
<1>4. Light'
  BY Zenon DEF LifeInv, Light, Booting, FbBlankOps, Goto, panel, devices, flags, exits
<1>5. Keeping'
  BY Zenon DEF LifeInv, Keeping, Revealed, FbBlankOps, Goto, flags
<1>6. Registered'
  BY Zenon DEF LifeInv, Registered, Booting, Revealed, FbBlankOps, Goto, devices
<1>7. Requests'
  BY Zenon DEF LifeInv, Requests, Booting, Revealed, FbBlankOps, Goto
<1>8. Parked'
  BY Zenon DEF LifeInv, Parked, FbBlankOps, Goto, devices, flags, exits
<1> QED BY Zenon, <1>1, <1>2, <1>3, <1>4, <1>5, <1>6, <1>7, <1>8 DEF LifeInv

\* micronux_native_backlight_update decides what to do; a revoked display refuses.
LEMMA UpdateCheckKeeps ==
    ASSUME LifeInv, UpdateCheck
    PROVE  LifeInv'
<1>1. Types'
  <2>1. PropsType'
    BY Zenon DEF LifeInv, Types, PropsType, UpdateCheck, Return, SourceValid, props
  <2>2. LocksType'
    BY Zenon DEF LifeInv, Types, LocksType, UpdateCheck, Return, SourceValid
  <2> QED BY Zenon, SameTypes, <2>1, <2>2 DEF LifeInv, Types, UpdateCheck, Return, SourceValid, faults
<1>2. Where'
  <2>1. UNCHANGED modes \/ (UNCHANGED state /\ Release /\ mode = "blank")
    BY Zenon DEF LifeInv, Locks, modes, UpdateCheck, Return, SourceValid
  <2> QED BY Zenon, <2>1, SamePlace, BlankPlace DEF LifeInv
<1>3. Locks'
  BY Zenon DEF LifeInv, Locks, Booting, UpdateCheck, Return, Release, SourceValid
<1>4. Light'
  BY Zenon DEF LifeInv, Light, Booting, UpdateCheck, Return, Release, SourceValid, panel,
     devices, flags, exits
<1>5. Keeping'
  BY Zenon DEF LifeInv, Keeping, Revealed, UpdateCheck, Return, Release, SourceValid, flags
<1>6. Registered'
  BY Zenon DEF LifeInv, Registered, Booting, Revealed, UpdateCheck, Return, Release,
     SourceValid, devices, Locks
<1>7. Requests'
  BY Zenon DEF LifeInv, Requests, Booting, Revealed, UpdateCheck, Return, Release, SourceValid,
     props, Locks
<1>8. Parked'
  BY Zenon DEF LifeInv, Parked, Where, Place, UpdateCheck, Return, SourceValid, panel, devices,
     flags, exits, Bringup, Locks, Booting
<1> QED BY Zenon, <1>1, <1>2, <1>3, <1>4, <1>5, <1>6, <1>7, <1>8 DEF LifeInv

\* It clears the PWM before it opens the gate ...
LEMMA UpdatePwm0Keeps ==
    ASSUME LifeInv, NEW a \in Ack, UpdatePwm0(a)
    PROVE  LifeInv'
<1>1. Types'
  <2>1. PanelType'
    BY Zenon DEF LifeInv, Types, PanelType, UpdatePwm0, Written, LatchIf
  <2>2. FaultsType'
    BY Zenon DEF LifeInv, Types, FaultsType, UpdatePwm0, LatchIf
  <2>3. LocksType'
    BY Zenon DEF LifeInv, Types, LocksType, UpdatePwm0, LatchIf
  <2> QED BY Zenon, SameTypes, <2>1, <2>2, <2>3 DEF LifeInv, Types, UpdatePwm0, LatchIf
<1>2. Where'
  BY Zenon, SamePlace DEF LifeInv, UpdatePwm0, LatchIf
<1>3. Locks'
  BY Zenon DEF LifeInv, Locks, Booting, UpdatePwm0, LatchIf, modes
<1>4. Light'
  BY Zenon DEF LifeInv, Light, Booting, UpdatePwm0, Written, LatchIf, modes, devices, flags,
     exits
<1>5. Keeping'
  BY Zenon DEF LifeInv, Keeping, Revealed, UpdatePwm0, LatchIf, modes, flags
<1>6. Registered'
  BY Zenon DEF LifeInv, Registered, Revealed, UpdatePwm0, LatchIf, modes, devices
<1>7. Requests'
  BY Zenon DEF LifeInv, Requests, UpdatePwm0, LatchIf, props
<1>8. Parked'
  BY Zenon DEF LifeInv, Parked, Place, UpdatePwm0, Written, LatchIf, modes, devices, flags,
     exits
<1> QED BY Zenon, <1>1, <1>2, <1>3, <1>4, <1>5, <1>6, <1>7, <1>8 DEF LifeInv

\* ... opens the gate ...
LEMMA UpdateGateKeeps ==
    ASSUME LifeInv, NEW a \in Ack, UpdateGate(a)
    PROVE  LifeInv'
<1>1. Types'
  <2>1. PanelType'
    BY Zenon DEF LifeInv, Types, PanelType, UpdateGate, Written, LatchIf
  <2>2. FaultsType'
    BY Zenon DEF LifeInv, Types, FaultsType, UpdateGate, LatchIf
  <2>3. LocksType'
    BY Zenon DEF LifeInv, Types, LocksType, UpdateGate, LatchIf
  <2> QED BY Zenon, SameTypes, <2>1, <2>2, <2>3 DEF LifeInv, Types, UpdateGate, LatchIf
<1>2. Where'
  BY Zenon, SamePlace DEF LifeInv, UpdateGate, LatchIf
<1>3. Locks'
  BY Zenon DEF LifeInv, Locks, Booting, UpdateGate, LatchIf, modes
<1>4. Light'
  BY Zenon DEF LifeInv, Where, Place, Light, Keeping, Registered, Booting, Revealed, Bringup,
     UpdateGate, LatchIf, modes, devices, flags, exits
<1>5. Keeping'
  BY Zenon DEF LifeInv, Keeping, Revealed, UpdateGate, LatchIf, modes, flags
<1>6. Registered'
  BY Zenon DEF LifeInv, Registered, Revealed, UpdateGate, LatchIf, modes, devices
<1>7. Requests'
  BY Zenon DEF LifeInv, Requests, UpdateGate, LatchIf, props
<1>8. Parked'
  BY Zenon DEF LifeInv, Parked, UpdateGate, LatchIf, modes, devices, flags, exits, Registered
<1> QED BY Zenon, <1>1, <1>2, <1>3, <1>4, <1>5, <1>6, <1>7, <1>8 DEF LifeInv

\* ... and writes the PWM.
LEMMA UpdatePwmKeeps ==
    ASSUME LifeInv, NEW a \in Ack, UpdatePwm(a)
    PROVE  LifeInv'
<1>1. Types'
  <2>1. PanelType'
    BY Zenon DEF LifeInv, Types, PanelType, UpdatePwm, Written, LatchIf
  <2>2. FaultsType'
    BY Zenon DEF LifeInv, Types, FaultsType, UpdatePwm, LatchIf
  <2>3. LocksType'
    BY Zenon DEF LifeInv, Types, LocksType, UpdatePwm, LatchIf
  <2> QED BY Zenon, SameTypes, <2>1, <2>2, <2>3 DEF LifeInv, Types, UpdatePwm, LatchIf
<1>2. Where'
  BY Zenon, SamePlace DEF LifeInv, UpdatePwm, LatchIf
<1>3. Locks'
  BY Zenon DEF LifeInv, Locks, Booting, UpdatePwm, LatchIf, modes
<1>4. Light'
  BY Zenon DEF LifeInv, Where, Place, Light, Keeping, Registered, Booting, Revealed, Bringup,
     UpdatePwm, LatchIf, modes, devices, flags, exits
<1>5. Keeping'
  BY Zenon DEF LifeInv, Keeping, Revealed, UpdatePwm, LatchIf, modes, flags
<1>6. Registered'
  BY Zenon DEF LifeInv, Registered, Revealed, UpdatePwm, LatchIf, modes, devices
<1>7. Requests'
  BY Zenon DEF LifeInv, Requests, UpdatePwm, LatchIf, props
<1>8. Parked'
  BY Zenon DEF LifeInv, Parked, UpdatePwm, LatchIf, modes, devices, flags, exits, Registered
<1> QED BY Zenon, <1>1, <1>2, <1>3, <1>4, <1>5, <1>6, <1>7, <1>8 DEF LifeInv

\* It looks at the source again, and rolls back if that has gone.
LEMMA UpdateRecheckKeeps ==
    ASSUME LifeInv, UpdateRecheck
    PROVE  LifeInv'
<1>1. Types'
  <2>1. PropsType'
    BY Zenon DEF LifeInv, Types, PropsType, UpdateRecheck, Return, SourceValid
  <2>2. LocksType'
    BY Zenon DEF LifeInv, Types, LocksType, UpdateRecheck, Return, SourceValid
  <2> QED BY Zenon, SameTypes, <2>1, <2>2 DEF LifeInv, Types, UpdateRecheck, Return, SourceValid, faults
<1>2. Where'
  <2>1. UNCHANGED modes \/ (UNCHANGED state /\ Release /\ mode = "blank")
    BY Zenon DEF LifeInv, Locks, modes, UpdateRecheck, Return, SourceValid
  <2> QED BY Zenon, <2>1, SamePlace, BlankPlace DEF LifeInv
<1>3. Locks'
  BY Zenon DEF LifeInv, Locks, Booting, UpdateRecheck, Return, Release, SourceValid
<1>4. Light'
  BY Zenon DEF LifeInv, Light, Booting, UpdateRecheck, Return, Release, SourceValid, panel,
     devices, flags, exits
<1>5. Keeping'
  BY Zenon DEF LifeInv, Keeping, Revealed, UpdateRecheck, Return, Release, SourceValid, flags
<1>6. Registered'
  BY Zenon DEF LifeInv, Registered, Revealed, UpdateRecheck, Return, SourceValid, devices
<1>7. Requests'
  BY Zenon DEF LifeInv, Requests, UpdateRecheck, Return, SourceValid
<1>8. Parked'
  BY Zenon DEF LifeInv, Parked, Where, Place, UpdateRecheck, Return, Release, SourceValid,
     panel, devices, flags, exits
<1> QED BY Zenon, <1>1, <1>2, <1>3, <1>4, <1>5, <1>6, <1>7, <1>8 DEF LifeInv

\* micronux_native_backlight_disable, which takes a failed request back.
LEMMA UpdateOffKeeps ==
    ASSUME LifeInv, NEW a \in Ack, NEW b \in Ack, UpdateOff(a, b)
    PROVE  LifeInv'
<1>1. Types'
  <2>1. PropsType'
    BY Zenon DEF LifeInv, Types, PropsType, UpdateOff, Return, LatchIf
  <2>2. PanelType'
    BY Zenon DEF LifeInv, Types, PanelType, UpdateOff, Return, Written, LatchIf
  <2>3. FaultsType'
    BY Zenon DEF LifeInv, Types, FaultsType, UpdateOff, Return, LatchIf
  <2>4. LocksType'
    BY Zenon DEF LifeInv, Types, LocksType, UpdateOff, Return, LatchIf
  <2> QED BY Zenon, SameTypes, <2>1, <2>2, <2>3, <2>4 DEF LifeInv, Types, UpdateOff, Return, LatchIf
<1>2. Where'
  <2>1. UNCHANGED modes \/ (UNCHANGED state /\ Release /\ mode = "blank")
    BY Zenon DEF LifeInv, Locks, modes, UpdateOff, Return, LatchIf
  <2> QED BY Zenon, <2>1, SamePlace, BlankPlace DEF LifeInv
<1>3. Locks'
  BY Zenon DEF LifeInv, Locks, Booting, UpdateOff, Return, Release, LatchIf
<1>4. Light'
  BY Zenon DEF LifeInv, Light, Booting, UpdateOff, Return, Release, Written, LatchIf, devices,
     flags, exits
<1>5. Keeping'
  BY Zenon DEF LifeInv, Keeping, Revealed, UpdateOff, Return, Release, LatchIf, flags
<1>6. Registered'
  BY Zenon DEF LifeInv, Registered, Revealed, UpdateOff, Return, LatchIf, devices, Locks
<1>7. Requests'
  BY Zenon DEF LifeInv, Requests, Booting, Revealed, UpdateOff, Return, Release, LatchIf, Locks
<1>8. Parked'
  BY Zenon DEF LifeInv, Parked, UpdateOff, Return, Release, LatchIf, devices, flags, exits,
     Locks, Registered, Revealed
<1> QED BY Zenon, <1>1, <1>2, <1>3, <1>4, <1>5, <1>6, <1>7, <1>8 DEF LifeInv

\* The interrupt or the health timer latches a fault.
LEMMA LatchFaultKeeps ==
    ASSUME LifeInv, LatchFault
    PROVE  LifeInv'
<1>1. FaultsType'
  BY Zenon DEF LifeInv, Types, FaultsType, LatchFault
<1> QED
  BY Zenon, Untouched, <1>1 DEF LatchFault, exits, locks

\* The fault worker gets mode_lock, and contains the fault of a live display.
LEMMA FaultWorkKeeps ==
    ASSUME LifeInv, FaultWork
    PROVE  LifeInv'
<1>1. Types'
  <2>1. FaultsType'
    BY Zenon DEF LifeInv, Types, FaultsType, FaultWork
  <2> QED BY Zenon, SameTypes, <2>1 DEF LifeInv, Types, FaultWork
<1>2. Where'
  BY Zenon DEF LifeInv, Where, Place, Bringup, FaultWork
<1>3. Locks'
  BY Zenon DEF LifeInv, Locks, Booting, FaultWork, locks
<1>4. Light'
  BY Zenon DEF LifeInv, Light, Booting, FaultWork, panel, devices, flags, exits
<1>5. Keeping'
  BY Zenon DEF LifeInv, Keeping, Where, Place, Revealed, FaultWork, flags, Settled
<1>6. Registered'
  BY Zenon DEF LifeInv, Registered, Where, Place, Booting, Revealed, FaultWork, devices, locks
<1>7. Requests'
  BY Zenon DEF LifeInv, Requests, Booting, Revealed, FaultWork, props, locks
<1>8. Parked'
  BY Zenon DEF LifeInv, Parked, FaultWork, panel, devices, flags, exits
<1> QED BY Zenon, <1>1, <1>2, <1>3, <1>4, <1>5, <1>6, <1>7, <1>8 DEF LifeInv

\* The touch device is registered, if the display is still revealed.
LEMMA TouchWorkKeeps ==
    ASSUME LifeInv, TouchWork
    PROVE  LifeInv'
<1>1. Types'
  <2>1. DevicesType'
    BY Zenon DEF LifeInv, Types, DevicesType, TouchWork
  <2>2. FaultsType'
    BY Zenon DEF LifeInv, Types, FaultsType, TouchWork, faults
  <2> QED BY Zenon, SameTypes, <2>1, <2>2 DEF LifeInv, Types, TouchWork
<1>2. Where'
  BY Zenon, SamePlace DEF LifeInv, TouchWork
<1>3. Locks'
  BY Zenon DEF LifeInv, Locks, Booting, TouchWork, modes, locks
<1>4. Light'
  BY Zenon DEF LifeInv, Light, Booting, TouchWork, modes, panel, flags, exits
<1>5. Keeping'
  BY Zenon DEF LifeInv, Keeping, Revealed, TouchWork, modes, flags
<1>6. Registered'
  BY Zenon DEF LifeInv, Registered, Booting, Revealed, TouchWork, modes, locks
<1>7. Requests'
  BY Zenon DEF LifeInv, Requests, Booting, Revealed, TouchWork, modes, props, locks
<1>8. Parked'
  BY Zenon DEF LifeInv, Parked, TouchWork, modes, panel, flags, exits
<1> QED BY Zenon, <1>1, <1>2, <1>3, <1>4, <1>5, <1>6, <1>7, <1>8 DEF LifeInv

\* The driver is to be removed: the sysfs files go first.
LEMMA RemoveBeginKeeps ==
    ASSUME LifeInv, RemoveBegin
    PROVE  LifeInv'
<1>1. FaultsType'
  BY Zenon DEF LifeInv, Types, FaultsType, RemoveBegin, faults
<1>2. ExitsType'
  BY Zenon DEF LifeInv, Types, ExitsType, RemoveBegin
<1> QED
  BY Zenon, Untouched, <1>1, <1>2 DEF RemoveBegin, locks

\* remove gets mode_lock, in whichever state the display was left.
LEMMA RemoveLockKeeps ==
    ASSUME LifeInv, RemoveLock
    PROVE  LifeInv'
<1>1. Types'
  <2>1. ExitsType'
    BY Zenon DEF LifeInv, Types, ExitsType, RemoveLock
  <2>2. FlagsType'
    BY Zenon DEF LifeInv, Types, FlagsType, RemoveLock
  <2> QED BY Zenon, SameTypes, <2>1, <2>2 DEF LifeInv, Types, RemoveLock, faults
<1>2. Where'
  BY Zenon DEF LifeInv, Where, Place, Settled, RemoveLock
<1>3. Locks'
  BY Zenon DEF LifeInv, Locks, Booting, RemoveLock, locks
<1>4. Light'
  <2>1. preserve => "gdma" \in up /\ "irq" \in up
    BY Zenon DEF LifeInv, Light
  <2>2. state # "REMOVING"
    BY Zenon DEF LifeInv, Parked, RemoveLock
  <2>3. preserve => state' = "REMOVING" /\ was' = "lit"
    BY Zenon, <2>2 DEF LifeInv, Light, RemoveLock
  <2>4. pwm \/ gate => preserve
    BY Zenon, <2>2 DEF LifeInv, Light
  <2> QED
    BY Zenon, <2>1, <2>3, <2>4 DEF LifeInv, Light, Booting, RemoveLock, panel, devices
<1>5. Keeping'
  BY Zenon DEF LifeInv, Keeping, Where, Place, Revealed, RemoveLock, flags, Settled
<1>6. Registered'
  BY Zenon DEF LifeInv, Registered, Where, Place, Booting, Revealed, RemoveLock, devices, locks
<1>7. Requests'
  BY Zenon DEF LifeInv, Requests, Booting, Revealed, RemoveLock, props, locks
<1>8. Parked'
  BY Zenon DEF LifeInv, Parked, RemoveLock, panel, devices, Light
<1> QED BY Zenon, <1>1, <1>2, <1>3, <1>4, <1>5, <1>6, <1>7, <1>8 DEF LifeInv

\* The reveal is revoked before anything is switched off.
LEMMA RevokeKeeps ==
    ASSUME LifeInv, Revoke
    PROVE  LifeInv'
<1>1. Types'
  <2>1. FlagsType'
    BY Zenon DEF LifeInv, Types, FlagsType, Revoke
  <2> QED BY Zenon, SameTypes, <2>1 DEF LifeInv, Types, Revoke, faults
<1>2. Where'
  BY Zenon DEF LifeInv, Where, Place, Revoke, Goto
<1>3. Locks'
  BY Zenon DEF LifeInv, Locks, Booting, Revoke, Goto, locks
<1>4. Light'
  BY Zenon DEF LifeInv, Light, Where, Place, Booting, Revoke, Goto, panel, devices
<1>5. Keeping'
  BY Zenon DEF LifeInv, Keeping, Revoke, Goto
<1>6. Registered'
  BY Zenon DEF LifeInv, Registered, Booting, Revealed, Revoke, Goto, devices, locks
<1>7. Requests'
  BY Zenon DEF LifeInv, Requests, Booting, Revealed, Revoke, Goto, props, locks
<1>8. Parked'
  BY Zenon DEF LifeInv, Parked, Where, Place, Revoke, Goto, exits
<1> QED BY Zenon, <1>1, <1>2, <1>3, <1>4, <1>5, <1>6, <1>7, <1>8 DEF LifeInv

\* micronux_native_off_first: two acknowledged writes confirm darkness.
LEMMA OffFirstKeeps ==
    ASSUME LifeInv, NEW a \in Ack, NEW b \in Ack, OffFirst(a, b)
    PROVE  LifeInv'
<1>1. Types'
  <2>1. PropsType'
    BY Zenon DEF LifeInv, Types, PropsType, OffFirst
  <2>2. PanelType'
    BY Zenon DEF LifeInv, Types, PanelType, OffFirst, Written
  <2>3. FlagsType'
    BY Zenon DEF LifeInv, Types, FlagsType, OffFirst
  <2> QED BY Zenon, SameTypes, <2>1, <2>2, <2>3 DEF LifeInv, Types, OffFirst, faults
<1>2. Where'
  BY Zenon DEF LifeInv, Where, Place, OffFirst, Goto
<1>3. Locks'
  BY Zenon DEF LifeInv, Locks, Booting, OffFirst, Goto, locks
<1>4. Light'
  BY Zenon DEF LifeInv, Light, Booting, OffFirst, Goto, Written, devices, exits
<1>5. Keeping'
  BY Zenon DEF LifeInv, Keeping, Where, Place, Revealed, OffFirst, Goto
<1>6. Registered'
  BY Zenon DEF LifeInv, Registered, Booting, Revealed, OffFirst, Goto, devices, locks, Locks
<1>7. Requests'
  BY Zenon DEF LifeInv, Requests, Booting, Revealed, OffFirst, Goto, locks
<1>8. Parked'
  BY Zenon DEF LifeInv, Parked, OffFirst, Goto, Written, devices, exits
<1> QED BY Zenon, <1>1, <1>2, <1>3, <1>4, <1>5, <1>6, <1>7, <1>8 DEF LifeInv

\* The backlight and the touch device are unregistered.
LEMMA UnregisterKeeps ==
    ASSUME LifeInv, Unregister
    PROVE  LifeInv'
<1>1. Types'
  <2>1. PropsType'
    BY Zenon DEF LifeInv, Types, PropsType, Unregister
  <2>2. DevicesType'
    BY Zenon DEF LifeInv, Types, DevicesType, Unregister
  <2> QED BY Zenon, SameTypes, <2>1, <2>2 DEF LifeInv, Types, Unregister, faults
<1>2. Where'
  BY Zenon DEF LifeInv, Where, Place, Unregister, Goto
<1>3. Locks'
  BY Zenon DEF LifeInv, Locks, Booting, Unregister, Goto, locks
<1>4. Light'
  BY Zenon DEF LifeInv, Light, Booting, Unregister, Goto, panel, flags, exits
<1>5. Keeping'
  BY Zenon DEF LifeInv, Keeping, Revealed, Unregister, Goto, flags
<1>6. Registered'
  BY Zenon DEF LifeInv, Registered, Where, Place, Booting, Revealed, Unregister, Goto, locks,
     Bringup
<1>7. Requests'
  BY Zenon DEF LifeInv, Requests, Unregister
<1>8. Parked'
  BY Zenon DEF LifeInv, Parked, Unregister, Goto, panel, flags, exits
<1> QED BY Zenon, <1>1, <1>2, <1>3, <1>4, <1>5, <1>6, <1>7, <1>8 DEF LifeInv

\* The stores under way are over; without confirmed darkness the source stays on.
LEMMA UnregisteredKeeps ==
    ASSUME LifeInv, Unregistered
    PROVE  LifeInv'
<1>1. Types'
  <2>1. FlagsType'
    BY Zenon DEF LifeInv, Types, FlagsType, Unregistered, Runtime
  <2> QED BY Zenon, SameTypes, <2>1 DEF LifeInv, Types, Unregistered, Runtime, faults
<1>2. Where'
  BY Zenon DEF LifeInv, Where, Place, Settled, Unregistered, Goto, Release, Runtime
<1>3. Locks'
  BY Zenon DEF LifeInv, Locks, Booting, Unregistered, Goto, Release, Runtime, locks
<1>4. Light'
  BY Zenon DEF LifeInv, Light, Where, Place, Booting, Unregistered, Goto, Release, Runtime,
     panel, devices, exits
<1>5. Keeping'
  BY Zenon DEF LifeInv, Keeping, Revealed, Unregistered, Goto, Release, Runtime, Light
<1>6. Registered'
  BY Zenon DEF LifeInv, Registered, Where, Place, Booting, Revealed, Unregistered, Goto,
     Release, Runtime, devices, locks
<1>7. Requests'
  BY Zenon DEF LifeInv, Requests, Booting, Revealed, Unregistered, Goto, Release, Runtime,
     props, locks
<1>8. Parked'
  BY Zenon DEF LifeInv, Parked, Where, Place, Unregistered, Goto, Release, Runtime, devices,
     exits
<1> QED BY Zenon, <1>1, <1>2, <1>3, <1>4, <1>5, <1>6, <1>7, <1>8 DEF LifeInv

\* The timer, the interrupt and the channel are stopped.
LEMMA TeardownKeeps ==
    ASSUME LifeInv, NEW ok \in BOOLEAN, Teardown(ok)
    PROVE  LifeInv'
<1>1. Types'
  <2>1. DevicesType'
    BY Zenon DEF LifeInv, Types, DevicesType, Teardown
  <2>2. FlagsType'
    BY Zenon DEF LifeInv, Types, FlagsType, Teardown
  <2> QED BY Zenon, SameTypes, <2>1, <2>2 DEF LifeInv, Types, Teardown, faults
<1>2. Where'
  BY Zenon DEF LifeInv, Where, Place, Teardown, Goto
<1>3. Locks'
  BY Zenon DEF LifeInv, Locks, Booting, Teardown, Goto, locks
<1>4. Light'
  BY Zenon DEF LifeInv, Light, Where, Place, Booting, Teardown, Goto, panel, exits, Keeping
<1>5. Keeping'
  BY Zenon DEF LifeInv, Keeping, Where, Place, Revealed, Teardown, Goto, Bringup
<1>6. Registered'
  BY Zenon DEF LifeInv, Registered, Booting, Revealed, Teardown, Goto, locks
<1>7. Requests'
  BY Zenon DEF LifeInv, Requests, Booting, Revealed, Teardown, Goto, props, locks
<1>8. Parked'
  BY Zenon DEF LifeInv, Parked, Teardown, Goto, panel, exits
<1> QED BY Zenon, <1>1, <1>2, <1>3, <1>4, <1>5, <1>6, <1>7, <1>8 DEF LifeInv

\* unregister_framebuffer.
LEMMA UnregisterFbKeeps ==
    ASSUME LifeInv, UnregisterFb
    PROVE  LifeInv'
<1>1. Types'
  <2>1. DevicesType'
    BY Zenon DEF LifeInv, Types, DevicesType, UnregisterFb
  <2>2. FlagsType'
    BY Zenon DEF LifeInv, Types, FlagsType, UnregisterFb
  <2> QED BY Zenon, SameTypes, <2>1, <2>2 DEF LifeInv, Types, UnregisterFb, faults
<1>2. Where'
  BY Zenon DEF LifeInv, Where, Place, UnregisterFb, Goto
<1>3. Locks'
  BY Zenon DEF LifeInv, Locks, Booting, UnregisterFb, Goto, locks
<1>4. Light'
  BY Zenon DEF LifeInv, Light, Booting, UnregisterFb, Goto, panel, exits
<1>5. Keeping'
  BY Zenon DEF LifeInv, Keeping, Revealed, UnregisterFb, Goto
<1>6. Registered'
  BY Zenon DEF LifeInv, Registered, Booting, Revealed, UnregisterFb, Goto, locks
<1>7. Requests'
  BY Zenon DEF LifeInv, Requests, Booting, Revealed, UnregisterFb, Goto, props, locks
<1>8. Parked'
  <2>1. ("gdma" \in up' <=> "gdma" \in up) /\ (up = {} => up' = {})
    BY Zenon DEF UnregisterFb
  <2>2. mode = "cold" => why = "cold"
    BY Zenon DEF LifeInv, Where, Place, UnregisterFb
  <2>3. removed = "no" /\ mode # "free" /\ state \notin {"PROBED_QUIESCENT"}
    BY Zenon DEF LifeInv, Where, Place, Parked, Bringup, UnregisterFb
  <2> QED BY Zenon, <2>1, <2>2, <2>3 DEF LifeInv, Parked, UnregisterFb, Goto, exits
<1> QED BY Zenon, <1>1, <1>2, <1>3, <1>4, <1>5, <1>6, <1>7, <1>8 DEF LifeInv

\* micronux_cold_fail_quiescent switches the rest off.
LEMMA ContainKeeps ==
    ASSUME LifeInv, NEW a \in Ack, NEW b \in Ack, NEW ok \in BOOLEAN, Contain(a, b, ok)
    PROVE  LifeInv'
<1>1. Types'
  <2>1. PanelType'
    BY Zenon DEF LifeInv, Types, PanelType, Contain, SwitchOff, Written
  <2>2. DevicesType'
    BY Zenon DEF LifeInv, Types, DevicesType, Contain, SwitchOff, Parts
  <2> QED BY Zenon, SameTypes, <2>1, <2>2 DEF LifeInv, Types, Contain, SwitchOff, faults
<1>2. Where'
  BY Zenon DEF LifeInv, Where, Place, Settled, Contain, SwitchOff, Release
<1>3. Locks'
  BY Zenon DEF LifeInv, Locks, Booting, Contain, SwitchOff, Release, locks
<1>4. Light'
  BY Zenon DEF LifeInv, Light, Where, Place, Contain, SwitchOff, Written, flags, Keeping
<1>5. Keeping'
  BY Zenon DEF LifeInv, Keeping, Revealed, Contain, SwitchOff, Release
<1>6. Registered'
  BY Zenon DEF LifeInv, Registered, Booting, Revealed, Contain, SwitchOff, Release, locks,
     Keeping
<1>7. Requests'
  BY Zenon DEF LifeInv, Requests, Booting, Revealed, Contain, SwitchOff, Release, props, locks
<1>8. Parked'
  BY Zenon DEF LifeInv, Parked, Where, Place, Contain, SwitchOff, Release, exits
<1> QED BY Zenon, <1>1, <1>2, <1>3, <1>4, <1>5, <1>6, <1>7, <1>8 DEF LifeInv

\* The end of micronux_native_fail_reveal_locked.
LEMMA FinishRevealKeeps ==
    ASSUME LifeInv, NEW ok \in BOOLEAN, FinishReveal(ok)
    PROVE  LifeInv'
<1>1. Types'
  <2>1. DevicesType'
    BY Zenon DEF LifeInv, Types, DevicesType, FinishReveal, SwitchOff, Parts
  <2>2. FlagsType'
    BY Zenon DEF LifeInv, Types, FlagsType, FinishReveal, SwitchOff
  <2> QED BY Zenon, SameTypes, <2>1, <2>2 DEF LifeInv, Types, FinishReveal, SwitchOff, faults
<1>2. Where'
  BY Zenon DEF LifeInv, Where, Place, Settled, FinishReveal, SwitchOff, Release
<1>3. Locks'
  BY Zenon DEF LifeInv, Locks, Booting, FinishReveal, SwitchOff, Release, locks
<1>4. Light'
  <2>1. ~preserve
    BY Zenon DEF LifeInv, Keeping, FinishReveal
  <2>2. ~(pwm \/ gate)
    BY Zenon, <2>1 DEF LifeInv, Light, Where, Place, FinishReveal
  <2> QED BY Zenon, <2>1, <2>2 DEF LifeInv, Light, Booting, FinishReveal, Release, panel
<1>5. Keeping'
  BY Zenon DEF LifeInv, Keeping, Revealed, FinishReveal, SwitchOff, Release
<1>6. Registered'
  BY Zenon DEF LifeInv, Registered, Where, Place, Booting, Revealed, FinishReveal, SwitchOff,
     Release, locks
<1>7. Requests'
  BY Zenon DEF LifeInv, Requests, Booting, Revealed, FinishReveal, SwitchOff, Release, props,
     locks
<1>8. Parked'
  BY Zenon DEF LifeInv, Parked, Where, Place, FinishReveal, SwitchOff, Release, exits
<1> QED BY Zenon, <1>1, <1>2, <1>3, <1>4, <1>5, <1>6, <1>7, <1>8 DEF LifeInv

\* The end of micronux_dsi_remove.
LEMMA FinishRemoveKeeps ==
    ASSUME LifeInv, NEW a \in Ack, NEW b \in Ack, NEW ok \in BOOLEAN, FinishRemove(a, b, ok)
    PROVE  LifeInv'
<1>1. Types'
  <2>1. PanelType'
    BY Zenon DEF LifeInv, Types, PanelType, FinishRemove, SwitchOff, Written
  <2>2. DevicesType'
    BY Zenon DEF LifeInv, Types, DevicesType, FinishRemove, SwitchOff, Parts
  <2>3. FaultsType'
    BY Zenon DEF LifeInv, Types, FaultsType, FinishRemove, SwitchOff
  <2>4. ExitsType'
    BY Zenon DEF LifeInv, Types, ExitsType, FinishRemove, SwitchOff
  <2> QED BY Zenon, SameTypes, <2>1, <2>2, <2>3, <2>4 DEF LifeInv, Types, FinishRemove, SwitchOff
<1>2. Where'
  BY Zenon DEF LifeInv, Where, Place, Settled, FinishRemove, SwitchOff, Release
<1>3. Locks'
  BY Zenon DEF LifeInv, Locks, Booting, FinishRemove, SwitchOff, Release, locks
<1>4. Light'
  <2>1. ~preserve
    BY Zenon DEF LifeInv, Keeping, FinishRemove
  <2>2. (pwm' => pwm) /\ (gate' => gate)
    BY Zenon DEF FinishRemove, Written
  <2> QED BY Zenon, <2>1, <2>2 DEF LifeInv, Light, Booting, FinishRemove, Release, flags
<1>5. Keeping'
  BY Zenon DEF LifeInv, Keeping, Revealed, FinishRemove, SwitchOff, Release
<1>6. Registered'
  BY Zenon DEF LifeInv, Registered, Where, Place, Booting, Revealed, FinishRemove, SwitchOff,
     Release, locks
<1>7. Requests'
  BY Zenon DEF LifeInv, Requests, Booting, Revealed, FinishRemove, SwitchOff, Release, props,
     locks
<1>8. Parked'
  BY Zenon DEF LifeInv, Parked, Where, Place, FinishRemove, SwitchOff, Written, Release, Light,
     Booting
<1> QED BY Zenon, <1>1, <1>2, <1>3, <1>4, <1>5, <1>6, <1>7, <1>8 DEF LifeInv

-----------------------------------------------------------------------------
(* Every step, and what follows *)

\* The loader left the panel dark and in reset, and probe checked it.
LEMMA LifeStarts == Init => LifeInv
<1> SUFFICES ASSUME Init PROVE LifeInv
  OBVIOUS
<1>1. Types
  <2>1. PropsType /\ PanelType /\ FlagsType
    BY Zenon DEF Init, PropsType, PanelType, FlagsType
  <2>2. DevicesType /\ FaultsType /\ ExitsType /\ LocksType
    BY Zenon DEF Init, DevicesType, FaultsType, ExitsType, LocksType
  <2> QED BY Zenon, <2>1, <2>2 DEF Types
<1>2. Where
  BY Zenon DEF Init, Where, Place, Settled
<1>3. Locks /\ Keeping /\ Requests
  BY Zenon DEF Init, Locks, Keeping, Requests, Booting, Revealed
<1>4. Light
  BY Zenon DEF Init, Light, Booting
<1>5. Registered
  BY Zenon DEF Init, Registered, Booting, Revealed
<1>6. Parked
  BY Zenon DEF Init, Parked
<1> QED BY Zenon, <1>1, <1>2, <1>3, <1>4, <1>5, <1>6 DEF LifeInv

\* Every step of every task, worker and interrupt keeps the invariant.
LEMMA LifeSteps == LifeInv /\ [Next]_vars => LifeInv'
<1> SUFFICES ASSUME LifeInv, [Next]_vars PROVE LifeInv'
  OBVIOUS
<1>1. CASE UNCHANGED vars
  BY Zenon, <1>1, Untouched DEF vars, exits, locks, faults
<1>2. CASE ColdInitStore \/ ColdInit
  BY Zenon, <1>2, ColdInitStoreKeeps, LdoStageKeeps, PanelStageKeeps, ScanoutStageKeeps,
     RegisterFramebufferKeeps, PublishScanoutKeeps, UnlockKeeps DEF ColdInit
<1>3. CASE BootReadyStore \/ BootReady
  BY Zenon, <1>3, BootReadyStoreKeeps, BootQualifyKeeps, BootI2cKeeps, BootOpsKeeps, BootGateKeeps,
     BootPwmKeeps, BootRevealKeeps DEF BootReady
<1>4. CASE FbBlankLocked \/ FbBlankOps \/ \E to \in BOOLEAN : FbBlankBegin(to)
  BY Zenon, <1>4, FbBlankBeginKeeps, FbBlankLockedKeeps, FbBlankOpsKeeps
<1>5. CASE StoreLocked \/ \E what \in {"bright", "dim", "on", "off"} : StoreBegin(what)
  BY Zenon, <1>5, StoreBeginKeeps, StoreLockedKeeps
<1>6. CASE Update
  BY Zenon, <1>6, UpdateCheckKeeps, UpdatePwm0Keeps, UpdateGateKeeps, UpdatePwmKeeps,
     UpdateRecheckKeeps, UpdateOffKeeps DEF Update
<1>7. CASE LatchFault \/ FaultWork \/ TouchWork \/ RemoveBegin \/ RemoveLock
  BY Zenon, <1>7, LatchFaultKeeps, FaultWorkKeeps, TouchWorkKeeps, RemoveBeginKeeps, RemoveLockKeeps
<1>8. CASE Containment
  BY Zenon, <1>8, RevokeKeeps, OffFirstKeeps, UnregisterKeeps, UnregisteredKeeps, TeardownKeeps,
     UnregisterFbKeeps, ContainKeeps, FinishRevealKeeps, FinishRemoveKeeps DEF Containment
<1> QED BY Zenon, <1>1, <1>2, <1>3, <1>4, <1>5, <1>6, <1>7, <1>8 DEF Next, HolderStep

\* The invariant holds in every state, whatever the order in which cold_init, boot_ready, stores,
\* blanking, faults, the workers and remove get the locks, and whichever of their steps fail.
THEOREM LifecycleInvariant == Spec => []LifeInv
  BY LifeStarts, LifeSteps, PTL DEF Spec

\* LitIsSafe.  Once darkness is confirmed nothing lights the panel again, and a panel that shines
\* has a source that runs and is kept, until a remove.
THEOREM LitIsSafeHolds == Spec => []LitIsSafe
<1>1. LifeInv => LitIsSafe
  BY Zenon DEF LifeInv, Light, LitIsSafe, Lit
<1> QED BY <1>1, LifecycleInvariant, PTL

\* ContainedIsOff.  FAILED_QUIESCENT and REMOVE_QUIESCENT are true of the panel and of all parts,
\* and the touch poller never talks to a gated I2C controller.
THEOREM ContainedIsOffHolds == Spec => []ContainedIsOff
<1>1. ASSUME LifeInv PROVE ContainedIsOff
  <2>1. TypeOK
    <3>1. /\ mode \in {"free", "cold", "boot", "blank", "fault", "remove"}
          /\ (mode = "free") = (mpc = "none")
      BY Zenon, <1>1 DEF LifeInv, Where, Place
    <3>2. (bpc # "none") = (ops \in {"store", "blank"})
      <4>1. bpc # "none" <=> ops \in {"store", "blank"}
        BY Zenon, <1>1 DEF LifeInv, Locks
      <4> QED BY <4>1
    <3>3. /\ ops \in {"free", "store", "blank", "boot"} /\ fbLock \in {"free", "blank"}
          /\ spc \in {"idle", "bright", "dim", "on", "off"} /\ fto \in BOOLEAN
      BY Zenon, <1>1 DEF LifeInv, Types, LocksType
    <3>4. /\ up \subseteq Parts /\ i2cState \in {"RELEASED", "TRANSITION", "ACTIVE"}
          /\ {blReg, touch} \subseteq BOOLEAN
      BY Zenon, <1>1 DEF LifeInv, Types, DevicesType
    <3>5. /\ was \in {"none", "lit", "contained", "other"} /\ removed \in {"no", "quiescent", "unverified"}
          /\ removing \in BOOLEAN
      BY Zenon, <1>1 DEF LifeInv, Types, ExitsType
    <3>6. {bright, power, oldPower, refused, pwm, gate, gateEnabled} \subseteq BOOLEAN
      BY Zenon, <1>1 DEF LifeInv, Types, PropsType, PanelType
    <3>7. {consumed, preserve, dark, mayBeLit, bootReady, unverified, runtimeOff} \subseteq BOOLEAN
      BY Zenon, <1>1 DEF LifeInv, Types, FlagsType
    <3>8. {fault, fwork, twork} \subseteq BOOLEAN
      BY Zenon, <1>1 DEF LifeInv, Types, FaultsType
    <3>9. {bright, power, oldPower, refused, pwm, gate, gateEnabled, blReg, touch,
           consumed, preserve, dark, mayBeLit, bootReady, unverified, runtimeOff,
           fault, fwork, twork, removing, fto} \subseteq BOOLEAN
      BY Zenon, <3>3, <3>4, <3>5, <3>6, <3>7, <3>8
    <3> QED BY Zenon, <3>1, <3>2, <3>3, <3>4, <3>5, <3>9 DEF TypeOK
  <2>2. state = "FAILED_QUIESCENT" => up = {} /\ ~pwm /\ ~gate
    BY Zenon, <1>1 DEF LifeInv, Light, Parked
  <2>3. (removed = "quiescent" => up = {} /\ ~pwm /\ ~gate) /\ (touch => "i2c" \in up)
    BY Zenon, <1>1 DEF LifeInv, Parked, Registered
  <2> QED BY Zenon, <2>1, <2>2, <2>3 DEF ContainedIsOff
<1> QED BY <1>1, LifecycleInvariant, PTL

\* A write that switches off does not light anything.
LEMMA OffDoesNotLight ==
    ASSUME NEW a, NEW b, pwm' = Written(a, pwm, FALSE), gate' = Written(b, gate, FALSE)
    PROVE  Lit' => Lit
  BY Zenon DEF Lit, Written

\* The panel is lit only by boot_ready and by an update that got past its check.
LEMMA WhoLights ==
    ASSUME Next, ~Lit, Lit'
    PROVE  Booting({"gate", "pwm", "reveal"}) \/ bpc \in {"pwm0", "gate", "pwm", "recheck"}
<1>1. ~UNCHANGED <<pwm, gate>>
  BY Zenon DEF Lit
<1>2. ~(ColdInitStore \/ ColdInit)
  BY Zenon, <1>1 DEF ColdInitStore, ColdInit, LdoStage, PanelStage, ScanoutStage, RegisterFramebuffer,
     PublishScanout, Unlock, panel
<1>3. ~(BootReadyStore \/ BootQualify \/ BootI2c \/ BootOps \/ BootReveal)
  BY Zenon, <1>1 DEF BootReadyStore, BootQualify, BootI2c, BootOps, BootReveal, panel
<1>4. ~(StoreLocked \/ FbBlankLocked \/ FbBlankOps \/ UpdateCheck \/ UpdateRecheck)
  BY Zenon, <1>1 DEF StoreLocked, FbBlankLocked, FbBlankOps, UpdateCheck, UpdateRecheck, panel
<1>5. ASSUME NEW x PROVE ~StoreBegin(x) /\ ~FbBlankBegin(x)
  BY Zenon, <1>1 DEF StoreBegin, FbBlankBegin, panel
<1>6. ~(LatchFault \/ FaultWork \/ TouchWork \/ RemoveBegin \/ RemoveLock)
  BY Zenon, <1>1 DEF LatchFault, FaultWork, TouchWork, RemoveBegin, RemoveLock, panel
<1>7. ~(Revoke \/ Unregister \/ Unregistered \/ UnregisterFb)
  BY Zenon, <1>1 DEF Revoke, Unregister, Unregistered, UnregisterFb, panel
<1>8. ASSUME NEW ok PROVE ~Teardown(ok) /\ ~FinishReveal(ok)
  BY Zenon, <1>1 DEF Teardown, FinishReveal, panel
<1>9. ASSUME NEW a, NEW b PROVE ~UpdateOff(a, b) /\ ~OffFirst(a, b)
  BY Zenon, OffDoesNotLight DEF UpdateOff, OffFirst
<1>10. ASSUME NEW a, NEW b, NEW ok PROVE ~Contain(a, b, ok) /\ ~FinishRemove(a, b, ok)
  BY Zenon, <1>1, OffDoesNotLight DEF Contain, FinishRemove
<1>11. ~Containment
  BY Zenon, <1>7, <1>8, <1>9, <1>10 DEF Containment
<1>12. CASE BootReady
  BY Zenon, <1>3, <1>12 DEF BootReady, BootGate, BootPwm, Booting
<1>13. CASE Update
  BY Zenon, <1>4, <1>9, <1>13 DEF Update, UpdatePwm0, UpdateGate, UpdatePwm
<1> QED BY Zenon, <1>2, <1>3, <1>4, <1>5, <1>6, <1>11, <1>12, <1>13 DEF Next, HolderStep

\* NoDelayedLight.  A positive request that failed is never carried out by a later unblank.
THEOREM NoDelayedLightHolds == Spec => NoDelayedLight
<1>1. LifeInv /\ [Next]_vars => [~Lit /\ Lit' => ~refused]_vars
  <2> SUFFICES ASSUME LifeInv, Next, ~Lit, Lit' PROVE ~refused
    BY Zenon
  <2>1. Booting({"gate", "pwm", "reveal"}) \/ bpc \in {"pwm0", "gate", "pwm", "recheck"}
    BY Zenon, WhoLights
  <2> QED BY Zenon, <2>1 DEF LifeInv, Requests
<1> QED BY <1>1, LifecycleInvariant, PTL DEF Spec, NoDelayedLight
=============================================================================

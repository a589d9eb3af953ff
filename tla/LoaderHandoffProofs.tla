------------------------- MODULE LoaderHandoffProofs -------------------------
(***************************************************************************)
(* What Linux is told when the loader enters it is true after any number   *)
(* of boots, for any place of the kernel and the pool and any line size.   *)
(***************************************************************************)
EXTENDS LoaderHandoff, TLAPS

\* A boot is in app_main, at the step given by at, or has just left it.
Here == mode \in {"loader", "entry"}

Contracts == [magic : BOOLEAN, boot : Int]

\* Types, with the length of Steps spelled out.
Types ==
    /\ profile \in {"cold", "splash", "off"}
    /\ mode \in {"loader", "failing", "entry", "linux", "reset"}
    /\ at \in 1..(IF Cold THEN 12 ELSE 10) /\ boot \in 1..MaxBoots
    /\ control \in Controls
    /\ mem \in Contracts /\ mem.boot \in 0..boot
    /\ cache \in Contracts /\ cache.boot \in -1..boot
    /\ src \in {"none", "splash", "bars", "linux"} /\ dma \in {"reset", "policy"}
    /\ image \in Images /\ kernelEnd \in Int

Bools == pwm \in BOOLEAN /\ idle \in BOOLEAN /\ route \in BOOLEAN /\ pmp \in BOOLEAN /\ alive \in BOOLEAN

\* What the steps before the given one have established in the cold profile.
ColdShape == Cold =>
    /\ mode = "entry" => at = 12
    /\ mode \in {"loader", "failing"} => (alive <=> at <= 11)
    /\ mode = "failing" => at <= 11
    /\ mode = "loader" /\ at > 2 => ~mem.magic /\ ~cache.magic
    /\ Here /\ at > 2 => ~pwm /\ control = "asserted"
    /\ Here /\ at > 5 => image.hash = "good" /\ kernelEnd <= PoolBase /\ KernelBase + image.memory <= kernelEnd
    /\ Here /\ at > 6 => idle
    /\ Here /\ at > 7 => route
    /\ Here /\ at > 8 => dma = "policy"
    /\ Here /\ at > 9 => pmp
    /\ Here /\ at > 10 => mem.boot = boot /\ cache = Empty
    /\ mode = "entry" => mem.magic /\ ~alive
    /\ src # "bars"

\* The same for the other two.
SplashShape == ~Cold =>
    /\ mode = "entry" => at = 10
    /\ Here /\ at > 4 => image.hash = "good" /\ kernelEnd <= PoolBase /\ KernelBase + image.memory <= kernelEnd
    /\ profile = "splash" /\ Here /\ at > 5 => mem = [magic |-> TRUE, boot |-> boot] /\ cache = mem /\ control = "released"
    /\ Here /\ at > 6 => route
    /\ Here /\ at > 7 => dma = "policy"
    /\ Here /\ at > 8 => pmp
    /\ Here /\ at > 9 => ~alive
    /\ src = "bars" => control = "released" /\ mode # "linux"
    /\ mode = "loader" /\ at <= 5 => src # "bars"

IInv == Types /\ Bools /\ ColdShape /\ SplashShape

-----------------------------------------------------------------------------
\* Where each step of app_main stands in the cold profile.
LEMMA ColdPlaces ==
    ASSUME Types, Cold
    PROVE  /\ at \in 1..12 /\ Len(Steps) = 12
           /\ Doing("revision") => at = 1
           /\ Doing("dark") => at = 2
           /\ Doing("prepare") => at = 3
           /\ Doing("provision") => at = 4
           /\ Doing("load") => at = 5
           /\ Doing("handoff") => at = 6
           /\ Doing("route") => at = 7
           /\ Doing("pms") => at = 8
           /\ Doing("pmp") => at = 9
           /\ Doing("stage") => at = 10
           /\ Doing("stop") => at = 11
           /\ Doing("commit") => at = 12
           /\ ~Doing("splash")
<1>1. Steps = <<"revision", "dark", "prepare", "provision", "load", "handoff", "route",
                "pms", "pmp", "stage", "stop", "commit">>
  BY Zenon DEF Steps
<1>2. at \in 1..12 /\ Len(Steps) = 12
  BY Zenon, <1>1 DEF Types
<1>3. \/ at = 1 /\ Steps[at] = "revision"
      \/ at = 2 /\ Steps[at] = "dark"
      \/ at = 3 /\ Steps[at] = "prepare"
      \/ at = 4 /\ Steps[at] = "provision"
      \/ at = 5 /\ Steps[at] = "load"
      \/ at = 6 /\ Steps[at] = "handoff"
      \/ at = 7 /\ Steps[at] = "route"
      \/ at = 8 /\ Steps[at] = "pms"
      \/ at = 9 /\ Steps[at] = "pmp"
      \/ at = 10 /\ Steps[at] = "stage"
      \/ at = 11 /\ Steps[at] = "stop"
      \/ at = 12 /\ Steps[at] = "commit"
  BY <1>1, <1>2
<1> QED BY Zenon, <1>2, <1>3 DEF Doing

\* Where each step of app_main stands in the splash profile.
LEMMA SplashPlaces ==
    ASSUME Types, ~Cold
    PROVE  /\ at \in 1..10 /\ Len(Steps) = 10
           /\ Doing("revision") => at = 1
           /\ Doing("provision") => at = 2
           /\ Doing("splash") => at = 3
           /\ Doing("load") => at = 4
           /\ Doing("handoff") => at = 5
           /\ Doing("route") => at = 6
           /\ Doing("pms") => at = 7
           /\ Doing("pmp") => at = 8
           /\ Doing("stop") => at = 9
           /\ Doing("commit") => at = 10
           /\ ~Doing("dark") /\ ~Doing("prepare") /\ ~Doing("stage")
<1>1. Steps = <<"revision", "provision", "splash", "load", "handoff", "route", "pms",
                "pmp", "stop", "commit">>
  BY Zenon DEF Steps
<1>2. at \in 1..10 /\ Len(Steps) = 10
  BY Zenon, <1>1 DEF Types
<1>3. \/ at = 1 /\ Steps[at] = "revision"
      \/ at = 2 /\ Steps[at] = "provision"
      \/ at = 3 /\ Steps[at] = "splash"
      \/ at = 4 /\ Steps[at] = "load"
      \/ at = 5 /\ Steps[at] = "handoff"
      \/ at = 6 /\ Steps[at] = "route"
      \/ at = 7 /\ Steps[at] = "pms"
      \/ at = 8 /\ Steps[at] = "pmp"
      \/ at = 9 /\ Steps[at] = "stop"
      \/ at = 10 /\ Steps[at] = "commit"
  BY <1>1, <1>2
<1> QED BY Zenon, <1>2, <1>3 DEF Doing

\* The two contracts without content.
LEMMA BlankContracts ==
    /\ None \in Contracts /\ None.boot = 0 /\ ~None.magic
    /\ Empty \in Contracts /\ Empty.boot = -1 /\ ~Empty.magic
<1>1. None \in Contracts
  BY DEF None, Contracts
<1>2. Empty \in Contracts
  BY DEF Empty, Contracts
<1>3. None.boot = 0 /\ Empty.boot = -1
  BY Zenon DEF None, Empty
<1>4. ~None.magic /\ ~Empty.magic
  BY Zenon DEF None, Empty
<1> QED BY Zenon, <1>1, <1>2, <1>3, <1>4

\* A contract with a given magic.
LEMMA WrittenContract ==
    ASSUME NEW b \in Int
    PROVE  /\ [magic |-> TRUE, boot |-> b] \in Contracts
           /\ [magic |-> FALSE, boot |-> b] \in Contracts
           /\ [magic |-> TRUE, boot |-> b].boot = b /\ [magic |-> FALSE, boot |-> b].boot = b
           /\ ~[magic |-> FALSE, boot |-> b].magic
<1>1. [magic |-> TRUE, boot |-> b] \in Contracts
  BY Zenon DEF Contracts
<1>2. [magic |-> FALSE, boot |-> b] \in Contracts
  BY Zenon DEF Contracts
<1>3. ~[magic |-> FALSE, boot |-> b].magic
  OBVIOUS
<1> QED BY Zenon, <1>1, <1>2, <1>3

\* The final write of the magic, and what it makes of a staged contract.
LEMMA CommittedContract ==
    ASSUME NEW c \in Contracts
    PROVE  /\ [c EXCEPT !.magic = TRUE] \in Contracts
           /\ [c EXCEPT !.magic = TRUE].magic
           /\ [c EXCEPT !.magic = TRUE].boot = c.boot
           /\ c.magic => c = [magic |-> TRUE, boot |-> c.boot]
<1>1. [c EXCEPT !.magic = TRUE] \in Contracts
  BY Zenon DEF Contracts
<1>2. [c EXCEPT !.magic = TRUE].magic /\ [c EXCEPT !.magic = TRUE].boot = c.boot
  BY Zenon DEF Contracts
<1>3. c.magic => c = [magic |-> TRUE, boot |-> c.boot]
  BY Zenon DEF Contracts
<1> QED BY Zenon, <1>1, <1>2, <1>3

\* Rounding up to whole cache lines (align_up) loses nothing.
LEMMA AlignUpCovers == \A n \in Sizes : AlignUp(n) \in Int /\ n <= AlignUp(n)
BY LoaderAssumption DEF Sizes, AlignUp

\* The invariant holds in every state a boot can begin in.
LEMMA InitIInv == Init => IInv
<1> SUFFICES ASSUME Init PROVE IInv
  OBVIOUS
<1>1. image \in Images
  BY LoaderAssumption DEF Init, Images, GoodImage, Sizes
<1>2. mem \in Contracts /\ mem.boot = 0
  <2>1. CASE mem = None
    BY Zenon, <2>1, BlankContracts
  <2>2. CASE mem = [magic |-> TRUE, boot |-> 0]
    BY <2>2 DEF Contracts
  <2> QED BY Zenon, <2>1, <2>2 DEF Init
<1>3. cache \in Contracts /\ cache.boot = -1
  BY Zenon, BlankContracts DEF Init
<1>4. Types
  BY <1>1, <1>2, <1>3, LoaderAssumption DEF Init, Types, Cold, Controls, Profiles
<1>5. ColdShape /\ SplashShape
  BY DEF Init, ColdShape, SplashShape, Here
<1>6. Bools
  BY Zenon DEF Init, Bools
<1> QED BY Zenon, <1>4, <1>5, <1>6 DEF IInv

\* The revision check only stops or goes on.
LEMMA CheckRevisionStep ==
    ASSUME IInv, CheckRevision
    PROVE  IInv'
<1> USE LoaderAssumption DEF IInv
<1>1. CASE Cold
  <2>1. at = 1 /\ mode = "loader" /\ profile' = profile
    BY Zenon, <1>1, ColdPlaces DEF CheckRevision, Doing
  <2>2. Types'
    BY <1>1, <2>1
    DEF Types, Controls, Cold, CheckRevision, Advance, Fail, Doing, panel, record, regs
  <2>3. ColdShape' /\ SplashShape'
    BY <1>1, <2>1, <2>2
    DEF ColdShape, SplashShape, Types, Here, Cold, CheckRevision, Advance, Fail, Doing, panel, record, regs
  <2>4. Bools'
    BY Zenon DEF Bools, CheckRevision, Advance, Fail, Doing, panel, record, regs
  <2> QED BY Zenon, <2>2, <2>3, <2>4
<1>2. CASE ~Cold
  <2>1. at = 1 /\ mode = "loader" /\ profile' = profile
    BY Zenon, <1>2, SplashPlaces DEF CheckRevision, Doing
  <2>2. Types'
    BY <1>2, <2>1
    DEF Types, Controls, Cold, CheckRevision, Advance, Fail, Doing, panel, record, regs
  <2>3. ColdShape' /\ SplashShape'
    BY <1>2, <2>1, <2>2
    DEF ColdShape, SplashShape, Types, Here, Cold, CheckRevision, Advance, Fail, Doing, panel, record, regs
  <2>4. Bools'
    BY Zenon DEF Bools, CheckRevision, Advance, Fail, Doing, panel, record, regs
  <2> QED BY Zenon, <2>2, <2>3, <2>4
<1> QED BY Zenon, <1>1, <1>2

\* After the early dark step the panel is off and no contract is valid.
LEMMA EarlyDarkStep ==
    ASSUME IInv, NEW ok \in BOOLEAN, EarlyDark(ok)
    PROVE  IInv'
<1> USE LoaderAssumption DEF IInv
<1>1. CASE Cold
  <2>1. at = 2 /\ mode = "loader"
    BY Zenon, <1>1, ColdPlaces DEF EarlyDark, Doing
  <2>2. /\ \/ mode' = mode /\ at' = at + 1 /\ mem' = None /\ ~pwm' /\ control' = "asserted"
           \/ mode' = "failing" /\ at' = at /\ mem' \in {mem, None}
              /\ control' \in {control, "released", "asserted"}
        /\ cache' = None
        /\ UNCHANGED <<profile, boot, src, idle, regs, alive, image, kernelEnd>>
    BY Zenon DEF EarlyDark, Advance, Fail, Invalidate, CommandSequence, panel
  <2>3. Types'
    BY <1>1, <2>1, <2>2, BlankContracts DEF Types, Cold, Controls, regs
  <2>4. ColdShape' /\ SplashShape'
    BY <1>1, <2>1, <2>2, BlankContracts DEF ColdShape, SplashShape, Here, Cold, regs
  <2>5. Bools'
    BY Zenon DEF Bools, EarlyDark, Invalidate, CommandSequence, panel, regs
  <2> QED BY Zenon, <2>3, <2>4, <2>5
<1>2. CASE ~Cold
  BY Zenon, <1>2, SplashPlaces DEF EarlyDark
<1> QED BY Zenon, <1>1, <1>2

\* Power for the panel, before anything is shown.
LEMMA ColdPrepareStep ==
    ASSUME IInv, ColdPrepare
    PROVE  IInv'
<1> USE LoaderAssumption DEF IInv
<1>1. CASE Cold
  <2>1. at = 3 /\ mode = "loader" /\ profile' = profile
    BY Zenon, <1>1, ColdPlaces DEF ColdPrepare, Doing
  <2>2. Types'
    BY <1>1, <2>1
    DEF Types, Controls, Cold, ColdPrepare, Advance, Fail, Doing, panel, record, regs
  <2>3. ColdShape' /\ SplashShape'
    BY <1>1, <2>1, <2>2
    DEF ColdShape, SplashShape, Types, Here, Cold, ColdPrepare, Advance, Fail, Doing, panel, record, regs
  <2>4. Bools'
    BY Zenon DEF Bools, ColdPrepare, Advance, Fail, Doing, panel, record, regs
  <2> QED BY Zenon, <2>2, <2>3, <2>4
<1>2. CASE ~Cold
  BY Zenon, <1>2, SplashPlaces DEF ColdPrepare
<1> QED BY Zenon, <1>1, <1>2

\* Provisioning leaves panel, contract and registers alone.
LEMMA ProvisionStep ==
    ASSUME IInv, Provision
    PROVE  IInv'
<1> USE LoaderAssumption DEF IInv
<1>1. CASE Cold
  <2>1. at = 4 /\ mode = "loader" /\ profile' = profile
    BY Zenon, <1>1, ColdPlaces DEF Provision, Doing
  <2>2. Types'
    BY <1>1, <2>1
    DEF Types, Controls, Cold, Provision, Advance, Fail, Doing, panel, record, regs
  <2>3. ColdShape' /\ SplashShape'
    BY <1>1, <2>1, <2>2
    DEF ColdShape, SplashShape, Types, Here, Cold, Provision, Advance, Fail, Doing, panel, record, regs
  <2>4. Bools'
    BY Zenon DEF Bools, Provision, Advance, Fail, Doing, panel, record, regs
  <2> QED BY Zenon, <2>2, <2>3, <2>4
<1>2. CASE ~Cold
  <2>1. at = 2 /\ mode = "loader" /\ profile' = profile
    BY Zenon, <1>2, SplashPlaces DEF Provision, Doing
  <2>2. Types'
    BY <1>2, <2>1
    DEF Types, Controls, Cold, Provision, Advance, Fail, Doing, panel, record, regs
  <2>3. ColdShape' /\ SplashShape'
    BY <1>2, <2>1, <2>2
    DEF ColdShape, SplashShape, Types, Here, Cold, Provision, Advance, Fail, Doing, panel, record, regs
  <2>4. Bools'
    BY Zenon DEF Bools, Provision, Advance, Fail, Doing, panel, record, regs
  <2> QED BY Zenon, <2>2, <2>3, <2>4
<1> QED BY Zenon, <1>1, <1>2

\* The splash never shows the bars.
LEMMA ShowSplashStep ==
    ASSUME IInv, ShowSplash
    PROVE  IInv'
<1> USE LoaderAssumption DEF IInv
<1>1. CASE Cold
  BY Zenon, <1>1, ColdPlaces DEF ShowSplash
<1>2. CASE ~Cold
  <2>1. at = 3 /\ mode = "loader"
    BY Zenon, <1>2, SplashPlaces DEF ShowSplash, Doing
  <2>2. /\ (mode' = mode /\ at' = at + 1) \/ (mode' = "failing" /\ at' = at)
        /\ src' \in {"none", "splash", src} /\ control' \in {control, "released", "asserted", "reveal"}
        /\ UNCHANGED <<profile, boot, idle, record, regs, alive, image, kernelEnd>>
    <3>1. UNCHANGED <<profile, boot, idle, record, regs, alive, image, kernelEnd>>
      BY Zenon DEF ShowSplash, Advance, Fail
    <3>2. (mode' = mode /\ at' = at + 1) \/ (mode' = "failing" /\ at' = at)
      BY Zenon DEF ShowSplash, Advance, Fail
    <3>3. src' \in {"none", "splash", src}
      BY Zenon DEF ShowSplash
    <3>4. control' \in {control, "released", "asserted", "reveal"}
      BY Zenon DEF ShowSplash
    <3> QED BY Zenon, <3>1, <3>2, <3>3, <3>4
  <2>3. src' # "bars"
    BY <1>2, <2>1, <2>2 DEF SplashShape
  <2>4. Types'
    BY <1>2, <2>1, <2>2 DEF Types, Cold, Controls, regs, record
  <2>5. ColdShape' /\ SplashShape'
    BY <1>2, <2>1, <2>2, <2>3 DEF ColdShape, SplashShape, Here, Cold, regs, record
  <2>6. Bools'
    BY Zenon DEF Bools, ShowSplash, regs
  <2> QED BY Zenon, <2>4, <2>5, <2>6
<1> QED BY Zenon, <1>1, <1>2

\* Without a display nothing is written.
LEMMA NoDisplayStep ==
    ASSUME IInv, NoDisplay
    PROVE  IInv'
<1> USE DEF IInv
<1>1. profile = "off" /\ ~Cold /\ profile' = profile
  BY Zenon DEF NoDisplay, Cold
<1>2. at \in {3, 5} /\ mode = "loader"
  BY Zenon, <1>1, SplashPlaces DEF NoDisplay, Doing
<1>3. Types'
  BY <1>1, <1>2 DEF Types, Controls, Cold, NoDisplay, Advance, panel, record, regs
<1>4. ColdShape' /\ SplashShape'
  BY <1>1, <1>2, <1>3
  DEF ColdShape, SplashShape, Types, Here, Cold, NoDisplay, Advance, panel, record, regs
<1>5. Bools'
  BY Zenon DEF Bools, NoDisplay, panel, regs
<1> QED BY Zenon, <1>3, <1>4, <1>5

\* A payload that is accepted ends below the pool.
LEMMA LoadStep ==
    ASSUME IInv, Load
    PROVE  IInv'
<1> USE LoaderAssumption DEF IInv
<1>1. CASE Cold
  <2>1. at = 5 /\ mode = "loader" /\ profile' = profile
    BY Zenon, <1>1, ColdPlaces DEF Load, Doing
  <2>2. Types'
    BY <1>1, <2>1, AlignUpCovers
    DEF Types, Controls, Cold, Load, Advance, Fail, Doing, panel, record, regs, ManifestOk, Images
  <2>3. KernelBase + image.memory <= kernelEnd'
    BY AlignUpCovers, LoaderAssumption DEF Load, Types, Images, Sizes
  <2>4. ColdShape' /\ SplashShape'
    BY <1>1, <2>1, <2>3
    DEF ColdShape, SplashShape, Here, Cold, Load, Advance, Fail, panel, record, regs
  <2>5. Bools'
    BY Zenon DEF Bools, Load, Advance, Fail, Doing, panel, record, regs, ManifestOk, Images
  <2> QED BY Zenon, <2>2, <2>4, <2>5
<1>2. CASE ~Cold
  <2>1. at = 4 /\ mode = "loader" /\ profile' = profile
    BY Zenon, <1>2, SplashPlaces DEF Load, Doing
  <2>2. Types'
    BY <1>2, <2>1, AlignUpCovers
    DEF Types, Controls, Cold, Load, Advance, Fail, Doing, panel, record, regs, ManifestOk, Images
  <2>3. KernelBase + image.memory <= kernelEnd'
    BY AlignUpCovers, LoaderAssumption DEF Load, Types, Images, Sizes
  <2>4. ColdShape' /\ SplashShape'
    BY <1>2, <2>1, <2>3
    DEF ColdShape, SplashShape, Here, Cold, Load, Advance, Fail, panel, record, regs
  <2>5. Bools'
    BY Zenon DEF Bools, Load, Advance, Fail, Doing, panel, record, regs, ManifestOk, Images
  <2> QED BY Zenon, <2>2, <2>4, <2>5
<1> QED BY Zenon, <1>1, <1>2

\* The cold handoff verifies that the display is idle.
LEMMA ColdHandoffStep ==
    ASSUME IInv, ColdHandoff
    PROVE  IInv'
<1> USE LoaderAssumption DEF IInv
<1>1. CASE Cold
  <2>1. at = 6 /\ mode = "loader" /\ profile' = profile
    BY Zenon, <1>1, ColdPlaces DEF ColdHandoff, Doing
  <2>2. Types'
    BY <1>1, <2>1
    DEF Types, Controls, Cold, ColdHandoff, Advance, Fail, Doing, panel, record, regs, StateMatches
  <2>3. ColdShape' /\ SplashShape'
    BY <1>1, <2>1, <2>2
    DEF ColdShape, SplashShape, Types, Here, Cold, ColdHandoff, Advance, Fail, Doing, panel, record, regs, StateMatches
  <2>4. Bools'
    BY Zenon DEF Bools, ColdHandoff, Advance, Fail, Doing, panel, record, regs, StateMatches
  <2> QED BY Zenon, <2>2, <2>3, <2>4
<1>2. CASE ~Cold
  BY Zenon, <1>2 DEF ColdHandoff
<1> QED BY Zenon, <1>1, <1>2

\* The splash handoff publishes the contract of this boot with the gate closed.
LEMMA SplashHandoffStep ==
    ASSUME IInv, SplashHandoff
    PROVE  IInv'
<1> USE LoaderAssumption DEF IInv
<1>1. CASE Cold
  BY Zenon, <1>1 DEF SplashHandoff, Cold
<1>2. CASE ~Cold
  <2> DEFINE contract == [magic |-> TRUE, boot |-> boot]
  <2>1. at = 5 /\ mode = "loader"
    BY Zenon, <1>2, SplashPlaces DEF SplashHandoff, Doing
  <2>2. /\ \/ /\ mode' = mode /\ at' = at + 1 /\ src' = "bars" /\ control' = "released"
              /\ cache' = contract /\ mem' = contract
           \/ /\ mode' = "failing" /\ at' = at /\ cache' \in {cache, contract} /\ mem' = mem
              /\ \/ src' = src /\ control' \in {control, "released"}
                 \/ src' \in {src, "bars"} /\ control' = "released"
        /\ UNCHANGED <<profile, boot, idle, regs, alive, image, kernelEnd>>
    BY <1>2, <2>1, Zenon DEF SplashHandoff, Advance, Fail, GateOff, record
  <2>3. boot \in Int
    BY DEF Types
  <2>4. contract \in Contracts /\ contract.boot = boot
    BY Zenon, <2>3, WrittenContract
  <2> HIDE DEF contract
  <2>5. Types'
    BY <1>2, <2>1, <2>2, <2>4 DEF Types, Cold, Controls, regs
  <2>6. ColdShape' /\ SplashShape'
    <3>1. ColdShape'
      BY Zenon, <1>2, <2>2 DEF ColdShape, Cold
    <3>2. CASE mode' = mode
      <4>1. mem' = [magic |-> TRUE, boot |-> boot'] /\ cache' = mem'
        BY Zenon, <2>1, <2>2, <3>2 DEF contract
      <4>2. /\ image' = image /\ kernelEnd' = kernelEnd /\ profile' = profile
            /\ at' = 6 /\ mode' = "loader" /\ control' = "released"
        BY <2>1, <2>2, <3>2
      <4> QED BY <1>2, <2>1, <3>1, <4>1, <4>2 DEF SplashShape, Here, Cold
    <3>3. CASE mode' = "failing"
      <4>1. src # "bars"
        BY <1>2, <2>1 DEF SplashShape
      <4>2. src' = "bars" => control' = "released"
        BY Zenon, <2>1, <2>2, <3>3, <4>1
      <4>3. profile' = profile
        BY Zenon, <2>2
      <4> QED BY Zenon, <1>2, <3>1, <3>3, <4>2, <4>3 DEF SplashShape, Here, Cold
    <3> QED BY Zenon, <2>2, <3>1, <3>2, <3>3
  <2>7. Bools'
    BY Zenon DEF Bools, SplashHandoff, GateOff, regs
  <2> QED BY Zenon, <2>5, <2>6, <2>7
<1> QED BY Zenon, <1>1, <1>2

\* The interrupt route is verified.
LEMMA RouteStep ==
    ASSUME IInv, Route
    PROVE  IInv'
<1> USE LoaderAssumption DEF IInv
<1>1. CASE Cold
  <2>1. at = 7 /\ mode = "loader" /\ profile' = profile
    BY Zenon, <1>1, ColdPlaces DEF Route, Doing
  <2>2. Types'
    BY <1>1, <2>1 DEF Types, Controls, Cold, Route, Advance, Fail, Doing, panel, record, regs
  <2>3. ColdShape' /\ SplashShape'
    BY <1>1, <2>1, <2>2
    DEF ColdShape, SplashShape, Types, Here, Cold, Route, Advance, Fail, Doing, panel, record, regs
  <2>4. Bools'
    BY Zenon DEF Bools, Route, Advance, Fail, Doing, panel, record, regs
  <2> QED BY Zenon, <2>2, <2>3, <2>4
<1>2. CASE ~Cold
  <2>1. at = 6 /\ mode = "loader" /\ profile' = profile
    BY Zenon, <1>2, SplashPlaces DEF Route, Doing
  <2>2. Types'
    BY <1>2, <2>1 DEF Types, Controls, Cold, Route, Advance, Fail, Doing, panel, record, regs
  <2>3. ColdShape' /\ SplashShape'
    BY <1>2, <2>1, <2>2
    DEF ColdShape, SplashShape, Types, Here, Cold, Route, Advance, Fail, Doing, panel, record, regs
  <2>4. Bools'
    BY Zenon DEF Bools, Route, Advance, Fail, Doing, panel, record, regs
  <2> QED BY Zenon, <2>2, <2>3, <2>4
<1> QED BY Zenon, <1>1, <1>2

\* The DMA permissions are verified.
LEMMA DmaPmsStep ==
    ASSUME IInv, DmaPms
    PROVE  IInv'
<1> USE LoaderAssumption DEF IInv
<1>1. CASE Cold
  <2>1. at = 8 /\ mode = "loader" /\ profile' = profile
    BY Zenon, <1>1, ColdPlaces DEF DmaPms, Doing
  <2>2. Types'
    BY <1>1, <2>1 DEF Types, Controls, Cold, DmaPms, Advance, Fail, Doing, panel, record, regs
  <2>3. ColdShape' /\ SplashShape'
    BY <1>1, <2>1, <2>2
    DEF ColdShape, SplashShape, Types, Here, Cold, DmaPms, Advance, Fail, Doing, panel, record, regs
  <2>4. Bools'
    BY Zenon DEF Bools, DmaPms, Advance, Fail, Doing, panel, record, regs
  <2> QED BY Zenon, <2>2, <2>3, <2>4
<1>2. CASE ~Cold
  <2>1. at = 7 /\ mode = "loader" /\ profile' = profile
    BY Zenon, <1>2, SplashPlaces DEF DmaPms, Doing
  <2>2. Types'
    BY <1>2, <2>1 DEF Types, Controls, Cold, DmaPms, Advance, Fail, Doing, panel, record, regs
  <2>3. ColdShape' /\ SplashShape'
    BY <1>2, <2>1, <2>2
    DEF ColdShape, SplashShape, Types, Here, Cold, DmaPms, Advance, Fail, Doing, panel, record, regs
  <2>4. Bools'
    BY Zenon DEF Bools, DmaPms, Advance, Fail, Doing, panel, record, regs
  <2> QED BY Zenon, <2>2, <2>3, <2>4
<1> QED BY Zenon, <1>1, <1>2

\* The PMP window is verified.
LEMMA PmpWindowStep ==
    ASSUME IInv, PmpWindow
    PROVE  IInv'
<1> USE LoaderAssumption DEF IInv
<1>1. CASE Cold
  <2>1. at = 9 /\ mode = "loader" /\ profile' = profile
    BY Zenon, <1>1, ColdPlaces DEF PmpWindow, Doing
  <2>2. Types'
    BY <1>1, <2>1
    DEF Types, Controls, Cold, PmpWindow, Advance, Fail, Doing, panel, record, regs
  <2>3. ColdShape' /\ SplashShape'
    BY <1>1, <2>1, <2>2
    DEF ColdShape, SplashShape, Types, Here, Cold, PmpWindow, Advance, Fail, Doing, panel, record, regs
  <2>4. Bools'
    BY Zenon DEF Bools, PmpWindow, Advance, Fail, Doing, panel, record, regs
  <2> QED BY Zenon, <2>2, <2>3, <2>4
<1>2. CASE ~Cold
  <2>1. at = 8 /\ mode = "loader" /\ profile' = profile
    BY Zenon, <1>2, SplashPlaces DEF PmpWindow, Doing
  <2>2. Types'
    BY <1>2, <2>1
    DEF Types, Controls, Cold, PmpWindow, Advance, Fail, Doing, panel, record, regs
  <2>3. ColdShape' /\ SplashShape'
    BY <1>2, <2>1, <2>2
    DEF ColdShape, SplashShape, Types, Here, Cold, PmpWindow, Advance, Fail, Doing, panel, record, regs
  <2>4. Bools'
    BY Zenon DEF Bools, PmpWindow, Advance, Fail, Doing, panel, record, regs
  <2> QED BY Zenon, <2>2, <2>3, <2>4
<1> QED BY Zenon, <1>1, <1>2

\* The staged contract has the content of this boot and no magic.
LEMMA ColdStageStep ==
    ASSUME IInv, ColdStage
    PROVE  IInv'
<1> USE LoaderAssumption DEF IInv
<1>1. CASE Cold
  <2>1. at = 10 /\ mode = "loader"
    BY Zenon, <1>1, ColdPlaces DEF ColdStage, Doing
  <2> DEFINE staged == [magic |-> FALSE, boot |-> boot]
  <2>2. /\ \/ mode' = "loader" /\ at' = 11 /\ mem' = staged /\ cache' = Empty
           \/ mode' = "failing" /\ at' = 10 /\ mem' = mem /\ cache' \in {cache, staged}
        /\ UNCHANGED <<profile, boot, panel, src, idle, regs, alive, image, kernelEnd>>
    BY <2>1 DEF ColdStage, Advance, Fail
  <2>3. boot \in Int
    BY DEF Types
  <2>4. staged \in Contracts /\ staged.boot = boot /\ ~staged.magic
    BY Zenon, <2>3, WrittenContract
  <2> HIDE DEF staged
  <2>5. Types'
    BY <1>1, <2>1, <2>2, <2>4, BlankContracts DEF Types, Cold, Controls, regs, panel
  <2>6. ColdShape' /\ SplashShape'
    BY <1>1, <2>1, <2>2, <2>4, BlankContracts
    DEF ColdShape, SplashShape, Here, Cold, regs, panel
  <2>7. Bools'
    BY Zenon DEF Bools, ColdStage, regs, panel
  <2> QED BY Zenon, <2>5, <2>6, <2>7
<1>2. CASE ~Cold
  BY Zenon, <1>2, SplashPlaces DEF ColdStage
<1> QED BY Zenon, <1>1, <1>2

\* After this step fail() can do nothing any more.
LEMMA StopRuntimeStep ==
    ASSUME IInv, StopRuntime
    PROVE  IInv'
<1> USE LoaderAssumption DEF IInv
<1>1. CASE Cold
  <2>1. at = 11 /\ mode = "loader" /\ profile' = profile
    BY Zenon, <1>1, ColdPlaces DEF StopRuntime, Doing
  <2>2. Types'
    BY <1>1, <2>1
    DEF Types, Controls, Cold, StopRuntime, Advance, Fail, Doing, panel, record, regs
  <2>3. ColdShape' /\ SplashShape'
    BY <1>1, <2>1, <2>2
    DEF ColdShape, SplashShape, Types, Here, Cold, StopRuntime, Advance, Fail, Doing, panel, record, regs
  <2>4. Bools'
    BY Zenon DEF Bools, StopRuntime, Advance, Fail, Doing, panel, record, regs
  <2> QED BY Zenon, <2>2, <2>3, <2>4
<1>2. CASE ~Cold
  <2>1. at = 9 /\ mode = "loader" /\ profile' = profile
    BY Zenon, <1>2, SplashPlaces DEF StopRuntime, Doing
  <2>2. Types'
    BY <1>2, <2>1
    DEF Types, Controls, Cold, StopRuntime, Advance, Fail, Doing, panel, record, regs
  <2>3. ColdShape' /\ SplashShape'
    BY <1>2, <2>1, <2>2
    DEF ColdShape, SplashShape, Types, Here, Cold, StopRuntime, Advance, Fail, Doing, panel, record, regs
  <2>4. Bools'
    BY Zenon DEF Bools, StopRuntime, Advance, Fail, Doing, panel, record, regs
  <2> QED BY Zenon, <2>2, <2>3, <2>4
<1> QED BY Zenon, <1>1, <1>2

\* The magic is written to a contract that is already in memory.
LEMMA CommitStep ==
    ASSUME IInv, Commit
    PROVE  IInv'
<1> USE LoaderAssumption DEF IInv
<1>1. CASE Cold
  <2>1. at = 12 /\ mode = "loader"
    BY Zenon, <1>1, ColdPlaces DEF Commit, Doing
  <2>2. /\ mode' = "entry" /\ mem' = [mem EXCEPT !.magic = TRUE]
        /\ UNCHANGED <<profile, at, boot, panel, src, idle, cache, regs, alive, image, kernelEnd>>
    BY Zenon, <1>1 DEF Commit
  <2>3. mem' \in Contracts /\ mem'.boot = mem.boot /\ mem'.magic
    BY Zenon, <2>2, CommittedContract DEF Types
  <2>4. Types'
    BY Zenon, <1>1, <2>1, <2>2, <2>3 DEF Types, Cold, regs, panel
  <2>5. ColdShape' /\ SplashShape'
    BY <1>1, <2>1, <2>2, <2>3 DEF ColdShape, SplashShape, Here, Cold, regs, panel
  <2>6. Bools'
    BY Zenon DEF Bools, Commit, regs, panel
  <2> QED BY Zenon, <2>4, <2>5, <2>6
<1>2. CASE ~Cold
  <2>1. at = 10 /\ mode = "loader" /\ profile' = profile
    BY Zenon, <1>2, SplashPlaces DEF Commit, Doing
  <2>2. Types'
    BY Zenon, <1>2, <2>1
    DEF Types, Controls, Cold, Commit, Advance, Fail, Doing, panel, record, regs, Empty
  <2>3. ColdShape' /\ SplashShape'
    BY Zenon, <1>2, <2>1, <2>2
    DEF ColdShape, SplashShape, Types, Here, Cold, Commit, Advance, Fail, Doing, panel, record, regs, Empty
  <2>4. Bools'
    BY Zenon DEF Bools, Commit, Advance, Fail, Doing, panel, record, regs, Empty
  <2> QED BY Zenon, <2>2, <2>3, <2>4
<1> QED BY Zenon, <1>1, <1>2

\* fail() only makes the panel darker and drops the contract.
LEMMA FailCleanupStep ==
    ASSUME IInv, NEW ok \in BOOLEAN, NEW done \in BOOLEAN, FailCleanup(ok, done)
    PROVE  IInv'
<1> USE DEF IInv
<1>1. /\ mode = "failing" /\ mode' = "reset"
      /\ mem' \in {mem, None} /\ cache' \in {cache, None}
      /\ ~Cold => control' = control
      /\ control' \in {control, "released", "asserted"}
      /\ UNCHANGED <<profile, at, boot, src, idle, regs, alive, image, kernelEnd>>
  BY Zenon DEF FailCleanup, Invalidate, CommandSequence, panel, record
<1>2. Types'
  BY <1>1, BlankContracts DEF Types, Cold, Controls, regs
<1>3. ColdShape' /\ SplashShape'
  BY Zenon, <1>1 DEF ColdShape, SplashShape, Here, Cold
<1>4. Bools'
  BY Zenon DEF Bools, FailCleanup, CommandSequence, panel, regs
<1> QED BY Zenon, <1>2, <1>3, <1>4

\* Linux, a crash and a reset.
LEMMA WorldStep ==
    ASSUME IInv, LinuxRuns \/ Crash \/ Reset
    PROVE  IInv'
<1> USE DEF IInv
<1>1. CASE LinuxRuns
  <2>1. Types'
    BY Zenon, <1>1 DEF LinuxRuns, Types, Cold, Controls, record, regs
  <2>2. ColdShape' /\ SplashShape'
    BY Zenon, <1>1 DEF LinuxRuns, ColdShape, SplashShape, Here, Cold
  <2>3. Bools'
    BY <1>1, Zenon DEF LinuxRuns, Bools, regs
  <2> QED BY Zenon, <2>1, <2>2, <2>3
<1>2. CASE Crash
  <2>1. Types'
    BY Zenon, <1>2 DEF Crash, Types, Cold, Controls, record, regs, panel
  <2>2. ColdShape' /\ SplashShape'
    BY Zenon, <1>2 DEF Crash, ColdShape, SplashShape, Here, Cold, panel
  <2>3. Bools'
    BY <1>2, Zenon DEF Crash, Bools, regs, panel
  <2> QED BY Zenon, <2>1, <2>2, <2>3
<1>3. CASE Reset
  <2>1. Types'
    BY <1>3, BlankContracts, LoaderAssumption DEF Reset, Types, Cold, Controls, Profiles, panel
  <2>2. ColdShape' /\ SplashShape'
    BY <1>3 DEF Reset, ColdShape, SplashShape, Here, Cold
  <2>3. Bools'
    BY <1>3, Zenon DEF Reset, Bools, panel
  <2> QED BY Zenon, <2>1, <2>2, <2>3
<1> QED BY Zenon, <1>1, <1>2, <1>3

\* A stutter.
LEMMA StutterStep == ASSUME IInv, UNCHANGED vars PROVE IInv'
BY DEF IInv, vars, panel, record, regs, Types, Bools, ColdShape, SplashShape, Here, Cold

\* The loader's invariant holds after any number of boots.
THEOREM LoaderInvariant == Spec => []IInv
<1>1. IInv /\ [Next]_vars => IInv'
  BY Zenon, CheckRevisionStep, EarlyDarkStep, ColdPrepareStep, ProvisionStep, ShowSplashStep,
     NoDisplayStep, LoadStep, ColdHandoffStep, SplashHandoffStep, RouteStep, DmaPmsStep, PmpWindowStep,
     ColdStageStep, StopRuntimeStep, CommitStep, FailCleanupStep, WorldStep, StutterStep
  DEF Next, AppMain
<1> QED BY InitIInv, <1>1, PTL DEF Spec

\* A Linux that is handed a display finds the contract of this boot, whatever
\* earlier boots left in PSRAM and whatever the cache holds (micronux_mipi_dsi_cold_stage, cold_commit,
\* micronux_mipi_dsi_handoff).
THEOREM ContractIsCurrentHolds == Spec => []ContractIsCurrent
<1>1. IInv => ContractIsCurrent
  <2> SUFFICES ASSUME IInv, mode = "entry", profile # "off"
               PROVE  Seen = [magic |-> TRUE, boot |-> boot]
    BY Zenon DEF ContractIsCurrent
  <2>1. CASE Cold
    <3>1. at = 12 /\ mem.magic /\ mem.boot = boot /\ cache = Empty
      BY <2>1 DEF IInv, ColdShape, Here
    <3>2. mem = [magic |-> TRUE, boot |-> boot]
      BY Zenon, <3>1, CommittedContract DEF IInv, Types
    <3> QED BY Zenon, <3>1, <3>2 DEF Seen
  <2>2. CASE ~Cold
    <3>1. profile = "splash"
      BY Zenon, <2>2 DEF IInv, Types, Cold
    <3> QED BY <2>2, <3>1 DEF IInv, SplashShape, Here, Seen
  <2> QED BY Zenon, <2>1, <2>2
<1> QED BY <1>1, LoaderInvariant, PTL

\* In the cold profile no contract is valid between the early dark step and the
\* commit (micronux_mipi_dsi_cold_early_dark).
THEOREM NoEarlyContractHolds == Spec => []NoEarlyContract
<1>1. IInv => NoEarlyContract
  BY Zenon DEF IInv, ColdShape, Here, NoEarlyContract, Seen
<1> QED BY <1>1, LoaderInvariant, PTL

\* What Linux relies on is so when it is entered, for every payload, every place
\* of kernel and pool, and whatever register does not take what is written
\* (app_main).
THEOREM HandoffIsTrueHolds == Spec => []HandoffIsTrue
<1>1. IInv => TypeOK
  <2> SUFFICES ASSUME IInv PROVE TypeOK
    OBVIOUS
  <2>1. at \in 1..Len(Steps)
    BY Zenon, ColdPlaces, SplashPlaces DEF IInv
  <2>2. {pwm, idle, route, pmp, alive} \subseteq BOOLEAN
    BY Zenon DEF IInv, Bools
  <2> QED BY Zenon, <2>1, <2>2 DEF IInv, Types, TypeOK, Profiles
<1>2. IInv => HandoffIsTrue
  <2> SUFFICES ASSUME IInv PROVE HandoffIsTrue
    OBVIOUS
  <2>1. src = "bars" => ~Lit
    BY Zenon DEF IInv, ColdShape, SplashShape, Lit
  <2>2. CASE mode = "entry" /\ Cold
    BY <1>1, <2>1, <2>2 DEF IInv, ColdShape, Here, Lit, HandoffIsTrue
  <2>3. CASE mode = "entry" /\ ~Cold
    <3>1. profile # "off" => ~Lit
      <4>1. profile # "off" => profile = "splash"
        BY Zenon, <2>3 DEF IInv, Types, Cold
      <4>2. at > 5
        BY <2>3 DEF IInv, SplashShape
      <4>3. profile = "splash" => control = "released"
        BY Zenon, <2>3, <4>2 DEF IInv, SplashShape, Here
      <4> QED BY Zenon, <4>1, <4>3 DEF Lit
    <3> QED BY <1>1, <2>1, <2>3, <3>1 DEF IInv, SplashShape, Here, HandoffIsTrue
  <2> QED BY Zenon, <1>1, <2>1, <2>2, <2>3 DEF HandoffIsTrue
<1> QED BY <1>2, LoaderInvariant, PTL

\* In the cold profile fail() always has the runtime it needs.
THEOREM CleanupCanRunHolds == Spec => []CleanupCanRun
<1>1. IInv => CleanupCanRun
  BY Zenon DEF IInv, ColdShape, Types, CleanupCanRun
<1> QED BY <1>1, LoaderInvariant, PTL
=============================================================================

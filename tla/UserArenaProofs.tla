--------------------------- MODULE UserArenaProofs ---------------------------
(***************************************************************************)
(* The user arenas, for every pool size and every set of mms: the          *)
(* inductive invariant, the isolation of the mms that follows from it, the *)
(* two results about steps, that arenas only grow and that they implement  *)
(* the page pool, and the counters of /proc/micronux_user_pool.            *)
(*                                                                         *)
(* The argument: IInv describes each mm by the phase of the kernel's work  *)
(* on it.  Every action changes the state of one mm only (Same, Frame), so *)
(* its lemma shows what it does to that mm and to the owner table.         *)
(***************************************************************************)
EXTENDS UserArena, TLAPS

\* The step leaves the arena and the context of k alone.
Same(k) ==
  /\ live'[k] = live[k] /\ first'[k] = first[k]
  /\ reservedPages'[k] = reservedPages[k] /\ mapped'[k] = mapped[k]
  /\ userArena'[k] = userArena[k] /\ boundsValid'[k] = boundsValid[k]
  /\ userLo'[k] = userLo[k] /\ userHi'[k] = userHi[k]
  /\ phase'[k] = phase[k] /\ pending'[k] = pending[k]

\* The step stores nothing but zeroes in the pool.
OnlyWipes == \A p \in Pages : residue'[p] \in {residue[p], NoMM}

\* The types of one mm's fields.
LEMMA FieldTypes ==
  ASSUME TypeOK, NEW m \in MM
  PROVE  /\ live[m] \in BOOLEAN /\ first[m] \in Nat /\ reservedPages[m] \in Nat
         /\ mapped[m] \in SUBSET Nat /\ mappedPages[m] \in Int
         /\ userArena[m] \in BOOLEAN /\ boundsValid[m] \in BOOLEAN
         /\ userLo[m] \in Nat /\ userHi[m] \in Nat /\ phase[m] \in Phases
         /\ pending[m].start \in Nat /\ pending[m].n \in Nat
         /\ pending[m].expanded \in BOOLEAN
BY Zenon DEF TypeOK

\* The initial state satisfies the invariant.
LEMMA InitIInv == Init => IInv
<1> SUFFICES ASSUME Init PROVE IInv
  OBVIOUS
<1>1. TypeOK
  BY PoolAssumption DEF Init, TypeOK, NoPending, Phases
<1>2. OwnerIsArena
  BY Zenon, PoolAssumption DEF Init, OwnerIsArena
<1>3. WindowClean
  BY Zenon DEF Init, WindowClean, Window
<1>4. ASSUME NEW m \in MM PROVE Shape(m) /\ Zeroed(m)
  BY Zenon DEF Init, Shape, PhaseShape, ArenaShape, PendingShape, BoundsShape, Zeroed
<1> QED
  BY Zenon, <1>1, <1>2, <1>3, <1>4 DEF IInv

\* The published bounds lie inside the arena, whose pages name their owner.
LEMMA WindowPages ==
  ASSUME IInv, NEW k \in MM, NEW p \in Window(k)
  PROVE  /\ p \in Pages /\ owner[p] = k
         /\ boundsValid[k] /\ userLo[k] <= p /\ p < userHi[k]
<1>0. TypeOK /\ OwnerIsArena /\ PhaseShape(k) /\ ArenaShape(k) /\ PendingShape(k) /\ BoundsShape(k)
  BY Zenon DEF IInv, Shape
<1>1. boundsValid[k] /\ p \in userLo[k]..(userHi[k] - 1)
  BY Zenon DEF Window
<1>2. live[k]
  BY Zenon, <1>0, <1>1 DEF TypeOK, PhaseShape, Phases
<1>3. p \in Nat /\ userLo[k] <= p /\ p < userHi[k]
  BY <1>0, <1>1, FieldTypes
<1>4. userLo[k] = first[k] /\ userHi[k] <= first[k] + reservedPages[k]
  BY <1>0, <1>1, FieldTypes DEF BoundsShape, PendingShape, Growing
<1>5. p \in Pages /\ p \in Span(first[k], reservedPages[k])
  BY <1>0, <1>2, <1>3, <1>4, PoolAssumption, FieldTypes DEF ArenaShape, Pages, Span
<1> QED
  BY Zenon, <1>0, <1>1, <1>2, <1>3, <1>5 DEF OwnerIsArena

\* An mm that a step does not touch keeps its shape, and its pages stay zeroed.
LEMMA SameShape ==
  ASSUME NEW k \in MM, Same(k), Shape(k)
  PROVE  Shape(k)' /\ Window(k)' = Window(k)
BY Zenon DEF Same, Shape, PhaseShape, ArenaShape, PendingShape, BoundsShape, Growing, Window

LEMMA SameZeroed ==
  ASSUME NEW k \in MM, Same(k), OnlyWipes, Zeroed(k)
  PROVE  Zeroed(k)'
BY Zenon DEF Same, OnlyWipes, Zeroed

\* A window that does not grow stays clean when nothing but zeroes is stored.
LEMMA CleanWindow ==
  ASSUME IInv, NEW k \in MM, OnlyWipes, Window(k)' \subseteq Window(k)
  PROVE  \A p \in Window(k)' : residue'[p] \in {NoMM, k}
<1>1. \A p \in Window(k) : p \in Pages /\ residue[p] \in {NoMM, k}
  BY Zenon, WindowPages DEF IInv, WindowClean
<1> QED
  BY Zenon, <1>1 DEF OnlyWipes

\* What is left to show of a step on behalf of m that stores nothing in the pool.
LEMMA Frame ==
  ASSUME IInv, NEW m \in MM, OnlyWipes,
         \A k \in MM \ {m} : Same(k),
         TypeOK', OwnerIsArena', Shape(m)', Zeroed(m)',
         \A p \in Window(m)' : residue'[p] \in {NoMM, m}
  PROVE  IInv'
<1>1. ASSUME NEW k \in MM \ {m}
      PROVE  /\ Shape(k)' /\ Zeroed(k)'
             /\ \A p \in Window(k)' : residue'[p] \in {NoMM, k}
  <2>1. Shape(k)' /\ Window(k)' = Window(k)
    BY Zenon, SameShape DEF IInv
  <2>2. Zeroed(k)'
    BY Zenon, SameZeroed DEF IInv
  <2> QED
    BY Zenon, <2>1, <2>2, CleanWindow
<1>2. WindowClean'
  BY Zenon, <1>1 DEF WindowClean
<1> QED
  BY Zenon, <1>1, <1>2 DEF IInv

-----------------------------------------------------------------------------
\* A new mm has no arena and no bounds.
LEMMA InitNewContextIInv ==
  ASSUME IInv, NEW m \in MM, InitNewContext(m)
  PROVE  IInv'
<1>0. TypeOK /\ OwnerIsArena /\ Shape(m) /\ Zeroed(m)
  BY Zenon DEF IInv
<1> USE DEF InitNewContext, Goto, pool, arena, context
<1>1. TypeOK'
  BY Zenon, <1>0, PoolAssumption DEF TypeOK, Phases, NoPending
<1>2. \A k \in MM \ {m} : Same(k)
  BY Zenon, <1>0 DEF TypeOK, Same
<1>3. OwnerIsArena'
  BY Zenon, <1>0 DEF OwnerIsArena
<1>4. Shape(m)'
  BY Zenon, <1>0, FieldTypes DEF TypeOK, Shape, PhaseShape, ArenaShape, PendingShape, BoundsShape, Growing, NoPending
<1>5. OnlyWipes
  BY Zenon, <1>0 DEF TypeOK, OnlyWipes
<1>6. Zeroed(m)'
  BY Zenon, <1>0 DEF TypeOK, Zeroed, NoPending
<1>7. \A p \in Window(m)' : residue'[p] \in {NoMM, m}
  <2>1. Window(m)' \subseteq Window(m)
    BY Zenon, <1>0 DEF TypeOK, Window
  <2> QED
    BY Zenon, <2>1, <1>5, CleanWindow
<1> HIDE DEF InitNewContext, Goto, pool, arena, context
<1> QED
  BY Zenon, <1>1, <1>2, <1>3, <1>4, <1>5, <1>6, <1>7, Frame

\* exit_mmap starts.
LEMMA ExitBeginIInv ==
  ASSUME IInv, NEW m \in MM, ExitBegin(m)
  PROVE  IInv'
<1>0. TypeOK /\ OwnerIsArena /\ Shape(m) /\ Zeroed(m)
  BY Zenon DEF IInv
<1> USE DEF ExitBegin, Goto, pool, arena, context
<1>1. TypeOK'
  BY Zenon, <1>0, PoolAssumption DEF TypeOK, Phases, NoPending
<1>2. \A k \in MM \ {m} : Same(k)
  BY Zenon, <1>0 DEF TypeOK, Same
<1>3. OwnerIsArena'
  BY Zenon, <1>0 DEF OwnerIsArena
<1>4. Shape(m)'
  BY Zenon, <1>0, FieldTypes DEF TypeOK, Shape, PhaseShape, ArenaShape, PendingShape, BoundsShape, Growing, NoPending
<1>5. OnlyWipes
  BY Zenon, <1>0 DEF TypeOK, OnlyWipes
<1>6. Zeroed(m)'
  BY Zenon, <1>0 DEF TypeOK, Zeroed, NoPending
<1>7. \A p \in Window(m)' : residue'[p] \in {NoMM, m}
  <2>1. Window(m)' \subseteq Window(m)
    BY Zenon, <1>0 DEF TypeOK, Window
  <2> QED
    BY Zenon, <2>1, <1>5, CleanWindow
<1> HIDE DEF ExitBegin, Goto, pool, arena, context
<1> QED
  BY Zenon, <1>1, <1>2, <1>3, <1>4, <1>5, <1>6, <1>7, Frame

\* exit_mmap is through.
LEMMA ExitEndIInv ==
  ASSUME IInv, NEW m \in MM, ExitEnd(m)
  PROVE  IInv'
<1>0. TypeOK /\ OwnerIsArena /\ Shape(m) /\ Zeroed(m)
  BY Zenon DEF IInv
<1> USE DEF ExitEnd, Goto, pool, arena, context
<1>1. TypeOK'
  BY Zenon, <1>0, PoolAssumption DEF TypeOK, Phases, NoPending
<1>2. \A k \in MM \ {m} : Same(k)
  BY Zenon, <1>0 DEF TypeOK, Same
<1>3. OwnerIsArena'
  BY Zenon, <1>0 DEF OwnerIsArena
<1>4. Shape(m)'
  BY Zenon, <1>0, FieldTypes DEF TypeOK, Shape, PhaseShape, ArenaShape, PendingShape, BoundsShape, Growing, NoPending
<1>5. OnlyWipes
  BY Zenon, <1>0 DEF TypeOK, OnlyWipes
<1>6. Zeroed(m)'
  BY Zenon, <1>0 DEF TypeOK, Zeroed, NoPending
<1>7. \A p \in Window(m)' : residue'[p] \in {NoMM, m}
  <2>1. Window(m)' \subseteq Window(m)
    BY Zenon, <1>0 DEF TypeOK, Window
  <2> QED
    BY Zenon, <2>1, <1>5, CleanWindow
<1> HIDE DEF ExitEnd, Goto, pool, arena, context
<1> QED
  BY Zenon, <1>1, <1>2, <1>3, <1>4, <1>5, <1>6, <1>7, Frame

\* The bounds and the arena pointer of an exiting mm are cleared.
LEMMA ReleaseRevokeIInv ==
  ASSUME IInv, NEW m \in MM, ReleaseRevoke(m)
  PROVE  IInv'
<1>0. TypeOK /\ OwnerIsArena /\ Shape(m) /\ Zeroed(m)
  BY Zenon DEF IInv
<1> USE DEF ReleaseRevoke, Goto, pool, arena, context
<1>1. TypeOK'
  BY Zenon, <1>0, PoolAssumption DEF TypeOK, Phases, NoPending
<1>2. \A k \in MM \ {m} : Same(k)
  BY Zenon, <1>0 DEF TypeOK, Same
<1>3. OwnerIsArena'
  BY Zenon, <1>0 DEF OwnerIsArena
<1>4. Shape(m)'
  BY Zenon, <1>0, FieldTypes DEF TypeOK, Shape, PhaseShape, ArenaShape, PendingShape, BoundsShape, Growing, NoPending
<1>5. OnlyWipes
  BY Zenon, <1>0 DEF TypeOK, OnlyWipes
<1>6. Zeroed(m)'
  BY Zenon, <1>0 DEF TypeOK, Zeroed, NoPending
<1>7. \A p \in Window(m)' : residue'[p] \in {NoMM, m}
  <2>1. Window(m)' \subseteq Window(m)
    BY Zenon, <1>0 DEF TypeOK, Window
  <2> QED
    BY Zenon, <2>1, <1>5, CleanWindow
<1> HIDE DEF ReleaseRevoke, Goto, pool, arena, context
<1> QED
  BY Zenon, <1>1, <1>2, <1>3, <1>4, <1>5, <1>6, <1>7, Frame

\* The memset of arena_prepare covers the whole arena.
LEMMA PrepareZeroIInv ==
  ASSUME IInv, NEW m \in MM, PrepareZero(m)
  PROVE  IInv'
<1>0. TypeOK /\ OwnerIsArena /\ Shape(m) /\ Zeroed(m)
  BY Zenon DEF IInv
<1> USE DEF PrepareZero, Goto, pool, arena, context
<1>1. TypeOK'
  BY Zenon, <1>0, PoolAssumption DEF TypeOK, Phases, NoPending
<1>2. \A k \in MM \ {m} : Same(k)
  BY Zenon, <1>0 DEF TypeOK, Same
<1>3. OwnerIsArena'
  BY Zenon, <1>0 DEF OwnerIsArena
<1>4. Shape(m)'
  BY Zenon, <1>0, FieldTypes DEF TypeOK, Shape, PhaseShape, ArenaShape, PendingShape, BoundsShape, Growing, NoPending
<1>5. OnlyWipes
  BY Zenon, <1>0 DEF TypeOK, OnlyWipes
<1>6. Zeroed(m)'
  BY Zenon, <1>0 DEF TypeOK, Zeroed
<1>7. \A p \in Window(m)' : residue'[p] \in {NoMM, m}
  <2>1. Window(m)' \subseteq Window(m)
    BY Zenon, <1>0 DEF TypeOK, Window
  <2> QED
    BY Zenon, <2>1, <1>5, CleanWindow
<1> HIDE DEF PrepareZero, Goto, pool, arena, context
<1> QED
  BY Zenon, <1>1, <1>2, <1>3, <1>4, <1>5, <1>6, <1>7, Frame

\* The memset of arena_alloc covers the new mapping.
LEMMA AllocZeroIInv ==
  ASSUME IInv, NEW m \in MM, AllocZero(m)
  PROVE  IInv'
<1>0. TypeOK /\ OwnerIsArena /\ Shape(m) /\ Zeroed(m)
  BY Zenon DEF IInv
<1> USE DEF AllocZero, Goto, pool, arena, context
<1>1. TypeOK'
  BY Zenon, <1>0, PoolAssumption DEF TypeOK, Phases, NoPending
<1>2. \A k \in MM \ {m} : Same(k)
  BY Zenon, <1>0 DEF TypeOK, Same
<1>3. OwnerIsArena'
  BY Zenon, <1>0 DEF OwnerIsArena
<1>4. Shape(m)'
  BY Zenon, <1>0, FieldTypes DEF TypeOK, Shape, PhaseShape, ArenaShape, PendingShape, BoundsShape, Growing, NoPending
<1>5. OnlyWipes
  BY Zenon, <1>0 DEF TypeOK, OnlyWipes
<1>6. Zeroed(m)'
  BY Zenon, <1>0 DEF TypeOK, Zeroed, NoPending
<1>7. \A p \in Window(m)' : residue'[p] \in {NoMM, m}
  <2>1. Window(m)' \subseteq Window(m)
    BY Zenon, <1>0 DEF TypeOK, Window
  <2> QED
    BY Zenon, <2>1, <1>5, CleanWindow
<1> HIDE DEF AllocZero, Goto, pool, arena, context
<1> QED
  BY Zenon, <1>1, <1>2, <1>3, <1>4, <1>5, <1>6, <1>7, Frame

\* The pages of an arena go back to the pool together.
LEMMA ReleaseArenaIInv ==
  ASSUME IInv, NEW m \in MM, ReleaseArena(m)
  PROVE  IInv'
<1>0. TypeOK /\ OwnerIsArena /\ Shape(m) /\ Zeroed(m)
  BY Zenon DEF IInv
<1> USE DEF ReleaseArena, Goto, ReleaseConsistent, pool, arena, context
<1>1. TypeOK'
  BY <1>0, PoolAssumption DEF TypeOK, Phases, NoPending
<1>2. \A k \in MM \ {m} : Same(k)
  BY Zenon, <1>0 DEF TypeOK, Same
<1>3. OwnerIsArena'
  <2>1. reserved' = {p \in Pages : owner'[p] # NoMM}
    BY Zenon, <1>0, PoolAssumption DEF TypeOK, OwnerIsArena
  <2>2. ASSUME NEW k \in MM \ {m}, NEW p \in Pages
        PROVE  (owner[p] = k <=> live[k] /\ p \in Span(first[k], reservedPages[k]))'
    <3>1. owner'[p] = k <=> owner[p] = k
      BY <1>0, PoolAssumption DEF TypeOK, OwnerIsArena
    <3>2. /\ live'[k] = live[k] /\ first'[k] = first[k]
          /\ reservedPages'[k] = reservedPages[k]
      BY Zenon, <1>2 DEF Same
    <3> HIDE DEF ReleaseArena
    <3>3. owner[p] = k <=> live[k] /\ p \in Span(first[k], reservedPages[k])
      BY Zenon, <1>0 DEF OwnerIsArena
    <3>4. Span(first[k], reservedPages[k])' = Span(first[k], reservedPages[k])
      BY Zenon, <3>2 DEF Span
    <3> QED
      BY Zenon, <3>1, <3>2, <3>3, <3>4
  <2>3. ASSUME NEW p \in Pages
        PROVE  (owner[p] = m <=> live[m] /\ p \in Span(first[m], reservedPages[m]))'
    <3>1. ~live'[m]
      BY Zenon, <1>0 DEF TypeOK
    <3>2. owner[p] = m => p \in Span(first[m], reservedPages[m])
      BY Zenon, <1>0 DEF OwnerIsArena
    <3>3. owner'[p] # m
      BY Zenon, <3>2, PoolAssumption
    <3> QED
      BY Zenon, <3>1, <3>3
  <2> HIDE DEF ReleaseArena
  <2> QED
    BY <2>1, <2>2, <2>3 DEF OwnerIsArena
<1>4. Shape(m)'
  BY Zenon, <1>0, FieldTypes DEF TypeOK, Shape, PhaseShape, ArenaShape, PendingShape, BoundsShape, Growing, NoPending
<1>5. OnlyWipes
  BY Zenon, <1>0 DEF TypeOK, OnlyWipes
<1>6. Zeroed(m)'
  BY Zenon, <1>0 DEF TypeOK, Zeroed, NoPending
<1>7. \A p \in Window(m)' : residue'[p] \in {NoMM, m}
  <2>1. Window(m)' \subseteq Window(m)
    BY Zenon, <1>0 DEF TypeOK, Window
  <2> QED
    BY Zenon, <2>1, <1>5, CleanWindow
<1> HIDE DEF ReleaseArena, Goto, ReleaseConsistent, pool, arena, context
<1> QED
  BY Zenon, <1>1, <1>2, <1>3, <1>4, <1>5, <1>6, <1>7, Frame

\* The bounds published first are those of the zeroed arena.
LEMMA PreparePublishIInv ==
  ASSUME IInv, NEW m \in MM, PreparePublish(m)
  PROVE  IInv'
<1>0. TypeOK /\ OwnerIsArena /\ Shape(m) /\ Zeroed(m)
  BY Zenon DEF IInv
<1> USE DEF PreparePublish, Goto, pool, arena, context
<1>1. TypeOK'
  BY <1>0, PoolAssumption DEF TypeOK, Phases, NoPending
<1>2. \A k \in MM \ {m} : Same(k)
  BY Zenon, <1>0 DEF TypeOK, Same
<1>3. OwnerIsArena'
  BY Zenon, <1>0 DEF OwnerIsArena
<1>4. Shape(m)'
  BY Zenon, <1>0, FieldTypes DEF TypeOK, Shape, PhaseShape, ArenaShape, PendingShape, BoundsShape, Growing, NoPending
<1>5. OnlyWipes
  BY Zenon, <1>0 DEF TypeOK, OnlyWipes
<1>6. Zeroed(m)'
  BY Zenon, <1>0 DEF TypeOK, Zeroed, NoPending
<1>7. \A p \in Window(m)' : residue'[p] \in {NoMM, m}
  <2>1. Window(m)' = Span(first[m], reservedPages[m])
    BY <1>0 DEF TypeOK, Window, Span
  <2>2. Window(m)' \subseteq Pages
    <3>1. live[m] /\ phase[m] = "zeroed"
      BY Zenon, <1>0 DEF Shape, PhaseShape
    <3>2. first[m] + reservedPages[m] <= PoolPages
      BY Zenon, <1>0, <3>1 DEF Shape, ArenaShape
    <3> HIDE DEF PreparePublish
    <3>3. first[m] \in Nat /\ reservedPages[m] \in Nat /\ PoolPages \in Nat
      BY Zenon, <1>0, FieldTypes, PoolAssumption
    <3> QED
      BY <2>1, <3>2, <3>3 DEF Pages, Span
  <2> QED
    BY Zenon, <1>0, <2>1, <2>2 DEF Zeroed
<1> HIDE DEF PreparePublish, Goto, pool, arena, context
<1> QED
  BY Zenon, <1>1, <1>2, <1>3, <1>4, <1>5, <1>6, <1>7, Frame

\* The bounds grow by pages that have been zeroed.
LEMMA AllocPublishIInv ==
  ASSUME IInv, NEW m \in MM, AllocPublish(m)
  PROVE  IInv'
<1>0. TypeOK /\ OwnerIsArena /\ Shape(m) /\ Zeroed(m)
  BY Zenon DEF IInv
<1> USE DEF AllocPublish, Goto, pool, arena, context
<1>1. TypeOK'
  BY <1>0, PoolAssumption DEF TypeOK, Phases, NoPending
<1>2. \A k \in MM \ {m} : Same(k)
  BY Zenon, <1>0 DEF TypeOK, Same
<1>3. OwnerIsArena'
  BY Zenon, <1>0 DEF OwnerIsArena
<1>4. Shape(m)'
  BY Zenon, <1>0, FieldTypes DEF TypeOK, Shape, PhaseShape, ArenaShape, PendingShape, BoundsShape, Growing, NoPending
<1>5. OnlyWipes
  BY Zenon, <1>0 DEF TypeOK, OnlyWipes
<1>6. Zeroed(m)'
  BY Zenon, <1>0 DEF TypeOK, Zeroed, NoPending
<1>7. \A p \in Window(m)' : residue'[p] \in {NoMM, m}
  <2>1. CASE ~pending[m].expanded
    <3>1. Window(m)' \subseteq Window(m)
      BY Zenon, <1>0, <2>1 DEF TypeOK, Window
    <3> QED
      BY Zenon, <3>1, <1>5, CleanWindow
  <2>2. CASE pending[m].expanded
    <3>1. ASSUME NEW p \in Window(m)'
          PROVE  p \in Window(m) \/ (p \in Pages /\ p \in Span(pending[m].start, pending[m].n))
      <4>1. /\ userLo[m] = first[m] /\ userHi[m] = pending[m].start
            /\ pending[m].start + pending[m].n = first[m] + reservedPages[m]
            /\ first[m] + reservedPages[m] <= PoolPages
            /\ boundsValid[m]
        BY Zenon, <1>0, <2>2 DEF Shape, PhaseShape, ArenaShape, PendingShape, BoundsShape, Growing
      <4>2. p \in first[m]..(first[m] + reservedPages[m] - 1)
        BY <1>0, <2>2, <4>1 DEF TypeOK, Window
      <4> HIDE DEF AllocPublish
      <4> QED
        BY <1>0, <4>1, <4>2, PoolAssumption, FieldTypes DEF Window, Pages, Span
    <3>2. \A p \in Window(m)' : residue[p] \in {NoMM, m}
      BY Zenon, <1>0, <2>2, <3>1 DEF Zeroed, IInv, WindowClean
    <3> QED
      BY Zenon, <3>2
  <2> QED
    BY Zenon, <2>1, <2>2
<1> HIDE DEF AllocPublish, Goto, pool, arena, context
<1> QED
  BY Zenon, <1>1, <1>2, <1>3, <1>4, <1>5, <1>6, <1>7, Frame

\* A run of unreserved pages becomes the arena of an mm that has none.
LEMMA PrepareReserveIInv ==
  ASSUME IInv, NEW m \in MM, NEW n \in 1..PoolPages, PrepareReserve(m, n)
  PROVE  IInv'
<1>0. TypeOK /\ OwnerIsArena /\ Shape(m) /\ Zeroed(m)
  BY Zenon DEF IInv
<1> USE DEF PrepareReserve, Goto, pool, arena, context
<1>a. PICK start \in Pages, end \in 1..PoolPages :
        /\ start..(end - 1) \cap reserved = {}
        /\ n <= end - start
        /\ first' = [first EXCEPT ![m] = start]
        /\ reserved' = reserved \cup Span(start, n)
        /\ owner' = [p \in Pages |-> IF p \in Span(start, n) THEN m ELSE owner[p]]
  BY Zenon DEF LargestFreeExtent, FreeExtent
<1>b. /\ Span(start, n) \subseteq Pages
      /\ Span(start, n) \cap reserved = {}
      /\ start \in Nat /\ n \in Nat /\ n > 0 /\ start + n <= PoolPages
  BY <1>a, PoolAssumption DEF Pages, Span
<1>1. TypeOK'
  <2>1. /\ reserved' \subseteq Pages
        /\ owner' \in [Pages -> MM \cup {NoMM}]
        /\ first' \in [MM -> Nat]
    BY Zenon, <1>0, <1>a, <1>b DEF TypeOK
  <2>2. /\ reservedPages' \in [MM -> Nat] /\ mapped' \in [MM -> SUBSET Nat]
        /\ live' \in [MM -> BOOLEAN] /\ mappedPages' \in [MM -> Int]
        /\ phase' \in [MM -> Phases]
    BY <1>0, <1>b DEF TypeOK, Phases
  <2>3. reservedTotal' \in Int /\ mappedTotal' \in Int /\ arenaCount' \in Int
    BY <1>0, <1>b DEF TypeOK
  <2> QED
    BY Zenon, <1>0, <2>1, <2>2, <2>3 DEF TypeOK
<1>2. \A k \in MM \ {m} : Same(k)
  BY <1>0, <1>a DEF TypeOK, Same
<1>3. OwnerIsArena'
  <2>1. reserved' = {p \in Pages : owner'[p] # NoMM}
    BY <1>0, <1>a, <1>b, PoolAssumption DEF TypeOK, OwnerIsArena
  <2>2. ASSUME NEW k \in MM \ {m}, NEW p \in Pages
        PROVE  (owner[p] = k <=> live[k] /\ p \in Span(first[k], reservedPages[k]))'
    <3>1. owner'[p] = k <=> owner[p] = k
      BY <1>0, <1>a, <1>b, PoolAssumption DEF TypeOK, OwnerIsArena
    <3>2. /\ live'[k] = live[k] /\ first'[k] = first[k]
          /\ reservedPages'[k] = reservedPages[k]
      BY Zenon, <1>2 DEF Same
    <3> QED
      BY <1>0, <3>1, <3>2 DEF OwnerIsArena
  <2>3. ASSUME NEW p \in Pages
        PROVE  (owner[p] = m <=> live[m] /\ p \in Span(first[m], reservedPages[m]))'
    <3>1. live'[m] /\ first'[m] = start /\ reservedPages'[m] = n /\ ~live[m]
      BY Zenon, <1>0, <1>a DEF TypeOK, Shape, PhaseShape
    <3>2. owner[p] # m
      BY Zenon, <1>0, <3>1 DEF OwnerIsArena
    <3> QED
      BY Zenon, <1>a, <3>1, <3>2
  <2> HIDE DEF PrepareReserve
  <2> QED
    BY <2>1, <2>2, <2>3 DEF OwnerIsArena
<1>4. Shape(m)'
  <2>1. /\ live'[m] /\ first'[m] = start /\ reservedPages'[m] = n /\ mapped'[m] = {}
        /\ phase'[m] = "reserving" /\ ~userArena'[m] /\ ~boundsValid'[m]
    BY ZenonT(30), <1>0, <1>a DEF TypeOK
  <2> HIDE DEF PrepareReserve
  <2> QED
    BY Zenon, <2>1, <1>b DEF Shape, PhaseShape, ArenaShape, PendingShape, BoundsShape, Growing
<1>5. OnlyWipes
  BY Zenon, <1>0 DEF TypeOK, OnlyWipes
<1>6. Zeroed(m)'
  BY Zenon, <1>0 DEF TypeOK, Zeroed, NoPending
<1>7. \A p \in Window(m)' : residue'[p] \in {NoMM, m}
  <2>1. Window(m)' \subseteq Window(m)
    BY Zenon, <1>0 DEF TypeOK, Window
  <2> QED
    BY Zenon, <2>1, <1>5, CleanWindow
<1> HIDE DEF PrepareReserve, Goto, pool, arena, context
<1> QED
  BY Zenon, <1>1, <1>2, <1>3, <1>4, <1>5, <1>6, <1>7, Frame

\* A mapping inside the arena: the bounds and the owner table do not change.
LEMMA AllocInsideIInv ==
  ASSUME IInv, NEW m \in MM, NEW n \in 1..PoolPages, AllocInside(m, n)
  PROVE  IInv'
<1>0. TypeOK /\ OwnerIsArena /\ Shape(m) /\ Zeroed(m)
  BY Zenon DEF IInv
<1> USE DEF AllocInside, Goto, MapPages, pool, arena, context
<1>a. PICK i \in 0..(reservedPages[m] - 1) :
        i + n <= reservedPages[m] /\ MapPages(m, i, n, FALSE)
  BY Zenon DEF FirstZeroArea, ZeroArea
<1>b. /\ i \in Nat /\ n \in Nat /\ n > 0
      /\ first[m] \in Nat /\ reservedPages[m] \in Nat
  BY <1>0, <1>a, FieldTypes, PoolAssumption
<1>c. Span(i, n) \in SUBSET Nat /\ \A j \in Span(i, n) : j < reservedPages[m]
  <2> HIDE DEF AllocInside, MapPages
  <2> QED
    BY <1>a, <1>b DEF Span
<1>1. TypeOK'
  <2>1. /\ mapped' \in [MM -> SUBSET Nat]
        /\ mappedPages' \in [MM -> Int] /\ mappedTotal' \in Int
    BY <1>0, <1>a, <1>b, <1>c DEF TypeOK
  <2>2. pending' \in [MM -> [start : Nat, n : Nat, expanded : BOOLEAN]]
    BY <1>0, <1>a, <1>b DEF TypeOK
  <2>3. phase' \in [MM -> Phases]
    BY Zenon, <1>0 DEF TypeOK, Phases
  <2> QED
    BY Zenon, <1>0, <2>1, <2>2, <2>3 DEF TypeOK
<1>2. \A k \in MM \ {m} : Same(k)
  BY ZenonT(30), <1>0, <1>a DEF TypeOK, Same
<1>3. OwnerIsArena'
  BY Zenon, <1>0 DEF OwnerIsArena
<1>4. Shape(m)'
  <2>2. /\ phase[m] = "ready" /\ phase'[m] = "allocating"
        /\ mapped'[m] = mapped[m] \cup Span(i, n)
        /\ pending'[m].start = first[m] + i /\ pending'[m].n = n /\ ~pending'[m].expanded
        /\ UNCHANGED <<live, first, reservedPages, context>>
    BY Zenon, <1>0, <1>a DEF TypeOK
  <2> HIDE DEF AllocInside, MapPages
  <2>4. PhaseShape(m)'
    BY Zenon, <1>0, <2>2 DEF Shape, PhaseShape
  <2>5. ArenaShape(m)'
    BY Zenon, <1>0, <2>2, <1>c DEF Shape, PhaseShape, ArenaShape
  <2>6. PendingShape(m)'
    BY <1>a, <1>b, <2>2 DEF PendingShape
  <2>7. BoundsShape(m)'
    BY Zenon, <1>0, <2>2 DEF Shape, BoundsShape, Growing
  <2> QED
    BY Zenon, <2>4, <2>5, <2>6, <2>7 DEF Shape
<1>5. OnlyWipes
  BY Zenon, <1>0 DEF TypeOK, OnlyWipes
<1>6. Zeroed(m)'
  BY ZenonT(30), <1>0 DEF TypeOK, Zeroed
<1>7. \A p \in Window(m)' : residue'[p] \in {NoMM, m}
  <2>1. Window(m)' \subseteq Window(m)
    BY Zenon, <1>0 DEF TypeOK, Window
  <2> QED
    BY Zenon, <2>1, <1>5, CleanWindow
<1> HIDE DEF AllocInside, Goto, MapPages, pool, arena, context
<1> QED
  BY Zenon, <1>1, <1>2, <1>3, <1>4, <1>5, <1>6, <1>7, Frame

\* The arena grows into unreserved pages; the bounds do not grow yet.
LEMMA AllocExpandIInv ==
  ASSUME IInv, NEW m \in MM, NEW n \in 1..PoolPages, AllocExpand(m, n)
  PROVE  IInv'
<1>0. TypeOK /\ OwnerIsArena /\ Shape(m) /\ Zeroed(m)
  BY Zenon DEF IInv
<1> USE DEF AllocExpand, Goto, MapPages, pool, arena, context
<1> DEFINE page == first[m] + reservedPages[m]
<1>a. /\ Span(page, n) \cap reserved = {}
      /\ reserved' = reserved \cup Span(page, n)
      /\ owner' = [p \in Pages |-> IF p \in Span(page, n) THEN m ELSE owner[p]]
  OBVIOUS
<1>b. /\ page \in Nat /\ n \in Nat /\ n > 0 /\ page + n <= PoolPages
      /\ first[m] \in Nat /\ reservedPages[m] \in Nat
      /\ live[m] /\ phase[m] = "ready"
  <2>1. phase[m] = "ready" /\ n <= PoolPages - page
    OBVIOUS
  <2> HIDE DEF AllocExpand, MapPages
  <2>2. first[m] \in Nat /\ reservedPages[m] \in Nat
    BY Zenon, <1>0, FieldTypes
  <2>3. live[m]
    BY Zenon, <1>0, <2>1 DEF Shape, PhaseShape
  <2> QED
    BY <2>1, <2>2, <2>3, PoolAssumption
<1>c. Span(page, n) \subseteq Pages
  <2> HIDE DEF AllocExpand, MapPages
  <2> QED
    BY <1>b, PoolAssumption DEF Pages, Span
<1>1. TypeOK'
  BY SMTT(30), <1>0, <1>b, <1>c DEF TypeOK, Phases, Span
<1>2. \A k \in MM \ {m} : Same(k)
  BY Zenon, <1>0 DEF TypeOK, Same
<1>3. OwnerIsArena'
  <2>1. reserved' = {p \in Pages : owner'[p] # NoMM}
    <3> HIDE DEF AllocExpand, MapPages, Goto
    <3> QED
      BY ZenonT(30), <1>0, <1>a, <1>c, PoolAssumption DEF TypeOK, OwnerIsArena
  <2>2. ASSUME NEW k \in MM \ {m}, NEW p \in Pages
        PROVE  (owner[p] = k <=> live[k] /\ p \in Span(first[k], reservedPages[k]))'
    <3>1. owner'[p] = k <=> owner[p] = k
      <4> HIDE DEF AllocExpand, MapPages, Goto
      <4>1. p \in Span(page, n) => owner[p] = NoMM
        BY Zenon, <1>0, <1>a DEF OwnerIsArena
      <4> QED
        BY Zenon, <1>a, <4>1, PoolAssumption
    <3>2. /\ live'[k] = live[k] /\ first'[k] = first[k]
          /\ reservedPages'[k] = reservedPages[k]
      BY Zenon, <1>2 DEF Same
    <3> HIDE DEF AllocExpand, MapPages
    <3>3. owner[p] = k <=> live[k] /\ p \in Span(first[k], reservedPages[k])
      BY Zenon, <1>0 DEF OwnerIsArena
    <3>4. Span(first[k], reservedPages[k])' = Span(first[k], reservedPages[k])
      BY Zenon, <3>2 DEF Span
    <3> QED
      BY Zenon, <3>1, <3>2, <3>3, <3>4
  <2>3. ASSUME NEW p \in Pages
        PROVE  (owner[p] = m <=> live[m] /\ p \in Span(first[m], reservedPages[m]))'
    <3>1. live'[m] /\ first'[m] = first[m] /\ reservedPages'[m] = reservedPages[m] + n
      BY Zenon, <1>0, <1>b DEF TypeOK
    <3> HIDE DEF AllocExpand, MapPages
    <3>2. owner'[p] = m <=> (p \in Span(page, n) \/ owner[p] = m)
      BY Zenon, <1>a
    <3>3. owner[p] = m <=> p \in Span(first[m], reservedPages[m])
      BY Zenon, <1>0, <1>b DEF OwnerIsArena
    <3>4. p \in Span(first[m], reservedPages[m] + n) <=>
            (p \in Span(page, n) \/ p \in Span(first[m], reservedPages[m]))
      BY <1>b DEF Span, Pages
    <3> QED
      BY Zenon, <3>1, <3>2, <3>3, <3>4
  <2> HIDE DEF AllocExpand, MapPages
  <2> QED
    BY <2>1, <2>2, <2>3 DEF OwnerIsArena
<1>4. Shape(m)'
  <2>1. /\ phase'[m] = "allocating" /\ reservedPages'[m] = reservedPages[m] + n
        /\ mapped'[m] = mapped[m] \cup Span(reservedPages[m], n)
        /\ pending'[m].start = page /\ pending'[m].n = n /\ pending'[m].expanded
        /\ UNCHANGED <<live, first, context>>
    BY Zenon, <1>0, <1>b DEF TypeOK
  <2> HIDE DEF AllocExpand, MapPages
  <2>2. \A j \in Span(reservedPages[m], n) : j < reservedPages[m] + n
    BY <1>b DEF Span
  <2>3. \A j \in mapped[m] : j < reservedPages[m] + n
    BY <1>0, <1>b, FieldTypes DEF Shape, ArenaShape
  <2>4. PhaseShape(m)'
    BY Zenon, <1>0, <1>b, <2>1 DEF Shape, PhaseShape
  <2>5. ArenaShape(m)'
    <3>1. \A j \in mapped'[m] : j < reservedPages'[m]
      BY Zenon, <2>1, <2>2, <2>3
    <3>2. reservedPages'[m] > 0 /\ first'[m] + reservedPages'[m] <= PoolPages
      BY <1>b, <2>1, PoolAssumption
    <3> QED
      BY Zenon, <1>b, <2>1, <3>1, <3>2 DEF ArenaShape
  <2>6. PendingShape(m)' /\ reservedPages[m] > 0
    BY <1>0, <1>b, <2>1 DEF Shape, ArenaShape, PendingShape
  <2>7. BoundsShape(m)'
    BY Zenon, <1>0, <1>b, <2>1 DEF Shape, BoundsShape, Growing
  <2> QED
    BY Zenon, <2>4, <2>5, <2>6, <2>7 DEF Shape
<1>5. OnlyWipes
  BY Zenon, <1>0 DEF TypeOK, OnlyWipes
<1>6. Zeroed(m)'
  BY Zenon, <1>0 DEF TypeOK, Zeroed
<1>7. \A p \in Window(m)' : residue'[p] \in {NoMM, m}
  <2>1. Window(m)' \subseteq Window(m)
    BY Zenon, <1>0 DEF TypeOK, Window
  <2> QED
    BY Zenon, <2>1, <1>5, CleanWindow
<1> HIDE DEF AllocExpand, Goto, MapPages, pool, arena, context
<1> QED
  BY Zenon, <1>1, <1>2, <1>3, <1>4, <1>5, <1>6, <1>7, Frame

\* An unmapped region leaves the arena and its bounds as they are.
LEMMA ArenaFreeIInv ==
  ASSUME IInv, NEW m \in MM, NEW start \in Pages, owner[start] = m, NEW n \in 1..PoolPages, ArenaFree(start, n)
  PROVE  IInv'
<1>0. TypeOK /\ OwnerIsArena /\ Shape(m) /\ Zeroed(m)
  BY Zenon DEF IInv
<1> USE DEF ArenaFree, Goto, pool, arena, context
<1>1. TypeOK'
  BY <1>0, PoolAssumption DEF TypeOK, Phases, NoPending
<1>2. \A k \in MM \ {m} : Same(k)
  BY Zenon, <1>0 DEF TypeOK, Same
<1>3. OwnerIsArena'
  BY Zenon, <1>0 DEF OwnerIsArena
<1>4. Shape(m)'
  <2>1. mapped'[m] \subseteq mapped[m] /\ UNCHANGED <<live, first, reservedPages, context, phase, pending>>
    BY Zenon, <1>0 DEF TypeOK
  <2> HIDE DEF ArenaFree
  <2> QED
    BY Zenon, <1>0, <2>1 DEF Shape, PhaseShape, ArenaShape, PendingShape, BoundsShape, Growing
<1>5. OnlyWipes
  BY Zenon, <1>0 DEF TypeOK, OnlyWipes
<1>6. Zeroed(m)'
  BY Zenon, <1>0 DEF Zeroed
<1>7. \A p \in Window(m)' : residue'[p] \in {NoMM, m}
  <2>1. Window(m)' \subseteq Window(m)
    BY Zenon, <1>0 DEF TypeOK, Window
  <2> QED
    BY Zenon, <2>1, <1>5, CleanWindow
<1> HIDE DEF ArenaFree, Goto, pool, arena, context
<1> QED
  BY Zenon, <1>1, <1>2, <1>3, <1>4, <1>5, <1>6, <1>7, Frame

\* A process stores into a page inside its own bounds only.
LEMMA UserWriteIInv ==
  ASSUME IInv, NEW m \in MM, NEW p \in Pages, UserWrite(m, p)
  PROVE  IInv'
<1>0. TypeOK /\ OwnerIsArena /\ WindowClean /\ \A k \in MM : Shape(k) /\ Zeroed(k)
  BY Zenon DEF IInv
<1>1. p \in Window(m)
  BY <1>0 DEF UserWrite, Window, TypeOK, Pages
<1>2. owner[p] = m /\ boundsValid[m] /\ p < userHi[m]
  BY Zenon, <1>1, WindowPages
<1>3. /\ UNCHANGED <<pool, arena, context, phase, pending>>
      /\ \A q \in Pages : residue'[q] = IF q = p THEN m ELSE residue[q]
  BY Zenon, <1>0 DEF UserWrite, TypeOK
<1>4. TypeOK'
  BY Zenon, <1>0 DEF UserWrite, TypeOK, pool, arena, context
<1>5. OwnerIsArena'
  BY Zenon, <1>0, <1>3 DEF OwnerIsArena, pool, arena
<1>6. ASSUME NEW k \in MM PROVE Shape(k)' /\ Window(k)' = Window(k)
  <2>1. Same(k)
    BY Zenon, <1>3 DEF Same, arena, context
  <2> QED
    BY Zenon, <1>0, <2>1, SameShape
<1>7. WindowClean'
  <2>1. \A k \in MM : \A q \in Window(k) : q \in Pages /\ owner[q] = k
    BY Zenon, WindowPages
  <2>2. \A k \in MM : \A q \in Window(k) : residue'[q] \in {NoMM, k}
    BY <1>0, <1>2, <1>3, <2>1 DEF WindowClean
  <2> QED
    BY Zenon, <1>6, <2>2 DEF WindowClean
<1>8. ASSUME NEW k \in MM PROVE Zeroed(k)'
  <2>1. ASSUME phase[k] = "zeroed" PROVE p \notin Span(first[k], reservedPages[k])
    BY <1>0, <1>2, <2>1 DEF Shape, PhaseShape, OwnerIsArena
  <2>2. ASSUME phase[k] = "scrubbed", pending[k].expanded
        PROVE  p \notin Span(pending[k].start, pending[k].n)
    <3>1. /\ first[k] <= pending[k].start
          /\ pending[k].start + pending[k].n <= first[k] + reservedPages[k]
          /\ live[k] /\ boundsValid[k] /\ userHi[k] = pending[k].start
      BY Zenon, <1>0, <2>2 DEF Shape, PhaseShape, PendingShape, BoundsShape, Growing
    <3>a. /\ first[k] \in Nat /\ reservedPages[k] \in Nat
          /\ pending[k].start \in Nat /\ pending[k].n \in Nat
      BY Zenon, <1>0, FieldTypes
    <3>2. ASSUME p \in Span(pending[k].start, pending[k].n)
          PROVE  p \in Span(first[k], reservedPages[k]) /\ ~(p < userHi[k])
      BY <3>1, <3>2, <3>a DEF Span, Pages
    <3>3. ASSUME p \in Span(first[k], reservedPages[k]) PROVE k = m
      BY Zenon, <1>0, <1>2, <3>1, <3>3 DEF OwnerIsArena
    <3> QED
      BY Zenon, <1>2, <3>2, <3>3
  <2>3. UNCHANGED <<first, reservedPages, phase, pending>>
    BY Zenon, <1>3 DEF arena
  <2> QED
    BY Zenon, <1>0, <1>3, <2>1, <2>2, <2>3 DEF Zeroed
<1> QED
  BY Zenon, <1>4, <1>5, <1>6, <1>7, <1>8 DEF IInv

\* Every step of the kernel and of the processes keeps the invariant.
LEMMA NextIInv == IInv /\ [Next]_vars => IInv'
<1> SUFFICES ASSUME IInv, [Next]_vars PROVE IInv'
  OBVIOUS
<1>1. CASE UNCHANGED vars
  <2>1. TypeOK'
    BY Zenon, <1>1 DEF vars, pool, arena, context, IInv, TypeOK
  <2>2. OwnerIsArena'
    BY Zenon, <1>1 DEF vars, pool, arena, IInv, OwnerIsArena
  <2>3. ASSUME NEW k \in MM PROVE Shape(k)' /\ Window(k)' = Window(k) /\ Zeroed(k)'
    <3>1. Same(k) /\ OnlyWipes
      BY Zenon, <1>1 DEF vars, arena, context, Same, OnlyWipes
    <3> QED
      BY Zenon, <3>1, SameShape, SameZeroed DEF IInv
  <2>4. WindowClean'
    BY Zenon, <1>1, <2>3 DEF vars, IInv, WindowClean
  <2> QED
    BY Zenon, <2>1, <2>2, <2>3, <2>4 DEF IInv
<1>2. ASSUME NEW m \in MM, Call(m) PROVE IInv'
  BY Zenon, <1>2, InitNewContextIInv, PrepareReserveIInv, AllocInsideIInv, AllocExpandIInv,
     ArenaFreeIInv, UserWriteIInv, ExitBeginIInv DEF Call
<1>3. ASSUME NEW m \in MM, Finish(m) PROVE IInv'
  BY Zenon, <1>3, PrepareZeroIInv, PreparePublishIInv, AllocZeroIInv, AllocPublishIInv,
     ExitEndIInv, ReleaseRevokeIInv, ReleaseArenaIInv DEF Finish
<1> QED
  BY Zenon, <1>1, <1>2, <1>3 DEF Next

\* The strengthened invariant holds in every reachable state of the arenas, for
\* every number of mms and every pool size.
THEOREM ArenaInvariant == Spec => []IInv
  BY InitIInv, NextIInv, PTL DEF Spec

\* Every variable of micronux_user_pool.c keeps a value its declaration allows.
THEOREM ArenaTypes == Spec => []TypeOK
<1>1. IInv => TypeOK
  BY Zenon DEF IInv
<1> QED
  BY <1>1, ArenaInvariant, PTL

\* The bitmap, the owner table and the arena extents describe one partition of
\* the pool: what arena_prepare, arena_alloc and arena_release maintain.
THEOREM OwnershipIsPartition == Spec => []OwnerIsArena
<1>1. IInv => OwnerIsArena
  BY Zenon DEF IInv
<1> QED
  BY <1>1, ArenaInvariant, PTL

\* The invariant contains that bounds cover only pages of their mm.
LEMMA IInvWindowOwned == IInv => WindowOwned
<1> SUFFICES ASSUME IInv, NEW m \in MM, boundsValid[m]
             PROVE  /\ userLo[m] < userHi[m]
                    /\ \A p \in userLo[m]..(userHi[m] - 1) : p \in Pages /\ owner[p] = m
  BY Zenon DEF WindowOwned
<1>0. TypeOK /\ Shape(m)
  BY Zenon DEF IInv
<1>a. live[m]
  BY Zenon, <1>0 DEF Shape, PhaseShape, TypeOK, Phases
<1>b. reservedPages[m] > 0 /\ first[m] \in Nat /\ reservedPages[m] \in Nat
  BY Zenon, <1>0, <1>a, FieldTypes DEF Shape, ArenaShape
<1>c. Growing(m) => first[m] < pending[m].start
  BY Zenon, <1>0 DEF Shape, PendingShape, Growing
<1>1. userLo[m] < userHi[m]
  BY <1>0, <1>b, <1>c DEF Shape, BoundsShape
<1>2. \A p \in userLo[m]..(userHi[m] - 1) : p \in Window(m)
  BY Zenon DEF Window
<1> QED
  BY Zenon, <1>1, <1>2, WindowPages

\* The bounds that PMP and access_ok use cover only pages the mm owns.
THEOREM WindowsAreOwned == Spec => []WindowOwned
  BY IInvWindowOwned, ArenaInvariant, PTL

\* No process ever sees bytes another process left in a page: memset comes
\* between the change of owner and the publication of the bounds.
THEOREM WindowsAreClean == Spec => []WindowClean
<1>1. IInv => WindowClean
  BY Zenon DEF IInv
<1> QED
  BY <1>1, ArenaInvariant, PTL

\* Every mapping arena_alloc has returned lies inside the published bounds.
THEOREM MappingsAreReachable == Spec => []MappingsReachable
<1>1. ASSUME IInv PROVE MappingsReachable
  <2> SUFFICES ASSUME NEW m \in MM, phase[m] \in {"ready", "exiting"}, NEW i \in mapped[m]
               PROVE  first[m] + i \in Window(m)
    BY Zenon DEF MappingsReachable
  <2>1. TypeOK /\ PhaseShape(m) /\ ArenaShape(m) /\ BoundsShape(m)
    BY Zenon, <1>1 DEF IInv, Shape
  <2>2. i \in Nat /\ i < reservedPages[m] /\ first[m] \in Nat /\ reservedPages[m] \in Nat
    BY Zenon, <2>1 DEF TypeOK, ArenaShape
  <2>3. live[m] /\ boundsValid[m]
    <3>1. live[m]
      BY Zenon, <2>1 DEF ArenaShape
    <3> QED
      BY Zenon, <2>1, <3>1 DEF PhaseShape
  <2>4. userLo[m] = first[m] /\ userHi[m] = first[m] + reservedPages[m]
    BY Zenon, <2>1, <2>3 DEF BoundsShape, Growing
  <2> QED
    BY <2>2, <2>3, <2>4 DEF Window
<1> QED
  BY <1>1, ArenaInvariant, PTL
-----------------------------------------------------------------------------
\* Every step respects the grow-only discipline of an arena.
LEMMA NextGrows == IInv /\ [Next]_vars => \A k \in MM : GrowStep(k)
<1> SUFFICES ASSUME IInv, [Next]_vars, NEW k \in MM PROVE GrowStep(k)
  OBVIOUS
<1>0. TypeOK /\ PhaseShape(k) /\ PendingShape(k) /\ BoundsShape(k)
  BY Zenon DEF IInv, Shape
<1> USE DEF pool, arena, context, Goto
<1>1. CASE UNCHANGED vars
  BY <1>1, <1>0 DEF vars, GrowStep, Window, TypeOK
<1>2. ASSUME NEW m \in MM, Call(m) PROVE GrowStep(k)
  <2>1. CASE InitNewContext(m)
    BY <2>1, <1>0 DEF InitNewContext, GrowStep, Window, TypeOK
  <2>2. ASSUME NEW n \in 1..PoolPages, PrepareReserve(m, n) PROVE GrowStep(k)
    <3>1. ~live[m] /\ ~boundsValid[m]
      BY Zenon, <2>2 DEF PrepareReserve, IInv, Shape, PhaseShape
    <3>2. k # m => /\ live'[k] = live[k] /\ first'[k] = first[k]
                   /\ reservedPages'[k] = reservedPages[k]
      BY Zenon, <2>2, <1>0 DEF PrepareReserve, TypeOK
    <3>3. Window(k)' = Window(k) /\ boundsValid' = boundsValid
      BY Zenon, <2>2 DEF PrepareReserve, Window
    <3> QED
      BY <3>1, <3>2, <3>3, <1>0 DEF GrowStep, TypeOK
  <2>3. ASSUME NEW n \in 1..PoolPages, AllocInside(m, n) PROVE GrowStep(k)
    BY <2>3, <1>0 DEF AllocInside, GrowStep, Window, TypeOK
  <2>4. ASSUME NEW n \in 1..PoolPages, AllocExpand(m, n) PROVE GrowStep(k)
    BY <2>4, <1>0 DEF AllocExpand, GrowStep, Window, TypeOK
  <2>5. ASSUME NEW start \in Pages, NEW n \in 1..PoolPages, ArenaFree(start, n)
        PROVE  GrowStep(k)
    BY <2>5, <1>0 DEF ArenaFree, GrowStep, Window, TypeOK
  <2>6. ASSUME NEW p \in Pages, UserWrite(m, p) PROVE GrowStep(k)
    BY <2>6, <1>0 DEF UserWrite, GrowStep, Window, TypeOK
  <2>7. CASE ExitBegin(m)
    BY <2>7, <1>0 DEF ExitBegin, GrowStep, Window, TypeOK
  <2> QED
    BY Zenon, <1>2, <2>1, <2>2, <2>3, <2>4, <2>5, <2>6, <2>7 DEF Call
<1>3. ASSUME NEW m \in MM, Finish(m) PROVE GrowStep(k)
  <2>1. CASE PrepareZero(m) \/ AllocZero(m) \/ ExitEnd(m)
    BY <2>1, <1>0 DEF PrepareZero, AllocZero, ExitEnd, GrowStep, Window, TypeOK
  <2>2. CASE PreparePublish(m)
    <3>1. ~boundsValid[m]
      BY Zenon, <2>2 DEF PreparePublish, IInv, Shape, PhaseShape
    <3> QED
      BY <2>2, <3>1, <1>0 DEF PreparePublish, GrowStep, Window, TypeOK
  <2>3. CASE AllocPublish(m)
    <3>1. boundsValid[k] => userLo'[k] = userLo[k] /\ userHi[k] <= userHi'[k]
      BY <2>3, <1>0 DEF AllocPublish, TypeOK, BoundsShape, PendingShape, Growing
    <3>2. boundsValid[k] => Window(k) \subseteq Window(k)'
      BY <2>3, <3>1, <1>0 DEF AllocPublish, TypeOK, Window
    <3> QED
      BY <2>3, <3>2, <1>0 DEF AllocPublish, GrowStep, TypeOK
  <2>4. CASE ReleaseRevoke(m)
    BY <2>4, <1>0 DEF ReleaseRevoke, GrowStep, Window, TypeOK
  <2>5. CASE ReleaseArena(m)
    BY <2>5, <1>0 DEF ReleaseArena, GrowStep, Window, TypeOK
  <2> QED
    BY Zenon, <1>3, <2>1, <2>2, <2>3, <2>4, <2>5 DEF Finish
<1> QED
  BY Zenon, <1>1, <1>2, <1>3 DEF Next

\* An arena never moves or shrinks while its mm lives, and the published bounds
\* only grow until arena_release revokes them.
THEOREM ArenasOnlyGrow == Spec => GrowOnly
<1>1. IInv /\ [Next]_vars => [\A m \in MM : GrowStep(m)]_vars
  BY Zenon, NextGrows
<1> QED
  BY <1>1, ArenaInvariant, PTL DEF Spec, GrowOnly

-----------------------------------------------------------------------------
\* A step of the arenas is a step of the page pool or leaves it unchanged.
LEMMA StepImplementsPool == IInv /\ IInv' /\ [Next]_vars => [Promise!Next]_(Promise!vars)
<1> SUFFICES ASSUME IInv, IInv', [Next]_vars
             PROVE  Promise!Next \/ UNCHANGED Promise!vars
  OBVIOUS
<1> DEFINE seen == [m \in MM |-> Window(m)]
<1>0. TypeOK /\ OwnerIsArena /\ \A k \in MM : PhaseShape(k) /\ ArenaShape(k) /\ PendingShape(k)
  BY Zenon DEF IInv, Shape
<1>owned. WindowOwned'
  BY IInvWindowOwned, PTL
<1> USE DEF pool, arena, context, Goto
<1>same. ASSUME UNCHANGED <<owner, residue>>, \A k \in MM : Window(k)' = Window(k)
         PROVE  UNCHANGED Promise!vars
  BY Zenon, <1>same DEF Promise!vars
<1>1. CASE UNCHANGED vars
  BY Zenon, <1>1, <1>same DEF vars, Window
<1>2. ASSUME NEW m \in MM, Call(m) PROVE Promise!Next \/ UNCHANGED Promise!vars
  <2>1. CASE InitNewContext(m)
    <3>1. ~boundsValid[m]
      BY Zenon, <2>1, <1>0 DEF InitNewContext, PhaseShape
    <3>2. \A k \in MM : Window(k)' = Window(k)
      BY Zenon, <2>1, <3>1, <1>0 DEF InitNewContext, Window, TypeOK
    <3> QED
      BY Zenon, <2>1, <3>2, <1>same DEF InitNewContext
  <2>2. ASSUME NEW n \in 1..PoolPages, PrepareReserve(m, n) PROVE Promise!Next
    <3>1. PICK start \in Pages, end \in 1..PoolPages :
            /\ start..(end - 1) \cap reserved = {}
            /\ n <= end - start
            /\ owner' = [p \in Pages |-> IF p \in Span(start, n) THEN m ELSE owner[p]]
      BY Zenon, <2>2 DEF PrepareReserve, LargestFreeExtent, FreeExtent
    <3>2. /\ start + n - 1 \in Pages /\ start <= start + n - 1
          /\ Span(start, n) \subseteq Pages
      BY <3>1, PoolAssumption DEF Pages, Span
    <3>3. \A p \in start..(start + n - 1) : p \in Pages /\ p \notin reserved
      BY <3>1, <3>2 DEF Pages, Span
    <3>4. \A p \in start..(start + n - 1) : owner[p] = NoMM
      BY Zenon, <3>3, <1>0 DEF OwnerIsArena
    <3>5. UNCHANGED <<seen, residue>>
      BY Zenon, <2>2 DEF PrepareReserve, Window
    <3>6. Promise!Claim(m)
      BY Zenon, <3>1, <3>2, <3>4, <3>5 DEF Promise!Claim, Promise!Pages, Pages, Span
    <3> QED
      BY Zenon, <3>6 DEF Promise!Next
  <2>3. ASSUME NEW n \in 1..PoolPages, AllocInside(m, n) PROVE UNCHANGED Promise!vars
    BY Zenon, <2>3, <1>same DEF AllocInside, Window
  <2>4. ASSUME NEW n \in 1..PoolPages, AllocExpand(m, n) PROVE Promise!Next
    <3> DEFINE page == first[m] + reservedPages[m]
    <3>1. /\ Span(page, n) \cap reserved = {}
          /\ n <= PoolPages - page
          /\ owner' = [p \in Pages |-> IF p \in Span(page, n) THEN m ELSE owner[p]]
      BY Zenon, <2>4 DEF AllocExpand
    <3>2. /\ page \in Pages /\ page + n - 1 \in Pages /\ page <= page + n - 1
          /\ Span(page, n) \subseteq Pages
      <4>1. page \in Nat /\ n \in Nat \ {0} /\ PoolPages \in Nat
        BY <1>0, PoolAssumption DEF TypeOK
      <4> HIDE DEF page
      <4> QED
        BY <3>1, <4>1 DEF Pages, Span
    <3>4. \A p \in page..(page + n - 1) : owner[p] = NoMM
      BY Zenon, <3>1, <3>2, <1>0 DEF OwnerIsArena, Span
    <3>5. UNCHANGED <<seen, residue>>
      BY Zenon, <2>4 DEF AllocExpand, Window
    <3>6. Promise!Claim(m)
      BY Zenon, <3>1, <3>2, <3>4, <3>5 DEF Promise!Claim, Promise!Pages, Pages, Span
    <3> QED
      BY Zenon, <3>6 DEF Promise!Next
  <2>5. ASSUME NEW start \in Pages, NEW n \in 1..PoolPages, ArenaFree(start, n)
        PROVE  UNCHANGED Promise!vars
    BY Zenon, <2>5, <1>same DEF ArenaFree, Window
  <2>6. ASSUME NEW p \in Pages, UserWrite(m, p) PROVE Promise!Next
    <3>1. p \in Window(m)
      BY <2>6, <1>0 DEF UserWrite, Window, TypeOK, Pages
    <3>2. Promise!Write(m)
      BY Zenon, <2>6, <3>1 DEF UserWrite, Window, Promise!Write
    <3> QED
      BY Zenon, <3>2 DEF Promise!Next
  <2>7. CASE ExitBegin(m)
    BY Zenon, <2>7, <1>same DEF ExitBegin, Window
  <2> QED
    BY Zenon, <1>2, <2>1, <2>2, <2>3, <2>4, <2>5, <2>6, <2>7 DEF Call
<1>3. ASSUME NEW m \in MM, Finish(m) PROVE Promise!Next \/ UNCHANGED Promise!vars
  <2>1. ASSUME NEW S \in SUBSET {p \in Pages : owner[p] = m},
               residue' = [p \in Pages |-> IF p \in S THEN NoMM ELSE residue[p]],
               UNCHANGED <<pool, arena, context>>
        PROVE  Promise!Next
    <3>1. Promise!Wipe(m)
      BY Zenon, <2>1 DEF Promise!Wipe, Promise!Pages, Pages, Window
    <3> QED
      BY Zenon, <3>1 DEF Promise!Next
  <2>2. CASE PrepareZero(m)
    <3> DEFINE S == Span(first[m], reservedPages[m])
    <3>live. live[m]
      BY Zenon, <2>2, <1>0 DEF PrepareZero, PhaseShape
    <3>end. first[m] + reservedPages[m] <= PoolPages
      BY Zenon, <3>live, <1>0 DEF ArenaShape
    <3>nat. PoolPages \in Nat /\ first[m] \in Nat /\ reservedPages[m] \in Nat
      BY Zenon, <1>0, PoolAssumption DEF TypeOK
    <3>in. \A p \in S : p \in Pages
      BY <3>nat, <3>end DEF Pages, Span
    <3>1. S \subseteq {p \in Pages : owner[p] = m}
      BY Zenon, <3>live, <3>in, <1>0 DEF OwnerIsArena
    <3> QED
      BY Zenon, <2>1, <2>2, <3>1 DEF PrepareZero
  <2>3. CASE PreparePublish(m)
    <3>1. /\ ~boundsValid[m] /\ Window(m) = {}
          /\ UNCHANGED <<owner, residue>>
          /\ \A k \in MM : k # m => Window(k)' = Window(k)
      BY Zenon, <2>3, <1>0 DEF PreparePublish, PhaseShape, Window, TypeOK
    <3>2. \A p \in Window(m)' : p \in Pages /\ owner[p] = m /\ residue[p] \in {NoMM, m}
      BY Zenon, <3>1, <1>owned DEF IInv, WindowOwned, WindowClean, Window, Pages
    <3>3. seen' = [seen EXCEPT ![m] = Window(m)']
      BY Zenon, <3>1
    <3>4. Promise!Show(m)
      BY Zenon, <3>1, <3>2, <3>3 DEF Promise!Show, Promise!Pages, Pages
    <3> QED
      BY Zenon, <3>4 DEF Promise!Next
  <2>4. CASE AllocZero(m)
    <3> DEFINE S == Span(pending[m].start, pending[m].n)
    <3>live. phase[m] = "allocating" /\ live[m]
      BY Zenon, <2>4, <1>0 DEF AllocZero, PhaseShape
    <3>nat. /\ PoolPages \in Nat /\ first[m] \in Nat /\ reservedPages[m] \in Nat
            /\ pending[m].start \in Nat /\ pending[m].n \in Nat
      BY Zenon, <1>0, PoolAssumption DEF TypeOK
    <3>in. /\ first[m] <= pending[m].start
           /\ pending[m].start + pending[m].n <= first[m] + reservedPages[m]
      BY Zenon, <3>live, <1>0 DEF PendingShape
    <3>end. first[m] + reservedPages[m] <= PoolPages
      BY Zenon, <3>live, <1>0 DEF ArenaShape
    <3>1. \A p \in S : p \in Pages /\ p \in Span(first[m], reservedPages[m])
      <4>1. ASSUME NEW lo \in Nat, NEW len \in Nat, NEW at \in Nat, NEW n \in Nat,
                   lo <= at, at + n <= lo + len, lo + len <= PoolPages,
                   NEW p \in at..(at + n - 1)
            PROVE  p \in 0..(PoolPages - 1) /\ p \in lo..(lo + len - 1)
        BY <4>1, <3>nat
      <4> QED
        BY <4>1, <3>nat, <3>in, <3>end DEF Pages, Span
    <3>2. S \subseteq {p \in Pages : owner[p] = m}
      BY Zenon, <2>4, <3>1, <1>0 DEF AllocZero, PhaseShape, OwnerIsArena
    <3> QED
      BY Zenon, <2>1, <2>4, <3>2 DEF AllocZero
  <2>5. CASE AllocPublish(m)
    <3>1. /\ boundsValid[m] /\ boundsValid' = boundsValid
          /\ UNCHANGED <<owner, residue>>
          /\ \A k \in MM : k # m => Window(k)' = Window(k)
      BY Zenon, <2>5, <1>0 DEF AllocPublish, PhaseShape, Window, TypeOK
    <3>2. \A p \in Window(m)' : p \in Pages /\ owner[p] = m /\ residue[p] \in {NoMM, m}
      BY Zenon, <3>1, <1>owned DEF IInv, WindowOwned, WindowClean, Window, Pages
    <3>3. seen' = [seen EXCEPT ![m] = Window(m)']
      BY Zenon, <3>1
    <3>4. Window(m) \subseteq Window(m)'
      BY Zenon, <3>1, NextGrows DEF GrowStep
    <3>5. Promise!Show(m)
      BY Zenon, <3>1, <3>2, <3>3, <3>4 DEF Promise!Show, Promise!Pages, Pages
    <3> QED
      BY Zenon, <3>5 DEF Promise!Next
  <2>6. CASE ExitEnd(m)
    BY Zenon, <2>6, <1>same DEF ExitEnd, Window
  <2>7. CASE ReleaseRevoke(m)
    <3>1. \A k \in MM : Window(k)' = IF k = m THEN {} ELSE Window(k)
      BY Zenon, <2>7, <1>0 DEF ReleaseRevoke, Window, TypeOK
    <3>2. seen' = [seen EXCEPT ![m] = {}]
      BY Zenon, <3>1
    <3>3. Promise!Hide(m)
      BY Zenon, <2>7, <3>2 DEF ReleaseRevoke, Promise!Hide
    <3> QED
      BY Zenon, <3>3 DEF Promise!Next
  <2>8. CASE ReleaseArena(m)
    <3>1. seen[m] = {} /\ UNCHANGED <<seen, residue>>
      BY Zenon, <2>8, <1>0 DEF ReleaseArena, PhaseShape, Window
    <3>2. \A p \in Pages : owner[p] = m <=> p \in Span(first[m], reservedPages[m])
      BY Zenon, <2>8, <1>0 DEF ReleaseArena, PhaseShape, OwnerIsArena
    <3>3. owner' = [p \in Pages |-> IF owner[p] = m THEN NoMM ELSE owner[p]]
      BY Zenon, <2>8, <3>2 DEF ReleaseArena
    <3>4. Promise!Drop(m)
      BY Zenon, <3>1, <3>3 DEF Promise!Drop, Promise!Pages, Pages
    <3> QED
      BY Zenon, <3>4 DEF Promise!Next
  <2> QED
    BY Zenon, <1>3, <2>2, <2>3, <2>4, <2>5, <2>6, <2>7, <2>8 DEF Finish
<1> QED
  BY Zenon, <1>1, <1>2, <1>3 DEF Next

\* The arenas of micronux_user_pool.c implement the page pool: visible to one mm
\* at a time, wiped between owners, hidden before they are given back.
THEOREM ArenasImplementPool == Spec => ImplementsPool
<1>1. Init => Promise!Init
  BY Zenon DEF Init, Promise!Init, Promise!Pages, Pages, Window
<1> QED
  BY <1>1, StepImplementsPool, ArenaInvariant, PTL DEF Spec, ImplementsPool, Promise!Spec
-----------------------------------------------------------------------------
(***************************************************************************)
(* The counters.  Counts relates each counter to the bitmap it counts.     *)
(* The five operations that move a counter set bits that were clear or     *)
(* clear bits that were set, which the invariant above supplies.           *)
(***************************************************************************)
INSTANCE FiniteSetTheorems

MappedPairs == {x \in MM \X Pages : x[2] \in mapped[x[1]]}
LiveArenas == {m \in MM : live[m]}

Counts ==
  /\ reservedTotal = Cardinality(reserved)
  /\ arenaCount = Cardinality(LiveArenas)
  /\ \A m \in MM : mappedPages[m] = Cardinality(mapped[m])
  /\ mappedTotal = Cardinality(MappedPairs)

\* A run of n pages has n members.
LEMMA SpanSize ==
  ASSUME NEW a \in Nat, NEW n \in Nat, n > 0
  PROVE  IsFiniteSet(Span(a, n)) /\ Cardinality(Span(a, n)) = n
<1>1. a \in Int /\ a + n - 1 \in Int /\ ~(a > a + n - 1) /\ a + n - 1 - a + 1 = n
  OBVIOUS
<1> QED
  BY <1>1, FS_Interval DEF Span

\* bitmap_set of clear bits adds their number, bitmap_clear of set bits takes
\* it away.
LEMMA SetBits ==
  ASSUME NEW S, NEW T, IsFiniteSet(S), IsFiniteSet(T), T \cap S = {}
  PROVE  /\ IsFiniteSet(S \cup T)
         /\ Cardinality(S \cup T) = Cardinality(S) + Cardinality(T)
<1>1. S \cap T = {}
  BY Zenon
<1>2. Cardinality(S) \in Nat /\ Cardinality(T) \in Nat /\ Cardinality(S \cap T) = 0
  BY Zenon, <1>1, FS_CardinalityType, FS_EmptySet
<1>3. /\ IsFiniteSet(S \cup T)
      /\ Cardinality(S \cup T) = Cardinality(S) + Cardinality(T) - Cardinality(S \cap T)
  BY Zenon, FS_Union
<1> QED
  BY <1>2, <1>3

LEMMA ClearBits ==
  ASSUME NEW S, NEW T, IsFiniteSet(S), T \subseteq S
  PROVE  /\ IsFiniteSet(S \ T)
         /\ Cardinality(S \ T) = Cardinality(S) - Cardinality(T)
<1>1. S \cap T = T
  BY Zenon
<1> QED
  BY ZenonT(30), <1>1, FS_Difference

\* The bitmaps are finite, and a mapping lies in the pool.
LEMMA FiniteBitmaps ==
  ASSUME IInv
  PROVE  /\ IsFiniteSet(reserved) /\ IsFiniteSet(LiveArenas) /\ IsFiniteSet(MappedPairs)
         /\ \A m \in MM : mapped[m] \subseteq Pages /\ IsFiniteSet(mapped[m])
<1>0. TypeOK /\ \A m \in MM : ArenaShape(m)
  BY Zenon DEF IInv, Shape
<1>1. IsFiniteSet(Pages)
  <2>1. PoolPages - 1 \in Int
    BY PoolAssumption
  <2> QED
    BY <2>1, FS_Interval DEF Pages
<1>2. ASSUME NEW m \in MM PROVE mapped[m] \subseteq Pages
  <2>1. SUFFICES ASSUME NEW i \in mapped[m] PROVE i \in Pages
    BY Zenon
  <2>2. live[m] /\ i \in Nat /\ i < reservedPages[m] /\ reservedPages[m] \in Nat /\ first[m] \in Nat
    BY Zenon, <1>0 DEF TypeOK, ArenaShape
  <2>3. first[m] + reservedPages[m] <= PoolPages
    BY Zenon, <1>0, <2>2 DEF ArenaShape
  <2> QED
    BY <2>2, <2>3, PoolAssumption DEF Pages
<1>3. reserved \in SUBSET Pages /\ LiveArenas \in SUBSET MM /\ MappedPairs \in SUBSET (MM \X Pages)
  BY Zenon, <1>0 DEF TypeOK, LiveArenas, MappedPairs
<1>4. IsFiniteSet(MM \X Pages)
  BY Zenon, <1>1, PoolAssumption, FS_Product
<1>5. IsFiniteSet(reserved) /\ IsFiniteSet(LiveArenas) /\ IsFiniteSet(MappedPairs)
  BY Zenon, <1>1, <1>3, <1>4, PoolAssumption, FS_Subset
<1>6. \A m \in MM : IsFiniteSet(mapped[m])
  BY Zenon, <1>1, <1>2, FS_Subset
<1> QED
  BY Zenon, <1>2, <1>5, <1>6

\* No bit is set at boot and no counter is above 0.
LEMMA InitCounts == Init => Counts
<1> SUFFICES ASSUME Init PROVE Counts
  OBVIOUS
<1>1. LiveArenas = {} /\ MappedPairs = {}
  <2>1. LiveArenas = {}
    BY Zenon DEF Init, LiveArenas
  <2>2. MappedPairs = {}
    BY Zenon DEF Init, MappedPairs
  <2> QED
    BY Zenon, <2>1, <2>2
<1> QED
  BY Zenon, <1>1, FS_EmptySet DEF Init, Counts

\* What a change of one mm's bitmap does to the bits of all of them.
LEMMA PairsAdded ==
  ASSUME IInv, NEW m \in MM, NEW T, IsFiniteSet(T), T \subseteq Pages, T \cap mapped[m] = {},
         mapped' = [mapped EXCEPT ![m] = @ \cup T]
  PROVE  Cardinality(MappedPairs') = Cardinality(MappedPairs) + Cardinality(T)
<1>0. mapped \in [MM -> SUBSET Nat]
  BY Zenon DEF IInv, TypeOK
<1>1. MappedPairs' = MappedPairs \cup ({m} \X T)
  <2>1. \A k \in MM : mapped'[k] = IF k = m THEN mapped[m] \cup T ELSE mapped[k]
    BY Zenon, <1>0
  <2> QED
    BY <2>1 DEF MappedPairs
<1>2. ({m} \X T) \cap MappedPairs = {}
  BY Zenon DEF MappedPairs
<1>3. IsFiniteSet({m} \X T) /\ Cardinality({m} \X T) = Cardinality(T)
  <2>1. IsFiniteSet({m}) /\ Cardinality({m}) = 1 /\ Cardinality(T) \in Nat
    BY Zenon, FS_Singleton, FS_CardinalityType
  <2>2. IsFiniteSet({m} \X T) /\ Cardinality({m} \X T) = Cardinality({m}) * Cardinality(T)
    BY Zenon, <2>1, FS_Product
  <2> QED
    BY <2>1, <2>2
<1>4. Cardinality(MappedPairs \cup ({m} \X T)) = Cardinality(MappedPairs) + Cardinality({m} \X T)
  BY Zenon, <1>2, <1>3, FiniteBitmaps, SetBits
<1> QED
  BY Zenon, <1>1, <1>3, <1>4

LEMMA PairsRemoved ==
  ASSUME IInv, NEW m \in MM, NEW T, IsFiniteSet(T), T \subseteq mapped[m],
         mapped' = [mapped EXCEPT ![m] = @ \ T]
  PROVE  Cardinality(MappedPairs') = Cardinality(MappedPairs) - Cardinality(T)
<1>0. mapped \in [MM -> SUBSET Nat] /\ T \subseteq Pages
  BY Zenon, FiniteBitmaps DEF IInv, TypeOK
<1>1. MappedPairs' = MappedPairs \ ({m} \X T)
  <2>1. \A k \in MM : mapped'[k] = IF k = m THEN mapped[m] \ T ELSE mapped[k]
    BY Zenon, <1>0
  <2> QED
    BY <2>1 DEF MappedPairs
<1>2. ({m} \X T) \subseteq MappedPairs
  BY Zenon, <1>0 DEF MappedPairs
<1>3. IsFiniteSet({m} \X T) /\ Cardinality({m} \X T) = Cardinality(T)
  <2>1. IsFiniteSet({m}) /\ Cardinality({m}) = 1 /\ Cardinality(T) \in Nat
    BY Zenon, FS_Singleton, FS_CardinalityType
  <2>2. IsFiniteSet({m} \X T) /\ Cardinality({m} \X T) = Cardinality({m}) * Cardinality(T)
    BY Zenon, <2>1, FS_Product
  <2> QED
    BY <2>1, <2>2
<1>4. Cardinality(MappedPairs \ ({m} \X T)) = Cardinality(MappedPairs) - Cardinality({m} \X T)
  BY Zenon, <1>2, FiniteBitmaps, ClearBits
<1> QED
  BY Zenon, <1>1, <1>3, <1>4

\* micronux_user_arena_prepare reserves a run of free pages for one more arena.
LEMMA PrepareReserveCounts ==
  ASSUME IInv, Counts, NEW m \in MM, NEW n \in 1..PoolPages, PrepareReserve(m, n)
  PROVE  Counts'
<1>0. TypeOK /\ PhaseShape(m) /\ ArenaShape(m)
  BY Zenon DEF IInv, Shape
<1>1. PICK start \in Pages, end \in 1..PoolPages :
        /\ LargestFreeExtent(start, end)
        /\ n <= end - start
        /\ reserved' = reserved \cup Span(start, n)
  BY Zenon DEF PrepareReserve
<1>2. start \in Nat /\ n \in Nat /\ n > 0
  BY PoolAssumption DEF Pages
<1>3. Span(start, n) \cap reserved = {}
  <2>1. start..(end - 1) \cap reserved = {}
    BY Zenon, <1>1 DEF LargestFreeExtent, FreeExtent
  <2>2. Span(start, n) \subseteq start..(end - 1)
    BY <1>1, <1>2, PoolAssumption DEF Span
  <2> QED
    BY Zenon, <2>1, <2>2
<1>4. reservedTotal' = Cardinality(reserved')
  <2>1. Cardinality(reserved \cup Span(start, n)) = Cardinality(reserved) + n
    <3>1. IsFiniteSet(Span(start, n)) /\ Cardinality(Span(start, n)) = n
      BY Zenon, <1>2, SpanSize
    <3>2. IsFiniteSet(reserved)
      BY Zenon, FiniteBitmaps
    <3> QED
      BY Zenon, <1>3, <3>1, <3>2, SetBits
  <2> QED
    BY Zenon, <1>1, <2>1 DEF PrepareReserve, Counts
<1>5. ~live[m] /\ mapped[m] = {}
  BY Zenon, <1>0 DEF PrepareReserve, Goto, PhaseShape, ArenaShape
<1>6. arenaCount' = Cardinality(LiveArenas')
  <2>1. LiveArenas' = LiveArenas \cup {m} /\ m \notin LiveArenas
    <3>1. \A k \in MM : live'[k] <=> (k = m \/ live[k])
      BY Zenon, <1>0 DEF PrepareReserve, TypeOK
    <3> QED
      BY Zenon, <1>5, <3>1 DEF LiveArenas
  <2>2. Cardinality(LiveArenas \cup {m}) = Cardinality(LiveArenas) + 1
    BY Zenon, <2>1, FS_AddElement, FiniteBitmaps
  <2> QED
    BY Zenon, <2>1, <2>2 DEF PrepareReserve, Counts
<1>7. mapped' = mapped /\ mappedPages' = mappedPages
  <2>1. mappedPages[m] = 0
    BY Zenon, <1>5, FS_EmptySet DEF Counts
  <2> QED
    BY Zenon, <1>0, <1>5, <2>1 DEF PrepareReserve, TypeOK
<1>8. MappedPairs' = MappedPairs /\ mappedTotal' = mappedTotal
  BY Zenon, <1>7 DEF MappedPairs, PrepareReserve
<1> QED
  BY Zenon, <1>4, <1>6, <1>7, <1>8 DEF Counts

\* Both branches of micronux_user_arena_alloc count the clear bits they set.
LEMMA MapPagesCounts ==
  ASSUME IInv, Counts, NEW m \in MM, NEW i \in Nat, NEW n \in 1..PoolPages, NEW e,
         MapPages(m, i, n, e), Span(i, n) \cap mapped[m] = {}, i + n <= PoolPages
  PROVE  /\ \A k \in MM : mappedPages'[k] = Cardinality(mapped'[k])
         /\ mappedTotal' = Cardinality(MappedPairs')
<1>0. TypeOK
  BY Zenon DEF IInv
<1>1. n \in Nat /\ n > 0 /\ Span(i, n) \subseteq Pages
  BY PoolAssumption DEF Span, Pages
<1>2. IsFiniteSet(Span(i, n)) /\ Cardinality(Span(i, n)) = n
  BY Zenon, <1>1, SpanSize
<1>3. mapped' = [mapped EXCEPT ![m] = @ \cup Span(i, n)]
  BY Zenon DEF MapPages
<1>4. mappedTotal' = Cardinality(MappedPairs')
  <2>1. Cardinality(MappedPairs') = Cardinality(MappedPairs) + Cardinality(Span(i, n))
    BY Zenon, <1>1, <1>2, <1>3, PairsAdded
  <2> QED
    BY Zenon, <1>2, <2>1 DEF MapPages, Counts
<1>5. ASSUME NEW k \in MM PROVE mappedPages'[k] = Cardinality(mapped'[k])
  <2>1. CASE k = m
    <3>1. Cardinality(mapped[m] \cup Span(i, n)) = Cardinality(mapped[m]) + n
      BY Zenon, <1>2, SetBits, FiniteBitmaps
    <3>2. mapped'[m] = mapped[m] \cup Span(i, n) /\ mappedPages'[m] = mappedPages[m] + n
      BY Zenon, <1>0 DEF MapPages, TypeOK
    <3> QED
      BY Zenon, <2>1, <3>1, <3>2 DEF Counts
  <2>2. CASE k # m
    BY Zenon, <1>0, <2>2 DEF MapPages, TypeOK, Counts
  <2> QED
    BY Zenon, <2>1, <2>2
<1> QED
  BY Zenon, <1>4, <1>5

\* micronux_user_arena_alloc inside the arena.
LEMMA AllocInsideCounts ==
  ASSUME IInv, Counts, NEW m \in MM, NEW n \in 1..PoolPages, AllocInside(m, n)
  PROVE  Counts'
<1>0. TypeOK /\ PhaseShape(m) /\ ArenaShape(m)
  BY Zenon DEF IInv, Shape
<1>1. PICK i \in 0..(reservedPages[m] - 1) :
        FirstZeroArea(mapped[m], reservedPages[m], n, i) /\ MapPages(m, i, n, FALSE)
  BY Zenon DEF AllocInside
<1>2. Span(i, n) \cap mapped[m] = {} /\ i + n <= reservedPages[m]
  BY Zenon, <1>1 DEF FirstZeroArea, ZeroArea
<1>3. i \in Nat /\ i + n <= PoolPages
  <2>1. live[m]
    BY Zenon, <1>0 DEF AllocInside, Goto, PhaseShape
  <2>2. first[m] + reservedPages[m] <= PoolPages
    BY Zenon, <1>0, <2>1 DEF ArenaShape
  <2>3. first[m] \in Nat /\ reservedPages[m] \in Nat
    BY Zenon, <1>0, FieldTypes
  <2> QED
    BY <1>2, <2>2, <2>3, PoolAssumption
<1>4. /\ \A k \in MM : mappedPages'[k] = Cardinality(mapped'[k])
      /\ mappedTotal' = Cardinality(MappedPairs')
  BY Zenon, <1>1, <1>2, <1>3, MapPagesCounts
<1>5. reserved' = reserved /\ reservedTotal' = reservedTotal /\ arenaCount' = arenaCount /\ live' = live
  BY Zenon DEF AllocInside
<1> QED
  BY Zenon, <1>4, <1>5 DEF Counts, LiveArenas

\* micronux_user_arena_alloc growing the arena.
LEMMA AllocExpandCounts ==
  ASSUME IInv, Counts, NEW m \in MM, NEW n \in 1..PoolPages, AllocExpand(m, n)
  PROVE  Counts'
<1>0. TypeOK /\ PhaseShape(m) /\ ArenaShape(m)
  BY Zenon DEF IInv, Shape
<1> DEFINE page == first[m] + reservedPages[m]
<1>1. first[m] \in Nat /\ reservedPages[m] \in Nat /\ n \in Nat /\ n > 0 /\ page \in Nat
  BY <1>0, FieldTypes, PoolAssumption
<1>2. /\ Span(page, n) \cap reserved = {} /\ n <= PoolPages - page
      /\ reserved' = reserved \cup Span(page, n) /\ reservedTotal' = reservedTotal + n
      /\ MapPages(m, reservedPages[m], n, TRUE) /\ arenaCount' = arenaCount /\ live' = live
  BY Zenon DEF AllocExpand
<1>3. reservedTotal' = Cardinality(reserved')
  <2> HIDE DEF page
  <2>1. Cardinality(reserved \cup Span(page, n)) = Cardinality(reserved) + n
    <3>1. IsFiniteSet(Span(page, n)) /\ Cardinality(Span(page, n)) = n
      BY Zenon, <1>1, SpanSize
    <3>2. IsFiniteSet(reserved)
      BY Zenon, FiniteBitmaps
    <3> QED
      BY Zenon, <1>2, <3>1, <3>2, SetBits
  <2> QED
    BY Zenon, <1>2, <2>1 DEF Counts
<1>4. reservedPages[m] + n <= PoolPages
  BY <1>1, <1>2, PoolAssumption
<1>5. Span(reservedPages[m], n) \cap mapped[m] = {}
  <2>1. \A x \in mapped[m] : x \in Nat /\ x < reservedPages[m]
    BY Zenon, <1>0 DEF ArenaShape, TypeOK
  <2>2. \A x \in Span(reservedPages[m], n) : ~(x < reservedPages[m])
    BY <1>1 DEF Span
  <2> QED
    BY Zenon, <2>1, <2>2
<1>6. /\ \A k \in MM : mappedPages'[k] = Cardinality(mapped'[k])
      /\ mappedTotal' = Cardinality(MappedPairs')
  BY Zenon, <1>1, <1>2, <1>4, <1>5, MapPagesCounts
<1> QED
  BY Zenon, <1>2, <1>3, <1>6 DEF Counts, LiveArenas

\* micronux_user_arena_free takes set bits away from one arena.
LEMMA ArenaFreeCounts ==
  ASSUME IInv, Counts, NEW m \in MM, NEW start \in Pages, NEW n \in 1..PoolPages,
         owner[start] = m, ArenaFree(start, n)
  PROVE  Counts'
<1>0. TypeOK
  BY Zenon DEF IInv
<1> DEFINE relative == start - first[m]
<1>1. /\ start >= first[m] /\ Span(relative, n) \subseteq mapped[m]
      /\ mapped' = [mapped EXCEPT ![m] = @ \ Span(relative, n)]
      /\ mappedPages' = [mappedPages EXCEPT ![m] = @ - n]
      /\ mappedTotal' = mappedTotal - n
      /\ reserved' = reserved /\ reservedTotal' = reservedTotal /\ arenaCount' = arenaCount
      /\ live' = live
  BY Zenon DEF ArenaFree
<1>2. relative \in Nat /\ n \in Nat /\ n > 0
  BY <1>0, <1>1, FieldTypes, PoolAssumption DEF Pages
<1> HIDE DEF relative
<1>3. IsFiniteSet(Span(relative, n)) /\ Cardinality(Span(relative, n)) = n
  BY Zenon, <1>2, SpanSize
<1>4. mappedTotal' = Cardinality(MappedPairs')
  <2>1. Cardinality(MappedPairs') = Cardinality(MappedPairs) - Cardinality(Span(relative, n))
    BY Zenon, <1>1, <1>3, PairsRemoved
  <2> QED
    BY Zenon, <1>1, <1>3, <2>1 DEF Counts
<1>5. ASSUME NEW k \in MM PROVE mappedPages'[k] = Cardinality(mapped'[k])
  <2>1. CASE k = m
    <3>1. Cardinality(mapped[m] \ Span(relative, n)) = Cardinality(mapped[m]) - n
      BY Zenon, <1>1, <1>3, ClearBits, FiniteBitmaps
    <3>2. mapped'[m] = mapped[m] \ Span(relative, n) /\ mappedPages'[m] = mappedPages[m] - n
      BY Zenon, <1>0, <1>1 DEF TypeOK
    <3> QED
      BY Zenon, <2>1, <3>1, <3>2 DEF Counts
  <2>2. CASE k # m
    BY Zenon, <1>0, <1>1, <2>2 DEF TypeOK, Counts
  <2> QED
    BY Zenon, <2>1, <2>2
<1> QED
  BY Zenon, <1>1, <1>4, <1>5 DEF Counts, LiveArenas

\* An arena that is given back has no mapping, and its run of pages is reserved.
LEMMA RevokedArena ==
  ASSUME IInv, Counts, NEW m \in MM, phase[m] = "revoked"
  PROVE  /\ live[m] /\ mapped[m] = {} /\ mappedPages[m] = 0
         /\ first[m] \in Nat /\ reservedPages[m] \in Nat /\ reservedPages[m] > 0
         /\ first[m] + reservedPages[m] <= PoolPages
         /\ \A p \in Span(first[m], reservedPages[m]) : owner[p] = m /\ p \in reserved
<1>0. TypeOK /\ OwnerIsArena /\ PhaseShape(m) /\ ArenaShape(m)
  BY Zenon DEF IInv, Shape
<1>1. live[m] /\ mapped[m] = {}
  BY Zenon, <1>0 DEF PhaseShape, ArenaShape
<1>2. mappedPages[m] = 0
  BY Zenon, <1>1, FS_EmptySet DEF Counts
<1>3. /\ first[m] \in Nat /\ reservedPages[m] \in Nat /\ reservedPages[m] > 0
      /\ first[m] + reservedPages[m] <= PoolPages
  BY Zenon, <1>0, <1>1, FieldTypes DEF ArenaShape
<1>4. Span(first[m], reservedPages[m]) \subseteq Pages
  BY <1>3, PoolAssumption DEF Span, Pages
<1>5. \A p \in Span(first[m], reservedPages[m]) : owner[p] = m /\ p \in reserved
  <2>1. SUFFICES ASSUME NEW p \in Span(first[m], reservedPages[m])
                 PROVE  owner[p] = m /\ p \in reserved
    BY Zenon
  <2>2. p \in Pages /\ owner[p] = m
    BY Zenon, <1>0, <1>1, <1>4 DEF OwnerIsArena
  <2>3. m # NoMM
    BY Zenon, PoolAssumption
  <2> QED
    BY Zenon, <1>0, <2>2, <2>3 DEF OwnerIsArena
<1> QED
  BY Zenon, <1>1, <1>2, <1>3, <1>5

\* micronux_user_arena_release takes back the run of one arena.
LEMMA ReleaseArenaCounts ==
  ASSUME IInv, Counts, NEW m \in MM, ReleaseArena(m)
  PROVE  Counts'
<1>0. TypeOK /\ phase[m] = "revoked"
  BY Zenon DEF IInv, ReleaseArena, Goto
<1> DEFINE run == Span(first[m], reservedPages[m])
<1>1. reservedTotal' = Cardinality(reserved')
  <2>1. IsFiniteSet(run) /\ Cardinality(run) = reservedPages[m] /\ run \subseteq reserved
    BY Zenon, <1>0, RevokedArena, SpanSize
  <2>2. reserved' = reserved \ run /\ reservedTotal' = reservedTotal - reservedPages[m]
    BY Zenon DEF ReleaseArena
  <2> HIDE DEF run
  <2>3. Cardinality(reserved \ run) = Cardinality(reserved) - Cardinality(run)
    BY Zenon, <2>1, ClearBits, FiniteBitmaps
  <2> QED
    BY Zenon, <2>1, <2>2, <2>3 DEF Counts
<1>2. arenaCount' = Cardinality(LiveArenas')
  <2>1. LiveArenas' = LiveArenas \ {m} /\ m \in LiveArenas
    BY Zenon, <1>0, RevokedArena DEF ReleaseArena, TypeOK, LiveArenas
  <2>2. Cardinality(LiveArenas \ {m}) = Cardinality(LiveArenas) - 1
    BY Zenon, <2>1, FS_RemoveElement, FiniteBitmaps
  <2> QED
    BY Zenon, <2>1, <2>2 DEF ReleaseArena, Counts
<1>3. mapped' = mapped /\ mappedPages' = mappedPages
  <2>1. mapped[m] = {} /\ mappedPages[m] = 0
    BY Zenon, <1>0, RevokedArena
  <2> QED
    BY Zenon, <1>0, <2>1 DEF ReleaseArena, TypeOK
<1>4. mappedTotal' = mappedTotal
  <2>1. mappedTotal' = mappedTotal - 0 /\ mappedTotal \in Int
    BY Zenon, <1>0, RevokedArena DEF ReleaseArena, TypeOK
  <2> QED
    BY <2>1
<1>5. MappedPairs' = MappedPairs
  BY Zenon, <1>3 DEF MappedPairs
<1> QED
  BY Zenon, <1>1, <1>2, <1>3, <1>4, <1>5 DEF Counts

\* Every other operation leaves the bitmaps and their counters alone.
LEMMA NextCounts == IInv /\ Counts /\ [Next]_vars => Counts'
<1> SUFFICES ASSUME IInv, Counts, [Next]_vars PROVE Counts'
  OBVIOUS
<1>0. ASSUME UNCHANGED <<pool, arena>> PROVE Counts'
  BY Zenon, <1>0 DEF pool, arena, Counts, LiveArenas, MappedPairs
<1>1. CASE UNCHANGED vars
  BY Zenon, <1>0, <1>1 DEF vars
<1>2. ASSUME NEW m \in MM, Call(m) PROVE Counts'
  <2>1. InitNewContext(m) \/ ExitBegin(m) \/ (\E p \in Pages : UserWrite(m, p)) => Counts'
    BY Zenon, <1>0 DEF InitNewContext, ExitBegin, UserWrite
  <2> QED
    BY Zenon, <1>2, <2>1, PrepareReserveCounts, AllocInsideCounts, AllocExpandCounts,
       ArenaFreeCounts DEF Call
<1>3. ASSUME NEW m \in MM, Finish(m) PROVE Counts'
  <2>1. PrepareZero(m) \/ PreparePublish(m) \/ AllocZero(m) \/ AllocPublish(m) => Counts'
    BY Zenon, <1>0 DEF PrepareZero, PreparePublish, AllocZero, AllocPublish
  <2>2. ExitEnd(m) \/ ReleaseRevoke(m) => Counts'
    BY Zenon, <1>0 DEF ExitEnd, ReleaseRevoke
  <2> QED
    BY Zenon, <1>3, <2>1, <2>2, ReleaseArenaCounts DEF Finish
<1> QED
  BY Zenon, <1>1, <1>2, <1>3 DEF Next

\* The counters of /proc/micronux_user_pool are exact in every reachable state
\* and no WARN_ON_ONCE of micronux_user_arena_release can fire, for every number
\* of mms and every pool size: no arena is ever leaked.
THEOREM AccountingHolds == Spec => []Accounting
<1>1. ASSUME IInv, Counts PROVE Accounting
  <2>1. ASSUME NEW m \in MM, phase[m] = "revoked"
        PROVE  ReleaseConsistent(m) /\ mappedPages[m] = 0
    <3> DEFINE run == Span(first[m], reservedPages[m])
    <3>1. IsFiniteSet(run) /\ Cardinality(run) = reservedPages[m] /\ run \subseteq reserved
      BY Zenon, <1>1, <2>1, RevokedArena, SpanSize
    <3>2. reservedPages[m] <= reservedTotal
      <4> HIDE DEF run
      <4> QED
        BY <1>1, <3>1, FS_Subset, FiniteBitmaps DEF Counts
    <3>3. mappedPages[m] = 0 /\ mappedTotal \in Nat
      BY Zenon, <1>1, <2>1, RevokedArena, FiniteBitmaps, FS_CardinalityType DEF Counts
    <3>4. arenaCount # 0
      <4>1. m \in LiveArenas
        BY Zenon, <1>1, <2>1, RevokedArena DEF LiveArenas
      <4> QED
        BY Zenon, <1>1, <4>1, FS_EmptySet, FiniteBitmaps DEF Counts
    <3>5. /\ first[m] \in Nat /\ reservedPages[m] \in Nat /\ reservedPages[m] > 0
          /\ first[m] + reservedPages[m] <= PoolPages
      BY Zenon, <1>1, <2>1, RevokedArena
    <3>6. /\ reservedPages[m] # 0 /\ first[m] < PoolPages
          /\ reservedPages[m] <= PoolPages - first[m] /\ mappedPages[m] <= mappedTotal
      BY <3>3, <3>5, PoolAssumption
    <3>7. \A p \in run : owner[p] = m /\ p \in reserved
      BY Zenon, <1>1, <2>1, RevokedArena
    <3> QED
      BY Zenon, <3>2, <3>3, <3>4, <3>6, <3>7 DEF ReleaseConsistent
  <2> QED
    BY Zenon, <1>1, <2>1 DEF Accounting, Counts, LiveArenas, MappedPairs
<1> QED
  BY <1>1, InitCounts, NextCounts, ArenaInvariant, PTL DEF Spec
=============================================================================

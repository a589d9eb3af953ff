------------------------------ MODULE UserArena ------------------------------
(***************************************************************************)
(* The per-mm user arenas of the ESP32-P4 isolation profile                *)
(* (arch/riscv/mm/micronux_user_pool.c as left by patches-isolation        *)
(* 0001, 0006, 0008 and 0010, with its callers in mm/nommu.c and           *)
(* fs/binfmt_flat.c).                                                      *)
(*                                                                         *)
(* The 8 MiB user pool is a row of pages.  Every NOMMU mm owns at most one *)
(* contiguous arena of it; mappings are suballocated inside the arena; the *)
(* bounds the PMP overlay and access_ok use are published per mm.          *)
(*                                                                         *)
(* Addresses are page numbers relative to micronux_user_start.  The pool   *)
(* lock sections are atomic; the memset and the publication that follow    *)
(* the unlock are steps of their own, interleaved with every other mm.     *)
(***************************************************************************)
EXTENDS Integers, FiniteSets

CONSTANTS MM,         \* the mm_structs
          NoMM,       \* NULL, and "no mm's data" for a page full of zeroes
          PoolPages   \* micronux_user_pages

ASSUME PoolAssumption == /\ NoMM \notin MM
                         /\ PoolPages \in Nat \ {0}
                         /\ IsFiniteSet(MM)

VARIABLES
  reserved,        \* micronux_user_reserved: the set bits of the bitmap
  owner,           \* micronux_user_owner: the arena, named by its mm
  reservedTotal,   \* micronux_user_reserved_pages
  mappedTotal,     \* micronux_user_mapped_pages
  arenaCount,      \* micronux_user_arenas
  live,            \* is the arena of this mm allocated (kzalloc to kfree)?
  first,           \* arena->first
  reservedPages,   \* arena->reserved_pages
  mapped,          \* arena->mapped: the set bits, relative to first
  mappedPages,     \* arena->mapped_pages
  userArena,       \* is mm->context.user_arena set?
  userLo,          \* mm->context.user_lo
  userHi,          \* mm->context.user_hi
  boundsValid,     \* mm->context.user_bounds_valid
  phase,           \* where the kernel is in its work on this mm
  pending,         \* locals of micronux_user_arena_alloc after the unlock
  residue          \* whose bytes a page holds; NoMM after memset(0)

pool  == <<reserved, owner, reservedTotal, mappedTotal, arenaCount>>
arena == <<live, first, reservedPages, mapped, mappedPages>>
context == <<userArena, userLo, userHi, boundsValid>>
vars  == <<pool, arena, context, phase, pending, residue>>

Pages == 0..(PoolPages - 1)
Span(start, n) == start..(start + n - 1)

(***************************************************************************)
(* Phases of an mm: "none" before mm_alloc and after kfree; "new" after    *)
(* init_new_context; "reserving" and "zeroed" inside arena_prepare after   *)
(* its unlock; "ready"; "allocating" and "scrubbed" inside arena_alloc     *)
(* after its unlock; "exiting" inside exit_mmap; "exited" when no mapping  *)
(* is left; "revoked" inside arena_release before the lock.                *)
(***************************************************************************)
Phases == {"none", "new", "reserving", "zeroed", "ready", "allocating",
           "scrubbed", "exiting", "exited", "revoked"}

NoPending == [start |-> 0, n |-> 0, expanded |-> FALSE]

Goto(m, from, to) == /\ phase[m] = from
                     /\ phase' = [phase EXCEPT ![m] = to]
-----------------------------------------------------------------------------
(***************************************************************************)
(* bitmap_find_next_zero_area(map, limit, 0, n): the lowest index of n     *)
(* clear bits below limit.                                                 *)
(***************************************************************************)
ZeroArea(map, limit, n, i) ==
  /\ i + n <= limit
  /\ Span(i, n) \cap map = {}

FirstZeroArea(map, limit, n, i) ==
  /\ ZeroArea(map, limit, n, i)
  /\ \A j \in 0..(i - 1) : ~ZeroArea(map, limit, n, j)

(***************************************************************************)
(* micronux_user_largest_free_extent: start..end-1 is a maximal run of     *)
(* unreserved pages, none is longer, and the first of the longest wins.    *)
(***************************************************************************)
FreeExtent(start, end) ==
  /\ start < end
  /\ start..(end - 1) \cap reserved = {}
  /\ start = 0 \/ start - 1 \in reserved
  /\ end = PoolPages \/ end \in reserved

LargestFreeExtent(start, end) ==
  /\ FreeExtent(start, end)
  /\ \A s \in Pages, e \in 1..PoolPages :
       FreeExtent(s, e) => \/ e - s < end - start
                           \/ e - s = end - start /\ start <= s
-----------------------------------------------------------------------------
(***************************************************************************)
(* Faults: plausible mistakes in the operations below.  Each one replaces  *)
(* the operation it is named after when a property's strength is tested.   *)
(***************************************************************************)

\* No memset for a mapping that grew the arena.
AllocZeroInsideOnly(m) ==
  /\ Goto(m, "allocating", "scrubbed")
  /\ residue' = [p \in Pages |-> IF /\ p \in Span(pending[m].start, pending[m].n)
                                    /\ ~pending[m].expanded
                                 THEN NoMM ELSE residue[p]]
  /\ UNCHANGED <<pool, arena, context, pending>>

\* The growth is never published.
AllocPublishForgotten(m) ==
  /\ Goto(m, "scrubbed", "ready")
  /\ pending' = [pending EXCEPT ![m] = NoPending]
  /\ UNCHANGED <<pool, arena, context, residue>>

\* The pages are cleared from the bitmap but stay counted in the arena.
ArenaFreeStaysCounted(start, n) ==
  LET m == owner[start]
      relative == start - first[m]
  IN  /\ start + n <= PoolPages
      /\ m # NoMM
      /\ phase[m] \in {"ready", "exiting"}
      /\ Span(relative, n) \subseteq mapped[m]
      /\ mapped' = [mapped EXCEPT ![m] = @ \ Span(relative, n)]
      /\ mappedTotal' = mappedTotal - n
      /\ UNCHANGED <<reserved, owner, reservedTotal, arenaCount, live, first,
                     reservedPages, mappedPages, context, phase, pending, residue>>

\* The bounds stay valid while the arena is given back.
ReleaseRevokeKeepsBounds(m) ==
  /\ phase[m] = "exited"
  /\ phase' = [phase EXCEPT ![m] = IF userArena[m] THEN "revoked" ELSE "none"]
  /\ userArena' = [userArena EXCEPT ![m] = FALSE]
  /\ UNCHANGED <<pool, arena, userLo, userHi, boundsValid, pending, residue>>

\* The context pointer is cleared before it is read.
ReleaseRevokeLosesArena(m) ==
  /\ Goto(m, "exited", "none")
  /\ boundsValid' = [boundsValid EXCEPT ![m] = FALSE]
  /\ userLo' = [userLo EXCEPT ![m] = 0]
  /\ userHi' = [userHi EXCEPT ![m] = 0]
  /\ userArena' = [userArena EXCEPT ![m] = FALSE]
  /\ UNCHANGED <<pool, arena, pending, residue>>

\* The upper bound is taken as inclusive.
UserWriteInclusive(m, p) ==
  /\ phase[m] \in {"ready", "allocating", "scrubbed"}
  /\ boundsValid[m]
  /\ userLo[m] <= p /\ p <= userHi[m]
  /\ residue[p] # m
  /\ residue' = [residue EXCEPT ![p] = m]
  /\ UNCHANGED <<pool, arena, context, phase, pending>>
-----------------------------------------------------------------------------
(***************************************************************************)
(* micronux_user_pool_init zeroes the bitmap and the owner table; no mm    *)
(* exists.  What the pool's RAM holds at boot is nobody's data.            *)
(***************************************************************************)
Init ==
  /\ reserved = {}
  /\ owner = [p \in Pages |-> NoMM]
  /\ reservedTotal = 0 /\ mappedTotal = 0 /\ arenaCount = 0
  /\ live = [m \in MM |-> FALSE]
  /\ first = [m \in MM |-> 0]
  /\ reservedPages = [m \in MM |-> 0]
  /\ mapped = [m \in MM |-> {}]
  /\ mappedPages = [m \in MM |-> 0]
  /\ userArena = [m \in MM |-> FALSE]
  /\ userLo = [m \in MM |-> 0]
  /\ userHi = [m \in MM |-> 0]
  /\ boundsValid = [m \in MM |-> FALSE]
  /\ phase = [m \in MM |-> "none"]
  /\ pending = [m \in MM |-> NoPending]
  /\ residue = [p \in Pages |-> NoMM]

\* init_new_context: a new mm starts with no arena and invalid bounds.
InitNewContext(m) ==
  /\ Goto(m, "none", "new")
  /\ userArena' = [userArena EXCEPT ![m] = FALSE]
  /\ userLo' = [userLo EXCEPT ![m] = 0]
  /\ userHi' = [userHi EXCEPT ![m] = 0]
  /\ boundsValid' = [boundsValid EXCEPT ![m] = FALSE]
  /\ UNCHANGED <<pool, arena, pending, residue>>

(***************************************************************************)
(* micronux_user_arena_prepare up to the unlock, for an image of n pages.  *)
(* -EBUSY, -EINVAL and -ENOMEM change nothing.                             *)
(***************************************************************************)
PrepareReserve(m, n) ==
  /\ Goto(m, "new", "reserving")
  /\ ~userArena[m] /\ ~boundsValid[m]
  /\ \E start \in Pages, end \in 1..PoolPages :
       /\ LargestFreeExtent(start, end)
       /\ n <= end - start
       /\ first' = [first EXCEPT ![m] = start]
       /\ reserved' = reserved \cup Span(start, n)
       /\ owner' = [p \in Pages |-> IF p \in Span(start, n) THEN m ELSE owner[p]]
  /\ live' = [live EXCEPT ![m] = TRUE]
  /\ reservedPages' = [reservedPages EXCEPT ![m] = n]
  /\ mapped' = [mapped EXCEPT ![m] = {}]
  /\ mappedPages' = [mappedPages EXCEPT ![m] = 0]
  /\ reservedTotal' = reservedTotal + n
  /\ arenaCount' = arenaCount + 1
  /\ UNCHANGED <<mappedTotal, context, pending, residue>>

\* arena_prepare: memset over the whole arena, outside the lock.
PrepareZero(m) ==
  /\ Goto(m, "reserving", "zeroed")
  /\ residue' = [p \in Pages |-> IF p \in Span(first[m], reservedPages[m])
                                 THEN NoMM ELSE residue[p]]
  /\ UNCHANGED <<pool, arena, context, pending>>

\* arena_prepare: publish the arena pointer and the bounds, valid last.
PreparePublish(m) ==
  /\ Goto(m, "zeroed", "ready")
  /\ userArena' = [userArena EXCEPT ![m] = TRUE]
  /\ userLo' = [userLo EXCEPT ![m] = first[m]]
  /\ userHi' = [userHi EXCEPT ![m] = first[m] + reservedPages[m]]
  /\ boundsValid' = [boundsValid EXCEPT ![m] = TRUE]
  /\ UNCHANGED <<pool, arena, pending, residue>>
-----------------------------------------------------------------------------
\* What both branches of micronux_user_arena_alloc do under the lock.
MapPages(m, i, n, expanded) ==
  /\ mapped' = [mapped EXCEPT ![m] = @ \cup Span(i, n)]
  /\ mappedPages' = [mappedPages EXCEPT ![m] = @ + n]
  /\ mappedTotal' = mappedTotal + n
  /\ pending' = [pending EXCEPT ![m] = [start |-> first[m] + i, n |-> n,
                                        expanded |-> expanded]]

\* micronux_user_arena_alloc finds room inside the arena.
AllocInside(m, n) ==
  /\ Goto(m, "ready", "allocating")
  /\ boundsValid[m] /\ userArena[m]
  /\ \E i \in 0..(reservedPages[m] - 1) :
       /\ FirstZeroArea(mapped[m], reservedPages[m], n, i)
       /\ MapPages(m, i, n, FALSE)
  /\ UNCHANGED <<reserved, owner, reservedTotal, arenaCount, live, first,
                 reservedPages, context, residue>>

(***************************************************************************)
(* micronux_user_arena_alloc finds no room and grows the arena by n pages  *)
(* at its end, if those are in the pool and unreserved; otherwise it       *)
(* returns NULL and nothing changes.                                       *)
(***************************************************************************)
AllocExpand(m, n) ==
  LET page == first[m] + reservedPages[m] IN
  /\ Goto(m, "ready", "allocating")
  /\ boundsValid[m] /\ userArena[m]
  /\ \A i \in 0..reservedPages[m] : ~ZeroArea(mapped[m], reservedPages[m], n, i)
  /\ n <= PoolPages - page
  /\ Span(page, n) \cap reserved = {}
  /\ reserved' = reserved \cup Span(page, n)
  /\ owner' = [p \in Pages |-> IF p \in Span(page, n) THEN m ELSE owner[p]]
  /\ reservedPages' = [reservedPages EXCEPT ![m] = @ + n]
  /\ reservedTotal' = reservedTotal + n
  /\ MapPages(m, reservedPages[m], n, TRUE)
  /\ UNCHANGED <<arenaCount, live, first, context, residue>>

\* micronux_user_arena_alloc: memset over the new mapping, outside the lock.
AllocZero(m) ==
  /\ Goto(m, "allocating", "scrubbed")
  /\ residue' = [p \in Pages |-> IF p \in Span(pending[m].start, pending[m].n)
                                 THEN NoMM ELSE residue[p]]
  /\ UNCHANGED <<pool, arena, context, pending>>

\* micronux_user_arena_alloc: publish the new user_hi after an expansion.
AllocPublish(m) ==
  /\ Goto(m, "scrubbed", "ready")
  /\ userHi' = [userHi EXCEPT ![m] =
                  IF pending[m].expanded THEN first[m] + reservedPages[m] ELSE @]
  /\ pending' = [pending EXCEPT ![m] = NoPending]
  /\ UNCHANGED <<pool, arena, userArena, userLo, boundsValid, residue>>

(***************************************************************************)
(* micronux_user_arena_free(start, end) of n pages, called by              *)
(* free_page_series for an munmap (phase "ready") or for one region of     *)
(* exit_mmap (phase "exiting").  An invalid range changes nothing.         *)
(***************************************************************************)
ArenaFree(start, n) ==
  LET m == owner[start]
      relative == start - first[m]
  IN  /\ start + n <= PoolPages
      /\ m # NoMM
      /\ phase[m] \in {"ready", "exiting"}
      /\ start >= first[m]
      /\ n <= reservedPages[m] - relative
      /\ \A p \in Span(start, n) : owner[p] = m
      /\ Span(relative, n) \subseteq mapped[m]
      /\ n <= mappedPages[m] /\ n <= mappedTotal
      /\ mapped' = [mapped EXCEPT ![m] = @ \ Span(relative, n)]
      /\ mappedPages' = [mappedPages EXCEPT ![m] = @ - n]
      /\ mappedTotal' = mappedTotal - n
      /\ UNCHANGED <<reserved, owner, reservedTotal, arenaCount, live, first,
                     reservedPages, context, phase, pending, residue>>
-----------------------------------------------------------------------------
\* The last user of the mm is gone: mmput calls exit_mmap.
ExitBegin(m) ==
  /\ phase[m] \in {"new", "ready"}
  /\ phase' = [phase EXCEPT ![m] = "exiting"]
  /\ UNCHANGED <<pool, arena, context, pending, residue>>

\* exit_mmap has returned every region.
ExitEnd(m) ==
  /\ Goto(m, "exiting", "exited")
  /\ mapped[m] = {}
  /\ UNCHANGED <<pool, arena, context, pending, residue>>

\* destroy_context, micronux_user_arena_release up to the lock.
ReleaseRevoke(m) ==
  /\ phase[m] = "exited"
  /\ phase' = [phase EXCEPT ![m] = IF userArena[m] THEN "revoked" ELSE "none"]
  /\ boundsValid' = [boundsValid EXCEPT ![m] = FALSE]
  /\ userLo' = [userLo EXCEPT ![m] = 0]
  /\ userHi' = [userHi EXCEPT ![m] = 0]
  /\ userArena' = [userArena EXCEPT ![m] = FALSE]
  /\ UNCHANGED <<pool, arena, pending, residue>>

(***************************************************************************)
(* The consistency micronux_user_arena_release checks with WARN_ON_ONCE    *)
(* before it gives anything back: when a check fails the arena is leaked.  *)
(***************************************************************************)
ReleaseConsistent(m) ==
  /\ reservedPages[m] # 0
  /\ first[m] < PoolPages
  /\ reservedPages[m] <= PoolPages - first[m]
  /\ reservedPages[m] <= reservedTotal
  /\ mappedPages[m] <= mappedTotal
  /\ arenaCount # 0
  /\ \A p \in Span(first[m], reservedPages[m]) : owner[p] = m /\ p \in reserved

\* micronux_user_arena_release under the lock, and kfree: the fields of an
\* arena that is not live are 0.
ReleaseArena(m) ==
  /\ Goto(m, "revoked", "none")
  /\ ReleaseConsistent(m)
  /\ owner' = [p \in Pages |-> IF p \in Span(first[m], reservedPages[m])
                               THEN NoMM ELSE owner[p]]
  /\ reserved' = reserved \ Span(first[m], reservedPages[m])
  /\ reservedTotal' = reservedTotal - reservedPages[m]
  /\ mappedTotal' = mappedTotal - mappedPages[m]
  /\ arenaCount' = arenaCount - 1
  /\ live' = [live EXCEPT ![m] = FALSE]
  /\ first' = [first EXCEPT ![m] = 0]
  /\ reservedPages' = [reservedPages EXCEPT ![m] = 0]
  /\ mapped' = [mapped EXCEPT ![m] = {}]
  /\ mappedPages' = [mappedPages EXCEPT ![m] = 0]
  /\ UNCHANGED <<context, pending, residue>>

(***************************************************************************)
(* A store by the process, or a copy_to_user that access_ok admits: any    *)
(* page inside the published bounds may come to hold this mm's bytes.      *)
(***************************************************************************)
UserWrite(m, p) ==
  /\ phase[m] \in {"ready", "allocating", "scrubbed"}
  /\ boundsValid[m]
  /\ userLo[m] <= p /\ p < userHi[m]
  /\ residue[p] # m
  /\ residue' = [residue EXCEPT ![p] = m]
  /\ UNCHANGED <<pool, arena, context, phase, pending>>
-----------------------------------------------------------------------------
\* Calls other code makes for an mm when it wants to.
Call(m) ==
  \/ InitNewContext(m)
  \/ \E n \in 1..PoolPages : PrepareReserve(m, n)
  \/ \E n \in 1..PoolPages : AllocInside(m, n) \/ AllocExpand(m, n)
  \/ \E start \in Pages, n \in 1..PoolPages : owner[start] = m /\ ArenaFree(start, n)
  \/ \E p \in Pages : UserWrite(m, p)
  \/ ExitBegin(m)

\* What the kernel has begun on an mm and finishes without being asked.
Finish(m) ==
  \/ PrepareZero(m)
  \/ PreparePublish(m)
  \/ AllocZero(m)
  \/ AllocPublish(m)
  \/ ExitEnd(m)
  \/ ReleaseRevoke(m)
  \/ ReleaseArena(m)

Next == \E m \in MM : Call(m) \/ Finish(m)

Spec == Init /\ [][Next]_vars

\* The regions exit_mmap still has to return.
ExitFree(m) ==
  \E start \in Pages, n \in 1..PoolPages :
    owner[start] = m /\ phase[m] = "exiting" /\ ArenaFree(start, n)

(***************************************************************************)
(* The kernel runs what it has begun to its end: neither arena_prepare,    *)
(* arena_alloc, exit_mmap nor destroy_context waits for anybody.           *)
(***************************************************************************)
Fairness == \A m \in MM : WF_vars(Finish(m)) /\ WF_vars(ExitFree(m))

FairSpec == Spec /\ Fairness
-----------------------------------------------------------------------------
(* Properties *)

Window(m) == IF boundsValid[m] THEN userLo[m]..(userHi[m] - 1) ELSE {}

\* Every variable holds a value the C declarations allow.
TypeOK ==
  /\ reserved \subseteq Pages
  /\ owner \in [Pages -> MM \cup {NoMM}]
  /\ reservedTotal \in Int /\ mappedTotal \in Int /\ arenaCount \in Int
  /\ live \in [MM -> BOOLEAN]
  /\ first \in [MM -> Nat]
  /\ reservedPages \in [MM -> Nat]
  /\ mapped \in [MM -> SUBSET Nat]
  /\ mappedPages \in [MM -> Int]
  /\ userArena \in [MM -> BOOLEAN]
  /\ userLo \in [MM -> Nat]
  /\ userHi \in [MM -> Nat]
  /\ boundsValid \in [MM -> BOOLEAN]
  /\ phase \in [MM -> Phases]
  /\ pending \in [MM -> [start : Nat, n : Nat, expanded : BOOLEAN]]
  /\ residue \in [Pages -> MM \cup {NoMM}]

\* The owner table, the bitmap and the arenas agree: a page is reserved exactly
\* when one live arena spans it, and the owner table names that arena
\* (arena_prepare, the growth in arena_alloc and arena_release keep all three).
OwnerIsArena ==
  /\ reserved = {p \in Pages : owner[p] # NoMM}
  /\ \A m \in MM, p \in Pages :
       owner[p] = m <=> live[m] /\ p \in Span(first[m], reservedPages[m])

\* The bounds the PMP overlay and access_ok read for an mm never cover a page
\* that another mm owns or nobody owns, whatever prepare, growth and release of
\* other mms are in progress.
WindowOwned ==
  \A m \in MM : boundsValid[m] =>
    /\ userLo[m] < userHi[m]
    /\ \A p \in userLo[m]..(userHi[m] - 1) : p \in Pages /\ owner[p] = m

\* A page inside an mm's published bounds holds zeroes or that mm's own bytes:
\* pages are zeroed after they change hands and before they become visible.
WindowClean ==
  \A m \in MM : \A p \in Window(m) : residue[p] \in {NoMM, m}

\* When no call is in progress for an mm, every page it was given by
\* arena_alloc lies inside the bounds published for it: no mapping is handed
\* out that its process would fault on.
MappingsReachable ==
  \A m \in MM : phase[m] \in {"ready", "exiting"} =>
    \A i \in mapped[m] : first[m] + i \in Window(m)

\* The counters /proc/micronux_user_pool prints equal what the bitmaps hold, and
\* arena_release never trips a WARN_ON_ONCE: nothing is leaked and no mapping is
\* still counted when the arena goes.
Accounting ==
  /\ reservedTotal = Cardinality(reserved)
  /\ arenaCount = Cardinality({m \in MM : live[m]})
  /\ \A m \in MM : mappedPages[m] = Cardinality(mapped[m])
  /\ mappedTotal = Cardinality({x \in MM \X Pages : x[2] \in mapped[x[1]]})
  /\ \A m \in MM : phase[m] = "revoked" => ReleaseConsistent(m) /\ mappedPages[m] = 0

\* What one step may do to an arena and its bounds.
GrowStep(m) ==
  /\ live[m] /\ live'[m] => /\ first'[m] = first[m]
                            /\ reservedPages'[m] >= reservedPages[m]
  /\ boundsValid[m] /\ boundsValid'[m] => Window(m) \subseteq Window(m)'

\* An arena never moves and never shrinks while its mm lives, and its published
\* bounds only grow until they are revoked.
GrowOnly == [][\A m \in MM : GrowStep(m)]_vars

\* An mm whose last user has gone gives back its arena.
Reclaimed == \A m \in MM : phase[m] = "exiting" ~> phase[m] = "none" /\ ~live[m]

-----------------------------------------------------------------------------
(***************************************************************************)
(* The inductive invariant behind the isolation properties: what is true   *)
(* of an mm in each phase of the kernel's work on it.                      *)
(***************************************************************************)

\* Which of the arena, the context pointer and the valid flag exist when.
PhaseShape(m) ==
  /\ phase[m] \in {"none", "new"} => ~live[m] /\ ~userArena[m] /\ ~boundsValid[m]
  /\ phase[m] \in {"reserving", "zeroed", "revoked"} =>
       live[m] /\ ~userArena[m] /\ ~boundsValid[m]
  /\ phase[m] \in {"ready", "allocating", "scrubbed"} =>
       live[m] /\ userArena[m] /\ boundsValid[m]
  /\ phase[m] \in {"exiting", "exited"} =>
       live[m] = userArena[m] /\ live[m] = boundsValid[m]

\* A live arena is inside the pool and its mappings are inside the arena.
ArenaShape(m) ==
  /\ live[m] => reservedPages[m] > 0 /\ first[m] + reservedPages[m] <= PoolPages
  /\ ~live[m] => mapped[m] = {}
  /\ \A i \in mapped[m] : i < reservedPages[m]
  /\ phase[m] \in {"reserving", "zeroed", "exited", "revoked"} => mapped[m] = {}

\* An expansion in progress: pages reserved beyond the published bounds.
Growing(m) == phase[m] \in {"allocating", "scrubbed"} /\ pending[m].expanded

PendingShape(m) ==
  phase[m] \in {"allocating", "scrubbed"} =>
    /\ pending[m].n > 0
    /\ first[m] <= pending[m].start
    /\ pending[m].start + pending[m].n <= first[m] + reservedPages[m]
    /\ pending[m].expanded => /\ first[m] < pending[m].start
                              /\ pending[m].start + pending[m].n =
                                   first[m] + reservedPages[m]

BoundsShape(m) ==
  boundsValid[m] =>
    /\ userLo[m] = first[m]
    /\ userHi[m] = IF Growing(m) THEN pending[m].start
                                 ELSE first[m] + reservedPages[m]

\* Pages that are about to be published have been zeroed.
Zeroed(m) ==
  /\ phase[m] = "zeroed" =>
       \A p \in Pages : p \in Span(first[m], reservedPages[m]) => residue[p] = NoMM
  /\ phase[m] = "scrubbed" /\ pending[m].expanded =>
       \A p \in Pages : p \in Span(pending[m].start, pending[m].n) => residue[p] = NoMM

Shape(m) == PhaseShape(m) /\ ArenaShape(m) /\ PendingShape(m) /\ BoundsShape(m)

IInv ==
  /\ TypeOK
  /\ OwnerIsArena
  /\ WindowClean
  /\ \A m \in MM : Shape(m) /\ Zeroed(m)
-----------------------------------------------------------------------------
\* What the arenas promise to the rest of the kernel.
Promise == INSTANCE PagePool WITH
  own   <- owner,
  seen  <- [m \in MM |-> Window(m)],
  bytes <- residue

\* The arenas implement the page pool: a page is visible to one mm at a time,
\* is wiped between two owners, and is hidden before it is given back.
ImplementsPool == Promise!Spec
=============================================================================

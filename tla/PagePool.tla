------------------------------ MODULE PagePool -------------------------------
(***************************************************************************)
(* What the reserved user pool promises to the isolation profile, without  *)
(* bitmaps, arenas or call order: pages have one owner, a process sees     *)
(* only pages it owns, and never sees another process's bytes.             *)
(***************************************************************************)
EXTENDS Integers

CONSTANTS MM, NoMM, PoolPages

VARIABLES own,    \* the mm that owns a page, or NoMM
          seen,   \* the pages a process of the mm can access in U-mode
          bytes   \* whose bytes a page holds, NoMM for zeroes

vars == <<own, seen, bytes>>

Pages == 0..(PoolPages - 1)

Init ==
  /\ own = [p \in Pages |-> NoMM]
  /\ seen = [m \in MM |-> {}]
  /\ bytes = [p \in Pages |-> NoMM]

\* A run of free pages becomes the mm's.
Claim(m) ==
  /\ \E lo, hi \in Pages :
       /\ lo <= hi
       /\ \A p \in lo..hi : own[p] = NoMM
       /\ own' = [p \in Pages |-> IF p \in lo..hi THEN m ELSE own[p]]
  /\ UNCHANGED <<seen, bytes>>

\* Pages of the mm are zeroed.
Wipe(m) ==
  /\ \E S \in SUBSET {p \in Pages : own[p] = m} :
       bytes' = [p \in Pages |-> IF p \in S THEN NoMM ELSE bytes[p]]
  /\ UNCHANGED <<own, seen>>

\* The mm sees more of the pages it owns, all of them clean.
Show(m) ==
  /\ \E S \in SUBSET {p \in Pages : own[p] = m /\ bytes[p] \in {NoMM, m}} :
       /\ seen[m] \subseteq S
       /\ seen' = [seen EXCEPT ![m] = S]
  /\ UNCHANGED <<own, bytes>>

\* The mm stops seeing anything.
Hide(m) ==
  /\ seen' = [seen EXCEPT ![m] = {}]
  /\ UNCHANGED <<own, bytes>>

\* The pages of an mm that sees none go back to the pool.
Drop(m) ==
  /\ seen[m] = {}
  /\ own' = [p \in Pages |-> IF own[p] = m THEN NoMM ELSE own[p]]
  /\ UNCHANGED <<seen, bytes>>

\* A process writes a page it sees.
Write(m) ==
  /\ \E p \in seen[m] : bytes' = [bytes EXCEPT ![p] = m]
  /\ UNCHANGED <<own, seen>>

Next == \E m \in MM : \/ Claim(m) \/ Wipe(m) \/ Show(m)
                      \/ Hide(m) \/ Drop(m) \/ Write(m)

Spec == Init /\ [][Next]_vars
=============================================================================

-------------------------- MODULE DisplayGateProofs --------------------------
(***************************************************************************)
(* Why the boundary of the disconnect mode is sampled only while the port  *)
(* is closed, whatever goes wrong and however long the host stays away.    *)
(***************************************************************************)
EXTENDS DisplayGate, TLAPS

\* A sequence of anything.
IsSeq(s) == s \in Seq({s[i] : i \in DOMAIN s})

\* No part of a command is of these kinds.
Without(s, kinds) == \A i \in DOMAIN s : s[i].k \notin kinds

Special == {"arm", "touch-ready", "cat"}
Plain(s) == IsSeq(s) /\ Without(s, Special)

\* The result code of the fifth command, which arms the boundary script, is not there.
NoResultOfArm(w) == \A i \in DOMAIN w : w[i].k = "end" => w[i].p # 5

\* The boundary script has not been started: its command has not been typed, or is the last one that was, or is the
\* one that runs, and has no result yet.
Unarmed ==
  /\ at \in 0..4 /\ pc \in {"reset", "boot", "send", "wait"} /\ bg = <<>>
  /\ IsSeq(wire) /\ NoResultOfArm(wire)
  /\ IsSeq(typed)
  /\ \A i \in DOMAIN typed : typed[i][1] = "cmd" =>
        \/ typed[i][2] \in 1..4
        \/ typed[i][2] = 5 /\ i = Len(typed) /\ at = 4 /\ pc = "wait" /\ num # 5
  /\ IF num = 5 THEN script = Arm /\ sh = "busy" /\ at = 4 /\ pc = "wait" /\ typed = <<>>
                ELSE num \in 0..4 /\ Plain(script)

\* The script still has to sleep, for at least so long.
Asleep(least) ==
  \/ bg = BoundaryScript /\ bgT = 0
  \/ bg = BoundaryWork /\ bgT \in least..(Disconnect + 1)

\* What is left of it takes less than so long: it sleeps, and a sum takes a tick.
Within(time) ==
  \/ bg = <<>>
  \/ bg = BoundaryScript /\ bgT = 0 /\ Disconnect + 2 < time
  \/ /\ IsSeq(bg) /\ Without(bg, {"sleep"}) /\ bgT \in Nat
     /\ \A i, j \in DOMAIN bg : bg[i].k = "hash" /\ bg[j].k = "hash" => i = j
     /\ bgT + (IF Without(bg, {"hash"}) THEN 0 ELSE 1) < time

\* It has been started, and is not started again.
Kept ==
  /\ IsSeq(typed) /\ \A i \in DOMAIN typed : typed[i][1] = "cmd" => typed[i][2] \in 1..9 \ {5}
  /\ IsSeq(script) /\ Without(script, {"arm", "touch-ready"})

\* Where the host is then.  A host that has lost the port before it could close it gets no further.
Lost   == port # "up" /\ ((pc = "wait" /\ at = 4) \/ (pc = "close" /\ at = 5))
Arming == /\ pc = "wait" /\ at = 4 /\ port = "up" /\ inside /\ Asleep(Disconnect + 1)
          /\ typed = <<>> /\ script = <<>> /\ fgT = 0 /\ sh \in {"busy", "prompt"}
Closing == pc = "close" /\ at = 5 /\ port = "up" /\ inside /\ hostT \in {0, 1} /\ Asleep(Disconnect + hostT)
Closed  == pc = "closed" /\ at = 5 /\ inside /\ Within(hostT)
Back    == pc \in {"passive", "recover", "answer", "late", "send", "wait"} /\ at \in 5..8 /\ inside /\ bg = <<>>
Passed  == pc = "pass" /\ inside

Armed == Kept /\ (Lost \/ Arming \/ Closing \/ Closed \/ Back \/ Passed)

Counters == hostT \in Nat /\ closer \in 1..2

GateInv == mode = "disconnect" => Counters /\ (pc = "fail" \/ Unarmed \/ Armed)
-----------------------------------------------------------------------------
(* Sequences *)

\* What a sequence of anything is made of.
LEMMA SeqFacts ==
  ASSUME NEW s, IsSeq(s)
  PROVE  Len(s) \in Nat /\ DOMAIN s = 1..Len(s)
  BY DEF IsSeq

\* A sequence over some set is one.
LEMMA AnySeq ==
  ASSUME NEW S, NEW s \in Seq(S)
  PROVE  IsSeq(s)
  BY DEF IsSeq

\* The shell and the script take the first of what is left.
LEMMA TailFacts ==
  ASSUME NEW s, IsSeq(s), s # <<>>
  PROVE  /\ IsSeq(Tail(s)) /\ Len(Tail(s)) = Len(s) - 1
         /\ 1 \in DOMAIN s /\ Head(s) = s[1]
         /\ \A i \in DOMAIN Tail(s) : i + 1 \in DOMAIN s /\ Tail(s)[i] = s[i + 1]
<1> DEFINE S == {s[i] : i \in DOMAIN s}
<1>1. s \in Seq(S)
  BY DEF IsSeq
<1> HIDE DEF S
<1>2. Tail(s) \in Seq(S) /\ Len(Tail(s)) = Len(s) - 1 /\ Head(s) = s[1] /\ Len(s) \in Nat \ {0}
      /\ \A i \in 1..(Len(s) - 1) : Tail(s)[i] = s[i + 1]
  BY <1>1
<1>3. IsSeq(Tail(s))
  BY Zenon, <1>2, AnySeq
<1>4. DOMAIN s = 1..Len(s) /\ DOMAIN Tail(s) = 1..Len(Tail(s))
  BY <1>3, SeqFacts
<1> QED BY <1>2, <1>3, <1>4

\* What the board prints comes after what is on the wire.
LEMMA CatFacts ==
  ASSUME NEW s, NEW t, IsSeq(s), IsSeq(t)
  PROVE  /\ IsSeq(s \o t) /\ Len(s \o t) = Len(s) + Len(t)
         /\ \A i \in DOMAIN (s \o t) : \/ i \in DOMAIN s /\ (s \o t)[i] = s[i]
                                       \/ i - Len(s) \in DOMAIN t /\ (s \o t)[i] = t[i - Len(s)]
<1> DEFINE S == {s[i] : i \in DOMAIN s} \cup {t[i] : i \in DOMAIN t}
<1>1. s \in Seq(S) /\ t \in Seq(S)
  BY DEF IsSeq
<1> HIDE DEF S
<1>2. s \o t \in Seq(S) /\ Len(s \o t) = Len(s) + Len(t)
  BY <1>1
<1>3. IsSeq(s \o t)
  BY Zenon, <1>2, AnySeq
<1>4. \A i \in 1..(Len(s) + Len(t)) : (s \o t)[i] = IF i <= Len(s) THEN s[i] ELSE t[i - Len(s)]
  BY <1>1
<1> QED BY <1>2, <1>3, <1>4, SeqFacts

\* The host takes some of what is on the wire.
LEMMA SubFacts ==
  ASSUME NEW s, IsSeq(s), NEW n \in 1..(Len(s) + 1)
  PROVE  /\ IsSeq(SubSeq(s, n, Len(s)))
         /\ \A i \in DOMAIN SubSeq(s, n, Len(s)) :
               i + n - 1 \in DOMAIN s /\ SubSeq(s, n, Len(s))[i] = s[i + n - 1]
<1> DEFINE S == {s[i] : i \in DOMAIN s}
           t == SubSeq(s, n, Len(s))
<1>1. s \in Seq(S) /\ Len(s) \in Nat /\ DOMAIN s = 1..Len(s)
  BY DEF IsSeq
<1> HIDE DEF S
<1>2. t \in Seq(S) /\ Len(t) = Len(s) - n + 1 /\ \A i \in 1..(Len(s) - n + 1) : t[i] = s[i + n - 1]
  BY <1>1
<1> HIDE DEF t
<1>3. IsSeq(t) /\ DOMAIN t = 1..Len(t)
  BY <1>2, AnySeq, SeqFacts
<1> QED BY <1>1, <1>2, <1>3 DEF t

\* What the host types comes after what it typed before.
LEMMA TypedFacts ==
  ASSUME NEW x, IsSeq(typed), typed' = Append(typed, x)
  PROVE  /\ IsSeq(typed') /\ Len(typed') = Len(typed) + 1
         /\ \A i \in DOMAIN typed' : \/ i \in DOMAIN typed /\ typed'[i] = typed[i]
                                     \/ i = Len(typed') /\ typed'[i] = x
<1> DEFINE S == {typed[i] : i \in DOMAIN typed} \cup {x}
<1>1. typed \in Seq(S) /\ x \in S /\ Len(typed) \in Nat /\ DOMAIN typed = 1..Len(typed)
  BY DEF IsSeq
<1> HIDE DEF S
<1>2. /\ typed' \in Seq(S) /\ Len(typed') = Len(typed) + 1 /\ typed'[Len(typed) + 1] = x
      /\ \A i \in 1..Len(typed) : typed'[i] = typed[i]
  BY <1>1
<1>3. IsSeq(typed')
  BY Zenon, <1>2, AnySeq
<1>4. DOMAIN typed' = 1..Len(typed')
  BY Zenon, <1>3, SeqFacts
<1>5. ASSUME NEW i \in DOMAIN typed'
      PROVE  (i \in DOMAIN typed /\ typed'[i] = typed[i]) \/ (i = Len(typed') /\ typed'[i] = x)
  <2>1. i \in 1..Len(typed) \/ i = Len(typed) + 1
    BY <1>1, <1>2, <1>4
  <2> QED BY Zenon, <2>1, <1>1, <1>2
<1> QED BY Zenon, <1>2, <1>3, <1>5

\* A sequence of length zero.
LEMMA NoneLeft ==
  ASSUME NEW s, IsSeq(s), Len(s) = 0
  PROVE  s = <<>>
  BY DEF IsSeq

\* What a command does not have, it does not have after a step.
LEMMA WithoutTail ==
  ASSUME NEW s, NEW kinds, IsSeq(s), s # <<>>, Without(s, kinds)
  PROVE  IsSeq(Tail(s)) /\ Without(Tail(s), kinds) /\ Head(s).k \notin kinds
  BY TailFacts DEF Without

\* A command made of two parts has what they have.
LEMMA WithoutCat ==
  ASSUME NEW s, NEW t, NEW kinds, IsSeq(s), IsSeq(t), Without(s, kinds), Without(t, kinds)
  PROVE  IsSeq(s \o t) /\ Without(s \o t, kinds)
  BY CatFacts DEF Without
-----------------------------------------------------------------------------
(* What the commands and the boot are made of *)

\* A single part.
LEMMA WithoutOne ==
  ASSUME NEW e, NEW kinds, e.k \notin kinds
  PROVE  IsSeq(<<e>>) /\ Without(<<e>>, kinds)
<1>1. <<e>> \in Seq({e}) /\ DOMAIN <<e>> = {1} /\ <<e>>[1] = e
  OBVIOUS
<1> QED BY Zenon, <1>1, AnySeq DEF Without

\* A phase of telemetry.
LEMMA PhasePlain ==
  ASSUME NEW p, NEW up1 \in BOOLEAN
  PROVE  Plain(DiagnosticsPhase(p, up1)) /\ Without(DiagnosticsPhase(p, up1), {"sleep", "hash"})
<1>1. En("phase", p).k = "phase" /\ En("uptime", p).k = "uptime" /\ E("diag").k = "diag"
  BY DEF En, E
<1>2. IsSeq(<<>>) /\ \A K : Without(<<>>, K)
  BY DEF IsSeq, Without
<1>3. ASSUME NEW K, "phase" \notin K, "uptime" \notin K, "diag" \notin K
      PROVE  IsSeq(DiagnosticsPhase(p, up1)) /\ Without(DiagnosticsPhase(p, up1), K)
  <2>1. IsSeq(<<En("phase", p)>>) /\ Without(<<En("phase", p)>>, K)
    BY Zenon, <1>1, <1>3, WithoutOne
  <2>2. IsSeq(<<E("diag")>>) /\ Without(<<E("diag")>>, K)
    BY Zenon, <1>1, <1>3, WithoutOne
  <2>3. IsSeq(<<En("uptime", p)>>) /\ Without(<<En("uptime", p)>>, K)
    BY Zenon, <1>1, <1>3, WithoutOne
  <2> DEFINE m == IF up1 THEN <<En("uptime", p)>> ELSE <<>>
  <2>4. IsSeq(m) /\ Without(m, K)
    BY Zenon, <2>3, <1>2
  <2> HIDE DEF m
  <2>5. IsSeq(<<En("phase", p)>> \o m) /\ Without(<<En("phase", p)>> \o m, K)
    BY Zenon, <2>1, <2>4, WithoutCat
  <2>6. IsSeq((<<En("phase", p)>> \o m) \o <<E("diag")>>) /\ Without((<<En("phase", p)>> \o m) \o <<E("diag")>>, K)
    BY Zenon, <2>2, <2>5, WithoutCat
  <2> QED BY Zenon, <2>6 DEF m, DiagnosticsPhase
<1> QED BY <1>3 DEF Plain, Special

\* The kinds of the parts.
LEMMA Kind ==
  ASSUME NEW k, NEW p, NEW n
  PROVE  E(k).k = k /\ En(k, p).k = k /\ Sleep(n).k = "sleep" /\ Sleep(n).n = n
  BY DEF E, En, Sleep

\* The boundary script sleeps first, and takes one sum after it.
LEMMA BoundaryFacts ==
  /\ IsSeq(BoundaryWork) /\ Without(BoundaryWork, {"sleep"}) /\ BoundaryWork # <<>>
  /\ \A i, j \in DOMAIN BoundaryWork : BoundaryWork[i].k = "hash" /\ BoundaryWork[j].k = "hash" => i = j
  /\ BoundaryScript # <<>> /\ IsSeq(BoundaryScript)
  /\ Head(BoundaryScript) = Sleep(Disconnect + 1) /\ Tail(BoundaryScript) = BoundaryWork
<1> DEFINE a == <<En("boot", "boundary")>>
           b == DiagnosticsPhase("BOUNDARY-PREHASH", TRUE)
           c == <<En("hash", "boundary")>>
           d == DiagnosticsPhase("BOUNDARY-POSTHASH", TRUE)
           e == <<E("scan"), E("touch"), En("status", "boundary"), En("mark", "COMPLETE")>>
           K == {"sleep", "hash"}
           f == Sleep(Disconnect + 1)
<1>1. IsSeq(a) /\ Without(a, K)
  <2>1. En("boot", "boundary").k \notin K
    BY Kind
  <2> QED BY Zenon, <2>1, WithoutOne
<1>2. IsSeq(b) /\ Without(b, K) /\ IsSeq(d) /\ Without(d, K)
  BY Zenon, PhasePlain DEF Plain
<1>3. c \in Seq({En("hash", "boundary")}) /\ Len(c) = 1 /\ c[1].k = "hash"
  BY Kind
<1>4. IsSeq(e) /\ Without(e, K)
  <2>1. e \in Seq({E("scan"), E("touch"), En("status", "boundary"), En("mark", "COMPLETE")}) /\ DOMAIN e = 1..4
    OBVIOUS
  <2>2. e[1].k = "scan" /\ e[2].k = "touch" /\ e[3].k = "status" /\ e[4].k = "mark"
    BY Kind
  <2> HIDE DEF e
  <2>3. \A i \in 1..4 : e[i].k \notin K
    BY <2>2
  <2> QED BY <2>1, <2>3, AnySeq DEF Without
<1>5. BoundaryWork = (((a \o b) \o c) \o d) \o e
  BY Zenon DEF BoundaryWork, Hash
<1>6. BoundaryScript = <<f>> \o BoundaryWork
  BY Zenon DEF BoundaryScript
<1>7. IsSeq(c) /\ DOMAIN c = {1}
  <2>1. IsSeq(c)
    BY Zenon, <1>3, AnySeq
  <2>2. DOMAIN c = 1..1
    BY Zenon, <1>3, <2>1, SeqFacts
  <2> QED BY <2>1, <2>2
<1> HIDE DEF a, b, c, d, e, f
<1>8. IsSeq(a \o b) /\ Without(a \o b, K)
  BY Zenon, <1>1, <1>2, WithoutCat
<1> DEFINE ab == a \o b
           abc == ab \o c
           abcd == abc \o d
           W == abcd \o e
<1>9. /\ IsSeq(abc) /\ Len(abc) = Len(ab) + 1 /\ Len(ab) \in Nat
      /\ \A i \in DOMAIN abc : \/ i \in DOMAIN ab /\ abc[i] = ab[i]
                               \/ i = Len(ab) + 1 /\ abc[i] = c[1]
  <2>1. IsSeq(ab) /\ Len(ab) \in Nat
    BY Zenon, <1>8, SeqFacts
  <2> HIDE DEF ab
  <2>2. /\ IsSeq(abc) /\ Len(abc) = Len(ab) + Len(c)
        /\ \A i \in DOMAIN abc : \/ i \in DOMAIN ab /\ abc[i] = ab[i]
                                 \/ i - Len(ab) \in DOMAIN c /\ abc[i] = c[i - Len(ab)]
    BY Zenon, <2>1, <1>7, CatFacts
  <2>3. DOMAIN abc = 1..Len(abc)
    BY Zenon, <2>2, SeqFacts
  <2> HIDE DEF abc
  <2> QED BY <2>1, <2>2, <2>3, <1>7, <1>3
<1>10. /\ IsSeq(abcd) /\ Len(abcd) = Len(abc) + Len(d)
       /\ \A i \in DOMAIN abcd : \/ i \in DOMAIN abc /\ abcd[i] = abc[i]
                                 \/ i - Len(abc) \in DOMAIN d /\ abcd[i] = d[i - Len(abc)]
  BY Zenon, <1>9, <1>2, CatFacts
<1> HIDE DEF ab, abc, abcd
<1>11. /\ IsSeq(W) /\ Len(W) = Len(abcd) + Len(e)
       /\ \A i \in DOMAIN W : \/ i \in DOMAIN abcd /\ W[i] = abcd[i]
                              \/ i - Len(abcd) \in DOMAIN e /\ W[i] = e[i - Len(abcd)]
  BY Zenon, <1>10, <1>4, CatFacts
<1>12. BoundaryWork = W
  BY Zenon, <1>5 DEF ab, abc, abcd
<1> HIDE DEF W
<1>13. \A i \in DOMAIN abc : abc[i].k # "sleep" /\ (abc[i].k = "hash" => i = Len(ab) + 1)
  BY <1>9, <1>8, <1>3 DEF Without, ab
<1>14. \A i \in DOMAIN abcd : abcd[i].k # "sleep" /\ (abcd[i].k = "hash" => i = Len(ab) + 1)
  BY <1>13, <1>10, <1>2 DEF Without
<1>15. \A i \in DOMAIN BoundaryWork : BoundaryWork[i].k # "sleep" /\ (BoundaryWork[i].k = "hash" => i = Len(ab) + 1)
  BY <1>14, <1>11, <1>4, <1>12 DEF Without
<1>16. Len(abcd) \in Nat /\ Len(e) \in Nat /\ Len(abc) \in Nat /\ Len(d) \in Nat
  BY Zenon, <1>9, <1>10, <1>2, <1>4, SeqFacts
<1>17. Len(BoundaryWork) > 0 /\ IsSeq(BoundaryWork)
  BY <1>9, <1>10, <1>11, <1>12, <1>16
<1>18. BoundaryWork # <<>>
  BY <1>17
<1>19. BoundaryScript # <<>> /\ IsSeq(BoundaryScript) /\ Head(BoundaryScript) = f /\ Tail(BoundaryScript) = BoundaryWork
  <2> DEFINE S == {W[i] : i \in DOMAIN W} \cup {f}
  <2>1. W \in Seq(S) /\ f \in S
    BY <1>17, <1>12 DEF IsSeq
  <2> HIDE DEF S
  <2>2. <<f>> \o W \in Seq(S) /\ <<f>> \o W # <<>> /\ Head(<<f>> \o W) = f /\ Tail(<<f>> \o W) = W
    BY <2>1
  <2> QED BY Zenon, <2>2, <1>6, <1>12, AnySeq
<1>20. Without(BoundaryWork, {"sleep"})
  BY <1>15 DEF Without
<1>21. \A i, j \in DOMAIN BoundaryWork : BoundaryWork[i].k = "hash" /\ BoundaryWork[j].k = "hash" => i = j
  BY Zenon, <1>15
<1> QED BY Zenon, <1>17, <1>18, <1>19, <1>20, <1>21 DEF f

\* A reset starts a boot that types and arms nothing.
LEMMA BootPlain == Plain(BootScript)
<1> DEFINE a == <<E("kernel")>>
           b == [n \in DOMAIN BootStages |-> En("stage", BootStages[n])]
           c == <<En("version", "6.12.27"), En("fragment", "stage"), En("fragment", "reveal"), En("mark", "SHELL")>>
<1>1. E("kernel").k \notin Special
  BY Kind DEF Special
<1>2. Plain(a) /\ Plain(c)
  <2>1. c \in Seq({c[1], c[2], c[3], c[4]}) /\ DOMAIN c = 1..4
    OBVIOUS
  <2>2. c[1].k = "version" /\ c[2].k = "fragment" /\ c[3].k = "fragment" /\ c[4].k = "mark"
    BY Kind
  <2> HIDE DEF c
  <2>3. Without(c, Special)
    BY <2>1, <2>2 DEF Without, Special
  <2> QED BY Zenon, <1>1, <2>1, <2>3, WithoutOne, AnySeq DEF Plain
<1>3. Plain(b)
  <2>1. DOMAIN BootStages = 1..4
    BY DEF BootStages
  <2>2. b \in Seq({En("stage", BootStages[n]) : n \in 1..4}) /\ DOMAIN b = 1..4
    BY <2>1
  <2>3. \A n \in 1..4 : b[n].k = "stage"
    BY <2>1, Kind
  <2> HIDE DEF b
  <2>4. Without(b, Special)
    BY <2>2, <2>3 DEF Without, Special
  <2> QED BY Zenon, <2>2, <2>4, AnySeq DEF Plain
<1>4. Plain(a \o b)
  BY Zenon, <1>2, <1>3, WithoutCat DEF Plain
<1>5. Plain((a \o b) \o c)
  BY Zenon, <1>2, <1>4, WithoutCat DEF Plain
<1> QED BY Zenon, <1>5 DEF BootScript

\* The commands of the disconnect mode: only the fifth arms the script, and only the sixth prints its file.
LEMMA DisconnectProgram ==
  ASSUME mode = "disconnect"
  PROVE  /\ Len(Program) = 9 /\ Program[5] = Arm
         /\ \A n \in 1..4 : Plain(Program[n])
         /\ \A n \in 1..9 \ {5} : /\ IsSeq(Program[n]) /\ Without(Program[n], {"arm", "touch-ready"})
                                  /\ Program[n] # Arm
<1>1. Program = <<RuntimeIdentity, TouchTerminal, Policy, Before, Arm, BoundaryRead, AfterId, AfterState,
                  AfterScanout>>
  BY Zenon DEF Program
<1>2. Plain(RuntimeIdentity)
  <2> DEFINE s == <<En("boot", "a"), En("uptime", "a"), Sleep(1), En("boot", "b"), En("uptime", "b")>>
  <2>1. s \in Seq({s[1], s[2], s[3], s[4], s[5]}) /\ DOMAIN s = 1..5
    OBVIOUS
  <2>2. s[1].k = "boot" /\ s[2].k = "uptime" /\ s[3].k = "sleep" /\ s[4].k = "boot" /\ s[5].k = "uptime"
    BY Kind
  <2> HIDE DEF s
  <2>3. Without(s, Special)
    BY <2>1, <2>2 DEF Without, Special
  <2>4. Plain(s)
    BY Zenon, <2>1, <2>3, AnySeq DEF Plain
  <2> QED BY Zenon, <2>4 DEF s, RuntimeIdentity
<1>3. Plain(TouchTerminal)
  <2> DEFINE s == <<E("touch-wait"), E("touch")>>
  <2>1. s \in Seq({s[1], s[2]}) /\ DOMAIN s = 1..2
    OBVIOUS
  <2>2. s[1].k = "touch-wait" /\ s[2].k = "touch"
    BY Kind
  <2> HIDE DEF s
  <2>3. Without(s, Special)
    BY <2>1, <2>2 DEF Without, Special
  <2>4. Plain(s)
    BY Zenon, <2>1, <2>3, AnySeq DEF Plain
  <2> QED BY Zenon, <2>4 DEF s, TouchTerminal
<1>4. Plain(Policy) /\ Plain(AfterId) /\ Plain(AfterScanout)
  <2>1. En("test", "disabled").k \notin Special /\ En("boot", "after").k \notin Special /\ E("scan").k \notin Special
    BY Kind DEF Special
  <2> QED BY Zenon, <2>1, WithoutOne DEF Plain, Policy, AfterId, AfterScanout
<1>5. Plain(Before)
  <2> DEFINE a == <<En("boot", "before")>>
             b == DiagnosticsPhase("BEFORE-PREHASH", FALSE)
             c == <<En("hash", "before")>>
             d == DiagnosticsPhase("BEFORE-POSTHASH", TRUE)
             e == <<E("scan"), E("touch"), En("status", "before"), E("assert")>>
  <2>1. En("boot", "before").k \notin Special /\ En("hash", "before").k \notin Special
    BY Kind DEF Special
  <2>2. Plain(a) /\ Plain(c)
    BY Zenon, <2>1, WithoutOne DEF Plain
  <2>3. Plain(b) /\ Plain(d)
    BY Zenon, PhasePlain
  <2>4. Plain(e)
    <3>1. e \in Seq({e[1], e[2], e[3], e[4]}) /\ DOMAIN e = 1..4
      OBVIOUS
    <3>2. e[1].k = "scan" /\ e[2].k = "touch" /\ e[3].k = "status" /\ e[4].k = "assert"
      BY Kind
    <3> HIDE DEF e
    <3>3. Without(e, Special)
      BY <3>1, <3>2 DEF Without, Special
    <3> QED BY Zenon, <3>1, <3>3, AnySeq DEF Plain
  <2> HIDE DEF a, b, c, d, e
  <2>5. Plain(a \o b)
    BY Zenon, <2>2, <2>3, WithoutCat DEF Plain
  <2>6. Plain((a \o b) \o c)
    BY Zenon, <2>2, <2>5, WithoutCat DEF Plain
  <2>7. Plain(((a \o b) \o c) \o d)
    BY Zenon, <2>3, <2>6, WithoutCat DEF Plain
  <2>8. Plain((((a \o b) \o c) \o d) \o e)
    BY Zenon, <2>4, <2>7, WithoutCat DEF Plain
  <2> QED BY Zenon, <2>8 DEF a, b, c, d, e, Before, Hash
<1>6. Plain(AfterState)
  <2> DEFINE b == DiagnosticsPhase("AFTER-PREHASH", TRUE)
             c == <<En("hash", "after")>>
             d == DiagnosticsPhase("AFTER-POSTHASH", FALSE)
             e == <<E("touch"), En("status", "after")>>
  <2>1. En("hash", "after").k \notin Special
    BY Kind DEF Special
  <2>2. Plain(c)
    BY Zenon, <2>1, WithoutOne DEF Plain
  <2>3. Plain(b) /\ Plain(d)
    BY Zenon, PhasePlain
  <2>4. Plain(e)
    <3>1. e \in Seq({e[1], e[2]}) /\ DOMAIN e = 1..2
      OBVIOUS
    <3>2. e[1].k = "touch" /\ e[2].k = "status"
      BY Kind
    <3> HIDE DEF e
    <3>3. Without(e, Special)
      BY <3>1, <3>2 DEF Without, Special
    <3> QED BY Zenon, <3>1, <3>3, AnySeq DEF Plain
  <2> HIDE DEF b, c, d, e
  <2>6. Plain(b \o c)
    BY Zenon, <2>2, <2>3, WithoutCat DEF Plain
  <2>7. Plain((b \o c) \o d)
    BY Zenon, <2>3, <2>6, WithoutCat DEF Plain
  <2>8. Plain(((b \o c) \o d) \o e)
    BY Zenon, <2>4, <2>7, WithoutCat DEF Plain
  <2> QED BY Zenon, <2>8 DEF b, c, d, e, AfterState, Hash
<1>7. IsSeq(BoundaryRead) /\ Without(BoundaryRead, {"arm", "touch-ready"})
  <2>1. E("cat").k \notin {"arm", "touch-ready"}
    BY Kind
  <2> QED BY Zenon, <2>1, WithoutOne DEF BoundaryRead
<1>8. ~Without(Arm, {"arm", "touch-ready"})
  <2>1. Arm = <<E("arm")>> /\ E("arm").k = "arm"
    BY Kind DEF Arm
  <2>2. 1 \in DOMAIN Arm /\ Arm[1].k = "arm"
    BY <2>1
  <2> QED BY Zenon, <2>2 DEF Without
<1>9. \A s : Plain(s) => IsSeq(s) /\ Without(s, {"arm", "touch-ready"})
  BY Zenon DEF Plain, Without, Special
<1>10. Len(Program) = 9 /\ Program[5] = Arm
  BY <1>1
<1>11. /\ Program[1] = RuntimeIdentity /\ Program[2] = TouchTerminal /\ Program[3] = Policy /\ Program[4] = Before
       /\ Program[6] = BoundaryRead /\ Program[7] = AfterId /\ Program[8] = AfterState /\ Program[9] = AfterScanout
  BY <1>1
<1>12. \A n \in 1..4 : Plain(Program[n])
  <2> SUFFICES ASSUME NEW n \in 1..4 PROVE Plain(Program[n])
    OBVIOUS
  <2>1. n = 1 \/ n = 2 \/ n = 3 \/ n = 4
    OBVIOUS
  <2> QED BY Zenon, <2>1, <1>11, <1>2, <1>3, <1>4, <1>5
<1>13. \A n \in 1..9 \ {5} : IsSeq(Program[n]) /\ Without(Program[n], {"arm", "touch-ready"})
  <2> SUFFICES ASSUME NEW n \in 1..9 \ {5} PROVE IsSeq(Program[n]) /\ Without(Program[n], {"arm", "touch-ready"})
    OBVIOUS
  <2>1. n \in 1..4 \/ n = 6 \/ n = 7 \/ n = 8 \/ n = 9
    OBVIOUS
  <2> QED BY Zenon, <2>1, <1>12, <1>11, <1>4, <1>6, <1>7, <1>9
<1> QED BY Zenon, <1>8, <1>10, <1>12, <1>13

\* What a part prints is no result code, the contents of a file apart.
LEMMA Printed ==
  ASSUME NEW e, e.k # "cat"
  PROVE  IsSeq(ItemsOf(e)) /\ \A i \in DOMAIN ItemsOf(e) : ItemsOf(e)[i].k # "end"
<1>1. ItemsOf(e) = <<>> \/ \E k, p, v : k # "end" /\ ItemsOf(e) = <<Item(k, p, v)>>
  BY Zenon DEF ItemsOf
<1>2. CASE ItemsOf(e) = <<>>
  BY <1>2 DEF IsSeq
<1>3. ASSUME NEW k, NEW p, NEW v, k # "end", ItemsOf(e) = <<Item(k, p, v)>> PROVE IsSeq(ItemsOf(e)) /\ Without(ItemsOf(e), {"end"})
  <2>1. Item(k, p, v).k \notin {"end"}
    BY <1>3 DEF Item
  <2> QED BY Zenon, <2>1, <1>3, WithoutOne
<1> QED BY <1>1, <1>2, <1>3 DEF Without
-----------------------------------------------------------------------------
(* Before the script is started *)

\* What is printed while the fifth command has no result.
LEMMA EmitUnarmed ==
  ASSUME Unarmed, NEW items, IsSeq(items), NoResultOfArm(items), Emit(items)
  PROVE  IsSeq(wire') /\ NoResultOfArm(wire')
<1>1. IsSeq(wire) /\ NoResultOfArm(wire)
  BY Zenon DEF Unarmed
<1>2. wire' = wire \/ wire' = wire \o items
  BY Zenon DEF Emit
<1>3. IsSeq(wire \o items) /\ NoResultOfArm(wire \o items)
  <2>1. /\ IsSeq(wire \o items)
        /\ \A i \in DOMAIN (wire \o items) : \/ i \in DOMAIN wire /\ (wire \o items)[i] = wire[i]
                                             \/ i - Len(wire) \in DOMAIN items /\ (wire \o items)[i] = items[i - Len(wire)]
    BY Zenon, <1>1, CatFacts
  <2> QED BY Zenon, <2>1, <1>1 DEF NoResultOfArm
<1> QED BY Zenon, <1>1, <1>2, <1>3

\* The command that arms the script.
LEMMA ArmFacts == IsSeq(Arm) /\ Arm # <<>> /\ Head(Arm).k = "arm" /\ Tail(Arm) = <<>>
<1>1. Arm = <<E("arm")>> /\ E("arm").k = "arm"
  BY Kind DEF Arm
<1>2. <<E("arm")>> \in Seq({E("arm")})
  OBVIOUS
<1>3. IsSeq(Arm)
  BY Zenon, <1>1, <1>2, AnySeq
<1>4. Arm # <<>> /\ Head(Arm).k = "arm" /\ Tail(Arm) = <<>>
  BY <1>1
<1> QED BY Zenon, <1>3, <1>4

\* What Unarmed says of the host and the shell does not depend on the board.
LEMMA UnarmedFrame ==
  ASSUME Unarmed, UNCHANGED <<at, pc, bg, typed, num, sh, script>>, IsSeq(wire'), NoResultOfArm(wire')
  PROVE  Unarmed'
  BY Zenon DEF Unarmed

\* The start of the script.
LEMMA UnarmedStep ==
  ASSUME mode = "disconnect", Unarmed, Step
  PROVE  Unarmed' \/ Armed'
<1> DEFINE e == Head(script)
<1>1. UNCHANGED <<mode, pc, at, port, typed, sh, num>>
  BY Zenon DEF Step, hostVars, hostRest
<1>2. CASE num = 5
  <2>1. script = Arm /\ sh = "busy" /\ at = 4 /\ pc = "wait" /\ typed = <<>> /\ e.k = "arm"
    BY Zenon, <1>2, ArmFacts DEF Unarmed
  <2>2. script' = Tail(script) /\ bg' = BoundaryScript /\ bgT' = 0 /\ inside' = TRUE /\ fgT' = 0
    BY Zenon, <2>1 DEF Step
  <2>3. script' = <<>>
    BY Zenon, <2>1, <2>2, ArmFacts
  <2>4. typed' = <<>> /\ at' = 4 /\ pc' = "wait" /\ sh' = "busy"
    BY Zenon, <2>1, <1>1
  <2>5. Kept'
    <3>1. IsSeq(<<>>) /\ DOMAIN <<>> = {}
      BY DEF IsSeq
    <3> QED BY Zenon, <3>1, <2>3, <2>4 DEF Kept, Without
  <2>6. Asleep(Disconnect + 1)'
    BY Zenon, <2>2 DEF Asleep
  <2> QED BY Zenon, <2>2, <2>3, <2>4, <2>5, <2>6 DEF Armed, Lost, Arming
<1>3. CASE num # 5
  <2>1. num \in 0..4 /\ IsSeq(script) /\ Without(script, Special) /\ script # <<>>
    BY Zenon, <1>3 DEF Unarmed, Plain, Step
  <2>2. IsSeq(Tail(script)) /\ Without(Tail(script), Special) /\ e.k \notin Special
    BY Zenon, <2>1, WithoutTail
  <2>3. e.k # "arm" /\ e.k # "touch-ready" /\ e.k # "cat"
    BY Zenon, <2>2 DEF Special
  <2>4. script' = Tail(script)
    BY Zenon, <2>3 DEF Step
  <2>5. UNCHANGED bg /\ Emit(ItemsOf(e))
    BY Zenon, <2>3 DEF Step, bgVars
  <2>6. IsSeq(ItemsOf(e)) /\ NoResultOfArm(ItemsOf(e))
    BY Zenon, <2>3, Printed DEF NoResultOfArm
  <2>7. IsSeq(wire') /\ NoResultOfArm(wire')
    BY Zenon, <2>5, <2>6, EmitUnarmed
  <2>8. Plain(script')
    BY Zenon, <2>2, <2>4 DEF Plain
  <2>9. Unarmed'
    BY Zenon, <1>1, <1>3, <2>1, <2>5, <2>7, <2>8 DEF Unarmed
  <2> QED BY Zenon, <2>9
<1> QED BY Zenon, <1>2, <1>3

\* A failed test, or a stage of the boot left out.
LEMMA UnarmedStepFails ==
  ASSUME Unarmed, StepFails
  PROVE  Unarmed'
<1> DEFINE e == Head(script)
<1>1. UNCHANGED <<pc, at, typed, sh, num, bg, wire>> /\ script' = Tail(script) /\ script # <<>>
  BY Zenon DEF StepFails, hostVars, hostRest, bgVars
<1>2. e.k # "arm"
  BY Zenon DEF StepFails
<1>3. num # 5
  BY Zenon, <1>2, ArmFacts DEF Unarmed
<1>4. Plain(script')
  BY Zenon, <1>1, <1>3, WithoutTail DEF Unarmed, Plain
<1> QED BY Zenon, <1>1, <1>3, <1>4 DEF Unarmed

\* The end of an earlier command.
LEMMA UnarmedEnds ==
  ASSUME Unarmed, Ends
  PROVE  Unarmed'
<1> DEFINE r == IF sh = "busy" THEN <<End(num, rc)>> ELSE <<>>
<1>1. UNCHANGED <<pc, at, typed, num, bg, script>> /\ script = <<>> /\ Emit(r \o <<Prompt>>)
  BY Zenon DEF Ends, hostVars, hostRest, bgVars
<1>2. num # 5 /\ num \in 0..4
  BY Zenon, <1>1, ArmFacts DEF Unarmed
<1>3. IsSeq(<<End(num, rc)>>) /\ NoResultOfArm(<<End(num, rc)>>)
  <2>1. End(num, rc).p # 5
    BY <1>2 DEF End, Item
  <2>2. <<End(num, rc)>> \in Seq({End(num, rc)}) /\ DOMAIN <<End(num, rc)>> = {1} /\ <<End(num, rc)>>[1] = End(num, rc)
    OBVIOUS
  <2> QED BY Zenon, <2>1, <2>2, AnySeq DEF NoResultOfArm
<1>4. IsSeq(<<>>) /\ NoResultOfArm(<<>>)
  BY DEF IsSeq, NoResultOfArm
<1>5. IsSeq(<<Prompt>>) /\ NoResultOfArm(<<Prompt>>)
  <2>1. Prompt.k \notin {"end"}
    BY DEF Prompt, Item
  <2>2. IsSeq(<<Prompt>>) /\ Without(<<Prompt>>, {"end"})
    BY Zenon, <2>1, WithoutOne
  <2> QED BY Zenon, <2>2 DEF Without, NoResultOfArm
<1>6. IsSeq(r) /\ NoResultOfArm(r)
  BY Zenon, <1>3, <1>4
<1> HIDE DEF r
<1>7. IsSeq(r \o <<Prompt>>) /\ NoResultOfArm(r \o <<Prompt>>)
  <2> DEFINE q == <<Prompt>>
  <2>1. IsSeq(q) /\ NoResultOfArm(q)
    BY Zenon, <1>5
  <2> HIDE DEF q
  <2>2. /\ IsSeq(r \o q)
        /\ \A i \in DOMAIN (r \o q) : \/ i \in DOMAIN r /\ (r \o q)[i] = r[i]
                                      \/ i - Len(r) \in DOMAIN q /\ (r \o q)[i] = q[i - Len(r)]
    BY Zenon, <1>6, <2>1, CatFacts
  <2>3. IsSeq(r \o q) /\ NoResultOfArm(r \o q)
    BY Zenon, <1>6, <2>1, <2>2 DEF NoResultOfArm
  <2> QED BY Zenon, <2>3 DEF q
<1>8. IsSeq(wire') /\ NoResultOfArm(wire')
  BY Zenon, <1>1, <1>7, EmitUnarmed
<1> QED BY Zenon, <1>1, <1>2, <1>8 DEF Unarmed

\* The shell reads a line; the fifth command is the last one that was typed.
LEMMA UnarmedTake ==
  ASSUME mode = "disconnect", Unarmed, Take
  PROVE  Unarmed'
<1> DEFINE line == Head(typed)
<1>1. UNCHANGED <<mode, pc, at, bg>> /\ typed # <<>> /\ typed' = Tail(typed)
  BY Zenon DEF Take, hostVars, hostRest, bgVars
<1>2. num # 5 /\ num \in 0..4 /\ Plain(script)
  BY Zenon, <1>1 DEF Unarmed
<1>3. IsSeq(typed) /\ Len(typed) \in Nat /\ DOMAIN typed = 1..Len(typed)
  BY Zenon, SeqFacts DEF Unarmed
<1>4. /\ IsSeq(typed') /\ Len(typed') = Len(typed) - 1 /\ 1 \in DOMAIN typed /\ line = typed[1]
      /\ \A i \in DOMAIN typed' : i + 1 \in DOMAIN typed /\ typed'[i] = typed[i + 1]
  BY Zenon, <1>1, <1>3, TailFacts
<1>5. DOMAIN typed' = 1..Len(typed') /\ Len(typed') \in Nat
  BY Zenon, <1>4, SeqFacts
<1>6. \A i \in DOMAIN typed' : typed'[i][1] = "cmd" =>
        \/ typed'[i][2] \in 1..4
        \/ typed'[i][2] = 5 /\ i = Len(typed') /\ at = 4 /\ pc = "wait"
  <2> SUFFICES ASSUME NEW i \in DOMAIN typed', typed'[i][1] = "cmd"
               PROVE  \/ typed'[i][2] \in 1..4
                      \/ typed'[i][2] = 5 /\ i = Len(typed') /\ at = 4 /\ pc = "wait"
    BY Zenon
  <2>1. i + 1 \in DOMAIN typed /\ typed'[i] = typed[i + 1]
    BY Zenon, <1>4
  <2>2. \/ typed[i + 1][2] \in 1..4
        \/ typed[i + 1][2] = 5 /\ i + 1 = Len(typed) /\ at = 4 /\ pc = "wait"
    BY Zenon, <2>1 DEF Unarmed
  <2>3. i \in Nat /\ (i + 1 = Len(typed) => i = Len(typed'))
    BY <1>3, <1>4, <1>5
  <2> QED BY Zenon, <2>1, <2>2, <2>3
<1>7. CASE sh = "prompt" /\ line[1] = "cmd"
  <2>1. sh' = "busy" /\ num' = line[2] /\ script' = Program[line[2]] /\ UNCHANGED wire
    BY Zenon, <1>7 DEF Take
  <2>2. line[2] \in 1..4 \/ (line[2] = 5 /\ 1 = Len(typed) /\ at = 4 /\ pc = "wait")
    BY Zenon, <1>4, <1>7 DEF Unarmed
  <2>3. CASE line[2] \in 1..4
    <3>1. Plain(script')
      BY Zenon, <2>1, <2>3, DisconnectProgram
    <3>2. num' \in 0..4 /\ num' # 5
      BY <2>1, <2>3
    <3> QED BY Zenon, <1>1, <1>4, <1>6, <2>1, <3>1, <3>2 DEF Unarmed
  <2>4. CASE line[2] = 5 /\ 1 = Len(typed) /\ at = 4 /\ pc = "wait"
    <3>1. script' = Arm /\ num' = 5
      BY Zenon, <2>1, <2>4, DisconnectProgram
    <3>2. typed' = <<>>
      <4>1. Len(typed') = 0
        <5>1. Len(typed') = 1 - 1
          BY Zenon, <1>4, <2>4
        <5> QED BY <5>1
      <4> QED BY Zenon, <1>4, <4>1, NoneLeft
    <3>3. DOMAIN typed' = {}
      BY <3>2
    <3> QED BY Zenon, <1>1, <1>4, <2>1, <2>4, <3>1, <3>2, <3>3 DEF Unarmed
  <2> QED BY Zenon, <2>2, <2>3, <2>4
<1>8. CASE ~(sh = "prompt" /\ line[1] = "cmd")
  <2>1. UNCHANGED <<num, script>> /\ Emit(<<IF sh' = "prompt" THEN Prompt ELSE More>>)
    BY Zenon, <1>8 DEF Take
  <2> DEFINE q == IF sh' = "prompt" THEN Prompt ELSE More
  <2>2. q.k \notin {"end"}
    BY DEF Prompt, More, Item
  <2>3. IsSeq(<<q>>) /\ Without(<<q>>, {"end"})
    BY Zenon, <2>2, WithoutOne
  <2>4. NoResultOfArm(<<q>>)
    BY Zenon, <2>3 DEF Without, NoResultOfArm
  <2>5. IsSeq(wire') /\ NoResultOfArm(wire')
    BY Zenon, <2>1, <2>3, <2>4, EmitUnarmed
  <2> QED BY Zenon, <1>1, <1>2, <1>4, <1>6, <2>1, <2>5 DEF Unarmed
<1> QED BY Zenon, <1>7, <1>8

\* What can go wrong with the board, a reset and the link; time.
LEMMA UnarmedBoard ==
  ASSUME Unarmed, Background \/ Trouble \/ Reboot \/ LinkDrops \/ Tick
  PROVE  Unarmed'
<1>1. ~Background
  BY Zenon DEF Unarmed, Background
<1>2. CASE Trouble
  <2>1. UNCHANGED <<at, pc, bg, typed, num, sh, script>>
    BY Zenon, <1>2 DEF Trouble, hostVars, hostRest, shellVars, bgVars
  <2> DEFINE a == Item("fault-", "", 0)
             b == Item("-fault", "", 0)
             c == Item("other", "", 0)
  <2>2. UNCHANGED wire \/ Emit(<<a, b>>) \/ Emit(<<c>>)
    BY Zenon, <1>2 DEF Trouble
  <2>3. a.k = "fault-" /\ b.k = "-fault" /\ c.k = "other"
    BY DEF Item
  <2> HIDE DEF a, b, c
  <2>4. /\ <<a, b>> \in Seq({a, b}) /\ <<c>> \in Seq({c})
        /\ NoResultOfArm(<<a, b>>) /\ NoResultOfArm(<<c>>)
    BY <2>3 DEF NoResultOfArm
  <2>5. IsSeq(<<a, b>>) /\ IsSeq(<<c>>)
    BY Zenon, <2>4, AnySeq
  <2>6. IsSeq(wire') /\ NoResultOfArm(wire')
    BY Zenon, <2>2, <2>4, <2>5, EmitUnarmed DEF Unarmed
  <2> QED BY Zenon, <2>1, <2>6, UnarmedFrame
<1>3. CASE Reboot
  <2>1. UNCHANGED <<at, pc, wire>> /\ bg' = <<>> /\ typed' = <<>> /\ num' = 0 /\ script' = BootScript
    BY Zenon, <1>3 DEF Reboot, hostRest
  <2>2. IsSeq(<<>>) /\ DOMAIN <<>> = {} /\ 0 \in 0..4 /\ 0 # 5
    BY DEF IsSeq
  <2> QED BY Zenon, <2>1, <2>2, BootPlain DEF Unarmed
<1>4. CASE LinkDrops
  <2>1. UNCHANGED <<at, pc, bg, typed, num, sh, script, wire>>
    BY Zenon, <1>4 DEF LinkDrops, hostRest, shellVars, bgVars
  <2> QED BY Zenon, <2>1 DEF Unarmed
<1>5. CASE Tick
  <2>1. UNCHANGED <<at, pc, bg, typed, num, sh, script, wire>>
    BY Zenon, <1>5 DEF Tick
  <2> QED BY Zenon, <2>1 DEF Unarmed
<1> QED BY Zenon, <1>1, <1>2, <1>3, <1>4, <1>5

\* A command is typed.
LEMMA UnarmedSend ==
  ASSUME Unarmed, Send
  PROVE  Unarmed'
<1> DEFINE x == <<"cmd", at + 1>>
<1>1. /\ UNCHANGED <<at, bg, wire, num, sh, script>> /\ pc = "send" /\ pc' = "wait"
      /\ typed' = Append(typed, x)
  BY Zenon DEF Send, hostRest, bgVars
<1>2. x[2] = at + 1
  OBVIOUS
<1> HIDE DEF x
<1>3. num # 5 /\ at \in 0..4 /\ IsSeq(typed)
  BY Zenon, <1>1 DEF Unarmed
<1>4. \A i \in DOMAIN typed : typed[i][1] = "cmd" => typed[i][2] \in 1..4
  BY Zenon, <1>1 DEF Unarmed
<1>5. /\ IsSeq(typed') /\ Len(typed') = Len(typed) + 1
      /\ \A i \in DOMAIN typed' : \/ i \in DOMAIN typed /\ typed'[i] = typed[i]
                                  \/ i = Len(typed') /\ typed'[i] = x
  BY Zenon, <1>1, <1>3, TypedFacts
<1>6. at + 1 \in 1..4 \/ (at + 1 = 5 /\ at = 4)
  BY <1>3
<1>7. \A i \in DOMAIN typed' : typed'[i][1] = "cmd" =>
        \/ typed'[i][2] \in 1..4
        \/ typed'[i][2] = 5 /\ i = Len(typed') /\ at = 4
  BY Zenon, <1>2, <1>4, <1>5, <1>6
<1> QED BY Zenon, <1>1, <1>3, <1>5, <1>7 DEF Unarmed

\* A result that is right takes the host to the next command, or to the close or the end.
LEMMA CommandResult ==
  ASSUME run_command, pc' # "fail", at + 1 < Len(Program) \/ at + 1 = Len(Program)
  PROVE  /\ \E i \in DOMAIN wire : wire[i].k = "end" /\ wire[i].p = at + 1 /\ \E n \in i..Len(wire) :
               wire' = SubSeq(wire, n + 1, Len(wire))
         /\ at' = at + 1 /\ pc' \in {"pass", "close", "send"} /\ (pc' = "pass" => at' = Len(Program))
         /\ (pc' # "pass" => at' < Len(Program))
         /\ (pc' = "close" => Program[at'] = Arm) /\ (pc' = "send" => Program[at'] # Arm)
<1>1. PICK i \in DOMAIN wire : wire[i].k = "end" /\ wire[i].p = at + 1 /\ \E n \in i..Len(wire) :
         LET text    == SubSeq(wire, 1, n)
             result  == [out |-> Evidence(text), rc |-> wire[i].v]
             results == Append(outs, result)
             wrong   == failure_marker(text) \/ Problem(at + 1, results)
         IN  /\ wire' = SubSeq(wire, n + 1, Len(wire)) /\ at' = at + 1
             /\ pc' = CASE wrong                        -> "fail"
                        [] ~wrong /\ at' = Len(Program) -> "pass"
                        [] ~wrong /\ at' < Len(Program) -> IF Program[at'] = Arm THEN "close" ELSE "send"
  BY Zenon DEF run_command
<1> QED BY Zenon, <1>1

\* The result of an earlier command.
LEMMA UnarmedRunCommand ==
  ASSUME mode = "disconnect", Unarmed, run_command, pc' # "fail"
  PROVE  Unarmed'
<1>1. UNCHANGED <<bg, typed, num, sh, script>> /\ pc = "wait"
  BY Zenon DEF run_command, shellVars, bgVars
<1>2. /\ \E i \in DOMAIN wire : wire[i].k = "end" /\ wire[i].p = at + 1 /\ \E n \in i..Len(wire) :
            wire' = SubSeq(wire, n + 1, Len(wire))
      /\ at' = at + 1 /\ pc' \in {"pass", "close", "send"} /\ (pc' = "pass" => at' = Len(Program))
      /\ (pc' = "close" => Program[at'] = Arm)
  <2>1. Len(Program) = 9 /\ at \in 0..4
    BY Zenon, DisconnectProgram DEF Unarmed
  <2>2. at + 1 < Len(Program)
    BY <2>1
  <2> QED BY Zenon, <2>2, CommandResult
<1>3. at # 4 /\ at \in 0..3
  <2>1. at + 1 # 5 /\ at \in 0..4
    BY Zenon, <1>2 DEF Unarmed, NoResultOfArm
  <2> QED BY <2>1
<1>4. at' \in 1..4 /\ at' # 9 /\ at' \in 1..9 \ {5} /\ at' \in 0..4
  BY <1>2, <1>3
<1>5. pc' = "send"
  BY Zenon, <1>2, <1>4, DisconnectProgram
<1>6. num # 5 /\ \A j \in DOMAIN typed : typed[j][1] = "cmd" => typed[j][2] \in 1..4
  BY Zenon, <1>3 DEF Unarmed
<1>7. IsSeq(wire') /\ NoResultOfArm(wire')
  <2>1. IsSeq(wire) /\ NoResultOfArm(wire) /\ Len(wire) \in Nat /\ DOMAIN wire = 1..Len(wire)
    BY Zenon, SeqFacts DEF Unarmed
  <2>4. PICK i \in 1..Len(wire) : \E n \in i..Len(wire) : wire' = SubSeq(wire, n + 1, Len(wire))
    BY Zenon, <1>2, <2>1
  <2>5. PICK n \in i..Len(wire) : wire' = SubSeq(wire, n + 1, Len(wire))
    BY Zenon, <2>4
  <2>2. n + 1 \in 1..(Len(wire) + 1)
    BY <2>1
  <2>3. /\ IsSeq(wire')
        /\ \A j \in DOMAIN wire' : j + (n + 1) - 1 \in DOMAIN wire /\ wire'[j] = wire[j + (n + 1) - 1]
    BY Zenon, <2>5, <2>1, <2>2, SubFacts
  <2> QED BY Zenon, <2>1, <2>3 DEF NoResultOfArm
<1> QED BY Zenon, <1>1, <1>4, <1>5, <1>6, <1>7 DEF Unarmed

\* The other steps of the host.
LEMMA UnarmedHost ==
  ASSUME mode = "disconnect", Unarmed, Host, pc' # "fail"
  PROVE  Unarmed'
<1>1. CASE wait_for_shell
  <2>1. UNCHANGED <<at, bg, typed, num, sh, script>> /\ pc = "boot" /\ pc' = "send" /\ wire' = <<>>
    BY Zenon, <1>1 DEF wait_for_shell, hostRest, shellVars, bgVars
  <2>2. IsSeq(<<>>) /\ NoResultOfArm(<<>>)
    BY DEF IsSeq, NoResultOfArm
  <2>3. num # 5 /\ \A j \in DOMAIN typed : typed[j][1] = "cmd" => typed[j][2] \in 1..4
    BY Zenon, <2>1 DEF Unarmed
  <2> QED BY Zenon, <2>1, <2>2, <2>3 DEF Unarmed
<1>7. CASE OpenAndClear
  <2>1. UNCHANGED <<at, bg, typed, num, sh, script>> /\ pc = "reset" /\ pc' = "boot" /\ wire' = <<>>
    BY Zenon, <1>7 DEF OpenAndClear, hostRest, shellVars, bgVars
  <2>2. IsSeq(<<>>) /\ NoResultOfArm(<<>>)
    BY DEF IsSeq, NoResultOfArm
  <2>3. num # 5 /\ \A j \in DOMAIN typed : typed[j][1] = "cmd" => typed[j][2] \in 1..4
    BY Zenon, <2>1 DEF Unarmed
  <2> QED BY Zenon, <2>1, <2>2, <2>3 DEF Unarmed
<1>2. CASE Send
  BY Zenon, <1>2, UnarmedSend
<1>3. CASE run_command
  BY Zenon, <1>3, UnarmedRunCommand
<1>4. ~CommandFails /\ ~SerialException
  BY Zenon DEF CommandFails, SerialException
<1>5. ~Close /\ ~open_serial /\ ~capture_passive_output /\ ~AskForPrompt /\ ~PromptAnswered
  BY Zenon DEF Unarmed, Close, open_serial, capture_passive_output, AskForPrompt, PromptAnswered
<1>6. ~reopen_reconnect_serial
  BY Zenon DEF Unarmed, reopen_reconnect_serial
<1> QED BY Zenon, <1>1, <1>2, <1>3, <1>4, <1>5, <1>6, <1>7 DEF Host
-----------------------------------------------------------------------------
(* Once it has been started *)

\* Where the host is, when it, the port and the script do nothing.
LEMMA ArmedFrame ==
  ASSUME Armed, Kept', UNCHANGED <<pc, at, port, hostT, bg, bgT, inside>>,
         Arming => UNCHANGED <<typed, script, fgT>> /\ sh' \in {"busy", "prompt"}
  PROVE  Armed'
<1>1. Lost => Lost'
  BY Zenon DEF Lost
<1>2. Arming => Arming'
  BY Zenon DEF Arming, Asleep
<1>3. Closing => Closing'
  BY Zenon DEF Closing, Asleep
<1>4. Closed => Closed'
  BY Zenon DEF Closed, Within
<1>5. (Back => Back') /\ (Passed => Passed')
  BY Zenon DEF Back, Passed
<1> QED BY Zenon, <1>1, <1>2, <1>3, <1>4, <1>5 DEF Armed

\* A part of another command.
LEMMA ArmedStep ==
  ASSUME Armed, Step \/ StepFails
  PROVE  Armed'
<1> DEFINE e == Head(script)
<1>1. UNCHANGED <<pc, at, port, hostT, typed, sh>> /\ script # <<>>
  BY Zenon DEF Step, StepFails, hostVars, hostRest
<1>2. IsSeq(script) /\ Without(script, {"arm", "touch-ready"})
  BY Zenon DEF Armed, Kept
<1>3. IsSeq(Tail(script)) /\ Without(Tail(script), {"arm", "touch-ready"}) /\ e.k \notin {"arm", "touch-ready"}
  BY Zenon, <1>1, <1>2, WithoutTail
<1>4. script' = Tail(script)
  BY Zenon, <1>3 DEF Step, StepFails
<1>5. UNCHANGED <<bg, bgT, inside>>
  BY Zenon, <1>3 DEF Step, StepFails, bgVars
<1>6. Kept'
  BY Zenon, <1>1, <1>3, <1>4 DEF Armed, Kept
<1>7. ~Arming
  BY Zenon, <1>1 DEF Arming
<1> QED BY Zenon, <1>1, <1>5, <1>6, <1>7, ArmedFrame

\* The end of a command.
LEMMA ArmedEnds ==
  ASSUME Armed, Ends
  PROVE  Armed'
<1>1. UNCHANGED <<pc, at, port, hostT, typed, script, fgT, bg, bgT, inside>> /\ sh' = "prompt"
  BY Zenon DEF Ends, hostVars, hostRest, bgVars
<1>2. Kept'
  BY Zenon, <1>1 DEF Armed, Kept
<1> QED BY Zenon, <1>1, <1>2, ArmedFrame

\* The shell reads a line, never the fifth command.
LEMMA ArmedTake ==
  ASSUME mode = "disconnect", Armed, Take
  PROVE  Armed'
<1> DEFINE line == Head(typed)
<1>1. UNCHANGED <<pc, at, port, hostT, bg, bgT, inside>> /\ typed # <<>> /\ typed' = Tail(typed)
  BY Zenon DEF Take, hostVars, hostRest, bgVars
<1>2. IsSeq(typed) /\ \A i \in DOMAIN typed : typed[i][1] = "cmd" => typed[i][2] \in 1..9 \ {5}
  BY Zenon DEF Armed, Kept
<1>3. /\ IsSeq(typed') /\ 1 \in DOMAIN typed /\ line = typed[1]
      /\ \A i \in DOMAIN typed' : i + 1 \in DOMAIN typed /\ typed'[i] = typed[i + 1]
  BY Zenon, <1>1, <1>2, TailFacts
<1>4. \A i \in DOMAIN typed' : typed'[i][1] = "cmd" => typed'[i][2] \in 1..9 \ {5}
  BY Zenon, <1>2, <1>3
<1>5. IsSeq(script') /\ Without(script', {"arm", "touch-ready"})
  <2>1. CASE sh = "prompt" /\ line[1] = "cmd"
    <3>1. script' = Program[line[2]]
      BY Zenon, <2>1 DEF Take
    <3>2. line[2] \in 1..9 \ {5}
      BY Zenon, <1>2, <1>3, <2>1
    <3> QED BY Zenon, <3>1, <3>2, DisconnectProgram
  <2>2. CASE ~(sh = "prompt" /\ line[1] = "cmd")
    <3>1. UNCHANGED script
      BY Zenon, <2>2 DEF Take
    <3> QED BY Zenon, <3>1 DEF Armed, Kept
  <2> QED BY Zenon, <2>1, <2>2
<1>6. Kept'
  BY Zenon, <1>3, <1>4, <1>5 DEF Kept
<1>7. ~Arming
  BY Zenon, <1>1 DEF Arming
<1> QED BY Zenon, <1>1, <1>6, <1>7, ArmedFrame

\* The script goes on: to its sleep before the port is closed, to its samples only after that.
LEMMA ArmedBackground ==
  ASSUME Counters, Armed, Background
  PROVE  Armed'
<1> DEFINE e == Head(bg)
<1>1. /\ UNCHANGED <<pc, at, port, hostT, typed, sh, script, fgT>> /\ pc # "pass" /\ bg # <<>> /\ bgT = 0
      /\ bg' = Tail(bg) /\ inside' = (inside /\ (e.k = "sleep" \/ pc = "closed"))
      /\ bgT' = CASE e.k = "sleep" -> e.n [] e.k = "hash" -> 1 [] OTHER -> 0
  BY Zenon DEF Background, Working, hostVars, hostRest, shellVars
<1>2. Kept'
  BY Zenon, <1>1 DEF Armed, Kept
<1>3. ASSUME bg = BoundaryScript PROVE e.k = "sleep" /\ bg' = BoundaryWork /\ bgT' = Disconnect + 1
  <2>1. e = Sleep(Disconnect + 1) /\ bg' = BoundaryWork
    BY Zenon, <1>1, <1>3, BoundaryFacts
  <2>2. e.k = "sleep" /\ e.n = Disconnect + 1
    BY Zenon, <2>1, Kind
  <2> QED BY Zenon, <1>1, <2>1, <2>2
<1>4. Disconnect \in Nat \ {0}
  BY DisplayGateAssumption
<1>5. CASE Lost
  BY Zenon, <1>1, <1>2, <1>5 DEF Armed, Lost
<1>6. CASE Arming
  <2>1. bg = BoundaryScript
    BY <1>1, <1>4, <1>6 DEF Arming, Asleep
  <2>2. Disconnect + 1 \in (Disconnect + 1)..(Disconnect + 1)
    BY <1>4
  <2> QED BY Zenon, <1>1, <1>2, <1>3, <1>6, <2>1, <2>2 DEF Armed, Arming, Asleep
<1>7. CASE Closing
  <2>1. bg = BoundaryScript
    BY <1>1, <1>4, <1>7 DEF Closing, Asleep
  <2>2. hostT \in {0, 1} /\ Disconnect + 1 \in (Disconnect + hostT)..(Disconnect + 1)
    BY <1>4, <1>7 DEF Closing
  <2> QED BY Zenon, <1>1, <1>2, <1>3, <1>7, <2>1, <2>2 DEF Armed, Closing, Asleep
<1>8. CASE Closed
  <2>1. inside'
    BY Zenon, <1>1, <1>8 DEF Closed
  <2>2. Within(hostT)'
    <3>1. CASE bg = BoundaryScript /\ bgT = 0 /\ Disconnect + 2 < hostT
      <4>1. (bgT' + (IF Without(bg, {"hash"})' THEN 0 ELSE 1) < hostT') /\ bgT' \in Nat
        <5>1. bgT' = Disconnect + 1 /\ hostT' = hostT /\ hostT \in Nat
          BY Zenon, <1>1, <1>3, <3>1 DEF Counters
        <5> QED BY <5>1, <3>1, <1>4
      <4> QED BY Zenon, <1>3, <3>1, <4>1, BoundaryFacts DEF Within
    <3>2. ASSUME IsSeq(bg), Without(bg, {"sleep"}), bgT \in Nat,
                 \A i, j \in DOMAIN bg : bg[i].k = "hash" /\ bg[j].k = "hash" => i = j,
                 bgT + (IF Without(bg, {"hash"}) THEN 0 ELSE 1) < hostT
          PROVE  Within(hostT)'
      <4>1. /\ IsSeq(bg') /\ 1 \in DOMAIN bg /\ e = bg[1]
            /\ \A i \in DOMAIN bg' : i + 1 \in DOMAIN bg /\ bg'[i] = bg[i + 1]
        BY Zenon, <1>1, <3>2, TailFacts
      <4>2. Without(bg', {"sleep"}) /\ e.k # "sleep"
        BY Zenon, <3>2, <4>1 DEF Without
      <4>3. \A i \in DOMAIN bg' : i \in Nat \ {0}
        <5>1. DOMAIN bg' = 1..Len(bg') /\ Len(bg') \in Nat
          BY Zenon, <4>1, SeqFacts
        <5> QED BY <5>1
      <4>4. \A i, j \in DOMAIN bg' : bg'[i].k = "hash" /\ bg'[j].k = "hash" => i = j
        <5> SUFFICES ASSUME NEW i \in DOMAIN bg', NEW j \in DOMAIN bg', bg'[i].k = "hash", bg'[j].k = "hash"
                     PROVE  i = j
          BY Zenon
        <5>1. i + 1 \in DOMAIN bg /\ j + 1 \in DOMAIN bg /\ bg[i + 1].k = "hash" /\ bg[j + 1].k = "hash"
          BY Zenon, <4>1
        <5>2. i + 1 = j + 1
          BY Zenon, <3>2, <5>1
        <5> QED BY <5>2, <4>3
      <4>5. hostT' = hostT /\ bgT' \in Nat /\ bgT' + (IF Without(bg', {"hash"}) THEN 0 ELSE 1) < hostT
        <5>1. CASE e.k = "hash"
          <6>1. ~Without(bg, {"hash"}) /\ bgT' = 1 /\ bgT = 0
            BY Zenon, <1>1, <4>1, <4>2, <5>1 DEF Without
          <6>2. Without(bg', {"hash"})
            <7> SUFFICES ASSUME NEW i \in DOMAIN bg', bg'[i].k = "hash" PROVE FALSE
              BY Zenon DEF Without
            <7>1. i + 1 = 1
              BY Zenon, <3>2, <4>1, <5>1
            <7> QED BY <7>1, <4>3
          <6> QED BY <1>1, <3>2, <6>1, <6>2
        <5>2. CASE e.k # "hash"
          <6>1. bgT' = 0 /\ bgT = 0
            BY Zenon, <1>1, <4>2, <5>2
          <6>2. Without(bg, {"hash"}) => Without(bg', {"hash"})
            BY Zenon, <4>1 DEF Without
          <6> QED BY <1>1, <3>2, <6>1, <6>2 DEF Counters
        <5> QED BY Zenon, <5>1, <5>2
      <4> QED BY Zenon, <4>1, <4>2, <4>4, <4>5 DEF Within
    <3> QED BY Zenon, <1>1, <1>8, <3>1, <3>2 DEF Closed, Within
  <2> QED BY Zenon, <1>1, <1>2, <1>8, <2>1, <2>2 DEF Armed, Closed
<1>9. ~Back /\ ~Passed
  BY Zenon, <1>1 DEF Back, Passed
<1> QED BY Zenon, <1>5, <1>6, <1>7, <1>8, <1>9 DEF Armed

\* What can go wrong with the board, a reset and the link: the host that still had the port open loses it.
LEMMA ArmedTrouble ==
  ASSUME Armed, Trouble \/ Reboot \/ LinkDrops
  PROVE  Armed'
<1>1. CASE Trouble
  <2>1. UNCHANGED <<pc, at, port, hostT, typed, sh, script, fgT, bg, bgT, inside>>
    BY Zenon, <1>1 DEF Trouble, hostVars, hostRest, shellVars, bgVars
  <2>2. Kept'
    BY Zenon, <2>1 DEF Armed, Kept
  <2>3. Arming => sh' \in {"busy", "prompt"}
    BY Zenon, <2>1 DEF Arming
  <2> QED BY Zenon, <2>1, <2>2, <2>3, ArmedFrame
<1>2. CASE Reboot
  <2>1. /\ UNCHANGED <<pc, at, hostT, inside>> /\ port' = "down" /\ typed' = <<>> /\ script' = BootScript
        /\ bg' = <<>>
    BY Zenon, <1>2 DEF Reboot, hostRest
  <2>2. Kept'
    <3>1. IsSeq(<<>>) /\ DOMAIN <<>> = {}
      BY DEF IsSeq
    <3> QED BY Zenon, <3>1, <2>1, BootPlain DEF Kept, Plain, Without, Special
  <2>3. Lost' \/ Closed' \/ Back' \/ Passed'
    BY Zenon, <2>1 DEF Armed, Lost, Arming, Closing, Closed, Back, Passed, Within
  <2> QED BY Zenon, <2>2, <2>3 DEF Armed
<1>3. CASE LinkDrops
  <2>1. UNCHANGED <<pc, at, hostT, typed, script, bg, bgT, inside>> /\ port' = "down"
    BY Zenon, <1>3 DEF LinkDrops, hostRest, shellVars, bgVars
  <2>2. Kept'
    BY Zenon, <2>1 DEF Armed, Kept
  <2>3. Lost' \/ Closed' \/ Back' \/ Passed'
    BY Zenon, <2>1 DEF Armed, Lost, Arming, Closing, Closed, Back, Passed, Within
  <2> QED BY Zenon, <2>2, <2>3 DEF Armed
<1> QED BY Zenon, <1>1, <1>2, <1>3

\* Time: of the host that is to close the port and of the script that sleeps, and of both while it is closed.
LEMMA ArmedTick ==
  ASSUME Counters, Armed, Tick
  PROVE  Armed'
<1>1. /\ UNCHANGED <<pc, at, typed, script, bg, inside>> /\ hostT' = Down(hostT) /\ bgT' = Down(bgT)
      /\ ~(bg # <<>> /\ bgT = 0) /\ (port = "up" => port' = "up")
  BY Zenon DEF Tick, Quiet
<1>2. Kept'
  BY Zenon, <1>1 DEF Armed, Kept
<1>3. CASE Lost
  <2>1. port' # "up"
    BY Zenon, <1>3 DEF Lost, Tick
  <2> QED BY Zenon, <1>1, <1>2, <1>3, <2>1 DEF Armed, Lost
<1>4. ~Arming
  <2> SUFFICES ASSUME Arming PROVE FALSE
    BY Zenon
  <2>1. fgT > 0 /\ fgT = 0
    BY Zenon DEF Arming, Tick, Quiet
  <2> QED BY <2>1
<1>5. CASE Closing
  <2>1. hostT > 0
    BY Zenon, <1>5 DEF Closing, Tick, Quiet
  <2>2. hostT = 1 /\ hostT' = 0
    BY <2>1, <1>1, <1>5 DEF Closing, Down
  <2>3. bg = BoundaryWork /\ bgT \in (Disconnect + hostT)..(Disconnect + 1)
    BY Zenon, <1>1, <1>5, BoundaryFacts DEF Closing, Asleep
  <2>4. bgT' \in (Disconnect + hostT')..(Disconnect + 1)
    BY <1>1, <2>2, <2>3, DisplayGateAssumption DEF Down
  <2> QED BY Zenon, <1>1, <1>2, <1>5, <2>2, <2>3, <2>4 DEF Armed, Closing, Asleep
<1>6. CASE Closed
  <2>1. Within(hostT)'
    <3>1. CASE bg = <<>>
      BY Zenon, <3>1, <1>1 DEF Within
    <3>2. CASE bg # <<>>
      <4>1. /\ IsSeq(bg) /\ Without(bg, {"sleep"}) /\ bgT \in Nat
            /\ \A i, j \in DOMAIN bg : bg[i].k = "hash" /\ bg[j].k = "hash" => i = j
            /\ bgT + (IF Without(bg, {"hash"}) THEN 0 ELSE 1) < hostT
        BY Zenon, <1>1, <1>6, <3>2 DEF Closed, Within
      <4>2. bgT # 0
        BY Zenon, <1>1, <3>2
      <4>3. bgT' \in Nat /\ bgT' + (IF Without(bg, {"hash"}) THEN 0 ELSE 1) < hostT'
        BY <1>1, <4>1, <4>2 DEF Down, Counters
      <4> QED BY Zenon, <1>1, <4>1, <4>3 DEF Within
    <3> QED BY Zenon, <3>1, <3>2
  <2> QED BY Zenon, <1>1, <1>2, <1>6, <2>1 DEF Armed, Closed
<1>7. CASE Back
  BY Zenon, <1>1, <1>2, <1>7 DEF Armed, Back
<1>8. CASE Passed
  BY Zenon, <1>1, <1>2, <1>8 DEF Armed, Passed
<1> QED BY Zenon, <1>3, <1>4, <1>5, <1>6, <1>7, <1>8 DEF Armed

\* A line is typed, unless the write times out: a later command, or what gets the host a prompt.
LEMMA ArmedTypes ==
  ASSUME Counters, Armed, Send \/ AskForPrompt
  PROVE  Armed'
<1>1. UNCHANGED <<at, bg, inside, script>> /\ pc' \in {"wait", "answer", "late"}
  BY Zenon DEF Send, AskForPrompt, hostRest, bgVars
<1>2. Back
  BY Zenon DEF Send, AskForPrompt, Armed, Lost, Arming, Closing, Closed, Passed
<1> DEFINE Later(x) == (typed' = Append(typed, x) \/ typed' = typed) /\ (x[1] = "cmd" => x[2] \in 1..9 \ {5})
<1>3. \E x : Later(x)
  <2>1. CASE Send
    <3> DEFINE x == <<"cmd", at + 1>>
    <3>1. typed' = Append(typed, x)
      BY Zenon, <2>1 DEF Send
    <3>2. x[2] \in 1..9 \ {5}
      <4>1. at \in 5..8
        BY Zenon, <1>2 DEF Back
      <4> QED BY <4>1
    <3> HIDE DEF x
    <3> QED BY Zenon, <3>1, <3>2
  <2>2. CASE AskForPrompt
    <3> DEFINE x == <<QuoteClosers[closer]>>
               y == <<"\n">>
    <3>1. typed' = Append(typed, x) \/ typed' = Append(typed, y) \/ typed' = typed
      BY Zenon, <2>2 DEF AskForPrompt
    <3>2. x[1] # "cmd"
      <4>1. closer = 1 \/ closer = 2
        BY DEF Counters
      <4>2. QuoteClosers[1] # "cmd" /\ QuoteClosers[2] # "cmd"
        BY DEF QuoteClosers
      <4>3. x[1] = QuoteClosers[closer]
        OBVIOUS
      <4> QED BY Zenon, <4>1, <4>2, <4>3
    <3>3. y[1] # "cmd"
      OBVIOUS
    <3> HIDE DEF x, y
    <3> QED BY Zenon, <3>1, <3>2, <3>3
  <2> QED BY Zenon, <2>1, <2>2
<1> HIDE DEF Later
<1>4. PICK x : Later(x)
  BY Zenon, <1>3
<1> USE DEF Later
<1>5. IsSeq(typed) /\ \A i \in DOMAIN typed : typed[i][1] = "cmd" => typed[i][2] \in 1..9 \ {5}
  BY Zenon DEF Armed, Kept
<1>6. /\ IsSeq(typed') /\ \A i \in DOMAIN typed' : \/ i \in DOMAIN typed /\ typed'[i] = typed[i]
                                                   \/ i = Len(typed') /\ typed'[i] = x
  <2>1. CASE typed' = Append(typed, x)
    BY Zenon, <2>1, <1>5, TypedFacts
  <2>2. CASE typed' = typed
    BY Zenon, <2>2, <1>5
  <2> QED BY Zenon, <1>4, <2>1, <2>2
<1>7. Kept'
  <2>1. IsSeq(script) /\ Without(script, {"arm", "touch-ready"})
    BY Zenon DEF Armed, Kept
  <2>2. \A i \in DOMAIN typed' : typed'[i][1] = "cmd" => typed'[i][2] \in 1..9 \ {5}
    BY Zenon, <1>4, <1>5, <1>6
  <2> QED BY Zenon, <1>1, <1>6, <2>1, <2>2 DEF Kept
<1> QED BY Zenon, <1>1, <1>2, <1>7 DEF Armed, Back

\* A result: that of the command that started the script, after which the host closes the port, or a later one.
LEMMA ArmedRunCommand ==
  ASSUME mode = "disconnect", Armed, run_command, pc' # "fail"
  PROVE  Armed'
<1>1. UNCHANGED <<bg, bgT, inside, typed, script, port>> /\ pc = "wait" /\ port = "up"
  BY Zenon DEF run_command, shellVars, bgVars
<1>2. Kept'
  BY Zenon, <1>1 DEF Armed, Kept
<1>3. Len(Program) = 9 /\ Program[5] = Arm /\ \A n \in 1..9 \ {5} : Program[n] # Arm
  BY Zenon, DisconnectProgram
<1>4. CASE Arming
  <2>1. at = 4 /\ at + 1 = 5 /\ at + 1 < Len(Program)
    BY <1>3, <1>4 DEF Arming
  <2>2. /\ at' = 5 /\ pc' \in {"pass", "close", "send"} /\ (pc' = "pass" => at' = Len(Program))
        /\ (pc' = "send" => Program[at'] # Arm)
    BY Zenon, <2>1, CommandResult
  <2>3. 5 # 9
    OBVIOUS
  <2>4. pc' = "close"
    BY Zenon, <1>3, <2>2, <2>3
  <2>5. hostT' \in {0, 1}
    BY Zenon, <2>4 DEF run_command
  <2>6. Asleep(Disconnect + hostT)'
    <3>1. ASSUME bgT \in (Disconnect + 1)..(Disconnect + 1) PROVE bgT \in (Disconnect + hostT')..(Disconnect + 1)
      <4>1. Disconnect \in Nat /\ (hostT' = 0 \/ hostT' = 1)
        BY <2>5, DisplayGateAssumption
      <4> QED BY <3>1, <4>1
    <3> QED BY Zenon, <3>1, <1>1, <1>4 DEF Arming, Asleep
  <2> QED BY Zenon, <1>1, <1>2, <1>4, <2>2, <2>4, <2>5, <2>6 DEF Armed, Arming, Closing
<1>5. CASE Back
  <2>1. at \in 5..8 /\ inside /\ bg = <<>>
    BY Zenon, <1>5 DEF Back
  <2>2. at + 1 \in 6..9 /\ (at + 1 < Len(Program) \/ at + 1 = Len(Program))
    BY <1>3, <2>1
  <2>3. /\ at' = at + 1 /\ pc' \in {"pass", "close", "send"} /\ (pc' # "pass" => at' < Len(Program))
        /\ (pc' = "close" => Program[at'] = Arm)
    BY Zenon, <2>2, CommandResult
  <2>4. at' \in 1..9 \ {5} /\ (at' < Len(Program) => at' \in 5..8)
    BY <1>3, <2>2, <2>3
  <2> QED BY Zenon, <1>1, <1>2, <1>3, <2>1, <2>3, <2>4 DEF Armed, Back, Passed
<1> QED BY Zenon, <1>1, <1>4, <1>5 DEF Armed, Lost, Closing, Closed, Passed

\* The port is closed in time, and opened again when the script has ended.
LEMMA ArmedPort ==
  ASSUME Armed, Close \/ open_serial
  PROVE  Armed'
<1>1. CASE Close
  <2>1. UNCHANGED <<at, bg, bgT, inside, typed, script>> /\ pc' = "closed" /\ hostT = 0 /\ hostT' = Disconnect + 3
    BY Zenon, <1>1 DEF Close, shellVars, bgVars
  <2>2. Closing
    BY Zenon, <1>1 DEF Close, Armed, Lost, Arming, Closed, Back, Passed
  <2>3. Kept'
    BY Zenon, <2>1 DEF Armed, Kept
  <2>4. Within(hostT)'
    <3>1. CASE bg = BoundaryScript /\ bgT = 0
      <4>1. Disconnect + 2 < hostT'
        BY <2>1, DisplayGateAssumption
      <4> QED BY Zenon, <2>1, <3>1, <4>1 DEF Within
    <3>2. CASE bg = BoundaryWork /\ bgT \in (Disconnect + hostT)..(Disconnect + 1)
      <4>1. bgT' \in Nat /\ bgT' + (IF Without(bg, {"hash"})' THEN 0 ELSE 1) < hostT'
        BY <2>1, <3>2, DisplayGateAssumption
      <4> QED BY Zenon, <2>1, <3>2, <4>1, BoundaryFacts DEF Within
    <3> QED BY Zenon, <2>2, <3>1, <3>2 DEF Closing, Asleep
  <2> QED BY Zenon, <2>1, <2>2, <2>3, <2>4 DEF Armed, Closing, Closed
<1>2. CASE open_serial
  <2>1. UNCHANGED <<at, bg, inside, typed, script>> /\ pc' = "passive" /\ pc = "closed" /\ hostT = 0
    BY Zenon, <1>2 DEF open_serial, shellVars, bgVars
  <2>2. Closed
    BY Zenon, <2>1 DEF Armed, Lost, Arming, Closing, Back, Passed
  <2>3. Kept'
    BY Zenon, <2>1 DEF Armed, Kept
  <2>4. bg = <<>>
    <3>1. ~(Disconnect + 2 < hostT)
      BY <2>1, DisplayGateAssumption
    <3>2. ASSUME bgT \in Nat PROVE ~(bgT + (IF Without(bg, {"hash"}) THEN 0 ELSE 1) < hostT)
      BY <2>1, <3>2
    <3> QED BY Zenon, <2>2, <3>1, <3>2 DEF Closed, Within
  <2>5. 5 \in 5..8
    OBVIOUS
  <2> QED BY Zenon, <2>1, <2>2, <2>3, <2>4, <2>5 DEF Armed, Closed, Back
<1> QED BY Zenon, <1>1, <1>2

\* The other steps of the host.
LEMMA ArmedHost ==
  ASSUME mode = "disconnect", Counters, Armed, Host, pc' # "fail"
  PROVE  Armed'
<1>1. CASE capture_passive_output \/ PromptAnswered \/ reopen_reconnect_serial
  <2>1. UNCHANGED <<at, bg, inside, typed, script>> /\ pc \in {"passive", "recover", "answer", "late"}
        /\ pc' \in {"passive", "recover", "send"}
    BY Zenon, <1>1 DEF capture_passive_output, PromptAnswered, reopen_reconnect_serial, shellVars, bgVars
  <2>2. Back
    BY Zenon, <2>1 DEF Armed, Lost, Arming, Closing, Closed, Passed
  <2>3. Kept'
    BY Zenon, <2>1 DEF Armed, Kept
  <2> QED BY Zenon, <2>1, <2>2, <2>3 DEF Armed, Back
<1>2. ~CommandFails /\ ~SerialException
  BY Zenon DEF CommandFails, SerialException
<1>3. ~wait_for_shell /\ ~OpenAndClear
  BY Zenon DEF wait_for_shell, OpenAndClear, Armed, Lost, Arming, Closing, Closed, Back, Passed
<1> QED BY Zenon, <1>1, <1>2, <1>3, ArmedTypes, ArmedRunCommand, ArmedPort DEF Host
-----------------------------------------------------------------------------
(* Every step *)

\* The mode is that of the start.
LEMMA ModeKept ==
  ASSUME Next
  PROVE  mode' = mode
<1>1. CASE Board
  BY Zenon, <1>1 DEF Board, Step, StepFails, Ends, Take, Background, Trouble, Reboot, LinkDrops, Tick, hostVars
<1>2. CASE Host
  BY Zenon, <1>2 DEF Host, OpenAndClear, wait_for_shell, Send, run_command, CommandFails, Close, open_serial,
     capture_passive_output, AskForPrompt, PromptAnswered, SerialException, reopen_reconnect_serial
<1> QED BY Zenon, <1>1, <1>2 DEF Next, Over, vars, hostVars

\* The host's timer and the quotation it closes next stay in their range.
LEMMA CountersKept ==
  ASSUME Counters, Next
  PROVE  Counters'
<1>1. hostT \in Nat /\ closer \in 1..2
  BY Zenon DEF Counters
<1>2. CASE Tick
  <2>1. hostT' = Down(hostT) /\ closer' = closer
    BY Zenon, <1>2 DEF Tick
  <2> QED BY <1>1, <2>1 DEF Counters, Down
<1>3. CASE Board /\ ~Tick
  <2>1. hostT' = hostT /\ closer' = closer
    BY Zenon, <1>3 DEF Board, Step, StepFails, Ends, Take, Background, Trouble, Reboot, LinkDrops, hostVars, hostRest
  <2> QED BY Zenon, <1>1, <2>1 DEF Counters
<1>4. CASE Close
  <2>1. hostT' = Disconnect + 3 /\ closer' = closer
    BY Zenon, <1>4 DEF Close
  <2> QED BY <1>1, <2>1, DisplayGateAssumption DEF Counters
<1>5. CASE AskForPrompt
  <2>1. hostT' = 1 /\ (closer' = closer \/ closer' = (closer % Len(QuoteClosers)) + 1)
    BY Zenon, <1>5 DEF AskForPrompt
  <2>2. Len(QuoteClosers) = 2
    BY DEF QuoteClosers
  <2>3. (closer % 2) + 1 \in 1..2
    BY <1>1
  <2>4. 1 \in Nat
    OBVIOUS
  <2> QED BY Zenon, <1>1, <2>1, <2>2, <2>3, <2>4 DEF Counters
<1>6. CASE Host /\ ~Close /\ ~AskForPrompt
  <2>1. hostT' \in {hostT, 0, 1, 2}
    BY Zenon, <1>6 DEF Host, OpenAndClear, wait_for_shell, Send, run_command, CommandFails, open_serial,
       capture_passive_output, PromptAnswered, SerialException, reopen_reconnect_serial, hostRest
  <2>2. closer' = closer
    BY Zenon, <1>6 DEF Host, OpenAndClear, wait_for_shell, Send, run_command, CommandFails, open_serial,
       capture_passive_output, PromptAnswered, SerialException, reopen_reconnect_serial, hostRest
  <2> QED BY <1>1, <2>1, <2>2 DEF Counters
<1>7. CASE Over
  BY Zenon, <1>1, <1>7 DEF Over, vars, hostVars, hostRest, Counters
<1> QED BY Zenon, <1>2, <1>3, <1>4, <1>5, <1>6, <1>7 DEF Next, Host

\* A run that has failed stays so.
LEMMA FailedKept ==
  ASSUME pc = "fail", Next
  PROVE  pc' = "fail"
<1>1. ~Board
  BY Zenon DEF Board, Working, Step, StepFails, Ends, Take, Background, Trouble, Reboot, LinkDrops, Tick
<1>2. ~Host
  BY Zenon DEF Host, OpenAndClear, wait_for_shell, Send, run_command, CommandFails, Close, open_serial,
     capture_passive_output, AskForPrompt, PromptAnswered, SerialException, reopen_reconnect_serial
<1> QED BY Zenon, <1>1, <1>2 DEF Next, Over, vars, hostVars

\* The run starts before the script is armed.
LEMMA GateStarts == Init => GateInv
<1> SUFFICES ASSUME Init, mode = "disconnect" PROVE Counters /\ Unarmed
  BY Zenon DEF GateInv
<1>1. /\ pc = "reset" /\ script = BootScript /\ hostT = 0 /\ closer = 1 /\ at = 0 /\ wire = <<>> /\ typed = <<>>
      /\ num = 0 /\ bg = <<>>
  BY Zenon DEF Init
<1>2. Counters
  BY <1>1 DEF Counters
<1>3. IsSeq(<<>>) /\ DOMAIN <<>> = {} /\ 0 \in 0..4 /\ 0 # 5
  BY DEF IsSeq
<1>4. NoResultOfArm(<<>>)
  BY Zenon, <1>3 DEF NoResultOfArm
<1>5. Unarmed
  BY Zenon, <1>1, <1>3, <1>4, BootPlain DEF Unarmed
<1> QED BY Zenon, <1>2, <1>5

\* Each step of the host, of the shell and of the script keeps what GateInv says.
LEMMA GateSteps == GateInv /\ [Next]_vars => GateInv'
<1> SUFFICES ASSUME GateInv, [Next]_vars, mode' = "disconnect"
             PROVE  Counters' /\ (pc' = "fail" \/ Unarmed' \/ Armed')
  BY Zenon DEF GateInv
<1>1. CASE UNCHANGED vars
  <2>1. UNCHANGED <<mode, pc, hostT, closer, at, port, wire, typed, sh, num, script, fgT, bg, bgT, inside>>
    BY Zenon, <1>1 DEF vars, hostVars, hostRest, shellVars, bgVars
  <2>2. Counters /\ (pc = "fail" \/ Unarmed \/ Armed)
    BY Zenon, <2>1 DEF GateInv
  <2>3. Counters' /\ (Unarmed => Unarmed')
    BY Zenon, <2>1, <2>2 DEF Counters, Unarmed
  <2>4. Armed => Armed'
    <3>1. Kept => Kept'
      BY Zenon, <2>1 DEF Kept
    <3>2. Arming => sh' \in {"busy", "prompt"}
      BY Zenon, <2>1 DEF Arming
    <3> QED BY Zenon, <2>1, <3>1, <3>2, ArmedFrame DEF Armed
  <2> QED BY Zenon, <2>1, <2>2, <2>3, <2>4
<1>2. CASE Next
  <2>0. Next
    BY Zenon, <1>2
  <2>1. mode = "disconnect" /\ Counters'
    <3>1. mode = "disconnect"
      BY Zenon, <2>0, ModeKept
    <3> QED BY Zenon, <2>0, <3>1, CountersKept DEF GateInv
  <2>2. Counters /\ (pc = "fail" \/ Unarmed \/ Armed)
    BY Zenon, <2>1 DEF GateInv
  <2>3. CASE pc = "fail"
    BY Zenon, <2>0, <2>1, <2>3, FailedKept
  <2>4. CASE pc' # "fail" /\ Unarmed
    <3>1. CASE Board
      BY Zenon, <2>1, <2>4, <3>1, UnarmedStep, UnarmedStepFails, UnarmedEnds, UnarmedTake, UnarmedBoard DEF Board
    <3>2. CASE Host
      BY Zenon, <2>1, <2>4, <3>2, UnarmedHost
    <3>3. CASE Over
      BY Zenon, <2>4, <3>3 DEF Over, Unarmed
    <3> QED BY Zenon, <2>0, <2>1, <3>1, <3>2, <3>3 DEF Next
  <2>5. CASE pc' # "fail" /\ Armed
    <3>1. CASE Board
      BY Zenon, <2>1, <2>2, <2>5, <3>1, ArmedStep, ArmedEnds, ArmedTake, ArmedBackground, ArmedTrouble, ArmedTick
         DEF Board
    <3>2. CASE Host
      BY Zenon, <2>1, <2>2, <2>5, <3>2, ArmedHost
    <3>3. CASE Over
      BY Zenon, <1>1, <2>1, <2>5, <3>3 DEF Over
    <3> QED BY Zenon, <2>0, <2>1, <3>1, <3>2, <3>3 DEF Next
  <2> QED BY Zenon, <2>1, <2>2, <2>3, <2>4, <2>5
<1> QED BY Zenon, <1>1, <1>2

\* What GateInv says is so in every state of every run, for every duration of the disconnect, every number of things
\* that go wrong and every number of rounds.
THEOREM GateInvariant == Spec => []GateInv
  BY GateStarts, GateSteps, PTL DEF Spec

\* BoundaryWhileClosed.  For every --disconnect-seconds, whatever goes wrong and however often, the disconnect mode
\* passes only if its boundary script took all its samples while the port was closed.
THEOREM BoundaryWhileClosedHolds == Spec => []BoundaryWhileClosed
<1>1. GateInv => BoundaryWhileClosed
  BY Zenon DEF GateInv, BoundaryWhileClosed, Unarmed, Armed, Lost, Arming, Closing, Closed, Back, Passed
<1> QED BY <1>1, GateInvariant, PTL
=============================================================================

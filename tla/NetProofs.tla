------------------------------ MODULE NetProofs ------------------------------
(***************************************************************************)
(* What the commands of micronux-netctl and the script micronux-online     *)
(* promise, for any number of commands, any depth of the device's queues   *)
(* and any timeouts: what a command reports was done by the radio, a wait  *)
(* is bounded, and ready means that the interface is up.                   *)
(*                                                                         *)
(* The argument: requests and replies keep their order, so a process takes *)
(* replies of earlier ones until it takes one of its own, and from then on *)
(* nothing of them is left (Fresh).  Before that (Stale) it has taken uids *)
(* 1, 2, ... in this order from what is left, and what follows a uid 1     *)
(* there has no uid above the number of commands that failed: each failure *)
(* adds one.                                                               *)
(***************************************************************************)
EXTENDS NetOnline, TLAPS

Ids == {"init", "mode", "mac", "config", "start", "associate", "disconnect", "restore",
        "apinfo"}
Asked == [id : Ids, uid : Nat]
Got == [kind : {"rsp", "other", "bad"}, id : Ids \cup {"none"}, uid : Nat,
        st : {"ok", "disconnected", "unavailable", "none"}]

\* Types, and what is so between commands.
Types ==
    /\ cmd \in AllCommands \cup {"none"} /\ at \in Nat \ {0} /\ uid \in Nat \ {0}
    /\ todo \in Nat /\ left \in Nat /\ wleft \in Nat /\ nap \in Nat /\ failed \in Nat /\ elapsed \in Nat
    /\ toC6 \in Seq(Asked) /\ toHost \in Seq(Got)
    /\ cmd = "none" => /\ at = 1 /\ uid = 1 /\ todo = 0 /\ ~waiting
                       /\ wleft = 0 /\ nap = 0 /\ elapsed = 0
    /\ cmd # "none" => at <= Len(Steps(cmd))

Calls == uid - 1                                    \* calls the process has made
Answered == IF waiting THEN uid - 2 ELSE uid - 1    \* those it has an answer to

\* Of the replies h and the requests q: no uid is above b;
Within(h, q, b) ==
    /\ \A i \in 1..Len(h) : h[i].uid <= b
    /\ \A i \in 1..Len(q) : q[i].uid <= b

\* no uid is above b from a uid 1 on;
WithinFromOne(h, q, b) ==
    /\ \A i, j \in 1..Len(h) : i <= j /\ h[i].uid = 1 => h[j].uid <= b
    /\ \A i \in 1..Len(h), j \in 1..Len(q) : h[i].uid = 1 => q[j].uid <= b
    /\ \A i, j \in 1..Len(q) : i <= j /\ q[i].uid = 1 => q[j].uid <= b

\* nothing but events follows uid n;
EndsWith(h, q, n) ==
    /\ \A i, j \in 1..Len(h) : i < j /\ h[i].uid = n => h[j].uid = 0
    /\ \A i \in 1..Len(h) : h[i].uid = n => Len(q) = 0
    /\ \A i \in 1..Len(q) : q[i].uid = n => i = Len(q)

\* there is no uid but n.
Only(h, q, n) ==
    /\ \A i \in 1..Len(h) : h[i].uid \in {0, n}
    /\ \A i \in 1..Len(q) : q[i].uid = n

\* Of a process that has made n calls and has a answers, when f have failed: it
\* has taken only replies of earlier ones,
Stale(h, q, a, n, f) ==
    LET cap == IF f >= n THEN f ELSE n
    IN  /\ a <= f
        /\ a = 0 => WithinFromOne(h, q, cap)
        /\ a > 0 => Within(h, q, cap)
        /\ n > a /\ n > f => EndsWith(h, q, n)

\* or it has taken one of its own.
Fresh(h, q, a, n) ==
    /\ a > 0
    /\ n = a => Only(h, q, 0)
    /\ n > a => Only(h, q, n) /\ EndsWith(h, q, n)

Held(h, q, a, n, f) == Stale(h, q, a, n, f) \/ Fresh(h, q, a, n)

\* What replies and requests look like.
HostShape(h) ==
    \A i \in 1..Len(h) :
        /\ h[i].kind = "rsp" <=> h[i].uid > 0
        /\ h[i].id = "disconnect" => h[i].uid = 1
AskShape(q) ==
    \A i \in 1..Len(q) :
        /\ q[i].uid > 0
        /\ q[i].id = "disconnect" => q[i].uid = 1
        /\ q[i].id = "associate" => q[i].uid >= 5

\* What is left in the device.
QueueInv ==
    /\ HostShape(toHost) /\ AskShape(toC6)
    /\ cmd = "none" => WithinFromOne(toHost, toC6, failed)
    /\ cmd # "none" => Held(toHost, toC6, Answered, Calls, failed)

\* How far the process is, and what its own replies say.
CallInv ==
    /\ cmd \notin {"none", "wait"} => Answered + 1 = CallNo(at)
    /\ waiting => Calls > 0 /\ Step \notin Local
    /\ todo # 0 => ~waiting /\ Step \notin Local
    /\ waiting /\ Calls > failed =>
           \A i \in 1..Len(toHost) : toHost[i].uid = Calls /\ toHost[i].st = "ok" =>
               toHost[i].id \in did /\ (toHost[i].id = "associate" => wanted)

\* A disconnect that the radio has answered stands, unless five have failed or
\* four and this command is past its fifth call.
OffInv ==
    \A i \in 1..Len(toHost) : toHost[i].id = "disconnect" /\ toHost[i].st = "ok" =>
        ~wanted \/ failed >= 5 \/ (cmd # "none" /\ Calls >= 5 /\ failed >= 4)

\* When up or connect goes on to raise the interface.
UpInv ==
    cmd \in {"up", "connect"} /\ at = Len(Steps(cmd)) /\ failed < 5 => wanted /\ toC6 = <<>>

\* The time of a wait.
TimeInv ==
    /\ cmd # "wait" => elapsed = 0
    /\ cmd = "wait" =>
           /\ wleft > 0 => elapsed + wleft = WaitTime
           /\ wleft = 0 => elapsed >= WaitTime
           /\ waiting => elapsed + left <= Longest
           /\ todo # 0 => elapsed + left + todo * RpcTimeout <= Longest
           /\ ~waiting /\ todo = 0 => elapsed <= WaitTime /\ (nap > 0 => nap = 1 /\ wleft > 0)
    /\ waiting \/ todo # 0 => nap = 0

NetInv == Types /\ QueueInv /\ CallInv /\ LinkIsReal /\ OffInv /\ UpInv /\ TimeInv

\* No request that takes the radio off the network is waiting.
StaysOn(q) == \A i \in 1..Len(q) : q[i].id \notin {"disconnect", "restore"}

\* The up of the attempt has succeeded.
Joined ==
    \/ phase \in {"wait", "waiting", "dhcp", "ready"}
    \/ phase = "upping" /\ cmd = "none" /\ result = 0

\* Where the script is.
ScriptInv ==
    /\ phase \in {"up", "wait", "dhcp", "ready", "status", "failed"} => cmd = "none"
    /\ phase = "upping" => cmd \in {"none", "up"}
    /\ phase = "waiting" => cmd \in {"none", "wait"}
    /\ phase = "statusing" => cmd \in {"none", "status"}
    /\ Joined /\ failed < 5 =>
           ifup /\ wanted /\ StaysOn(toC6)

-----------------------------------------------------------------------------
(* The commands *)

\* The steps of the commands.
LEMMA StepFacts ==
  ASSUME NEW c \in AllCommands
  PROVE  /\ Len(Steps(c)) \in Nat \ {0}
         /\ \A k \in 1..Len(Steps(c)) :
              /\ Steps(c)[k] \in Ids \cup Local
              /\ Steps(c)[k] = "associate" => k >= 6
              /\ Steps(c)[k] = "disconnect" => k = 1
              /\ k < Len(Steps(c)) => (Steps(c)[k] \in Local <=> k = 4)
         /\ c \in {"up", "connect"} =>
              Len(Steps(c)) >= 7 /\ Steps(c)[Len(Steps(c))] = "ifup"
                /\ Steps(c)[Len(Steps(c)) - 1] = "associate"
         /\ c = "down" => Len(Steps(c)) = 2 /\ Steps(c)[1] = "disconnect" /\ Steps(c)[2] = "ifdown"
         /\ c \in {"wait", "status"} => Len(Steps(c)) = 1 /\ Steps(c)[1] = "apinfo"
<1>1. CASE c = "mac"
  <2>1. Steps(c) = <<"init", "mode", "mac", "setmac">>
    BY Zenon, <1>1 DEF Steps
  <2> QED BY <1>1, <2>1 DEF Ids, Local
<1>2. CASE c = "up"
  <2>1. Steps(c) = <<"init", "mode", "mac", "setmac", "start", "associate", "ifup">>
    BY Zenon, <1>2 DEF Steps
  <2>2. /\ Len(Steps(c)) = 7 /\ Steps(c)[4] = "setmac"
        /\ Steps(c)[7] = "ifup" /\ Steps(c)[6] = "associate"
    BY <2>1
  <2>3. \A k \in 1..7 : /\ k \in {1, 2, 3} => Steps(c)[k] \in {"init", "mode", "mac"}
                        /\ k = 5 => Steps(c)[k] = "start"
    BY <2>1
  <2>4. \A k \in 1..7 : k \in {1, 2, 3, 4, 5, 6, 7}
    OBVIOUS
  <2>5. ASSUME NEW k \in 1..7
        PROVE  /\ Steps(c)[k] \in Ids \cup Local
               /\ Steps(c)[k] = "associate" => k >= 6
               /\ Steps(c)[k] = "disconnect" => k = 1
               /\ k < 7 => (Steps(c)[k] \in Local <=> k = 4)
    <3>1. CASE k \in {1, 2, 3}
      BY <2>3, <3>1 DEF Ids, Local
    <3>2. CASE k = 4
      BY Zenon, <2>2, <3>2 DEF Ids, Local
    <3>3. CASE k = 5
      BY <2>3, <3>3 DEF Ids, Local
    <3>4. CASE k \in {6, 7}
      BY <2>2, <3>4 DEF Ids, Local
    <3> QED BY Zenon, <2>4, <3>1, <3>2, <3>3, <3>4
  <2> QED BY SMTT(20), <1>2, <2>2, <2>5
<1>3. CASE c = "connect"
  <2>1. Steps(c) = <<"init", "mode", "mac", "setmac", "config", "start", "associate", "ifup">>
    BY Zenon, <1>3 DEF Steps
  <2>2. /\ Len(Steps(c)) = 8 /\ Steps(c)[4] = "setmac"
        /\ Steps(c)[8] = "ifup" /\ Steps(c)[7] = "associate"
    BY <2>1
  <2>3. \A k \in 1..8 : /\ k \in {1, 2, 3, 5} => Steps(c)[k] \in {"init", "mode", "mac", "config"}
                        /\ k = 6 => Steps(c)[k] = "start"
    BY <2>1
  <2>4. \A k \in 1..8 : k \in {1, 2, 3, 4, 5, 6, 7, 8}
    OBVIOUS
  <2>5. ASSUME NEW k \in 1..8
        PROVE  /\ Steps(c)[k] \in Ids \cup Local
               /\ Steps(c)[k] = "associate" => k >= 6
               /\ Steps(c)[k] = "disconnect" => k = 1
               /\ k < 8 => (Steps(c)[k] \in Local <=> k = 4)
    <3>1. CASE k \in {1, 2, 3, 5}
      BY <2>3, <3>1 DEF Ids, Local
    <3>2. CASE k = 4
      BY Zenon, <2>2, <3>2 DEF Ids, Local
    <3>3. CASE k = 6
      BY <2>3, <3>3 DEF Ids, Local
    <3>4. CASE k \in {7, 8}
      BY <2>2, <3>4 DEF Ids, Local
    <3> QED BY Zenon, <2>4, <3>1, <3>2, <3>3, <3>4
  <2> QED BY SMTT(20), <1>3, <2>2, <2>5
<1>4. CASE c = "down"
  <2>1. Steps(c) = <<"disconnect", "ifdown">>
    BY Zenon, <1>4 DEF Steps
  <2> QED BY <1>4, <2>1 DEF Ids, Local
<1>5. CASE c = "forget"
  <2>1. Steps(c) = <<"init", "restore">>
    BY Zenon, <1>5 DEF Steps
  <2> QED BY <1>5, <2>1 DEF Ids, Local
<1>6. CASE c \in {"status", "wait"}
  <2>1. Steps(c) = <<"apinfo">>
    BY Zenon, <1>6 DEF Steps
  <2> QED BY <1>6, <2>1 DEF Ids, Local
<1> QED BY Zenon, <1>1, <1>2, <1>3, <1>4, <1>5, <1>6 DEF AllCommands

-----------------------------------------------------------------------------
(* The device *)

\* Replies h and requests q become h2 and q2, and nothing is said of them that
\* was not so before.
Keeps(h, q, h2, q2) ==
    \A b \in Nat :
        /\ Within(h, q, b) => Within(h2, q2, b)
        /\ WithinFromOne(h, q, b) => WithinFromOne(h2, q2, b)
        /\ b > 0 /\ EndsWith(h, q, b) => EndsWith(h2, q2, b)
        /\ Only(h, q, b) => Only(h2, q2, b)

\* The uids in the device are numbers.
LEMMA UidTypes ==
  ASSUME NEW h \in Seq(Got), NEW q \in Seq(Asked)
  PROVE  /\ \A i \in 1..Len(h) : h[i].uid \in Nat
         /\ \A i \in 1..Len(q) : q[i].uid \in Nat
<1>1. \A i \in 1..Len(h) : h[i] \in Got
  OBVIOUS
<1>2. \A i \in 1..Len(q) : q[i] \in Asked
  OBVIOUS
<1>3. \A r \in Got : r.uid \in Nat
  BY Zenon DEF Got
<1>4. \A r \in Asked : r.uid \in Nat
  BY Zenon DEF Asked
<1> QED BY Zenon, <1>1, <1>2, <1>3, <1>4

\* read_pserial_frame takes the first frame.
LEMMA PopKeeps ==
  ASSUME NEW h \in Seq(Got), NEW q \in Seq(Asked), h # <<>>
  PROVE  Keeps(h, q, Tail(h), q)
<1>1. /\ Len(Tail(h)) = Len(h) - 1 /\ Len(h) \in Nat \ {0}
      /\ \A i \in 1..Len(Tail(h)) : Tail(h)[i] = h[i + 1] /\ i + 1 \in 1..Len(h)
  OBVIOUS
<1> SUFFICES ASSUME NEW b \in Nat
             PROVE  /\ Within(h, q, b) => Within(Tail(h), q, b)
                    /\ WithinFromOne(h, q, b) => WithinFromOne(Tail(h), q, b)
                    /\ EndsWith(h, q, b) => EndsWith(Tail(h), q, b)
                    /\ Only(h, q, b) => Only(Tail(h), q, b)
  BY Zenon DEF Keeps
<1>2. Within(h, q, b) => Within(Tail(h), q, b)
  BY Zenon, <1>1 DEF Within
<1>3. WithinFromOne(h, q, b) => WithinFromOne(Tail(h), q, b)
  BY <1>1 DEF WithinFromOne
<1>4. EndsWith(h, q, b) => EndsWith(Tail(h), q, b)
  BY <1>1 DEF EndsWith
<1>5. Only(h, q, b) => Only(Tail(h), q, b)
  BY Zenon, <1>1 DEF Only
<1> QED BY Zenon, <1>2, <1>3, <1>4, <1>5

\* An event or any other frame arrives.
LEMMA EventKeeps ==
  ASSUME NEW h \in Seq(Got), NEW q \in Seq(Asked), NEW f \in Got, f.uid = 0
  PROVE  Keeps(h, q, Append(h, f), q)
<1> DEFINE h2 == Append(h, f)
<1>1. /\ Len(h2) = Len(h) + 1 /\ Len(h) \in Nat
      /\ \A i \in 1..Len(h) : h2[i] = h[i]
      /\ \A i \in 1..(Len(h) + 1) : i \in 1..Len(h) \/ (i = Len(h) + 1 /\ h2[i] = f)
  OBVIOUS
<1>2. \A i \in 1..Len(h2) : i \in 1..Len(h) \/ h2[i].uid = 0
  BY Zenon, <1>1
<1> SUFFICES ASSUME NEW b \in Nat
             PROVE  /\ Within(h, q, b) => Within(h2, q, b)
                    /\ WithinFromOne(h, q, b) => WithinFromOne(h2, q, b)
                    /\ b > 0 /\ EndsWith(h, q, b) => EndsWith(h2, q, b)
                    /\ Only(h, q, b) => Only(h2, q, b)
  BY Zenon DEF Keeps
<1>3. Within(h, q, b) => Within(h2, q, b)
  BY <1>1, <1>2 DEF Within
<1>4. WithinFromOne(h, q, b) => WithinFromOne(h2, q, b)
  BY <1>1, <1>2 DEF WithinFromOne
<1>5. ASSUME b > 0, EndsWith(h, q, b) PROVE EndsWith(h2, q, b)
  <2>1. ASSUME NEW i \in 1..Len(h2), NEW j \in 1..Len(h2), i < j, h2[i].uid = b PROVE h2[j].uid = 0
    <3>1. i \in 1..Len(h)
      BY <1>2, <1>5, <2>1
    <3>2. CASE j \in 1..Len(h)
      BY Zenon, <1>1, <1>5, <2>1, <3>1, <3>2 DEF EndsWith
    <3> QED BY Zenon, <1>2, <3>2
  <2>2. ASSUME NEW i \in 1..Len(h2), h2[i].uid = b PROVE Len(q) = 0
    <3>1. i \in 1..Len(h)
      BY <1>2, <1>5, <2>2
    <3> QED BY Zenon, <1>1, <1>5, <2>2, <3>1 DEF EndsWith
  <2> QED BY Zenon, <1>5, <2>1, <2>2 DEF EndsWith
<1>6. Only(h, q, b) => Only(h2, q, b)
  BY Zenon, <1>1, <1>2 DEF Only
<1> QED BY Zenon, <1>3, <1>4, <1>5, <1>6

\* The radio serves the first request, and its reply is lost,
LEMMA LostKeeps ==
  ASSUME NEW h \in Seq(Got), NEW q \in Seq(Asked), q # <<>>
  PROVE  Keeps(h, q, h, Tail(q))
<1> DEFINE q2 == Tail(q)
<1>1. /\ Len(q2) = Len(q) - 1 /\ Len(q) \in Nat \ {0}
      /\ \A i \in 1..Len(q2) : q2[i] = q[i + 1] /\ i + 1 \in 1..Len(q)
  OBVIOUS
<1> SUFFICES ASSUME NEW b \in Nat
             PROVE  /\ Within(h, q, b) => Within(h, q2, b)
                    /\ WithinFromOne(h, q, b) => WithinFromOne(h, q2, b)
                    /\ EndsWith(h, q, b) => EndsWith(h, q2, b)
                    /\ Only(h, q, b) => Only(h, q2, b)
  BY Zenon DEF Keeps
<1>2. Within(h, q, b) => Within(h, q2, b)
  BY Zenon, <1>1 DEF Within
<1>3. WithinFromOne(h, q, b) => WithinFromOne(h, q2, b)
  BY <1>1 DEF WithinFromOne
<1>4. ASSUME EndsWith(h, q, b) PROVE EndsWith(h, q2, b)
  <2>1. ASSUME NEW i \in 1..Len(h), h[i].uid = b PROVE Len(q2) = 0
    <3>1. Len(q) = 0
      BY Zenon, <1>4, <2>1 DEF EndsWith
    <3> QED BY Zenon, <1>1, <3>1
  <2>2. ASSUME NEW i \in 1..Len(q2), q2[i].uid = b PROVE i = Len(q2)
    <3>1. i + 1 \in 1..Len(q) /\ q[i + 1].uid = b
      BY Zenon, <1>1, <2>2
    <3>2. i + 1 = Len(q)
      BY Zenon, <1>4, <3>1 DEF EndsWith
    <3> HIDE DEF q2
    <3> QED BY <1>1, <3>2
  <2> QED BY Zenon, <1>4, <2>1, <2>2 DEF EndsWith
<1>5. Only(h, q, b) => Only(h, q2, b)
  BY Zenon, <1>1 DEF Only
<1> QED BY Zenon, <1>2, <1>3, <1>4, <1>5

\* or arrives behind the others.
LEMMA ServeKeeps ==
  ASSUME NEW h \in Seq(Got), NEW q \in Seq(Asked), q # <<>>, NEW f \in Got, f.uid = q[1].uid
  PROVE  Keeps(h, q, Append(h, f), Tail(q))
<1> DEFINE h2 == Append(h, f)  q2 == Tail(q)
<1>1. /\ Len(h2) = Len(h) + 1 /\ Len(h) \in Nat
      /\ \A i \in 1..Len(h) : h2[i] = h[i]
      /\ \A i \in 1..(Len(h) + 1) : i \in 1..Len(h) \/ (i = Len(h) + 1 /\ h2[i] = f)
  OBVIOUS
<1>2. \A i \in 1..Len(h2) :
        i \in 1..Len(h) \/ (i = Len(h) + 1 /\ h2[i].uid = q[1].uid)
  BY Zenon, <1>1
<1>3. /\ Len(q2) = Len(q) - 1 /\ Len(q) \in Nat \ {0} /\ 1 \in 1..Len(q)
      /\ \A i \in 1..Len(q2) : q2[i] = q[i + 1] /\ i + 1 \in 1..Len(q)
  OBVIOUS
<1> SUFFICES ASSUME NEW b \in Nat
             PROVE  /\ Within(h, q, b) => Within(h2, q2, b)
                    /\ WithinFromOne(h, q, b) => WithinFromOne(h2, q2, b)
                    /\ EndsWith(h, q, b) => EndsWith(h2, q2, b)
                    /\ Only(h, q, b) => Only(h2, q2, b)
  BY Zenon DEF Keeps
<1>4. Within(h, q, b) => Within(h2, q2, b)
  BY Zenon, <1>1, <1>2, <1>3 DEF Within
<1>5. ASSUME WithinFromOne(h, q, b) PROVE WithinFromOne(h2, q2, b)
  <2>1. ASSUME NEW i \in 1..Len(h2), NEW j \in 1..Len(h2), i <= j, h2[i].uid = 1 PROVE h2[j].uid <= b
    <3>1. CASE j \in 1..Len(h)
      BY <1>1, <1>5, <2>1, <3>1 DEF WithinFromOne
    <3>2. CASE i \in 1..Len(h) /\ h2[j].uid = q[1].uid
      <4>1. h[i].uid = 1 /\ 1 \in 1..Len(q)
        BY Zenon, <1>1, <1>3, <2>1, <3>2
      <4>2. q[1].uid <= b
        BY Zenon, <1>5, <3>2, <4>1 DEF WithinFromOne
      <4> QED BY Zenon, <3>2, <4>2
    <3>3. CASE h2[i].uid = q[1].uid /\ h2[j].uid = q[1].uid
      BY <1>3, <1>5, <2>1, <3>3 DEF WithinFromOne
    <3> QED BY Zenon, <1>2, <2>1, <3>1, <3>2, <3>3
  <2>2. ASSUME NEW i \in 1..Len(h2), NEW j \in 1..Len(q2), h2[i].uid = 1 PROVE q2[j].uid <= b
    BY <1>1, <1>2, <1>3, <1>5, <2>2 DEF WithinFromOne
  <2>3. ASSUME NEW i \in 1..Len(q2), NEW j \in 1..Len(q2), i <= j, q2[i].uid = 1 PROVE q2[j].uid <= b
    BY <1>3, <1>5, <2>3 DEF WithinFromOne
  <2> QED BY Zenon, <2>1, <2>2, <2>3 DEF WithinFromOne
<1>6. ASSUME EndsWith(h, q, b) PROVE EndsWith(h2, q2, b)
  <2>1. ASSUME NEW i \in 1..Len(h2), NEW j \in 1..Len(h2), i < j, h2[i].uid = b PROVE h2[j].uid = 0
    <3>1. i \in 1..Len(h)
      BY <1>1, <2>1
    <3>2. Len(q) = 0
      BY Zenon, <1>1, <1>6, <2>1, <3>1 DEF EndsWith
    <3> QED BY Zenon, <1>3, <3>2
  <2>2. ASSUME NEW i \in 1..Len(h2), h2[i].uid = b PROVE Len(q2) = 0
    <3>1. CASE i \in 1..Len(h)
      <4>1. h[i].uid = b
        BY Zenon, <1>1, <2>2, <3>1
      <4>2. Len(q) = 0
        BY Zenon, <1>6, <3>1, <4>1 DEF EndsWith
      <4> QED BY Zenon, <1>3, <4>2
    <3>2. CASE q[1].uid = b
      <4>1. 1 = Len(q)
        BY Zenon, <1>3, <1>6, <3>2 DEF EndsWith
      <4>2. Len(q2) = Len(q) - 1
        BY Zenon, <1>3
      <4> HIDE DEF h2, q2
      <4> QED BY <4>1, <4>2
    <3> QED BY Zenon, <1>2, <2>2, <3>1, <3>2
  <2>3. ASSUME NEW i \in 1..Len(q2), q2[i].uid = b PROVE i = Len(q2)
    <3>1. i + 1 \in 1..Len(q) /\ q[i + 1].uid = b
      BY Zenon, <1>3, <2>3
    <3>2. i + 1 = Len(q)
      BY Zenon, <1>6, <3>1 DEF EndsWith
    <3> HIDE DEF q2
    <3> QED BY <1>3, <3>2
  <2> QED BY Zenon, <2>1, <2>2, <2>3 DEF EndsWith
<1>7. Only(h, q, b) => Only(h2, q2, b)
  BY <1>1, <1>2, <1>3 DEF Only
<1> QED BY Zenon, <1>4, <1>5, <1>6, <1>7

\* A process finds in the device what the others left.
LEMMA StartHeld ==
  ASSUME NEW h, NEW q, NEW f \in Nat, WithinFromOne(h, q, f)
  PROVE  Held(h, q, 0, 0, f)
BY DEF Held, Stale

\* The radio does not change what a process may take.
LEMMA KeepsHeld ==
  ASSUME NEW h, NEW q, NEW h2, NEW q2, Keeps(h, q, h2, q2),
         NEW a \in Nat, NEW n \in Nat, NEW f \in Nat, Held(h, q, a, n, f)
  PROVE  Held(h2, q2, a, n, f)
<1>1. CASE Stale(h, q, a, n, f)
  BY <1>1 DEF Keeps, Held, Stale
<1>2. CASE Fresh(h, q, a, n)
  BY <1>2 DEF Keeps, Held, Fresh
<1> QED BY Zenon, <1>1, <1>2 DEF Held

\* rpc_exchange sends the next call behind all others.  When its uid is above
\* the failures, no reply in the device has it.
LEMMA SendHeld ==
  ASSUME NEW h \in Seq(Got), NEW q \in Seq(Asked), NEW g \in Asked,
         NEW n \in Nat, NEW f \in Nat, Held(h, q, n, n, f), g.uid = n + 1,
         \A i \in 1..Len(q) : q[i].uid > 0
  PROVE  /\ Held(h, Append(q, g), n, n + 1, f)
         /\ n + 1 > f => \A i \in 1..Len(h) : h[i].uid # n + 1
<1> DEFINE q2 == Append(q, g)
<1>1. /\ Len(q2) = Len(q) + 1 /\ Len(q) \in Nat /\ Len(h) \in Nat
      /\ \A i \in 1..Len(q) : q2[i] = q[i]
  OBVIOUS
<1>2. \A i \in 1..Len(q2) : i \in 1..Len(q) \/ (i = Len(q2) /\ q2[i].uid = n + 1)
  OBVIOUS
<1>0. /\ \A i \in 1..Len(h) : h[i].uid \in Nat
      /\ \A i \in 1..Len(q) : q[i].uid \in Nat
  BY Zenon, UidTypes
<1> HIDE DEF q2
<1>3. CASE Fresh(h, q, n, n)
  <2>1. n > 0 /\ Only(h, q, 0)
    BY Zenon, <1>3 DEF Fresh
  <2>2. Len(q) = 0 /\ \A i \in 1..Len(h) : h[i].uid = 0
    BY <1>1, <2>1 DEF Only
  <2>3. \A i \in 1..Len(q2) : i = Len(q2) /\ q2[i].uid = n + 1
    BY <1>2, <2>2
  <2>4. \A i \in 1..Len(h) : h[i].uid # n + 1
    BY <2>2
  <2>5. Only(h, q2, n + 1)
    BY Zenon, <2>2, <2>3 DEF Only
  <2>6. EndsWith(h, q2, n + 1)
    BY Zenon, <2>3, <2>4 DEF EndsWith
  <2> QED BY <2>1, <2>4, <2>5, <2>6 DEF Held, Fresh, q2
<1>4. CASE Stale(h, q, n, n, f) /\ n > 0
  <2>1. n <= f /\ Within(h, q, f)
    BY Zenon, <1>4 DEF Stale
  <2>2. ASSUME NEW b \in Nat, f <= b, n + 1 <= b PROVE Within(h, q2, b)
    <3>1. \A i \in 1..Len(h) : h[i].uid <= b
      BY <1>0, <2>1, <2>2 DEF Within
    <3>2. \A i \in 1..Len(q) : q[i].uid <= b
      BY <1>0, <2>1, <2>2 DEF Within
    <3>3. \A i \in 1..Len(q2) : q2[i].uid <= b
      BY Zenon, <1>1, <1>2, <2>2, <3>2
    <3> QED BY Zenon, <3>1, <3>3 DEF Within
  <2>3. ASSUME n + 1 > f PROVE EndsWith(h, q2, n + 1) /\ \A i \in 1..Len(h) : h[i].uid # n + 1
    <3>1. \A m \in Nat : m <= f => m # n + 1
      BY <2>3
    <3>2. /\ \A i \in 1..Len(h) : h[i].uid # n + 1
          /\ \A i \in 1..Len(q) : q[i].uid # n + 1
      BY Zenon, <1>0, <2>1, <3>1 DEF Within
    <3>3. \A i \in 1..Len(q2) : q2[i].uid = n + 1 => i = Len(q2)
      BY Zenon, <1>1, <1>2, <3>2
    <3> QED BY Zenon, <3>2, <3>3 DEF EndsWith
  <2> QED BY <1>4, <2>1, <2>2, <2>3 DEF Held, Stale, q2
<1>5. CASE Stale(h, q, n, n, f) /\ n = 0
  <2>1. WithinFromOne(h, q, f)
    BY Zenon, <1>5 DEF Stale
  <2>2. ASSUME NEW b \in Nat, f <= b, 1 <= b PROVE WithinFromOne(h, q2, b)
    <3>1. ASSUME NEW i \in 1..Len(h), NEW j \in 1..Len(h), i <= j, h[i].uid = 1
          PROVE  h[j].uid <= b
      <4>1. h[j].uid <= f /\ h[j].uid \in Nat
        BY Zenon, <1>0, <2>1, <3>1 DEF WithinFromOne
      <4> QED BY <2>2, <4>1
    <3>2. ASSUME NEW i \in 1..Len(h), NEW j \in 1..Len(q2), h[i].uid = 1 PROVE q2[j].uid <= b
      <4>1. CASE j \in 1..Len(q)
        <5>1. q2[j].uid <= f /\ q2[j].uid \in Nat
          BY Zenon, <1>0, <1>1, <2>1, <3>2, <4>1 DEF WithinFromOne
        <5> QED BY <2>2, <5>1
      <4>2. CASE q2[j].uid = n + 1
        BY <1>5, <2>2, <4>2
      <4> QED BY Zenon, <1>2, <4>1, <4>2
    <3>3. ASSUME NEW i \in 1..Len(q2), NEW j \in 1..Len(q2), i <= j, q2[i].uid = 1
          PROVE  q2[j].uid <= b
      <4>1. CASE j \in 1..Len(q)
        <5>1. i \in 1..Len(q) /\ q[i].uid = 1
          BY <1>1, <3>3, <4>1
        <5>2. q2[j].uid <= f /\ q2[j].uid \in Nat
          BY Zenon, <1>0, <1>1, <2>1, <3>3, <4>1, <5>1 DEF WithinFromOne
        <5> QED BY SMTT(20), <2>2, <5>2
      <4>2. CASE q2[j].uid = n + 1
        BY <1>5, <2>2, <4>2
      <4> QED BY Zenon, <1>2, <4>1, <4>2
    <3> QED BY Zenon, <3>1, <3>2, <3>3 DEF WithinFromOne
  <2>3. ASSUME f = 0 PROVE EndsWith(h, q2, 1) /\ \A i \in 1..Len(h) : h[i].uid # 1
    <3>1. ~(1 <= f)
      BY <2>3
    <3>2. ASSUME NEW i \in 1..Len(h) PROVE h[i].uid # 1
      <4>1. i <= i
        BY <1>1
      <4> QED BY Zenon, <2>1, <3>1, <4>1 DEF WithinFromOne
    <3>3. ASSUME NEW i \in 1..Len(q) PROVE q[i].uid # 1
      <4>1. i <= i
        BY <1>1
      <4> QED BY Zenon, <2>1, <3>1, <4>1 DEF WithinFromOne
    <3>4. \A i \in 1..Len(q2) : q2[i].uid = 1 => i = Len(q2)
      BY Zenon, <1>1, <1>2, <3>3
    <3> QED BY Zenon, <3>2, <3>4 DEF EndsWith
  <2> QED BY <1>5, <2>2, <2>3 DEF Held, Stale, q2
<1> QED BY <1>3, <1>4, <1>5 DEF Held, q2

\* rpc_exchange takes the reply to call n.  Above the failures it is its own, and
\* nothing is left behind it.
LEMMA TakeHeld ==
  ASSUME NEW h \in Seq(Got), NEW q \in Seq(Asked), h # <<>>,
         NEW n \in Nat \ {0}, NEW f \in Nat, Held(h, q, n - 1, n, f), h[1].uid = n
  PROVE  /\ Held(Tail(h), q, n, n, f)
         /\ n > f => Len(q) = 0
         /\ n = 1 => \A i \in 1..Len(q) : q[i].uid <= f
<1> DEFINE h2 == Tail(h)
<1>1. /\ Len(h2) = Len(h) - 1 /\ Len(q) \in Nat /\ Len(h) \in Nat \ {0} /\ 1 \in 1..Len(h)
      /\ \A i \in 1..Len(h2) : h2[i] = h[i + 1] /\ i + 1 \in 1..Len(h)
  OBVIOUS
<1>0. /\ \A i \in 1..Len(h) : h[i].uid \in Nat
      /\ \A i \in 1..Len(q) : q[i].uid \in Nat
  BY Zenon, UidTypes
<1> HIDE DEF h2
<1>2. ASSUME EndsWith(h, q, n) PROVE Only(h2, q, 0) /\ Len(q) = 0
  <2>1. Len(q) = 0
    BY Zenon, <1>1, <1>2 DEF EndsWith
  <2>2. ASSUME NEW i \in 1..Len(h2) PROVE h2[i].uid = 0
    <3>1. 1 < i + 1 /\ i + 1 \in 1..Len(h) /\ h2[i] = h[i + 1]
      BY <1>1
    <3>2. h[i + 1].uid = 0
      BY Zenon, <1>1, <1>2, <3>1 DEF EndsWith
    <3> QED BY Zenon, <3>1, <3>2
  <2> QED BY <2>1, <2>2 DEF Only
<1>3. CASE Fresh(h, q, n - 1, n)
  BY <1>1, <1>2, <1>3 DEF Fresh, Held, h2
<1>4. CASE Stale(h, q, n - 1, n, f) /\ n > f
  BY <1>1, <1>2, <1>4 DEF Stale, Held, Fresh, h2
<1>5. CASE Stale(h, q, n - 1, n, f) /\ n <= f
  <2>1. Within(h2, q, f)
    <3>1. CASE n = 1
      <4>1. WithinFromOne(h, q, f)
        BY <1>5, <3>1 DEF Stale
      <4>2. \A j \in 1..Len(h) : h[j].uid <= f
        BY <1>1, <3>1, <4>1 DEF WithinFromOne
      <4>3. \A j \in 1..Len(q) : q[j].uid <= f
        BY Zenon, <1>1, <3>1, <4>1 DEF WithinFromOne
      <4> QED BY Zenon, <1>1, <4>2, <4>3 DEF Within
    <3>2. CASE n > 1
      <4>1. Within(h, q, f)
        BY <1>5, <3>2 DEF Stale
      <4> QED BY Zenon, <1>1, <4>1 DEF Within
    <3> QED BY <3>1, <3>2
  <2> QED BY <1>5, <2>1 DEF Held, Stale, Within, h2
<1>6. n > f \/ n <= f
  OBVIOUS
<1> QED BY Zenon, <1>3, <1>4, <1>5, <1>6 DEF Held, h2

\* What a process leaves: one that failed may leave a call that the others had
\* no answer for.
LEMMA EndHeld ==
  ASSUME NEW h \in Seq(Got), NEW q \in Seq(Asked),
         NEW a \in Nat, NEW n \in Nat, NEW f \in Nat, Held(h, q, a, n, f), n \in {a, a + 1}
  PROVE  /\ WithinFromOne(h, q, f + 1)
         /\ n = a => WithinFromOne(h, q, f)
<1>1. /\ \A i \in 1..Len(h) : h[i].uid \in Nat
      /\ \A i \in 1..Len(q) : q[i].uid \in Nat
  BY Zenon, UidTypes
<1>2. CASE Fresh(h, q, a, n)
  <2>1. a > 0 /\ (Only(h, q, 0) \/ (n > a /\ Only(h, q, n)))
    BY <1>2 DEF Fresh
  <2>2. 0 # 1 /\ (n > a => n # 1)
    BY <2>1
  <2>3. /\ \A i \in 1..Len(h) : h[i].uid # 1
        /\ \A i \in 1..Len(q) : q[i].uid # 1
    BY Zenon, <2>1, <2>2 DEF Only
  <2> QED BY Zenon, <2>3 DEF WithinFromOne
<1>3. ASSUME NEW b \in Nat, NEW c \in Nat, b <= c, WithinFromOne(h, q, b)
      PROVE  WithinFromOne(h, q, c)
  <2>1. \A m \in Nat : m <= b => m <= c
    BY <1>3
  <2> QED BY Zenon, <1>1, <1>3, <2>1 DEF WithinFromOne
<1>4. CASE Stale(h, q, a, n, f)
  <2>1. \A b : Within(h, q, b) => WithinFromOne(h, q, b)
    BY Zenon DEF Within, WithinFromOne
  <2>2. a <= f /\ WithinFromOne(h, q, IF f >= n THEN f ELSE n)
    <3>1. a = 0 \/ a > 0
      OBVIOUS
    <3> QED BY Zenon, <1>4, <2>1, <3>1 DEF Stale
  <2>3. CASE f >= n
    <3>1. f <= f + 1 /\ f + 1 \in Nat
      OBVIOUS
    <3>2. WithinFromOne(h, q, f)
      BY Zenon, <2>2, <2>3
    <3> QED BY Zenon, <1>3, <3>1, <3>2
  <2>4. CASE ~(f >= n)
    <3>1. n = f + 1 /\ n # a
      BY <2>2, <2>4
    <3> QED BY Zenon, <2>2, <2>4, <3>1
  <2> QED BY Zenon, <2>3, <2>4
<1> QED BY Zenon, <1>2, <1>4 DEF Held

\* The shape of what is left when a frame is read,
LEMMA PopShape ==
  ASSUME NEW h \in Seq(Got), h # <<>>, HostShape(h)
  PROVE  Tail(h) \in Seq(Got) /\ HostShape(Tail(h))
<1>1. \A i \in 1..Len(Tail(h)) : Tail(h)[i] = h[i + 1] /\ i + 1 \in 1..Len(h)
  OBVIOUS
<1> QED BY <1>1 DEF HostShape

\* when one arrives,
LEMMA PostShape ==
  ASSUME NEW h \in Seq(Got), NEW f \in Got, HostShape(h),
         f.kind = "rsp" <=> f.uid > 0, f.id = "disconnect" => f.uid = 1
  PROVE  Append(h, f) \in Seq(Got) /\ HostShape(Append(h, f))
<1>1. \A i \in 1..Len(Append(h, f)) :
        (i \in 1..Len(h) /\ Append(h, f)[i] = h[i]) \/ Append(h, f)[i] = f
  OBVIOUS
<1> QED BY <1>1 DEF HostShape

\* and when a request is served.
LEMMA ServedShape ==
  ASSUME NEW q \in Seq(Asked), q # <<>>, AskShape(q)
  PROVE  Tail(q) \in Seq(Asked) /\ AskShape(Tail(q)) /\ Len(q) \in Nat \ {0} /\ Head(q) = q[1]
<1>1. \A i \in 1..Len(Tail(q)) : Tail(q)[i] = q[i + 1] /\ i + 1 \in 1..Len(q)
  OBVIOUS
<1> QED BY <1>1 DEF AskShape

-----------------------------------------------------------------------------
(* The process *)

\* At the start nothing is left.
LEMMA InitNet == Init => NetInv
<1> SUFFICES ASSUME Init PROVE NetInv
  OBVIOUS
<1>1. /\ cmd = "none" /\ at = 1 /\ uid = 1 /\ todo = 0 /\ waiting = FALSE /\ wanted = FALSE /\ nap = 0
      /\ left = 0 /\ wleft = 0 /\ failed = 0 /\ elapsed = 0 /\ toC6 = <<>> /\ toHost = <<>>
  BY Zenon DEF Init
<1>2. Types
  BY <1>1 DEF Types
<1>3. QueueInv
  BY <1>1 DEF QueueInv, HostShape, AskShape, WithinFromOne
<1>4. CallInv /\ LinkIsReal /\ OffInv /\ UpInv /\ TimeInv
  BY <1>1 DEF CallInv, LinkIsReal, OffInv, UpInv, TimeInv
<1> QED BY Zenon, <1>2, <1>3, <1>4 DEF NetInv

\* A process ends: it has answers to all its calls, or it fails.
LEMMA ExitNet ==
  ASSUME NetInv, cmd # "none", NEW r \in {0, 1}, Exit(r), wanted' = wanted, toC6' = toC6,
         toHost' = toHost \/ (toHost # <<>> /\ toHost' = Tail(toHost)),
         NEW a \in Nat, Calls \in {a, a + 1}, Held(toHost', toC6, a, Calls, failed),
         r = 0 => a = Calls
  PROVE  NetInv'
<1>1. /\ cmd' = "none" /\ at' = 1 /\ uid' = 1 /\ todo' = 0 /\ waiting' = FALSE /\ left' = 0
      /\ wleft' = 0 /\ nap' = 0 /\ elapsed' = 0 /\ failed' = failed + r
  BY Zenon DEF Exit
<1>2. Types /\ QueueInv /\ OffInv
  BY Zenon DEF NetInv
<1>3. toHost' \in Seq(Got) /\ HostShape(toHost') /\ toHost \in Seq(Got) /\ toC6 \in Seq(Asked) /\ AskShape(toC6)
  BY Zenon, <1>2, PopShape DEF Types, QueueInv
<1>4. Types'
  <2>1. failed' \in Nat
    BY <1>1, <1>2 DEF Types
  <2> QED BY <1>1, <1>3, <2>1 DEF Types
<1>5. Calls \in Nat /\ failed \in Nat
  BY <1>2 DEF Types, Calls
<1>6. QueueInv'
  <2>1. WithinFromOne(toHost', toC6, failed + r)
    BY <1>3, <1>5, EndHeld
  <2> QED BY Zenon, <1>1, <1>3, <2>1 DEF QueueInv
<1>7. OffInv'
  <2> SUFFICES ASSUME NEW i \in 1..Len(toHost'), toHost'[i].id = "disconnect", toHost'[i].st = "ok", wanted
               PROVE  failed + r >= 5
    BY Zenon, <1>1 DEF OffInv
  <2>1. \E j \in 1..Len(toHost) : toHost[j] = toHost'[i]
    <3>1. CASE toHost' = toHost
      BY Zenon, <3>1
    <3>2. CASE toHost # <<>> /\ toHost' = Tail(toHost)
      <4>1. i + 1 \in 1..Len(toHost) /\ toHost'[i] = toHost[i + 1]
        BY <1>3, <3>2
      <4> QED BY Zenon, <4>1
    <3> QED BY Zenon, <3>1, <3>2
  <2>2. failed >= 5 \/ (Calls >= 5 /\ failed >= 4)
    BY Zenon, <1>2, <2>1 DEF OffInv
  <2>3. CASE r = 0 /\ Calls >= 5
    <3>1. toHost'[i].uid = 1
      BY Zenon, <1>3 DEF HostShape
    <3>2. ~Fresh(toHost', toC6, a, Calls)
      BY <2>3, <3>1 DEF Fresh, Only
    <3> QED BY <1>5, <2>3, <3>2 DEF Held, Stale
  <2> QED BY <1>5, <2>2, <2>3
<1>8. CallInv' /\ LinkIsReal' /\ UpInv' /\ TimeInv'
  BY <1>1 DEF CallInv, LinkIsReal, UpInv, TimeInv
<1> QED BY Zenon, <1>4, <1>6, <1>7, <1>8 DEF NetInv

\* What holds of a running process.
LEMMA Running ==
  ASSUME NetInv, cmd # "none"
  PROVE  /\ cmd \in AllCommands /\ at \in 1..Len(Steps(cmd)) /\ uid \in Nat \ {0} /\ failed \in Nat
         /\ toHost \in Seq(Got) /\ toC6 \in Seq(Asked) /\ HostShape(toHost) /\ AskShape(toC6)
         /\ Calls \in Nat /\ Answered \in Nat /\ Held(toHost, toC6, Answered, Calls, failed)
         /\ waiting => Answered = Calls - 1 /\ Calls > 0 /\ Step \notin Local
         /\ ~waiting => Answered = Calls
         /\ todo \in Nat /\ (todo # 0 => ~waiting /\ Step \notin Local)
         /\ cmd # "wait" => Answered + 1 = CallNo(at)
<1>1. Types /\ QueueInv /\ CallInv
  BY Zenon DEF NetInv
<1>2. cmd \in AllCommands
  BY Zenon, <1>1 DEF Types
<1>3. Len(Steps(cmd)) \in Nat
  BY Zenon, <1>2, StepFacts
<1>4. at \in 1..Len(Steps(cmd))
  BY <1>1, <1>3 DEF Types
<1>5. uid \in Nat \ {0} /\ failed \in Nat /\ toHost \in Seq(Got) /\ toC6 \in Seq(Asked)
  BY Zenon, <1>1 DEF Types
<1>6. waiting => Calls > 0 /\ Step \notin Local
  BY Zenon, <1>1 DEF CallInv
<1>7. /\ Calls \in Nat /\ Answered \in Nat
      /\ waiting => Answered = Calls - 1
      /\ ~waiting => Answered = Calls
  BY <1>5, <1>6 DEF Calls, Answered
<1>8. /\ HostShape(toHost) /\ AskShape(toC6) /\ Held(toHost, toC6, Answered, Calls, failed)
      /\ todo \in Nat /\ (todo # 0 => ~waiting /\ Step \notin Local)
      /\ cmd # "wait" => Answered + 1 = CallNo(at)
  BY Zenon, <1>1 DEF QueueInv, CallInv, Types
<1> QED BY Zenon, <1>2, <1>4, <1>5, <1>6, <1>7, <1>8

\* A command is started.
LEMMA StartNet ==
  ASSUME NetInv, NEW c \in AllCommands, Start(c)
  PROVE  NetInv'
<1>1. Types /\ QueueInv /\ CallInv /\ LinkIsReal /\ OffInv /\ UpInv /\ TimeInv
  BY Zenon DEF NetInv
<1>2. /\ cmd = "none" /\ at = 1 /\ uid = 1 /\ todo = 0 /\ ~waiting /\ nap = 0 /\ elapsed = 0 /\ failed \in Nat
      /\ toHost \in Seq(Got) /\ toC6 \in Seq(Asked) /\ left \in Nat
  BY Zenon, <1>1 DEF Types, Start
<1>3. /\ UNCHANGED <<at, uid, todo, waiting, left, nap, did, elapsed, toC6, toHost, wanted>>
  BY Zenon DEF Start, radio
<1>4. CASE cmd' = c /\ wleft' = (IF c = "wait" THEN WaitTime ELSE 0)
           /\ (failed' = failed \/ (failed' = 0 /\ toC6 = <<>> /\ toHost = <<>>))
  <2>1. c # "none" /\ Len(Steps(c)) \in Nat \ {0}
    BY ZenonT(30), StepFacts DEF AllCommands
  <2>2. failed' \in Nat /\ wleft' \in Nat /\ WaitTime \in Nat \ {0} /\ RpcTimeout \in Nat
    BY <1>2, <1>4, NetAssumption
  <2>3. Types'
    BY <1>2, <1>3, <1>4, <2>1, <2>2 DEF Types
  <2>4. Calls' = 0 /\ Answered' = 0
    BY <1>2, <1>3 DEF Calls, Answered
  <2>5. WithinFromOne(toHost, toC6, failed')
    <3>1. CASE failed' = failed
      BY Zenon, <1>1, <1>2, <3>1 DEF QueueInv
    <3>2. CASE toC6 = <<>> /\ toHost = <<>>
      BY <3>2 DEF WithinFromOne
    <3> QED BY Zenon, <1>4, <3>1, <3>2
  <2>6. QueueInv'
    <3>1. Held(toHost, toC6, 0, 0, failed')
      BY Zenon, <2>2, <2>5, StartHeld
    <3> QED BY Zenon, <1>1, <1>3, <1>4, <2>1, <2>4, <3>1 DEF QueueInv
  <2>7. CallInv'
    BY <1>2, <1>3, <2>4 DEF CallInv, CallNo
  <2>8. LinkIsReal' /\ UpInv'
    <3>1. c \in {"up", "connect"} => Len(Steps(c)) >= 7
      BY Zenon, StepFacts
    <3>2. at' = 1 /\ 1..(at' - 1) = {} /\ cmd' = c
      BY <1>2, <1>3, <1>4
    <3>3. LinkIsReal'
      BY <3>2 DEF LinkIsReal
    <3>4. c \in {"up", "connect"} => at' # Len(Steps(c))
      <4>1. at' = 1
        BY Zenon, <3>2
      <4>2. \A m \in Nat : m >= 7 => m # 1
        OBVIOUS
      <4> QED BY Zenon, <2>1, <3>1, <4>1, <4>2
    <3> QED BY Zenon, <3>2, <3>3, <3>4 DEF UpInv
  <2>9. OffInv'
    <3>1. CASE failed' = failed
      BY Zenon, <1>1, <1>2, <1>3, <3>1 DEF OffInv
    <3>2. CASE toHost = <<>>
      BY <1>3, <3>2 DEF OffInv
    <3> QED BY Zenon, <1>4, <3>1, <3>2
  <2>10. TimeInv'
    BY <1>2, <1>3, <1>4, <2>2 DEF TimeInv
  <2> QED BY Zenon, <2>3, <2>6, <2>7, <2>8, <2>9, <2>10 DEF NetInv
<1>5. CASE UNCHANGED <<cmd, wleft, failed>>
  BY Zenon, <1>1, <1>2, <1>3, <1>5
  DEF NetInv, Types, QueueInv, CallInv, LinkIsReal, OffInv, UpInv, TimeInv, Calls, Answered, Step
<1> QED BY Zenon, <1>4, <1>5 DEF Start

\* A call is begun (rpc_exchange) or cannot be.
LEMMA SendNet ==
  ASSUME NetInv, Send
  PROVE  NetInv'
<1>1. /\ cmd # "none" /\ todo = 0 /\ ~waiting /\ nap = 0 /\ Step \notin Local
      /\ UNCHANGED <<toC6, toHost, wanted>>
  BY Zenon DEF Send, radio
<1>2. Types /\ QueueInv /\ CallInv /\ LinkIsReal /\ OffInv /\ UpInv /\ TimeInv
  BY Zenon DEF NetInv
<1>3. CASE Exit(1)
  <2>1. Calls \in Nat /\ Held(toHost, toC6, Calls, Calls, failed)
    BY Zenon, <1>1, Running
  <2> QED BY Zenon, <1>1, <1>3, <2>1, ExitNet
<1>4. CASE /\ todo' = Pieces /\ left' = RpcTimeout
           /\ UNCHANGED <<cmd, at, uid, waiting, wleft, nap, did, elapsed, failed>>
  <2>1. todo' \in Nat /\ left' \in Nat
    BY Zenon, <1>4, NetAssumption
  <2>2. Calls' = Calls /\ Answered' = Answered /\ Step' = Step
    BY Zenon, <1>4 DEF Calls, Answered, Step
  <2>3. Types'
    BY Zenon, <1>1, <1>2, <1>4, <2>1 DEF Types
  <2>4. QueueInv' /\ CallInv' /\ LinkIsReal' /\ OffInv' /\ UpInv'
    BY Zenon, <1>1, <1>2, <1>4, <2>2 DEF QueueInv, CallInv, LinkIsReal, OffInv, UpInv
  <2>5. TimeInv'
    <3>1. cmd = "wait" => elapsed + RpcTimeout + Pieces * RpcTimeout <= Longest
      <4>1. Pieces \in Nat /\ RpcTimeout \in Nat /\ WaitTime \in Nat /\ elapsed \in Nat
        BY Zenon, <1>2, NetAssumption DEF Types
      <4>2. Pieces * RpcTimeout \in Nat
        BY <4>1
      <4>3. cmd = "wait" => elapsed <= WaitTime
        BY Zenon, <1>1, <1>2 DEF TimeInv
      <4> QED BY <4>1, <4>2, <4>3 DEF Longest
    <3>2. Pieces # 0
      BY Zenon, NetAssumption
    <3> QED BY Zenon, <1>1, <1>2, <1>4, <3>1, <3>2 DEF TimeInv
  <2> QED BY Zenon, <2>3, <2>4, <2>5 DEF NetInv
<1> QED BY Zenon, <1>3, <1>4 DEF Send, ghosts

\* A piece of the frame is written (write_all), or the write fails.
LEMMA WriteNet ==
  ASSUME NetInv, Write
  PROVE  NetInv'
<1>1. todo > 0 /\ toHost' = toHost /\ wanted' = wanted
  BY Zenon DEF Write, radio
<1>2. Types /\ QueueInv /\ CallInv /\ LinkIsReal /\ OffInv /\ UpInv /\ TimeInv
  BY Zenon DEF NetInv
<1>11. todo # 0 /\ todo \in Nat
  BY <1>1, <1>2 DEF Types
<1>12. cmd # "none" /\ ~waiting /\ nap = 0 /\ Step \notin Local
  BY Zenon, <1>2, <1>11 DEF Types, CallInv, TimeInv
<1>3. /\ cmd \in AllCommands /\ at \in 1..Len(Steps(cmd)) /\ uid \in Nat \ {0} /\ failed \in Nat
      /\ toHost \in Seq(Got) /\ toC6 \in Seq(Asked) /\ HostShape(toHost) /\ AskShape(toC6)
      /\ Calls \in Nat /\ Held(toHost, toC6, Calls, Calls, failed)
      /\ Answered = Calls
      /\ cmd # "wait" => Calls + 1 = CallNo(at)
  BY Zenon, <1>12, Running
<1>13. /\ RpcTimeout \in Nat /\ elapsed \in Nat /\ left \in Nat
       /\ cmd = "wait" => elapsed + left + todo * RpcTimeout <= Longest
  BY Zenon, <1>2, <1>11, NetAssumption DEF Types, TimeInv
<1>4. CASE Exit(1) /\ UNCHANGED toC6
  BY Zenon, <1>1, <1>12, <1>3, <1>4, ExitNet
<1>6. CASE /\ left > 0 /\ todo > 1 /\ todo' = todo - 1 /\ left' = RpcTimeout
           /\ UNCHANGED <<cmd, at, uid, waiting, wleft, nap, did, elapsed, failed, toC6>>
  <2>1. todo' \in Nat /\ left' \in Nat /\ Calls' = Calls /\ Answered' = Answered /\ Step' = Step
    BY <1>6, <1>11, <1>13 DEF Calls, Answered, Step
  <2>2. Types'
    BY Zenon, <1>1, <1>2, <1>6, <1>12, <2>1 DEF Types
  <2>3. QueueInv' /\ CallInv' /\ LinkIsReal' /\ OffInv' /\ UpInv'
    BY Zenon, <1>1, <1>2, <1>6, <1>12, <2>1 DEF QueueInv, CallInv, LinkIsReal, OffInv, UpInv
  <2>4. cmd = "wait" => elapsed + RpcTimeout + (todo - 1) * RpcTimeout <= Longest
    <3>1. RpcTimeout + (todo - 1) * RpcTimeout = todo * RpcTimeout /\ todo * RpcTimeout \in Nat
      BY <1>11, <1>13
    <3>2. (todo - 1) * RpcTimeout \in Nat /\ Longest \in Nat
      BY <1>11, <1>13, NetAssumption DEF Longest
    <3> QED BY <1>13, <3>1, <3>2
  <2>5. TimeInv'
    <3>1. todo' # 0
      BY <1>6, <1>11
    <3> QED BY Zenon, <1>2, <1>6, <1>12, <2>4, <3>1 DEF TimeInv
  <2> QED BY Zenon, <2>2, <2>3, <2>5 DEF NetInv
<1>5. CASE /\ toC6' = Append(toC6, [id |-> Step, uid |-> uid]) /\ left > 0 /\ todo' = 0 /\ todo = 1
           /\ uid' = uid + 1 /\ waiting' = TRUE /\ left' = RpcTimeout
           /\ UNCHANGED <<cmd, at, wleft, nap, since, result, did, elapsed, failed>>
  <2> DEFINE g == [id |-> Step, uid |-> uid]
  <2>1. /\ Step \in Ids
        /\ Step = "associate" => at >= 6
        /\ Step = "disconnect" => at = 1
        /\ at = Len(Steps(cmd)) => cmd \notin {"up", "connect"}
        /\ cmd = "down" => at = 1
        /\ cmd = "wait" => Step = "apinfo"
    BY <1>12, <1>3, StepFacts DEF Step, Local
  <2>2. g \in Asked /\ g.uid = Calls + 1 /\ g.id = Step /\ uid = Calls + 1
    BY <1>3, <2>1 DEF Asked, Calls
  <2>3. Calls' = Calls + 1 /\ Answered' = Calls
    BY <1>3, <1>5 DEF Calls, Answered
  <2>4. /\ g.uid > 0
        /\ g.id = "disconnect" => g.uid = 1
        /\ g.id = "associate" => g.uid >= 5
    BY <1>3, <2>1, <2>2 DEF CallNo
  <2> HIDE DEF g
  <2>5. toC6' \in Seq(Asked) /\ AskShape(toC6')
    <3>1. toC6' = Append(toC6, g)
      BY Zenon, <1>5 DEF g
    <3>2. \A i \in 1..Len(toC6') : (i \in 1..Len(toC6) /\ toC6'[i] = toC6[i]) \/ toC6'[i] = g
      BY <1>3, <2>2, <3>1
    <3>3. toC6' \in Seq(Asked)
      BY <1>3, <2>2, <3>1
    <3> QED BY Zenon, <1>3, <2>4, <3>2, <3>3 DEF AskShape
  <2>6. /\ Held(toHost, toC6', Calls, Calls + 1, failed)
        /\ Calls + 1 > failed => \A i \in 1..Len(toHost) : toHost[i].uid # Calls + 1
    <3>1. toC6' = Append(toC6, g)
      BY Zenon, <1>5 DEF g
    <3>2. \A i \in 1..Len(toC6) : toC6[i].uid > 0
      BY Zenon, <1>3 DEF AskShape
    <3> QED BY Zenon, <1>3, <2>2, <3>1, <3>2, SendHeld
  <2>7. Types'
    <3>1. uid' \in Nat \ {0} /\ left' \in Nat
      BY <1>3, <1>5, NetAssumption
    <3> QED BY Zenon, <1>12, <1>1, <1>2, <1>3, <1>5, <2>5, <3>1 DEF Types
  <2>8. QueueInv'
    BY Zenon, <1>12, <1>1, <1>3, <1>5, <2>3, <2>5, <2>6 DEF QueueInv
  <2>9. CallInv'
    <3>1. Calls' > 0 /\ Calls' = Calls + 1
      BY <1>3, <2>3
    <3>2. Step' = Step
      BY Zenon, <1>5 DEF Step
    <3>3. cmd # "wait" => Answered' + 1 = CallNo(at)
      BY Zenon, <1>3, <2>3
    <3> QED BY Zenon, <1>12, <1>1, <1>5, <2>6, <3>1, <3>2, <3>3 DEF CallInv, CallNo
  <2>10. LinkIsReal' /\ UpInv'
    <3>1. cmd = "down" => at # 2
      BY <2>1
    <3>2. LinkIsReal'
      BY Zenon, <1>1, <1>2, <1>5, <3>1 DEF LinkIsReal
    <3> QED BY Zenon, <1>5, <2>1, <3>2 DEF UpInv
  <2>11. OffInv'
    BY <1>1, <1>2, <1>3, <1>5, <2>3 DEF OffInv
  <2>12. TimeInv'
    <3>1. cmd = "wait" => elapsed + RpcTimeout <= Longest
      <4>1. todo * RpcTimeout = RpcTimeout /\ Longest \in Nat
        BY <1>5, <1>13, NetAssumption DEF Longest
      <4> QED BY <1>5, <1>13, <4>1
    <3> QED BY Zenon, <1>2, <1>5, <1>12, <3>1 DEF TimeInv
  <2> QED BY Zenon, <2>7, <2>8, <2>9, <2>10, <2>11, <2>12 DEF NetInv
<1>14. todo' = todo - 1 /\ ~(todo > 1) => todo' = 0 /\ todo = 1
  BY <1>11
<1> QED BY Zenon, <1>4, <1>5, <1>6, <1>14 DEF Write, ghosts

\* The process goes on to its next step: what it has an answer to is counted, the
\* call it leaves was served by the radio or stands for one of the first calls.
LEMMA AdvanceNet ==
  ASSUME NetInv, cmd # "none", cmd # "wait", at # Len(Steps(cmd)),
         at' = at + 1, waiting' = FALSE, left' = 0,
         UNCHANGED <<cmd, uid, todo, wleft, nap, since, did, elapsed, failed, wanted, toC6>>,
         toHost' = toHost \/ (toHost # <<>> /\ toHost' = Tail(toHost)),
         Held(toHost', toC6, Calls, Calls, failed),
         Step \in Local => ~waiting,
         Step \notin Local =>
           /\ waiting
           /\ Calls > failed => Step \in did /\ Len(toC6) = 0 /\ (Step = "associate" => wanted)
           /\ Step = "disconnect" => (~wanted \/ failed >= 5) /\ \A i \in 1..Len(toC6) : toC6[i].uid <= failed
  PROVE  NetInv'
<1>1. Types /\ QueueInv /\ CallInv /\ LinkIsReal /\ OffInv /\ UpInv /\ TimeInv
  BY Zenon DEF NetInv
<1>2. /\ cmd \in AllCommands /\ at \in 1..Len(Steps(cmd)) /\ uid \in Nat \ {0} /\ failed \in Nat
      /\ toHost \in Seq(Got) /\ toC6 \in Seq(Asked) /\ HostShape(toHost) /\ AskShape(toC6)
      /\ Calls \in Nat /\ Answered \in Nat
      /\ waiting => Answered = Calls - 1
      /\ ~waiting => Answered = Calls
      /\ Answered + 1 = CallNo(at)
  BY Zenon, Running
<1>21. todo = 0
  BY Zenon, <1>1 DEF CallInv
<1>3. toHost' \in Seq(Got) /\ HostShape(toHost')
  BY Zenon, <1>2, PopShape
<1>4. /\ Len(Steps(cmd)) \in Nat /\ at < Len(Steps(cmd)) /\ at \in Nat
      /\ Step \in Local <=> at = 4
      /\ Step = "associate" => at >= 6
      /\ cmd \in {"up", "connect"} => Len(Steps(cmd)) >= 7 /\ Steps(cmd)[Len(Steps(cmd)) - 1] = "associate"
      /\ cmd = "down" => Steps(cmd)[1] = "disconnect"
  BY SMTT(20), <1>2, StepFacts DEF Step
<1>5. Types'
  <2>1. at' \in Nat \ {0} /\ at' <= Len(Steps(cmd)) /\ left' \in Nat
    BY <1>4
  <2> QED BY Zenon, <1>1, <1>3, <2>1 DEF Types
<1>6. Calls' = Calls /\ Answered' = Calls
  BY Zenon DEF Calls, Answered
<1>7. QueueInv'
  BY Zenon, <1>2, <1>3, <1>6 DEF QueueInv
<1>8. CallInv'
  <2>1. Calls + 1 = CallNo(at')
    BY <1>2, <1>4 DEF CallNo
  <2> QED BY Zenon, <1>6, <1>21, <2>1 DEF CallInv
<1>9. LinkIsReal'
  <2>1. ASSUME NEW k \in 1..(at' - 1), Steps(cmd)[k] \notin Local, CallNo(k) > failed
        PROVE  Steps(cmd)[k] \in did
    <3>1. CASE k = at
      <4>1. Step \notin Local /\ Step = Steps(cmd)[k]
        BY Zenon, <2>1, <3>1 DEF Step
      <4>2. Calls > failed
        BY <1>2, <2>1, <3>1, <4>1
      <4> QED BY Zenon, <4>1, <4>2
    <3>2. CASE k \in 1..(at - 1)
      BY Zenon, <1>1, <2>1, <3>2 DEF LinkIsReal
    <3> QED BY <1>4, <3>1, <3>2
  <2>2. ASSUME cmd = "down", at' = 2, failed < 5
        PROVE  ~wanted /\ \A i \in 1..Len(toC6) : toC6[i].id # "associate"
    <3>1. Step = "disconnect" /\ Step \notin Local
      BY <1>4, <2>2 DEF Step, Local
    <3>2. ~wanted
      BY <1>2, <2>2, <3>1
    <3>3. ASSUME NEW i \in 1..Len(toC6) PROVE toC6[i].id # "associate"
      <4>1. toC6[i].uid <= failed /\ toC6[i].uid \in Nat
        BY Zenon, <1>2, <3>1, UidTypes
      <4>2. toC6[i].id = "associate" => toC6[i].uid >= 5
        BY Zenon, <1>2 DEF AskShape
      <4> QED BY SMTT(20), <1>2, <2>2, <4>1, <4>2
    <3> QED BY Zenon, <3>2, <3>3
  <2> QED BY Zenon, <2>1, <2>2 DEF LinkIsReal
<1>10. UpInv'
  <2> SUFFICES ASSUME cmd \in {"up", "connect"}, at' = Len(Steps(cmd)), failed < 5
               PROVE  wanted /\ toC6 = <<>>
    BY Zenon DEF UpInv
  <2>1. at = Len(Steps(cmd)) - 1 /\ at >= 6
    BY <1>4
  <2>2. Step = "associate" /\ Step \notin Local
    BY <1>4, <2>1 DEF Step
  <2>3. Calls > failed
    <3>1. CallNo(at) >= 5
      BY <1>4, <2>1 DEF CallNo
    <3>2. waiting
      BY Zenon, <2>2
    <3>3. Calls \in Nat /\ failed \in Nat /\ Calls >= 5
      BY <1>2, <3>1, <3>2
    <3> QED BY <3>3
  <2>4. wanted /\ Len(toC6) = 0
    BY Zenon, <2>2, <2>3
  <2> QED BY <1>2, <2>4
<1>11. OffInv'
  <2>1. ASSUME NEW i \in 1..Len(toHost') PROVE \E j \in 1..Len(toHost) : toHost[j] = toHost'[i]
    <3>1. CASE toHost' = toHost
      BY Zenon, <3>1
    <3>2. CASE toHost # <<>> /\ toHost' = Tail(toHost)
      <4>1. i + 1 \in 1..Len(toHost) /\ toHost'[i] = toHost[i + 1]
        BY <1>2, <3>2
      <4> QED BY Zenon, <4>1
    <3> QED BY Zenon, <3>1, <3>2
  <2> QED BY Zenon, <1>1, <1>6, <2>1 DEF OffInv
<1>12. TimeInv'
  BY Zenon, <1>1, <1>21 DEF TimeInv
<1> QED BY Zenon, <1>5, <1>7, <1>8, <1>9, <1>10, <1>11, <1>12 DEF NetInv

\* The interface is changed (set_linux_mac, set_linux_interface_state).
LEMMA SetInterfaceNet ==
  ASSUME NetInv, SetInterface
  PROVE  NetInv'
<1>1. cmd # "none" /\ ~waiting /\ Step \in Local /\ UNCHANGED <<toC6, toHost, wanted>>
  BY Zenon DEF SetInterface, radio
<1>2. /\ cmd \in AllCommands /\ Calls \in Nat /\ Held(toHost, toC6, Calls, Calls, failed)
      /\ at \in 1..Len(Steps(cmd))
  BY Zenon, <1>1, Running
<1>3. CASE \E r \in {0, 1} : Exit(r)
  BY Zenon, <1>1, <1>2, <1>3, ExitNet
<1>4. CASE /\ at # Len(Steps(cmd)) /\ at' = at + 1 /\ waiting' = FALSE /\ left' = 0
           /\ UNCHANGED <<cmd, uid, todo, wleft, nap, since, did, elapsed, failed>>
  <2>1. cmd # "wait"
    BY <1>1, <1>2, StepFacts DEF Step, Local
  <2> QED BY Zenon, <1>1, <1>2, <1>4, <2>1, AdvanceNet
<1> QED BY Zenon, <1>3, <1>4 DEF SetInterface, Continue, ghosts

\* The process reads a frame (rpc_exchange): one that cannot be decoded ends it,
\* its reply takes it on, any other is passed over.
LEMMA ReceiveNet ==
  ASSUME NetInv, Receive
  PROVE  NetInv'
<1>1. Types /\ QueueInv /\ CallInv /\ LinkIsReal /\ OffInv /\ UpInv /\ TimeInv
  BY Zenon DEF NetInv
<1>2. /\ waiting /\ toHost # <<>> /\ toHost' = Tail(toHost) /\ left > 0
      /\ UNCHANGED <<toC6, wanted>>
  BY Zenon DEF Receive, radio
<1>3. cmd # "none"
  BY Zenon, <1>1, <1>2 DEF Types
<1>4. /\ cmd \in AllCommands /\ at \in 1..Len(Steps(cmd)) /\ uid \in Nat \ {0} /\ failed \in Nat
      /\ toHost \in Seq(Got) /\ toC6 \in Seq(Asked) /\ HostShape(toHost) /\ AskShape(toC6)
      /\ Calls \in Nat /\ Answered \in Nat /\ Held(toHost, toC6, Answered, Calls, failed)
      /\ Answered = Calls - 1 /\ Calls > 0 /\ Step \notin Local
      /\ cmd # "wait" => Answered + 1 = CallNo(at)
  BY Zenon, <1>2, <1>3, Running
<1>5. Head(toHost) = toHost[1] /\ 1 \in 1..Len(toHost) /\ toHost[1] \in Got
  BY <1>2, <1>4
<1>6. Tail(toHost) \in Seq(Got) /\ HostShape(Tail(toHost))
  BY Zenon, <1>2, <1>4, PopShape
<1>7. Held(toHost', toC6, Answered, Calls, failed)
  BY Zenon, <1>2, <1>4, PopKeeps, KeepsHeld
<1>8. ASSUME NEW i \in 1..Len(toHost') PROVE \E j \in 1..Len(toHost) : toHost[j] = toHost'[i]
  <2>1. i + 1 \in 1..Len(toHost) /\ toHost'[i] = toHost[i + 1]
    BY <1>2, <1>4
  <2> QED BY Zenon, <2>1
<1>9. CASE Exit(1)
  <2>1. Calls \in {Answered, Answered + 1}
    BY <1>4
  <2> QED BY <1>2, <1>3, <1>4, <1>7, <1>9, <2>1, ExitNet
<1>10. CASE UNCHANGED <<proc, ghosts>>
  <2>1. UNCHANGED <<cmd, at, uid, todo, waiting, left, wleft, nap, did, elapsed, failed>>
    BY Zenon, <1>10 DEF proc, ghosts
  <2>2. Types'
    BY Zenon, <1>1, <1>2, <1>6, <2>1 DEF Types
  <2>3. Calls' = Calls /\ Answered' = Answered /\ Step' = Step
    BY Zenon, <2>1 DEF Calls, Answered, Step
  <2>4. QueueInv'
    BY Zenon, <1>2, <1>3, <1>4, <1>6, <1>7, <2>1, <2>3 DEF QueueInv
  <2>5. CallInv'
    <3>1. ASSUME Calls > failed, NEW i \in 1..Len(toHost'), toHost'[i].uid = Calls, toHost'[i].st = "ok"
          PROVE  toHost'[i].id \in did /\ (toHost'[i].id = "associate" => wanted)
      BY Zenon, <1>1, <1>2, <1>8, <3>1 DEF CallInv
    <3> QED BY Zenon, <1>1, <1>2, <2>1, <2>3, <3>1 DEF CallInv
  <2>6. OffInv'
    BY Zenon, <1>1, <1>2, <1>8, <2>1, <2>3 DEF OffInv
  <2>7. LinkIsReal' /\ UpInv' /\ TimeInv'
    BY Zenon, <1>1, <1>2, <2>1 DEF LinkIsReal, UpInv, TimeInv
  <2> QED BY Zenon, <2>2, <2>4, <2>5, <2>6, <2>7 DEF NetInv
<1>11. CASE Accepts(Head(toHost)) /\ Reply(Head(toHost).st)
  <2>1. toHost[1].kind = "rsp" /\ toHost[1].id = Step /\ toHost[1].uid = Calls
    BY Zenon, <1>5, <1>11 DEF Accepts, Calls
  <2>2. /\ Held(toHost', toC6, Calls, Calls, failed)
        /\ Calls > failed => Len(toC6) = 0
        /\ Calls = 1 => \A i \in 1..Len(toC6) : toC6[i].uid <= failed
    BY <1>2, <1>4, <2>1, TakeHeld
  <2>3. CASE \E r \in {0, 1} : Exit(r)
    BY Zenon, <1>2, <1>3, <1>4, <2>2, <2>3, ExitNet
  <2>4. CASE cmd = "wait" /\ ~\E r \in {0, 1} : Exit(r)
    <3>1. /\ wleft # 0 /\ nap' = 1 /\ waiting' = FALSE /\ left' = 0
          /\ UNCHANGED <<cmd, at, uid, todo, wleft, did, elapsed, failed>>
      BY Zenon, <1>11, <2>4 DEF Reply, WaitSample, ghosts
    <3>2. Types'
      BY Zenon, <1>1, <1>2, <1>3, <1>6, <3>1 DEF Types
    <3>3. Calls' = Calls /\ Answered' = Calls
      BY Zenon, <3>1 DEF Calls, Answered
    <3>4. QueueInv'
      BY Zenon, <1>2, <1>3, <1>4, <1>6, <2>2, <3>1, <3>3 DEF QueueInv
    <3>51. todo = 0
      BY Zenon, <1>1, <1>2 DEF CallInv
    <3>5. CallInv'
      BY Zenon, <2>4, <3>1, <3>51 DEF CallInv
    <3>6. OffInv'
      BY Zenon, <1>1, <1>2, <1>8, <3>1, <3>3 DEF OffInv
    <3>7. LinkIsReal' /\ UpInv'
      BY Zenon, <1>1, <1>2, <3>1 DEF LinkIsReal, UpInv
    <3>8. TimeInv'
      <4>1. wleft \in Nat /\ elapsed \in Nat /\ WaitTime \in Nat
        BY Zenon, <1>1, NetAssumption DEF Types
      <4> QED BY <1>1, <1>2, <2>4, <3>1, <3>51, <4>1 DEF TimeInv
    <3> QED BY Zenon, <3>2, <3>4, <3>5, <3>6, <3>7, <3>8 DEF NetInv
  <2>5. CASE cmd # "wait" /\ ~\E r \in {0, 1} : Exit(r)
    <3>1. toHost[1].st = "ok" /\ cmd # "status" /\ Continue
      BY Zenon, <1>5, <1>11, <2>5 DEF Reply
    <3>2. /\ at # Len(Steps(cmd)) /\ at' = at + 1 /\ waiting' = FALSE /\ left' = 0
          /\ UNCHANGED <<cmd, uid, todo, wleft, nap, since, did, elapsed, failed>>
      BY Zenon, <2>5, <3>1 DEF Continue, ghosts
    <3>3. Calls > failed => Step \in did /\ (Step = "associate" => wanted)
      BY Zenon, <1>1, <1>2, <1>5, <2>1, <3>1 DEF CallInv
    <3>4. ASSUME Step = "disconnect"
          PROVE  (~wanted \/ failed >= 5) /\ \A i \in 1..Len(toC6) : toC6[i].uid <= failed
      <4>1. Calls = 1
        BY Zenon, <1>4, <1>5, <2>1, <3>4 DEF HostShape
      <4>2. ~wanted \/ failed >= 5 \/ Calls >= 5
        BY Zenon, <1>1, <1>5, <2>1, <3>1, <3>4 DEF OffInv
      <4> QED BY <2>2, <4>1, <4>2
    <3> QED BY Zenon, <1>2, <1>3, <1>4, <2>2, <2>5, <3>2, <3>3, <3>4, AdvanceNet
  <2> QED BY Zenon, <2>3, <2>4, <2>5
<1> QED BY Zenon, <1>9, <1>10, <1>11 DEF Receive

\* The deadline passes, or the user interrupts the command.
LEMMA CutShortNet ==
  ASSUME NetInv, Expire \/ Interrupt
  PROVE  NetInv'
<1>1. Types
  BY Zenon DEF NetInv
<1>2. Exit(1) /\ UNCHANGED <<toC6, toHost, wanted>> /\ cmd # "none"
  BY Zenon, <1>1 DEF Expire, Interrupt, Types, radio
<1>3. /\ Calls \in Nat /\ Answered \in Nat /\ Held(toHost, toC6, Answered, Calls, failed)
      /\ (Answered = Calls - 1) \/ (Answered = Calls)
  BY Zenon, <1>2, Running
<1>4. Calls \in {Answered, Answered + 1}
  BY <1>3
<1> QED BY <1>2, <1>3, <1>4, ExitNet

-----------------------------------------------------------------------------
(* The radio and the clock *)

\* A reply to a disconnect with an associate behind it is there only after
\* failures.
LEMMA BehindOne ==
  ASSUME NEW h \in Seq(Got), NEW q \in Seq(Asked),
         NEW a \in Nat, NEW n \in Nat, NEW f \in Nat, Held(h, q, a, n, f), n \in {a, a + 1},
         NEW i \in 1..Len(h), h[i].uid = 1, NEW j \in 1..Len(q), q[j].uid >= 5
  PROVE  f >= 5 \/ (n >= 5 /\ f >= 4)
<1>1. q[j].uid \in Nat
  BY Zenon, UidTypes
<1>2. CASE Fresh(h, q, a, n)
  <2>1. CASE n = a
    BY <1>2, <2>1 DEF Fresh, Only
  <2>2. CASE n = a + 1
    <3>1. Only(h, q, n)
      BY <1>2, <2>2 DEF Fresh
    <3>2. 1 \in {0, n} /\ q[j].uid = n
      BY Zenon, <3>1 DEF Only
    <3> QED BY <3>2
  <2> QED BY Zenon, <2>1, <2>2
<1>3. CASE Stale(h, q, a, n, f)
  <2> DEFINE cap == IF f >= n THEN f ELSE n
  <2>1. a <= f /\ cap \in Nat
    BY Zenon, <1>3 DEF Stale
  <2>2. WithinFromOne(h, q, cap) \/ Within(h, q, cap)
    BY <1>3 DEF Stale
  <2>3. q[j].uid <= cap
    <3> HIDE DEF cap
    <3> QED BY Zenon, <2>2 DEF WithinFromOne, Within
  <2> QED BY <1>1, <2>1, <2>3
<1> QED BY Zenon, <1>2, <1>3 DEF Held

\* While a process waits for a call above the failures, nothing is behind its reply.
LEMMA OwnReplyLast ==
  ASSUME NetInv, waiting, Calls > failed, NEW i \in 1..Len(toHost), toHost[i].uid = Calls
  PROVE  Len(toC6) = 0
<1>1. cmd # "none"
  BY Zenon DEF NetInv, Types
<1>2. /\ Held(toHost, toC6, Answered, Calls, failed) /\ Answered = Calls - 1
      /\ Calls \in Nat /\ failed \in Nat
  BY Zenon, <1>1, Running
<1>3. EndsWith(toHost, toC6, Calls)
  BY <1>2 DEF Held, Stale, Fresh
<1> QED BY Zenon, <1>3 DEF EndsWith

\* The radio serves a request.
LEMMA ServeNet ==
  ASSUME NetInv, NEW ok \in BOOLEAN, NEW lost \in BOOLEAN, C6Serve(ok, lost)
  PROVE  NetInv'
<1>1. Types /\ QueueInv /\ CallInv /\ LinkIsReal /\ OffInv /\ UpInv /\ TimeInv
  BY Zenon DEF NetInv
<1>2. /\ toC6 # <<>> /\ toC6' = Tail(toC6)
      /\ UNCHANGED <<cmd, at, uid, todo, waiting, left, wleft, nap, elapsed, failed>>
  BY Zenon DEF C6Serve, proc
<1>3. /\ toC6 \in Seq(Asked) /\ toHost \in Seq(Got) /\ HostShape(toHost) /\ AskShape(toC6)
      /\ failed \in Nat /\ uid \in Nat \ {0}
  BY Zenon, <1>1 DEF Types, QueueInv
<1>4. Tail(toC6) \in Seq(Asked) /\ AskShape(Tail(toC6)) /\ Len(toC6) \in Nat \ {0} /\ Head(toC6) = toC6[1]
  BY Zenon, <1>2, <1>3, ServedShape
<1>5. 1 \in 1..Len(toC6) /\ toC6[1] \in Asked
  BY <1>3, <1>4
<1>6. /\ toC6[1].uid \in Nat /\ toC6[1].uid > 0 /\ toC6[1].id \in Ids
      /\ toC6[1].id = "disconnect" => toC6[1].uid = 1
      /\ toC6[1].id = "associate" => toC6[1].uid >= 5
  <2>1. toC6[1].uid \in Nat /\ toC6[1].id \in Ids
    BY Zenon, <1>5 DEF Asked
  <2> QED BY Zenon, <1>3, <1>5, <2>1 DEF AskShape
<1>7. PICK st \in {"ok", "disconnected", "unavailable"} :
        /\ st = "ok" => ok
        /\ \/ toHost' = toHost
           \/ toHost' = Append(toHost, [kind |-> "rsp", id |-> toC6[1].id, uid |-> toC6[1].uid, st |-> st])
  BY Zenon, <1>4 DEF C6Serve, Post
<1>8. /\ wanted' = (IF ok /\ toC6[1].id = "associate" THEN TRUE
                    ELSE IF ok /\ toC6[1].id \in {"disconnect", "restore"} THEN FALSE ELSE wanted)
      /\ did' = (IF ok /\ cmd # "none" THEN did \cup {toC6[1].id} ELSE did)
  BY Zenon, <1>4 DEF C6Serve
<1> DEFINE f == [kind |-> "rsp", id |-> toC6[1].id, uid |-> toC6[1].uid, st |-> st]
<1>9. /\ f \in Got /\ f.kind = "rsp" /\ f.id = toC6[1].id /\ f.uid = toC6[1].uid /\ f.st = st
  BY Zenon, <1>6 DEF Got
<1>10. toHost' = toHost \/ toHost' = Append(toHost, f)
  BY Zenon, <1>7
<1> HIDE DEF f
<1>11. toHost' \in Seq(Got) /\ HostShape(toHost')
  <2>1. CASE toHost' = Append(toHost, f)
    BY Zenon, <1>3, <1>6, <1>9, <2>1, PostShape
  <2> QED BY Zenon, <1>3, <1>10, <2>1
<1>12. Keeps(toHost, toC6, toHost', toC6')
  BY Zenon, <1>2, <1>3, <1>9, <1>10, LostKeeps, ServeKeeps
<1>13. ASSUME NEW i \in 1..Len(toHost')
       PROVE  (i \in 1..Len(toHost) /\ toHost'[i] = toHost[i]) \/ toHost'[i] = f
  BY <1>3, <1>10
<1>14. Calls' = Calls /\ Answered' = Answered /\ Step' = Step
  BY Zenon, <1>2 DEF Calls, Answered, Step
<1>15. did \subseteq did'
  BY Zenon, <1>8
<1>16. Types'
  BY Zenon, <1>1, <1>2, <1>4, <1>11 DEF Types
<1>17. QueueInv'
  <2>1. ASSUME cmd = "none" PROVE WithinFromOne(toHost', toC6', failed)
    BY Zenon, <1>1, <1>3, <1>12, <2>1 DEF QueueInv, Keeps
  <2>2. ASSUME cmd # "none" PROVE Held(toHost', toC6', Answered, Calls, failed)
    BY Zenon, <1>12, <2>2, Running, KeepsHeld
  <2> QED BY Zenon, <1>2, <1>4, <1>11, <1>14, <2>1, <2>2 DEF QueueInv
<1>18. CallInv'
  <2>1. ASSUME waiting, Calls > failed, NEW i \in 1..Len(toHost'),
               toHost'[i].uid = Calls, toHost'[i].st = "ok"
        PROVE  toHost'[i].id \in did' /\ (toHost'[i].id = "associate" => wanted')
    <3>1. CASE i \in 1..Len(toHost) /\ toHost'[i] = toHost[i]
      <4>1. toHost[i].uid = Calls
        BY Zenon, <2>1, <3>1
      <4>2. Len(toC6) = 0
        BY Zenon, <2>1, <3>1, <4>1, OwnReplyLast
      <4> QED BY Zenon, <1>4, <4>2
    <3>2. CASE toHost'[i] = f
      <4>1. cmd # "none"
        BY Zenon, <1>1, <2>1 DEF Types
      <4>2. ok
        BY Zenon, <1>7, <1>9, <2>1, <3>2
      <4> QED BY Zenon, <1>8, <1>9, <3>2, <4>1, <4>2
    <3> QED BY Zenon, <1>13, <3>1, <3>2
  <2> QED BY Zenon, <1>1, <1>2, <1>14, <2>1 DEF CallInv
<1>19. LinkIsReal'
  <2>1. ASSUME NEW k \in 1..(at - 1), Steps(cmd)[k] \notin Local, CallNo(k) > failed
        PROVE  Steps(cmd)[k] \in did'
    BY Zenon, <1>1, <1>15, <2>1 DEF LinkIsReal
  <2>2. ASSUME cmd = "down", at = 2, failed < 5
        PROVE  ~wanted' /\ \A i \in 1..Len(toC6') : toC6'[i].id # "associate"
    <3>1. ~wanted /\ \A i \in 1..Len(toC6) : toC6[i].id # "associate"
      BY Zenon, <1>1, <2>2 DEF LinkIsReal
    <3>2. \A i \in 1..Len(toC6') : i + 1 \in 1..Len(toC6) /\ toC6'[i] = toC6[i + 1]
      BY <1>2, <1>3
    <3> QED BY Zenon, <1>5, <1>8, <3>1, <3>2
  <2> QED BY Zenon, <1>2, <2>1, <2>2 DEF LinkIsReal
<1>20. OffInv'
  <2> SUFFICES ASSUME NEW i \in 1..Len(toHost'), toHost'[i].id = "disconnect", toHost'[i].st = "ok", wanted'
               PROVE  failed >= 5 \/ (cmd # "none" /\ Calls >= 5 /\ failed >= 4)
    BY Zenon, <1>2, <1>14 DEF OffInv
  <2>1. i \in 1..Len(toHost) /\ toHost'[i] = toHost[i]
    <3>1. ASSUME toHost'[i] = f PROVE FALSE
      <4>1. ok /\ toC6[1].id = "disconnect"
        BY Zenon, <1>7, <1>9, <3>1
      <4> QED BY Zenon, <1>8, <4>1
    <3> QED BY Zenon, <1>13, <3>1
  <2>2. CASE wanted
    BY Zenon, <1>1, <2>1, <2>2 DEF OffInv
  <2>3. CASE ~wanted
    <3>1. toC6[1].id = "associate"
      BY Zenon, <1>8, <2>3
    <3>2. toC6[1].uid >= 5 /\ toHost[i].uid = 1
      BY Zenon, <1>3, <1>6, <2>1, <3>1 DEF HostShape
    <3>3. CASE cmd = "none"
      <4>1. toC6[1].uid <= failed
        BY Zenon, <1>1, <1>5, <2>1, <3>2, <3>3 DEF QueueInv, WithinFromOne
      <4> QED BY <1>3, <1>6, <3>2, <4>1
    <3>4. CASE cmd # "none"
      <4>1. /\ Calls \in Nat /\ Answered \in Nat /\ Held(toHost, toC6, Answered, Calls, failed)
            /\ (Answered = Calls - 1) \/ (Answered = Calls)
        BY Zenon, <3>4, Running
      <4>2. Calls \in {Answered, Answered + 1}
        BY <4>1
      <4> QED BY Zenon, <1>3, <1>5, <2>1, <3>2, <3>4, <4>1, <4>2, BehindOne
    <3> QED BY Zenon, <3>3, <3>4
  <2> QED BY Zenon, <2>2, <2>3
<1>21. UpInv' /\ TimeInv'
  BY Zenon, <1>1, <1>2 DEF UpInv, TimeInv
<1> QED BY Zenon, <1>16, <1>17, <1>18, <1>19, <1>20, <1>21 DEF NetInv

\* A step that changes nothing the invariant speaks of.
LEMMA SameNet ==
  ASSUME NetInv,
         UNCHANGED <<cmd, at, uid, todo, waiting, left, wleft, nap, did, elapsed, failed, toC6, toHost, wanted>>
  PROVE  NetInv'
<1>1. Types /\ QueueInv /\ CallInv /\ LinkIsReal /\ OffInv /\ UpInv /\ TimeInv
  BY Zenon DEF NetInv
<1>2. Calls' = Calls /\ Answered' = Answered /\ Step' = Step
  BY Zenon DEF Calls, Answered, Step
<1>3. Types'
  BY Zenon, <1>1 DEF Types
<1>4. QueueInv'
  BY Zenon, <1>1, <1>2 DEF QueueInv
<1>5. CallInv'
  BY Zenon, <1>1, <1>2 DEF CallInv
<1>6. LinkIsReal'
  BY Zenon, <1>1 DEF LinkIsReal
<1>7. OffInv'
  BY Zenon, <1>1, <1>2 DEF OffInv
<1>8. UpInv' /\ TimeInv'
  BY Zenon, <1>1 DEF UpInv, TimeInv
<1> QED BY Zenon, <1>3, <1>4, <1>5, <1>6, <1>7, <1>8 DEF NetInv

\* A step of neither process nor requests; at most an event arrives.
LEMMA EventNet ==
  ASSUME NetInv, NEW f \in Got, f.kind # "rsp", f.uid = 0, f.id = "none",
         toHost' = toHost \/ toHost' = Append(toHost, f),
         UNCHANGED <<cmd, at, uid, todo, waiting, left, wleft, nap, did, elapsed, failed, toC6, wanted>>
  PROVE  NetInv'
<1>1. Types /\ QueueInv /\ CallInv /\ LinkIsReal /\ OffInv /\ UpInv /\ TimeInv
  BY Zenon DEF NetInv
<1>2. /\ toC6 \in Seq(Asked) /\ toHost \in Seq(Got) /\ HostShape(toHost)
      /\ failed \in Nat /\ uid \in Nat \ {0}
  BY Zenon, <1>1 DEF Types, QueueInv
<1>3. Calls' = Calls /\ Answered' = Answered /\ Step' = Step
  BY Zenon DEF Calls, Answered, Step
<1>4. CASE toHost' = toHost
  BY Zenon, <1>4, SameNet
<1>5. CASE toHost' = Append(toHost, f)
  <2>1. toHost' \in Seq(Got) /\ HostShape(toHost')
    <3>1. f.kind = "rsp" <=> f.uid > 0
      OBVIOUS
    <3> QED BY Zenon, <1>2, <1>5, <3>1, PostShape
  <2>2. Keeps(toHost, toC6, toHost', toC6)
    BY Zenon, <1>2, <1>5, EventKeeps
  <2>3. ASSUME NEW i \in 1..Len(toHost')
        PROVE  (i \in 1..Len(toHost) /\ toHost'[i] = toHost[i]) \/ toHost'[i] = f
    BY <1>2, <1>5
  <2>4. Types'
    BY Zenon, <1>1, <2>1 DEF Types
  <2>5. QueueInv'
    <3>1. ASSUME cmd = "none" PROVE WithinFromOne(toHost', toC6, failed)
      BY Zenon, <1>1, <1>2, <2>2, <3>1 DEF QueueInv, Keeps
    <3>2. ASSUME cmd # "none" PROVE Held(toHost', toC6, Answered, Calls, failed)
      BY Zenon, <2>2, <3>2, Running, KeepsHeld
    <3> QED BY Zenon, <1>1, <1>3, <2>1, <3>1, <3>2 DEF QueueInv
  <2>6. CallInv'
    <3>1. ASSUME waiting, Calls > failed, NEW i \in 1..Len(toHost'),
                 toHost'[i].uid = Calls, toHost'[i].st = "ok"
          PROVE  toHost'[i].id \in did /\ (toHost'[i].id = "associate" => wanted)
      <4>1. Calls # 0
        BY <1>1, <3>1 DEF CallInv
      <4> QED BY Zenon, <1>1, <2>3, <3>1, <4>1 DEF CallInv
    <3> QED BY Zenon, <1>1, <1>3, <3>1 DEF CallInv
  <2>7. OffInv'
    BY Zenon, <1>1, <1>3, <2>3 DEF OffInv
  <2>8. LinkIsReal' /\ UpInv' /\ TimeInv'
    BY Zenon, <1>1 DEF LinkIsReal, UpInv, TimeInv
  <2> QED BY Zenon, <2>4, <2>5, <2>6, <2>7, <2>8 DEF NetInv
<1> QED BY Zenon, <1>4, <1>5

\* The radio does something by itself, or a request is served.
LEMMA RadioNet ==
  ASSUME NetInv, Radio
  PROVE  NetInv'
<1> DEFINE F(k) == [kind |-> k, id |-> "none", uid |-> 0, st |-> "none"]
<1>1. ASSUME NEW k \in {"other", "bad"}
      PROVE  F(k) \in Got /\ F(k).kind # "rsp" /\ F(k).uid = 0 /\ F(k).id = "none"
  BY Zenon DEF Got
<1>2. ASSUME NEW ok \in BOOLEAN, NEW lost \in BOOLEAN, C6Serve(ok, lost) PROVE NetInv'
  BY Zenon, <1>2, ServeNet
<1>3. CASE Associate \/ Drop \/ \E kind \in {"other", "bad"} : Noise(kind)
  <2>1. UNCHANGED <<cmd, at, uid, todo, waiting, left, wleft, nap, did, elapsed, failed, toC6, wanted>>
    BY Zenon, <1>3 DEF Associate, Drop, Noise, proc, ghosts, radio
  <2>2. PICK k \in {"other", "bad"} : toHost' = toHost \/ toHost' = Append(toHost, F(k))
    BY Zenon, <1>3 DEF Associate, Drop, Noise, Post
  <2> HIDE DEF F
  <2> QED BY Zenon, <1>1, <2>1, <2>2, EventNet
<1> QED BY Zenon, <1>2, <1>3 DEF Radio

\* A tick of the clock.
LEMMA TickNet ==
  ASSUME NetInv, Tick
  PROVE  NetInv'
<1>1. Types /\ QueueInv /\ CallInv /\ LinkIsReal /\ OffInv /\ UpInv /\ TimeInv
  BY Zenon DEF NetInv
<1>2. /\ cmd # "none" => nap > 0 \/ ((todo > 0 \/ waiting) /\ left > 0)
      /\ left' = Dec(left) /\ wleft' = Dec(wleft) /\ nap' = Dec(nap)
      /\ elapsed' = (IF cmd = "wait" THEN Inc(elapsed, Longest + 1) ELSE 0)
      /\ UNCHANGED <<cmd, at, uid, todo, waiting, did, failed, toC6, toHost, wanted>>
  BY Zenon DEF Tick, radio
<1>3. left \in Nat /\ wleft \in Nat /\ nap \in Nat /\ elapsed \in Nat
  BY Zenon, <1>1 DEF Types
<1>4. /\ WaitTime \in Nat \ {0} /\ RpcTimeout \in Nat \ {0}
      /\ Longest \in Nat /\ Longest >= WaitTime
      /\ todo \in Nat /\ todo * RpcTimeout \in Nat
  <2>1. WaitTime \in Nat \ {0} /\ RpcTimeout \in Nat \ {0} /\ Pieces \in Nat /\ todo \in Nat
    BY Zenon, <1>1, NetAssumption DEF Types
  <2>2. Pieces * RpcTimeout \in Nat /\ todo * RpcTimeout \in Nat
    BY <2>1
  <2> QED BY <2>1, <2>2 DEF Longest
<1>5. left' \in Nat /\ wleft' \in Nat /\ nap' \in Nat /\ elapsed' \in Nat
  BY <1>2, <1>3, <1>4 DEF Dec, Inc
<1>6. Types'
  <2>1. cmd = "none" => wleft' = 0 /\ nap' = 0 /\ elapsed' = 0
    BY Zenon, <1>1, <1>2 DEF Types, Dec
  <2> QED BY Zenon, <1>1, <1>2, <1>5, <2>1 DEF Types
<1>7. Calls' = Calls /\ Answered' = Answered /\ Step' = Step
  BY Zenon, <1>2 DEF Calls, Answered, Step
<1>8. QueueInv' /\ CallInv' /\ LinkIsReal' /\ OffInv' /\ UpInv'
  BY Zenon, <1>1, <1>2, <1>7 DEF QueueInv, CallInv, LinkIsReal, OffInv, UpInv
<1>9. TimeInv'
  <2>1. CASE cmd # "wait"
    BY Zenon, <1>1, <1>2, <2>1 DEF TimeInv, Dec
  <2>2. CASE cmd = "wait" /\ waiting
    <3>1. todo = 0 /\ nap = 0
      BY Zenon, <1>1, <2>2 DEF CallInv, TimeInv
    <3> QED BY <1>1, <1>2, <1>3, <1>4, <2>2, <3>1 DEF TimeInv, Dec, Inc
  <2>3. CASE cmd = "wait" /\ ~waiting /\ todo = 0
    BY <1>1, <1>2, <1>3, <1>4, <2>3 DEF TimeInv, Dec, Inc
  <2>4. CASE cmd = "wait" /\ ~waiting /\ todo # 0
    <3> DEFINE R == todo * RpcTimeout
    <3>1. R \in Nat /\ nap = 0 /\ elapsed + left + R <= Longest
      BY Zenon, <1>1, <1>4, <2>4 DEF TimeInv
    <3>2. R' = R
      BY Zenon, <1>2
    <3> HIDE DEF R
    <3>3. /\ elapsed' + left' + R <= Longest /\ nap' = 0
          /\ wleft' > 0 => elapsed' + wleft' = WaitTime
          /\ wleft' = 0 => elapsed' >= WaitTime
      BY <1>1, <1>2, <1>3, <1>4, <2>4, <3>1 DEF TimeInv, Dec, Inc
    <3> QED BY Zenon, <1>2, <2>4, <3>2, <3>3 DEF TimeInv, R
  <2> QED BY Zenon, <2>1, <2>2, <2>3, <2>4
<1> QED BY Zenon, <1>6, <1>8, <1>9 DEF NetInv

\* A step of the process.
LEMMA ProcessNet ==
  ASSUME NetInv, Process
  PROVE  NetInv'
BY Zenon, SendNet, WriteNet, SetInterfaceNet, ReceiveNet, CutShortNet DEF Process

\* Every step keeps the invariant, also those of the script.
LEMMA NextNet ==
  ASSUME NetInv, OnlineNext
  PROVE  NetInv'
<1>1. CASE \E c \in Commands : Start(c)
  BY Zenon, <1>1, StartNet, NetAssumption
<1>2. CASE \E c \in {"up", "wait", "status"} : Start(c)
  <2>1. {"up", "wait", "status"} \subseteq AllCommands
    BY Zenon DEF AllCommands
  <2> QED BY Zenon, <1>2, <2>1, StartNet
<1>3. CASE Process \/ Interrupt \/ Radio \/ Tick
  BY Zenon, <1>3, ProcessNet, CutShortNet, RadioNet, TickNet
<1>4. CASE UNCHANGED <<cmd, at, uid, todo, waiting, left, wleft, nap, did, elapsed, failed, toC6, toHost, wanted>>
  <2> DEFINE f == [kind |-> "other", id |-> "none", uid |-> 0, st |-> "none"]
  <2>1. f \in Got /\ f.kind # "rsp" /\ f.uid = 0 /\ f.id = "none"
    BY Zenon DEF Got
  <2> HIDE DEF f
  <2> QED BY Zenon, <1>4, <2>1, EventNet
<1>5. CASE StartScript \/ Returned \/ Dhcp
  BY Zenon, <1>4, <1>5 DEF StartScript, Returned, Dhcp, vars, proc, radio, ghosts
<1> QED BY Zenon, <1>1, <1>2, <1>3, <1>5 DEF OnlineNext, ByHand, Next, Script, Call

-----------------------------------------------------------------------------
(* The script *)

\* The process goes on or ends; only up succeeds by raising the interface.
LEMMA ProcessScript ==
  ASSUME NetInv, ScriptInv, Process
  PROVE  /\ cmd # "none" /\ cmd' \in {cmd, "none"} /\ wanted' = wanted
         /\ failed' < 5 => failed < 5
         /\ cmd = "up" /\ cmd' = "none" /\ result' = 0 /\ failed' < 5
              => ifup' /\ wanted /\ toC6' = <<>>
         /\ cmd = "wait" => ifup' = ifup /\ (StaysOn(toC6) => StaysOn(toC6'))
<1>1. Types /\ UpInv /\ CallInv
  BY Zenon DEF NetInv
<1>2. cmd # "none"
  <2>1. CASE Write
    BY <1>1, <2>1 DEF Write, Types
  <2> QED BY Zenon, <1>1, <2>1 DEF Process, Send, SetInterface, Receive, Expire, Types
<1>3. /\ cmd \in AllCommands /\ at \in 1..Len(Steps(cmd)) /\ failed \in Nat /\ toC6 \in Seq(Asked)
      /\ waiting => Step \notin Local
  BY Zenon, <1>2, Running
<1>4. ASSUME NEW r \in {0, 1}, Exit(r)
      PROVE  cmd' = "none" /\ result' = r /\ (failed' < 5 => failed < 5)
  BY <1>3, <1>4 DEF Exit
<1>5. /\ cmd = "wait" => Step = "apinfo" /\ Step \notin Local
      /\ cmd = "up" /\ at = Len(Steps(cmd)) => Step = "ifup" /\ Step \in Local
  BY <1>3, StepFacts DEF Step, Local
<1>6. ASSUME Continue
      PROVE  \/ at = Len(Steps(cmd)) /\ Exit(0)
             \/ cmd' = cmd /\ failed' = failed
  BY Zenon, <1>6 DEF Continue, ghosts
<1>7. CASE Send \/ Write
  <2>1. wanted' = wanted /\ ifup' = ifup
    BY Zenon, <1>7 DEF Send, Write, radio
  <2>2. CASE Exit(1) /\ UNCHANGED toC6
    <3>1. cmd' = "none" /\ result' = 1 /\ (failed' < 5 => failed < 5)
      BY Zenon, <1>4, <2>2
    <3>2. result' # 0
      BY <3>1
    <3> QED BY Zenon, <1>2, <2>1, <2>2, <3>1, <3>2
  <2>3. CASE toC6' = Append(toC6, [id |-> Step, uid |-> uid]) /\ UNCHANGED <<cmd, failed>>
    <3>1. ASSUME cmd = "wait", StaysOn(toC6) PROVE StaysOn(toC6')
      <4> DEFINE g == [id |-> Step, uid |-> uid]
      <4>1. g.id = "apinfo"
        BY Zenon, <1>5, <3>1
      <4>2. toC6' = Append(toC6, g)
        BY Zenon, <2>3
      <4> HIDE DEF g
      <4>3. ASSUME NEW i \in 1..Len(toC6')
            PROVE  (i \in 1..Len(toC6) /\ toC6'[i] = toC6[i]) \/ toC6'[i] = g
        BY <1>3, <4>2
      <4>4. "apinfo" \notin {"disconnect", "restore"}
        OBVIOUS
      <4> QED BY Zenon, <3>1, <4>1, <4>3, <4>4 DEF StaysOn
    <3> QED BY Zenon, <1>2, <2>1, <2>3, <3>1
  <2>4. CASE toC6' = toC6 /\ UNCHANGED <<cmd, failed>>
    <3>1. StaysOn(toC6) => StaysOn(toC6')
      BY Zenon, <2>4
    <3> QED BY Zenon, <1>2, <2>1, <2>4, <3>1
  <2> QED BY Zenon, <1>7, <2>2, <2>3, <2>4 DEF Send, Write, ghosts
<1>8. CASE SetInterface
  <2>1. wanted' = wanted /\ toC6' = toC6 /\ Step \in Local
    BY Zenon, <1>8 DEF SetInterface, radio
  <2>2. CASE Exit(1)
    <3>1. cmd' = "none" /\ result' = 1 /\ (failed' < 5 => failed < 5)
      BY Zenon, <1>4, <2>2
    <3>2. result' # 0
      BY <3>1
    <3> QED BY Zenon, <1>2, <1>5, <2>1, <3>1, <3>2
  <2>3. CASE Continue /\ ifup' = (IF Step = "setmac" THEN ifup ELSE Step = "ifup")
    <3>1. CASE at = Len(Steps(cmd)) /\ Exit(0)
      <4>1. cmd' = "none" /\ (failed' < 5 => failed < 5)
        BY Zenon, <1>4, <3>1
      <4>2. ASSUME cmd = "up", failed' < 5 PROVE ifup' /\ wanted /\ toC6' = <<>>
        <5>1. wanted /\ toC6 = <<>>
          BY Zenon, <1>1, <3>1, <4>1, <4>2 DEF UpInv
        <5>2. Step = "ifup"
          BY Zenon, <1>5, <3>1, <4>2
        <5> QED BY Zenon, <2>1, <2>3, <5>1, <5>2
      <4> QED BY Zenon, <1>2, <1>5, <2>1, <4>1, <4>2
    <3>2. CASE cmd' = cmd /\ failed' = failed
      BY Zenon, <1>2, <1>5, <2>1, <3>2
    <3> QED BY Zenon, <1>6, <2>3, <3>1, <3>2
  <2> QED BY Zenon, <1>8, <2>2, <2>3 DEF SetInterface
<1>9. CASE Receive \/ Expire
  <2>1. wanted' = wanted /\ toC6' = toC6 /\ ifup' = ifup /\ waiting
    BY Zenon, <1>9 DEF Receive, Expire, radio
  <2>2. CASE \E r \in {0, 1} : Exit(r) /\ (cmd = "up" => r = 1)
    <3>1. PICK r \in {0, 1} : Exit(r) /\ (cmd = "up" => r = 1)
      BY Zenon, <2>2
    <3>2. cmd' = "none" /\ result' = r /\ (failed' < 5 => failed < 5)
      BY Zenon, <1>4, <3>1
    <3>3. cmd = "up" => result' # 0
      BY <3>1, <3>2
    <3> QED BY Zenon, <1>2, <2>1, <3>2, <3>3
  <2>3. CASE cmd' = cmd /\ failed' = failed
    BY Zenon, <1>2, <2>1, <2>3
  <2>4. ASSUME NEW st, Reply(st)
        PROVE  (\E r \in {0, 1} : Exit(r) /\ (cmd = "up" => r = 1)) \/ (cmd' = cmd /\ failed' = failed)
    <3>1. CASE cmd = "wait"
      <4>1. cmd # "up"
        BY Zenon, <3>1
      <4> QED BY Zenon, <2>4, <3>1, <4>1 DEF Reply, WaitSample, ghosts
    <3>2. CASE cmd = "status"
      <4>1. cmd # "up" /\ cmd # "wait"
        BY Zenon, <3>2
      <4> QED BY Zenon, <2>4, <3>2, <4>1 DEF Reply
    <3>3. CASE cmd \notin {"wait", "status"}
      <4>1. Continue \/ Exit(1)
        BY Zenon, <2>4, <3>3 DEF Reply
      <4>2. CASE Continue
        BY Zenon, <1>3, <1>5, <1>6, <2>1, <4>2
      <4> QED BY Zenon, <4>1, <4>2
    <3> QED BY Zenon, <3>1, <3>2, <3>3
  <2>5. CASE Exit(1)
    BY Zenon, <2>2, <2>5
  <2> QED BY Zenon, <1>9, <2>2, <2>3, <2>4, <2>5 DEF Receive, Expire, proc, ghosts
<1> QED BY Zenon, <1>7, <1>8, <1>9 DEF Process

\* The radio keeps what the script relies on.
LEMMA RadioScript ==
  ASSUME NetInv, Radio, wanted, StaysOn(toC6)
  PROVE  wanted' /\ StaysOn(toC6')
<1>1. CASE \E ok, lost \in BOOLEAN : C6Serve(ok, lost)
  <2>1. PICK ok \in BOOLEAN, lost \in BOOLEAN : C6Serve(ok, lost)
    BY Zenon, <1>1
  <2>2. toC6 \in Seq(Asked) /\ toC6 # <<>> /\ toC6' = Tail(toC6)
    BY Zenon, <2>1 DEF NetInv, Types, C6Serve
  <2>3. /\ Head(toC6) = toC6[1] /\ 1 \in 1..Len(toC6)
        /\ \A i \in 1..Len(toC6') : i + 1 \in 1..Len(toC6) /\ toC6'[i] = toC6[i + 1]
    BY <2>2
  <2>4. wanted' = (IF ok /\ toC6[1].id = "associate" THEN TRUE
                   ELSE IF ok /\ toC6[1].id \in {"disconnect", "restore"} THEN FALSE ELSE wanted)
    BY Zenon, <2>1, <2>3 DEF C6Serve
  <2> QED BY Zenon, <2>3, <2>4 DEF StaysOn
<1>2. CASE Associate \/ Drop \/ \E kind \in {"other", "bad"} : Noise(kind)
  BY Zenon, <1>2 DEF Associate, Drop, Noise, radio, StaysOn
<1> QED BY Zenon, <1>1, <1>2 DEF Radio

\* Every step keeps the invariant of the script.
LEMMA NextScript ==
  ASSUME NetInv, ScriptInv, OnlineNext
  PROVE  ScriptInv'
<1>1. failed \in Nat /\ Types
  BY Zenon DEF NetInv, Types
<1>2. CASE ByHand \/ StartScript
  <2>1. (phase' = "shell") \/ (phase' = "up" /\ cmd' = "none")
    BY Zenon, <1>2 DEF ByHand, StartScript
  <2> QED BY Zenon, <2>1 DEF ScriptInv, Joined
<1>3. ASSUME NEW c \in {"up", "wait", "status"}, Call(c) PROVE ScriptInv'
  <2>1. /\ phase = c /\ cmd = "none" /\ UNCHANGED <<ifup, wanted, toC6>>
        /\ \/ cmd' = c /\ failed' = (IF Steps(c)[1] = "init" /\ toC6 = <<>> /\ toHost = <<>> THEN 0 ELSE failed)
           \/ result' = 1 /\ UNCHANGED <<cmd, failed>>
    BY Zenon, <1>3 DEF Call, Start, radio
  <2>2. CASE c = "up"
    <3>1. phase' = "upping"
      BY Zenon, <1>3, <2>2 DEF Call
    <3>2. cmd' = "up" \/ (cmd' = "none" /\ result' = 1)
      BY Zenon, <2>1, <2>2
    <3> QED BY <3>1, <3>2 DEF ScriptInv, Joined
  <2>3. CASE c = "status"
    <3>1. phase' = "statusing"
      BY Zenon, <1>3, <2>3 DEF Call
    <3>2. cmd' \in {"status", "none"}
      BY Zenon, <2>1, <2>3
    <3> QED BY Zenon, <3>1, <3>2 DEF ScriptInv, Joined
  <2>4. CASE c = "wait"
    <3>1. phase' = "waiting"
      BY Zenon, <1>3, <2>4 DEF Call
    <3>2. Steps(c)[1] # "init"
      <4>1. Steps(c) = <<"apinfo">>
        BY Zenon, <2>4 DEF Steps
      <4> QED BY <4>1
    <3>3. cmd' \in {"wait", "none"} /\ failed' = failed
      BY Zenon, <2>1, <2>4, <3>2
    <3>4. failed < 5 => ifup /\ wanted /\ StaysOn(toC6)
      BY Zenon, <2>1, <2>4 DEF ScriptInv, Joined
    <3>5. StaysOn(toC6) => StaysOn(toC6')
      BY Zenon, <2>1
    <3> QED BY Zenon, <2>1, <3>1, <3>3, <3>4, <3>5 DEF ScriptInv, Joined
  <2> QED BY Zenon, <2>2, <2>3, <2>4
<1>4. CASE Returned
  <2>1. UNCHANGED <<cmd, ifup, wanted, toC6, failed, result>> /\ cmd = "none"
    BY Zenon, <1>4 DEF Returned, vars, proc, radio, ghosts
  <2>2. CASE phase = "upping" /\ result = 0 /\ phase' = "wait"
    <3>1. failed < 5 => ifup /\ wanted /\ StaysOn(toC6)
      BY Zenon, <2>1, <2>2 DEF ScriptInv, Joined
    <3>2. StaysOn(toC6) => StaysOn(toC6')
      BY Zenon, <2>1
    <3> QED BY Zenon, <2>1, <2>2, <3>1, <3>2 DEF ScriptInv, Joined
  <2>3. CASE phase = "waiting" /\ phase' = "dhcp"
    <3>1. failed < 5 => ifup /\ wanted /\ StaysOn(toC6)
      BY Zenon, <2>1, <2>3 DEF ScriptInv, Joined
    <3>2. StaysOn(toC6) => StaysOn(toC6')
      BY Zenon, <2>1
    <3> QED BY Zenon, <2>1, <2>3, <3>1, <3>2 DEF ScriptInv, Joined
  <2>4. CASE Retry
    <3>1. phase' \in {"up", "failed"}
      BY Zenon, <2>4 DEF Retry
    <3> QED BY Zenon, <2>1, <3>1 DEF ScriptInv, Joined
  <2> QED BY Zenon, <1>4, <2>2, <2>3, <2>4 DEF Returned
<1>5. CASE Dhcp
  <2>1. UNCHANGED <<cmd, ifup, wanted, toC6, failed, result>> /\ phase = "dhcp" /\ phase' \in {"ready", "status"}
    BY Zenon, <1>5 DEF Dhcp, vars, proc, radio, ghosts
  <2>2. cmd = "none" /\ (failed < 5 => ifup /\ wanted /\ StaysOn(toC6))
    BY Zenon, <2>1 DEF ScriptInv, Joined
  <2>3. StaysOn(toC6) => StaysOn(toC6')
    BY Zenon, <2>1
  <2> QED BY Zenon, <2>1, <2>2, <2>3 DEF ScriptInv, Joined
<1>6. CASE Process /\ UNCHANGED phase
  <2>1. /\ cmd # "none" /\ cmd' \in {cmd, "none"} /\ wanted' = wanted
        /\ failed' < 5 => failed < 5
        /\ cmd = "up" /\ cmd' = "none" /\ result' = 0 /\ failed' < 5
              => ifup' /\ wanted /\ toC6' = <<>>
        /\ cmd = "wait" => ifup' = ifup /\ (StaysOn(toC6) => StaysOn(toC6'))
    BY Zenon, <1>6, ProcessScript
  <2>2. CASE phase = "upping"
    <3>1. cmd = "up"
      BY Zenon, <2>1, <2>2 DEF ScriptInv
    <3>2. toC6' = <<>> => StaysOn(toC6')
      BY DEF StaysOn
    <3>3. phase' = "upping" /\ cmd' \in {"up", "none"}
      BY Zenon, <1>6, <2>1, <2>2, <3>1
    <3> QED BY Zenon, <2>1, <3>1, <3>2, <3>3 DEF ScriptInv, Joined
  <2>3. CASE phase = "waiting"
    <3>1. cmd = "wait"
      BY Zenon, <2>1, <2>3 DEF ScriptInv
    <3>2. failed < 5 => ifup /\ wanted /\ StaysOn(toC6)
      BY Zenon, <2>3 DEF ScriptInv, Joined
    <3> QED BY <1>6, <2>1, <2>3, <3>1, <3>2 DEF ScriptInv, Joined
  <2>4. CASE phase \notin {"upping", "waiting"}
    BY Zenon, <1>6, <2>1, <2>4 DEF ScriptInv, Joined
  <2> QED BY Zenon, <2>2, <2>3, <2>4
<1>7. CASE (Radio \/ Tick) /\ UNCHANGED phase
  <2>1. UNCHANGED <<cmd, result, failed, ifup>>
    BY Zenon, <1>7 DEF Radio, C6Serve, Associate, Drop, Noise, Tick, proc, ghosts
  <2>2. wanted /\ StaysOn(toC6) => wanted' /\ StaysOn(toC6')
    <3>1. CASE Tick
      BY Zenon, <3>1 DEF Tick, radio, StaysOn
    <3> QED BY Zenon, <1>7, <3>1, RadioScript
  <2> QED BY Zenon, <1>7, <2>1, <2>2 DEF ScriptInv, Joined
<1> QED BY Zenon, <1>2, <1>3, <1>4, <1>5, <1>6, <1>7 DEF OnlineNext, Script

-----------------------------------------------------------------------------
(* Theorems *)

\* The invariant of the commands and of the script.
THEOREM NetInvariant == OnlineSpec => [](NetInv /\ ScriptInv)
<1>1. OnlineInit => NetInv /\ ScriptInv
  BY Zenon, InitNet DEF OnlineInit, ScriptInv, Joined
<1>2. NetInv /\ ScriptInv /\ [OnlineNext]_allVars => (NetInv /\ ScriptInv)'
  <2> SUFFICES ASSUME NetInv, ScriptInv, [OnlineNext]_allVars PROVE NetInv' /\ ScriptInv'
    OBVIOUS
  <2>1. CASE OnlineNext
    BY Zenon, <2>1, NextNet, NextScript
  <2>2. CASE UNCHANGED allVars
    <3>1. UNCHANGED <<cmd, at, uid, todo, waiting, left, wleft, nap, did, elapsed, failed, toC6, toHost,
                      wanted, result, ifup, phase>>
      BY Zenon, <2>2 DEF allVars, vars, proc, radio, ghosts
    <3>2. NetInv'
      BY Zenon, <3>1, SameNet
    <3>3. ScriptInv'
      BY Zenon, <3>1 DEF ScriptInv, Joined, StaysOn
    <3> QED BY Zenon, <3>2, <3>3
  <2> QED BY Zenon, <2>1, <2>2
<1> QED BY <1>1, <1>2, PTL DEF OnlineSpec

\* What a command goes on to report was really done by the radio, except for as
\* many of its first calls as commands have failed before it (rpc_exchange,
\* whose uids start again at 1 in every process).
THEOREM LinkIsRealHolds == OnlineSpec => []LinkIsReal
<1>1. NetInv /\ ScriptInv => LinkIsReal
  BY Zenon DEF NetInv
<1> QED BY <1>1, NetInvariant, PTL

\* A wait ends within its own time, the time its frame may take to write and one
\* exchange (command_wait, write_all, remaining_timeout_ms), whatever the timeouts,
\* the number of writes a frame takes and the events in between.
THEOREM WaitBoundedHolds == OnlineSpec => []WaitBounded
<1>1. NetInv /\ ScriptInv => WaitBounded
  <2> SUFFICES ASSUME NetInv PROVE WaitBounded
    OBVIOUS
  <2>1. Types /\ TimeInv /\ WaitTime \in Nat /\ RpcTimeout \in Nat /\ Pieces \in Nat
    BY Zenon, NetAssumption DEF NetInv
  <2>2. elapsed \in Nat /\ left \in Nat /\ todo \in Nat
    BY Zenon, <2>1 DEF Types
  <2>3. todo * RpcTimeout \in Nat /\ Pieces * RpcTimeout \in Nat
    BY <2>1, <2>2
  <2>4. Longest \in Nat /\ Longest >= WaitTime
    BY <2>1, <2>3 DEF Longest
  <2> QED BY <2>1, <2>2, <2>3, <2>4 DEF TimeInv, WaitBounded
<1> QED BY <1>1, NetInvariant, PTL

\* When micronux-online reports ready the interface is up and the radio has been
\* told to associate, for any number of commands by hand and attempts before,
\* unless five commands have failed since the device was last empty.
THEOREM ReadyIsUpHolds == OnlineSpec => []ReadyIsUp
<1>1. NetInv /\ ScriptInv => ReadyIsUp
  BY Zenon DEF ScriptInv, Joined, ReadyIsUp
<1> QED BY <1>1, NetInvariant, PTL

=============================================================================

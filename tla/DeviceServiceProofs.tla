-------------------------- MODULE DeviceServiceProofs ------------------------
(***************************************************************************)
(* What micronux-deviced promises its clients, for any number of clients,  *)
(* requests and slots and any interleaving of clients, devices, time, the  *)
(* daemon's loop, its end and its restart.                                 *)
(***************************************************************************)
EXTENDS DeviceService, TLAPS

Places == {"down", "poll", "accept", "scan", "storage", "present", "operstate", "process",
           "evaluate"}
Requests == {NoRequest} \cup UNION {Request[c] : c \in Client}
Statuses == {"none", "OK", "TIMEOUT", "VERSION", "DENIED", "INVALID"}
AllCaps  == {"observe", "control", "admin"}
Replies  == [status : Statuses, devices : SUBSET Flags, caps : SUBSET AllCaps]

Calls == [st : {"idle", "connected", "sent", "gone"}, req : Requests, unread : BOOLEAN,
          shut : BOOLEAN, reply : Replies, age : Nat, ever : SUBSET Flags]

SlotStates == [fd : Client \cup {NoClient}, state : {"FREE", "REQUEST", "WAIT"},
               caps : SUBSET AllCaps, req : Requests, mask : {r.mask : r \in Requests}, left : Nat]

Types ==
  /\ devices \in SUBSET Flags
  /\ backlog \in Seq(Client) /\ Len(backlog) <= ClientLimit
  /\ call \in [Client -> Calls]
  /\ slot \in [Slots -> SlotStates]
  /\ pc \in Places /\ idx \in 1..(ClientLimit + 1)
  /\ revents \in [0..ClientLimit -> SUBSET {"in", "hup"}]
  /\ polled \in [Slots -> Client \cup {NoClient}]
  /\ seen \in SUBSET Flags /\ reading \in {"waiters", "request"} /\ expired \in SUBSET Slots

\* The daemon looks at the devices for a request, or for the waiters.
Requesting == reading = "request"
Looking    == pc \in {"storage", "present", "operstate"}
Waiting    == pc = "evaluate" \/ (Looking /\ ~Requesting)

\* One call.
Truthful(c) ==
  LET reply == call[c].reply
      req   == call[c].req
  IN  /\ reply.status = "OK" =>
           /\ reply.devices \subseteq call[c].ever
           /\ req.op = "WAIT" => req.mask \subseteq reply.devices
      /\ reply.status = "TIMEOUT" => call[c].age >= req.timeout
      /\ reply.status # "none" =>
           /\ reply.caps = peer_capabilities(c)
           /\ req.abi = 1 =>
                (reply.status = "DENIED" <=> req.op = "ADMIN_PROBE" /\ c \notin Root)

CallShape(c) ==
  /\ call[c].st = "idle" => call[c] = Idle
  /\ call[c].unread => call[c].st \in {"sent", "gone"}
  /\ call[c].reply.status # "none" => call[c].st = "sent" /\ call[c].shut
  /\ call[c].st = "gone" => ~call[c].shut
  /\ Pending(c) => devices \subseteq call[c].ever
  /\ call[c].age <= Patience(call[c].req)
  /\ Truthful(c)

\* Which connections the daemon holds.
Live(c)     == call[c].st # "idle" /\ ~call[c].shut
InBacklog(c) == \E k \in 1..Len(backlog) : backlog[k] = c

HeldShape ==
  /\ \A i \in Slots : slot[i].state = "FREE" <=> slot[i].fd = NoClient
  /\ \A i \in Slots : slot[i].fd # NoClient => Live(slot[i].fd) /\ ~InBacklog(slot[i].fd)
  /\ \A i, j \in Slots : slot[i].fd = slot[j].fd /\ slot[i].fd # NoClient => i = j
  /\ \A k \in 1..Len(backlog) : Live(backlog[k])
  /\ \A k, m \in 1..Len(backlog) : backlog[k] = backlog[m] => k = m
  /\ \A c \in Client : Live(c) => InBacklog(c) \/ \E i \in Slots : slot[i].fd = c

\* One slot: a request that was taken up was sent, and a waiter's slot has what
\* the client asked for.
Taken(i) == slot[i].state = "WAIT" \/ (Requesting /\ i = idx)

Sent(i) ==
  /\ Taken(i) \/ "in" \in revents[i] => call[slot[i].fd].st \in {"sent", "gone"}
  /\ Taken(i) /\ pc # "storage" /\ call[slot[i].fd].st = "sent" => seen \subseteq call[slot[i].fd].ever

Asked(i) ==
  LET c == slot[i].fd IN
  /\ Requesting /\ i = idx => slot[i].req = call[c].req
  /\ slot[i].state = "WAIT" =>
       /\ call[c].req.op = "WAIT" /\ call[c].req.abi = 1 /\ slot[i].mask = call[c].req.mask
       /\ call[c].st = "sent" => call[c].age + slot[i].left >= call[c].req.timeout

\* Events and deadlines are those of the client in the slot, and each is used in
\* the round of the loop that found it.
Reported(i) ==
  /\ slot[i].state # "FREE" => slot[i].caps = peer_capabilities(slot[i].fd)
  /\ i \in expired => slot[i].state = "WAIT" /\ slot[i].left = 0 /\ Waiting
  /\ i \in expired /\ pc = "evaluate" => i >= idx
  /\ revents[i] # {} => slot[i].fd = polled[i] /\ slot[i].fd # NoClient /\ ~Waiting
  /\ revents[i] # {} /\ (pc = "scan" \/ Requesting) => i >= idx
  /\ Requesting /\ i = idx => revents[i] = {} /\ slot[i].state = "REQUEST"

SlotShape(i) == Sent(i) /\ Asked(i) /\ Reported(i)

\* Where the daemon is.
PlaceShape ==
  /\ revents[0] # {} => backlog # <<>> /\ pc = "accept"
  /\ Requesting => (Looking \/ pc = "process") /\ idx \in Slots
  /\ pc = "process" => Requesting
  /\ pc = "evaluate" => idx \in Slots
  /\ Waiting /\ Looking => idx = 1
  /\ pc \in {"poll", "accept", "scan", "down"} => seen = {}
  /\ pc \in {"poll", "down"} => \A i \in Slots : revents[i] = {}

DeviceInv ==
  /\ Types /\ HeldShape /\ PlaceShape
  /\ \A c \in Client : CallShape(c)
  /\ \A i \in Slots : SlotShape(i)
-----------------------------------------------------------------------------
(* The records the model is built from *)

\* Every request has a time-out.
LEMMA Timeouts == \A r \in Requests : r.timeout \in Nat /\ Patience(r) \in Nat /\ r.timeout <= Patience(r)
<1>1. NoRequest.timeout \in Nat
  BY Zenon DEF NoRequest
<1>2. \A r \in Requests : r.timeout \in Nat
  BY Zenon, <1>1, ServiceAssumption DEF Requests
<1> QED BY <1>2, ServiceAssumption DEF Patience

\* The initial records have their types.
LEMMA Blank ==
  /\ NoRequest \in Requests /\ NoReply \in Replies
  /\ Idle \in Calls /\ Idle.st = "idle" /\ ~Idle.unread /\ ~Idle.shut
  /\ Idle.reply = NoReply /\ Idle.age = 0 /\ Idle.ever = {} /\ Idle.req = NoRequest
  /\ FreeSlot \in SlotStates /\ FreeSlot.fd = NoClient /\ FreeSlot.state = "FREE"
  /\ FreeSlot.left = 0
<1>1. NoRequest \in Requests
  BY Zenon DEF Requests
<1>2. NoReply \in Replies /\ NoReply.status = "none"
  BY Zenon DEF NoReply, Replies, Statuses
<1>3. Idle \in Calls
  BY Zenon, <1>1, <1>2 DEF Idle, Calls
<1>4. NoRequest.mask = {}
  BY Zenon DEF NoRequest
<1>5. FreeSlot \in SlotStates
  BY Zenon, <1>1, <1>4 DEF FreeSlot, SlotStates
<1>6. ~Idle.unread /\ ~Idle.shut
  BY Zenon DEF Idle
<1>7. /\ Idle.st = "idle" /\ Idle.reply = NoReply /\ Idle.age = 0 /\ Idle.ever = {}
      /\ Idle.req = NoRequest
  BY Zenon DEF Idle
<1>8. FreeSlot.fd = NoClient /\ FreeSlot.state = "FREE" /\ FreeSlot.left = 0
  BY Zenon DEF FreeSlot
<1> QED BY Zenon, <1>1, <1>2, <1>3, <1>5, <1>6, <1>7, <1>8

\* A capability mask of a peer allows what its uid may do (peer_capabilities,
\* required_capability).
LEMMA AllowedCaps ==
  ASSUME NEW c \in Client, NEW r
  PROVE  /\ peer_capabilities(c) \in SUBSET AllCaps
         /\ Allowed(r, peer_capabilities(c)) <=> ~(r.op = "ADMIN_PROBE" /\ c \notin Root)
<1>1. peer_capabilities(c) \in SUBSET AllCaps
  BY Zenon DEF peer_capabilities, AllCaps
<1>2. CASE r.op = "ADMIN_PROBE"
  BY Zenon, <1>1, <1>2 DEF Allowed, Operations, required_capability, peer_capabilities
<1>3. CASE r.op # "ADMIN_PROBE"
  BY Zenon, <1>1, <1>3 DEF Allowed, Operations, required_capability, peer_capabilities
<1> QED BY Zenon, <1>1, <1>2, <1>3

\* What close does to the other end.
LEMMA ShutAt ==
  ASSUME NEW cs \in [Client -> Calls], NEW c \in Client
  PROVE  /\ Shut(cs, c) \in [Client -> Calls]
         /\ \A d \in Client \ {c} : Shut(cs, c)[d] = cs[d]
         /\ cs[c].st = "gone" => Shut(cs, c)[c] = Idle
         /\ cs[c].st # "gone" => Shut(cs, c)[c] = [cs[c] EXCEPT !.shut = TRUE]
BY Zenon, Blank DEF Shut, Calls

\* What send and close do to the other end.
Told(to, cs, c, reply) ==
  /\ to \in [Client -> Calls]
  /\ \A d \in Client \ {c} : to[d] = cs[d]
  /\ cs[c].st = "gone" => to[c] = Idle
  /\ cs[c].st # "gone" => /\ to[c].st = cs[c].st /\ to[c].req = cs[c].req /\ to[c].shut
                          /\ to[c].unread = cs[c].unread /\ to[c].reply = reply
                          /\ to[c].age = cs[c].age /\ to[c].ever = cs[c].ever

LEMMA ToldAt ==
  ASSUME NEW cs \in [Client -> Calls], NEW c \in Client, NEW reply \in Replies, NEW to,
         to = Shut([cs EXCEPT ![c].reply = reply], c)
  PROVE  Told(to, cs, c, reply)
<1>1. PICK x : x = [cs[c] EXCEPT !.reply = reply]
  OBVIOUS
<1>2. PICK told : told = [cs EXCEPT ![c] = x]
  BY Zenon
<1>3. PICK y : y = [x EXCEPT !.shut = TRUE]
  BY Zenon
<1>4. x \in Calls /\ x.st = cs[c].st
  BY Zenon, <1>1 DEF Calls
<1>5. told \in [Client -> Calls] /\ told[c] = x /\ \A d \in Client \ {c} : told[d] = cs[d]
  BY Zenon, <1>2, <1>4
<1>6. to = Shut(told, c)
  BY Zenon, <1>1, <1>2
<1>7. /\ Shut(told, c) \in [Client -> Calls] /\ \A d \in Client \ {c} : Shut(told, c)[d] = told[d]
      /\ told[c].st = "gone" => Shut(told, c)[c] = Idle
      /\ told[c].st # "gone" => Shut(told, c)[c] = [told[c] EXCEPT !.shut = TRUE]
  BY Zenon, <1>5, ShutAt
<1>8. /\ y.st = cs[c].st /\ y.req = cs[c].req /\ y.unread = cs[c].unread /\ y.shut
      /\ y.reply = reply /\ y.age = cs[c].age /\ y.ever = cs[c].ever
  BY Zenon, <1>1, <1>3 DEF Calls
<1>9. to[c] = IF cs[c].st = "gone" THEN Idle ELSE y
  BY Zenon, <1>3, <1>4, <1>5, <1>6, <1>7
<1> QED BY Zenon, <1>5, <1>6, <1>7, <1>8, <1>9 DEF Told
-----------------------------------------------------------------------------
(* What a step does not touch *)

\* A call that a step does not touch.
LEMMA CallFrame ==
  ASSUME NEW c \in Client, CallShape(c), call'[c] = call[c], devices' = devices
  PROVE  CallShape(c)'
BY Zenon DEF CallShape, Truthful, Pending

\* A call that is idle.
LEMMA CallIdle ==
  ASSUME NEW c \in Client, call'[c] = Idle
  PROVE  CallShape(c)'
BY Blank, Timeouts DEF CallShape, Truthful, Pending, NoReply

\* The daemon holds the connections it held.
LEMMA HeldFrame ==
  ASSUME Types, HeldShape, backlog' = backlog,
         \A i \in Slots : slot'[i].fd = slot[i].fd /\ (slot'[i].state = "FREE" <=> slot[i].state = "FREE"),
         \A c \in Client : Live(c)' <=> Live(c)
  PROVE  HeldShape'
<1>1. \A c : InBacklog(c)' <=> InBacklog(c)
  BY Zenon DEF InBacklog
<1>2. \A i \in Slots : slot[i].fd \in Client \cup {NoClient}
  BY Zenon DEF Types, SlotStates
<1>3. \A k \in 1..Len(backlog) : backlog[k] \in Client
  BY DEF Types
<1> QED BY <1>1, <1>2, <1>3 DEF HeldShape

\* A client moves on: it does not take back what it sent, and its age and what
\* it has seen only grow.
Moves(c) ==
  /\ call'[c].req = call[c].req
  /\ call[c].st \in {"sent", "gone"} => call'[c].st \in {"sent", "gone"}
  /\ call[c].st \in {"sent", "gone"} /\ call'[c].st = "sent" =>
       call[c].st = "sent" /\ call[c].ever \subseteq call'[c].ever /\ call[c].age <= call'[c].age

\* A slot that a step does not touch.
LEMMA AskedFrame ==
  ASSUME NEW i \in Slots, SlotShape(i), slot'[i] = slot[i],
         Taken(i)' => call'[slot[i].fd] = call[slot[i].fd],
         Requesting' /\ i = idx' => Requesting /\ i = idx
  PROVE  Asked(i)'
BY Zenon DEF SlotShape, Asked, Taken

LEMMA SlotFrame ==
  ASSUME NEW i \in Slots, SlotShape(i), slot'[i] = slot[i],
         slot[i].state = "WAIT" \/ revents'[i] # {} => call'[slot[i].fd] = call[slot[i].fd],
         ~(Requesting' /\ i = idx'), revents'[i] # {} => revents'[i] = revents[i],
         seen' = {} \/ pc' = "storage" \/ (seen' = seen /\ pc # "storage")
  PROVE  Sent(i)' /\ Asked(i)'
<1>1. Sent(i)'
  BY Zenon DEF SlotShape, Sent, Taken
<1>2. Asked(i)'
  BY Zenon, AskedFrame DEF Taken
<1> QED BY Zenon, <1>1, <1>2

\* A slot that is free.
LEMMA SlotFreed ==
  ASSUME NEW i \in Slots, slot'[i].state = "FREE", revents'[i] = {}, i \notin expired',
         ~(Requesting' /\ i = idx')
  PROVE  SlotShape(i)'
BY Zenon DEF SlotShape, Sent, Asked, Reported, Taken

\* A slot whose client moves on.
LEMMA SlotClient ==
  ASSUME Types, Types', HeldShape, NEW i \in Slots, SlotShape(i), UNCHANGED daemon,
         slot[i].fd # NoClient => Moves(slot[i].fd)
  PROVE  SlotShape(i)'
<1> USE DEF daemon, Taken, Requesting
<1>1. Reported(i)'
  BY Zenon DEF SlotShape, Reported, Waiting, Looking
<1>2. slot[i].fd = NoClient => ~Taken(i) /\ revents[i] = {}
  BY Zenon DEF SlotShape, Reported, HeldShape
<1>3. CASE slot[i].fd = NoClient
  BY Zenon, <1>1, <1>2, <1>3 DEF SlotShape, Sent, Asked
<1>4. CASE slot[i].fd # NoClient
  <2>1. PICK c : c = slot[i].fd
    OBVIOUS
  <2>2. /\ c \in Client /\ Moves(c) /\ slot[i].left \in Nat
        /\ call[c].age \in Nat /\ call'[c].age \in Nat /\ call[c].req.timeout \in Nat
    BY Zenon, <1>4, <2>1, Timeouts DEF Types, SlotStates, Calls
  <2>3. Sent(i)'
    BY Zenon, <2>1, <2>2 DEF SlotShape, Sent, Moves
  <2>4. ASSUME slot[i].state = "WAIT", call'[c].st = "sent"
        PROVE  call'[c].age + slot[i].left >= call[c].req.timeout
    <3>1. call[c].st = "sent" /\ call[c].age <= call'[c].age
      BY Zenon, <2>1, <2>2, <2>4 DEF SlotShape, Sent, Moves
    <3>2. call[c].age + slot[i].left >= call[c].req.timeout
      BY Zenon, <2>1, <2>4, <3>1 DEF SlotShape, Asked
    <3> QED BY <2>2, <3>1, <3>2
  <2>5. Asked(i)'
    BY Zenon, <2>1, <2>2, <2>4 DEF SlotShape, Asked, Moves
  <2> QED BY Zenon, <1>1, <2>3, <2>5 DEF SlotShape
<1> QED BY Zenon, <1>3, <1>4

\* A client whose connection the daemon still holds moves on, or one whose
\* connection it has closed starts again.
LEMMA ClientMoves ==
  ASSUME DeviceInv, NEW c \in Client, NEW x \in Calls, call' = [call EXCEPT ![c] = x],
         UNCHANGED <<devices, backlog, daemon>>,
         CallShape(c)', Live(c)' <=> Live(c), Live(c) => Moves(c)
  PROVE  DeviceInv'
<1>1. Types'
  BY Zenon DEF DeviceInv, Types, daemon
<1>2. PlaceShape'
  BY Zenon DEF DeviceInv, PlaceShape, Requesting, Looking, Waiting, daemon
<1>3. call \in [Client -> Calls] /\ call'[c] = x /\ \A d \in Client \ {c} : call'[d] = call[d]
  BY Zenon DEF DeviceInv, Types
<1>4. \A d \in Client : Live(d)' <=> Live(d)
  BY Zenon, <1>3 DEF Live
<1>5. HeldShape'
  BY Zenon, <1>4, HeldFrame DEF DeviceInv, daemon
<1>6. \A d \in Client : CallShape(d)'
  BY Zenon, <1>3, CallFrame DEF DeviceInv
<1>7. ASSUME NEW i \in Slots PROVE SlotShape(i)'
  <2>1. ASSUME slot[i].fd # NoClient PROVE Moves(slot[i].fd)
    <3> DEFINE d == slot[i].fd
    <3>1. d \in Client /\ Live(d)
      BY Zenon, <2>1 DEF DeviceInv, Types, SlotStates, HeldShape
    <3>2. CASE d = c
      BY Zenon, <3>1, <3>2
    <3>3. CASE d # c
      <4>1. call'[d] = call[d] /\ call[d].age \in Nat
        BY Zenon, <1>3, <3>1, <3>3 DEF Calls
      <4> QED BY <4>1 DEF Moves
    <3> QED BY Zenon, <3>2, <3>3
  <2> QED BY Zenon, <1>1, <2>1, SlotClient DEF DeviceInv
<1> QED BY Zenon, <1>1, <1>2, <1>5, <1>6, <1>7 DEF DeviceInv

\* The library sends its request, or finds that it was turned away.
LEMMA SendKeeps ==
  ASSUME DeviceInv, NEW c \in Client, Send(c)
  PROVE  DeviceInv'
<1> DEFINE new == [call[c] EXCEPT !.st = "sent", !.unread = TRUE, !.ever = devices]
<1>1. call \in [Client -> Calls] /\ call[c] \in Calls /\ devices \in SUBSET Flags /\ CallShape(c)
  BY Zenon DEF DeviceInv, Types
<1>2. CASE call[c].shut
  <2>1. call' = [call EXCEPT ![c] = Idle] /\ call'[c] = Idle
    BY Zenon, <1>1, <1>2 DEF Send
  <2>2. CallShape(c)'
    BY Zenon, <2>1, CallIdle
  <2>3. ~Live(c) /\ ~Live(c)'
    BY Zenon, <1>2, <2>1, Blank DEF Live
  <2> QED BY Zenon, <2>1, <2>2, <2>3, Blank, ClientMoves DEF Send
<1>3. CASE ~call[c].shut
  <2>1. call' = [call EXCEPT ![c] = new] /\ call'[c] = new
    BY Zenon, <1>1, <1>3 DEF Send
  <2>2. /\ new \in Calls /\ new.st = "sent" /\ new.ever = devices /\ new.shut = call[c].shut
        /\ new.reply = call[c].reply /\ new.req = call[c].req /\ new.age = call[c].age
    BY Zenon, <1>1 DEF Calls
  <2>3. call[c].st = "connected" /\ devices' = devices
    BY Zenon DEF Send
  <2> HIDE DEF new
  <2>4. call[c].reply.status = "none"
    BY Zenon, <1>1, <1>3 DEF CallShape
  <2>5. CallShape(c)'
    BY Zenon, <1>1, <1>3, <2>1, <2>2, <2>3, <2>4 DEF CallShape, Truthful, Pending
  <2>6. Live(c) /\ Live(c)'
    BY Zenon, <1>3, <2>1, <2>2, <2>3 DEF Live
  <2>7. Moves(c)
    BY Zenon, <2>1, <2>2, <2>3 DEF Moves
  <2> QED BY Zenon, <2>1, <2>2, <2>5, <2>6, <2>7, ClientMoves DEF Send
<1> QED BY Zenon, <1>2, <1>3

\* The library call returns.
LEMMA ReturnKeeps ==
  ASSUME DeviceInv, NEW c \in Client, Return(c)
  PROVE  DeviceInv'
<1>1. call' = [call EXCEPT ![c] = Idle] /\ call'[c] = Idle
  BY Zenon DEF DeviceInv, Types, Return
<1>2. ~Live(c) /\ ~Live(c)'
  BY Zenon, <1>1, Blank DEF Live, Return
<1> QED BY Zenon, <1>1, <1>2, CallIdle, Blank, ClientMoves DEF Return

\* A client that was killed or has lost patience.
LEMMA HangupKeeps ==
  ASSUME DeviceInv, NEW c \in Client, call[c].st \in {"connected", "sent"}, Hangup(c),
         UNCHANGED <<devices, backlog, daemon>>
  PROVE  DeviceInv'
<1> DEFINE new == [call[c] EXCEPT !.st = "gone", !.age = 0, !.ever = {}]
<1>1. call \in [Client -> Calls] /\ call[c] \in Calls /\ CallShape(c)
  BY Zenon DEF DeviceInv, Types
<1>2. CASE call[c].shut
  <2>1. call' = [call EXCEPT ![c] = Idle] /\ call'[c] = Idle
    BY Zenon, <1>1, <1>2 DEF Hangup
  <2>2. ~Live(c) /\ ~Live(c)'
    BY Zenon, <1>2, <2>1, Blank DEF Live
  <2> QED BY Zenon, <2>1, <2>2, Blank, CallIdle, ClientMoves
<1>3. CASE ~call[c].shut
  <2>1. call' = [call EXCEPT ![c] = new] /\ call'[c] = new
    BY Zenon, <1>1, <1>3 DEF Hangup
  <2>2. /\ new \in Calls /\ new.st = "gone" /\ new.ever = {} /\ new.shut = call[c].shut
        /\ new.reply = call[c].reply /\ new.req = call[c].req /\ new.age = 0
    BY Zenon, <1>1 DEF Calls
  <2> HIDE DEF new
  <2>3. call[c].reply.status = "none" /\ Patience(call[c].req) \in Nat
    BY Zenon, <1>1, <1>3, Timeouts DEF CallShape, Calls
  <2>4. CallShape(c)'
    BY <1>1, <1>3, <2>1, <2>2, <2>3 DEF CallShape, Truthful, Pending
  <2>5. Live(c) /\ Live(c)'
    BY Zenon, <1>3, <2>1, <2>2 DEF Live
  <2>6. Moves(c)
    BY Zenon, <2>1, <2>2 DEF Moves
  <2> QED BY Zenon, <2>1, <2>2, <2>4, <2>5, <2>6, ClientMoves
<1> QED BY Zenon, <1>2, <1>3

\* A library call connects: its connection waits in the backlog.
LEMMA ConnectKeeps ==
  ASSUME DeviceInv, NEW c \in Client, NEW r \in Request[c], Connect(c, r)
  PROVE  DeviceInv'
<1> DEFINE new == [Idle EXCEPT !.st = "connected", !.req = r]
<1>1. r \in Requests
  BY Zenon DEF Requests
<1>2. /\ new \in Calls /\ new.st = "connected" /\ new.req = r /\ new.reply = NoReply
      /\ new.age = 0 /\ ~new.unread /\ ~new.shut
  BY Zenon, <1>1, Blank DEF Idle, Calls
<1>3. /\ call[c] = Idle /\ call' = [call EXCEPT ![c] = new] /\ backlog' = Append(backlog, c)
      /\ Len(backlog) < ClientLimit
      /\ UNCHANGED <<devices, daemon>>
  BY Zenon DEF Connect
<1> HIDE DEF new
<1>4. call \in [Client -> Calls] /\ call'[c] = new /\ \A d \in Client \ {c} : call'[d] = call[d]
  BY Zenon, <1>3 DEF DeviceInv, Types
<1>5. /\ backlog \in Seq(Client) /\ backlog' \in Seq(Client) /\ Len(backlog') = Len(backlog) + 1
      /\ Len(backlog) \in Nat
      /\ backlog'[Len(backlog) + 1] = c
      /\ \A k \in 1..Len(backlog) : backlog'[k] = backlog[k]
  BY <1>3 DEF DeviceInv, Types
<1>6. Types'
  BY <1>2, <1>3, <1>5, ServiceAssumption DEF DeviceInv, Types, daemon
<1>7. PlaceShape'
  <2>1. backlog' # <<>>
    BY <1>5
  <2> QED BY Zenon, <1>3, <2>1 DEF DeviceInv, PlaceShape, Requesting, Looking, Waiting, daemon
<1>8. \A d \in Client : CallShape(d)'
  <2>1. CallShape(c)'
    BY <1>1, <1>2, <1>4, Timeouts DEF CallShape, Truthful, Pending, NoReply
  <2> QED BY Zenon, <1>3, <1>4, <2>1, CallFrame DEF DeviceInv
<1>9. /\ ~Live(c) /\ Live(c)' /\ \A d \in Client \ {c} : Live(d)' <=> Live(d)
      /\ \A i \in Slots : slot[i].fd # c /\ slot'[i] = slot[i]
      /\ \A k \in 1..Len(backlog) : backlog[k] # c
  <2>1. ~Live(c)
    BY Zenon, <1>3, Blank DEF Live
  <2>2. Live(c)'
    BY Zenon, <1>2, <1>4 DEF Live
  <2>3. \A d \in Client \ {c} : Live(d)' <=> Live(d)
    BY Zenon, <1>4 DEF Live
  <2>4. NoClient # c
    BY Zenon, ServiceAssumption
  <2> QED BY Zenon, <1>3, <2>1, <2>2, <2>3, <2>4 DEF DeviceInv, HeldShape, daemon
<1>10. HeldShape'
  <2>1. \A d \in Client : InBacklog(d)' <=> (InBacklog(d) \/ d = c)
    BY <1>5 DEF InBacklog
  <2>2. \A i \in Slots : slot[i].fd \in Client \cup {NoClient}
    BY Zenon DEF DeviceInv, Types, SlotStates
  <2>3. \A k \in 1..Len(backlog) : backlog[k] \in Client
    BY <1>5
  <2>4. \A k \in 1..Len(backlog') : Live(backlog[k])'
    BY <1>5, <1>9, <2>3 DEF DeviceInv, HeldShape
  <2>5. \A k, m \in 1..Len(backlog') : backlog'[k] = backlog'[m] => k = m
    BY <1>5, <1>9 DEF DeviceInv, HeldShape
  <2>6. \A d \in Client : Live(d)' => InBacklog(d)' \/ \E i \in Slots : slot'[i].fd = d
    BY Zenon, <1>9, <2>1 DEF DeviceInv, HeldShape
  <2>7. \A i \in Slots : slot'[i].fd # NoClient => Live(slot[i].fd)' /\ ~InBacklog(slot[i].fd)'
    BY ZenonT(30), <1>9, <2>1, <2>2 DEF DeviceInv, HeldShape
  <2> QED BY <1>9, <2>4, <2>5, <2>6, <2>7 DEF DeviceInv, HeldShape
<1>11. ASSUME NEW i \in Slots PROVE SlotShape(i)'
  <2>1. ASSUME slot[i].fd # NoClient PROVE Moves(slot[i].fd)
    <3>1. slot[i].fd \in Client \ {c}
      BY Zenon, <1>9, <2>1 DEF DeviceInv, Types, SlotStates
    <3>2. call'[slot[i].fd] = call[slot[i].fd] /\ call[slot[i].fd].age \in Nat
      BY Zenon, <1>4, <3>1 DEF Calls
    <3> QED BY <3>2 DEF Moves
  <2> QED BY Zenon, <1>3, <1>6, <2>1, SlotClient DEF DeviceInv
<1> QED BY Zenon, <1>6, <1>7, <1>8, <1>10, <1>11 DEF DeviceInv

\* A device comes or goes.
LEMMA ChangeKeeps ==
  ASSUME DeviceInv, NEW f \in Changing, Change(f)
  PROVE  DeviceInv'
<1> DEFINE ext(c) == [call[c] EXCEPT !.ever = @ \cup devices']
<1>1. /\ devices' \in SUBSET Flags /\ UNCHANGED <<backlog, daemon>>
      /\ call' = [c \in Client |-> IF Pending(c) THEN ext(c) ELSE call[c]]
  BY Zenon, ChangingAssumption DEF Change, DeviceInv, Types
<1>2. ASSUME NEW c \in Client
      PROVE  /\ call[c] \in Calls /\ ext(c) \in Calls
             /\ ext(c).st = call[c].st /\ ext(c).req = call[c].req /\ ext(c).unread = call[c].unread
             /\ ext(c).shut = call[c].shut /\ ext(c).reply = call[c].reply /\ ext(c).age = call[c].age
             /\ ext(c).ever = call[c].ever \cup devices'
  BY ZenonT(30), <1>1, <1>2 DEF DeviceInv, Types, Calls
<1> HIDE DEF ext
<1>3. Types'
  BY Zenon, <1>1, <1>2 DEF DeviceInv, Types, daemon
<1>4. PlaceShape'
  BY Zenon, <1>1 DEF DeviceInv, PlaceShape, Requesting, Looking, Waiting, daemon
<1>5. ASSUME NEW c \in Client
      PROVE  CallShape(c)' /\ (Live(c)' <=> Live(c)) /\ Moves(c)
  <2>1. CallShape(c) /\ call[c].age \in Nat
    BY Zenon, <1>2 DEF DeviceInv, Calls
  <2>2. CASE Pending(c)
    <3>1. call'[c] = ext(c) /\ call[c].reply.status = "none" /\ call[c].st = "sent" /\ ~call[c].shut
      BY Zenon, <1>1, <2>1, <2>2 DEF Pending, CallShape
    <3>2. CallShape(c)'
      BY Zenon, <1>2, <2>1, <3>1 DEF CallShape, Truthful, Pending
    <3>3. (Live(c)' <=> Live(c)) /\ Moves(c)
      BY <1>2, <2>1, <3>1 DEF Live, Moves
    <3> QED BY Zenon, <3>2, <3>3
  <2>3. CASE ~Pending(c)
    <3>1. call'[c] = call[c]
      BY Zenon, <1>1, <2>3
    <3>2. CallShape(c)'
      BY Zenon, <2>1, <2>3, <3>1 DEF CallShape, Truthful, Pending
    <3>3. (Live(c)' <=> Live(c)) /\ Moves(c)
      BY <2>1, <3>1 DEF Live, Moves
    <3> QED BY Zenon, <3>2, <3>3
  <2> QED BY Zenon, <2>2, <2>3
<1>6. HeldShape'
  BY Zenon, <1>1, <1>5, HeldFrame DEF DeviceInv, daemon
<1>7. ASSUME NEW i \in Slots PROVE SlotShape(i)'
  <2>1. slot[i].fd # NoClient => Moves(slot[i].fd)
    BY Zenon, <1>5 DEF DeviceInv, Types, SlotStates
  <2> QED BY Zenon, <1>1, <1>3, <2>1, SlotClient DEF DeviceInv
<1> QED BY Zenon, <1>3, <1>4, <1>5, <1>6, <1>7 DEF DeviceInv

\* Time passes for clients and waiters alike.
LEMMA TickKeeps ==
  ASSUME DeviceInv, Tick
  PROVE  DeviceInv'
<1> DEFINE older(c) == [call[c] EXCEPT !.age = @ + 1]
           less(i)  == [slot[i] EXCEPT !.left = @ - 1]
<1>1. /\ UNCHANGED <<devices, backlog, pc, idx, revents, polled, seen, reading, expired>>
      /\ call' = [c \in Client |-> IF Pending(c) /\ call[c].age < Patience(call[c].req)
                                   THEN older(c) ELSE call[c]]
      /\ slot' = [i \in Slots |-> IF slot[i].left > 0 THEN less(i) ELSE slot[i]]
  BY Zenon DEF Tick
<1>2. ASSUME NEW c \in Client
      PROVE  /\ call[c] \in Calls /\ older(c) \in Calls /\ call[c].age \in Nat
             /\ older(c).st = call[c].st /\ older(c).req = call[c].req /\ older(c).unread = call[c].unread
             /\ older(c).shut = call[c].shut /\ older(c).reply = call[c].reply
             /\ older(c).age = call[c].age + 1 /\ older(c).ever = call[c].ever
  <2>1. call[c] \in Calls
    BY Zenon DEF DeviceInv, Types
  <2> QED BY <2>1 DEF Calls
<1>3. ASSUME NEW i \in Slots
      PROVE  /\ slot[i] \in SlotStates /\ slot[i].left \in Nat
             /\ less(i).fd = slot[i].fd /\ less(i).state = slot[i].state /\ less(i).caps = slot[i].caps
             /\ less(i).req = slot[i].req /\ less(i).mask = slot[i].mask
             /\ less(i).left = slot[i].left - 1
             /\ slot[i].left > 0 => less(i) \in SlotStates
  <2>1. slot[i] \in SlotStates
    BY Zenon DEF DeviceInv, Types
  <2> QED BY <2>1 DEF SlotStates
<1> HIDE DEF older, less
<1>4. call' \in [Client -> Calls] /\ slot' \in [Slots -> SlotStates]
  BY Zenon, <1>1, <1>2, <1>3
<1>5. Types'
  BY Zenon, <1>1, <1>4 DEF DeviceInv, Types
<1>6. PlaceShape'
  BY Zenon, <1>1 DEF DeviceInv, PlaceShape, Requesting, Looking, Waiting
<1>7. ASSUME NEW c \in Client
      PROVE  /\ CallShape(c)' /\ (Live(c)' <=> Live(c)) /\ Moves(c)
             /\ Pending(c) => \/ call'[c].age = call[c].age + 1
                              \/ call'[c].age = call[c].age /\ call[c].age >= call[c].req.timeout
  <2>1. CallShape(c) /\ call[c].req \in Requests /\ Patience(call[c].req) \in Nat
        /\ call[c].req.timeout \in Nat /\ call[c].req.timeout <= Patience(call[c].req)
    BY Zenon, <1>2, Timeouts DEF DeviceInv, Calls
  <2>2. CASE Pending(c) /\ call[c].age < Patience(call[c].req)
    <3>1. call'[c] = older(c) /\ call[c].reply.status = "none" /\ call[c].st = "sent" /\ ~call[c].shut
      BY Zenon, <1>1, <2>1, <2>2 DEF Pending, CallShape
    <3>2. CallShape(c)'
      BY <1>1, <1>2, <2>1, <2>2, <3>1 DEF CallShape, Truthful, Pending
    <3>3. (Live(c)' <=> Live(c)) /\ Moves(c)
      BY <1>2, <2>1, <3>1 DEF Live, Moves
    <3> QED BY Zenon, <1>2, <3>1, <3>2, <3>3
  <2>3. CASE ~(Pending(c) /\ call[c].age < Patience(call[c].req))
    <3>1. call'[c] = call[c]
      BY Zenon, <1>1, <2>3
    <3>2. CallShape(c)'
      BY Zenon, <1>1, <2>1, <3>1, CallFrame
    <3>3. (Live(c)' <=> Live(c)) /\ Moves(c)
      BY <1>2, <3>1 DEF Live, Moves
    <3> QED BY <1>2, <2>1, <2>3, <3>1, <3>2, <3>3
  <2> QED BY Zenon, <2>2, <2>3
<1>8. HeldShape'
  <2>1. \A i \in Slots : slot'[i].fd = slot[i].fd /\ slot'[i].state = slot[i].state
    BY Zenon, <1>1, <1>3
  <2> QED BY Zenon, <1>1, <1>7, <2>1, HeldFrame DEF DeviceInv
<1>9. ASSUME NEW i \in Slots PROVE SlotShape(i)'
  <2>1. PICK c : c = slot[i].fd
    OBVIOUS
  <2>2. /\ slot'[i].fd = c /\ slot'[i].state = slot[i].state /\ slot'[i].caps = slot[i].caps
        /\ slot'[i].req = slot[i].req /\ slot'[i].mask = slot[i].mask
        /\ slot[i].left = 0 => slot'[i].left = 0
        /\ slot[i].left > 0 => slot'[i].left = slot[i].left - 1
        /\ slot[i].left \in Nat
    BY <1>1, <1>3, <2>1
  <2>3. SlotShape(i) /\ (c # NoClient => c \in Client /\ Live(c) /\ Moves(c))
    BY Zenon, <1>3, <1>7, <2>1 DEF DeviceInv, HeldShape, SlotStates
  <2>4. c = NoClient => ~Taken(i) /\ revents[i] = {}
    BY Zenon, <2>1, <2>3 DEF DeviceInv, HeldShape, SlotShape, Reported, Taken
  <2>5. (Taken(i)' <=> Taken(i)) /\ (Requesting' <=> Requesting) /\ UNCHANGED <<idx, revents, polled, pc, seen, expired>>
    BY Zenon, <1>1, <2>2 DEF Taken, Requesting
  <2>6. Reported(i)'
    BY Zenon, <2>1, <2>2, <2>3, <2>5 DEF SlotShape, Reported, Waiting, Looking
  <2>7. Sent(i)'
    BY Zenon, <2>1, <2>2, <2>3, <2>4, <2>5 DEF SlotShape, Sent, Moves
  <2>8. Asked(i)'
    <3>1. ASSUME Taken(i) PROVE call'[c].req = call[c].req
      BY Zenon, <2>3, <2>4, <3>1 DEF Moves
    <3>2. ASSUME slot[i].state = "WAIT", call'[c].st = "sent"
          PROVE  call'[c].age + slot'[i].left >= call[c].req.timeout
      <4>1. c \in Client /\ Live(c) /\ Moves(c) /\ Taken(i)
        BY Zenon, <2>3, <2>4, <3>2 DEF Taken
      <4>2. call[c].st = "sent"
        BY Zenon, <2>1, <2>3, <3>2, <4>1 DEF SlotShape, Sent, Moves
      <4>3. call[c].age + slot[i].left >= call[c].req.timeout
        BY Zenon, <2>1, <2>3, <3>2, <4>2 DEF SlotShape, Asked
      <4>4. Pending(c) /\ call[c].age \in Nat /\ call[c].req.timeout \in Nat
        BY Zenon, <1>2, <2>1, <4>1, <4>2, Timeouts DEF Pending, Live, DeviceInv, CallShape, Calls
      <4> QED BY <1>7, <2>2, <4>1, <4>3, <4>4
    <3> QED BY Zenon, <2>1, <2>2, <2>3, <2>5, <3>1, <3>2 DEF SlotShape, Asked, Taken
  <2> QED BY Zenon, <2>6, <2>7, <2>8 DEF SlotShape
<1> QED BY Zenon, <1>5, <1>6, <1>7, <1>8, <1>9 DEF DeviceInv
-----------------------------------------------------------------------------
(* poll, the looks at the devices and the clock *)

\* poll reports what is true of the clients in their slots.
LEMMA PollKeeps ==
  ASSUME DeviceInv, Poll
  PROVE  DeviceInv'
<1>1. /\ pc = "poll" /\ pc' = "accept" /\ UNCHANGED <<env, slot, idx, seen, reading, expired>>
      /\ polled' = [i \in Slots |-> slot[i].fd]
      /\ revents' = [i \in 0..ClientLimit |-> IF i = 0 THEN (IF backlog = <<>> THEN {} ELSE {"in"})
                                              ELSE Events(slot[i].fd)]
  BY Zenon DEF Poll
<1>2. ~Requesting /\ ~Waiting /\ seen = {}
  BY Zenon, <1>1 DEF DeviceInv, PlaceShape, Looking, Waiting
<1>3. /\ 0 \in 0..ClientLimit /\ \A i \in Slots : i \in 0..ClientLimit /\ i # 0
  BY ServiceAssumption DEF Slots
<1>4. \A c : Events(c) \in SUBSET {"in", "hup"} /\ Events(NoClient) = {}
  BY Zenon DEF Events
<1>5. Types'
  <2>1. revents' \in [0..ClientLimit -> SUBSET {"in", "hup"}]
    BY Zenon, <1>1, <1>4
  <2>2. polled' \in [Slots -> Client \cup {NoClient}]
    BY Zenon, <1>1 DEF DeviceInv, Types, SlotStates
  <2> QED BY Zenon, <1>1, <2>1, <2>2 DEF DeviceInv, Types, Places, env
<1>6. PlaceShape'
  BY Zenon, <1>1, <1>2, <1>3 DEF DeviceInv, PlaceShape, Requesting, Looking, Waiting, env
<1>7. HeldShape' /\ \A c \in Client : CallShape(c)'
  BY Zenon, <1>1, HeldFrame, CallFrame DEF DeviceInv, env, Live
<1>8. ASSUME NEW i \in Slots PROVE SlotShape(i)'
  <2>1. SlotShape(i) /\ revents'[i] = Events(slot[i].fd) /\ polled'[i] = slot[i].fd
    BY Zenon, <1>1, <1>3 DEF DeviceInv
  <2>2. Reported(i)'
    BY Zenon, <1>1, <1>2, <1>4, <2>1 DEF SlotShape, Reported, Waiting, Looking, Requesting
  <2>3. "in" \in revents'[i] => call[slot[i].fd].st \in {"sent", "gone"}
    <3>1. slot[i].fd # NoClient => slot[i].fd \in Client /\ CallShape(slot[i].fd)
      BY Zenon DEF DeviceInv, Types, SlotStates
    <3> QED BY Zenon, <2>1, <3>1 DEF Events, CallShape
  <2>4. Sent(i)'
    BY Zenon, <1>1, <1>2, <2>1, <2>3 DEF SlotShape, Sent, Taken, Requesting, env
  <2>5. Asked(i)'
    BY Zenon, <1>1, <1>2, <2>1, AskedFrame DEF Requesting, env
  <2> QED BY Zenon, <2>2, <2>4, <2>5 DEF SlotShape
<1> QED BY Zenon, <1>5, <1>6, <1>7, <1>8 DEF DeviceInv

\* A look at the devices, on behalf of a request or of the waiters.
LEMMA LookKeeps ==
  ASSUME DeviceInv, NEW at \in {"storage", "present", "operstate"}, NEW flag \in Flags,
         NEW then \in Places, Look(at, flag, then), UNCHANGED idx,
         at = "storage" <=> flag = "storage",
         at = "storage" => then = "present",
         at # "storage" => then \in {"operstate", AfterLook}
  PROVE  DeviceInv'
<1>1. /\ pc = at /\ pc' = then /\ UNCHANGED <<env, slot, revents, polled, reading, expired, idx>>
      /\ Looking
  BY Zenon DEF Look, Looking
<1>2. seen' \in SUBSET Flags /\ (seen' \subseteq devices \/ (at # "storage" /\ seen' \subseteq seen \cup devices))
  BY Zenon DEF Look, DeviceInv, Types
<1>3. /\ pc' \in {"present", "operstate"} \/ (pc' = "process" /\ Requesting) \/ (pc' = "evaluate" /\ ~Requesting)
      /\ Requesting' <=> Requesting
  BY Zenon, <1>1 DEF AfterLook, Requesting
<1>4. /\ Waiting' <=> Waiting
      /\ Waiting => idx = 1
      /\ Requesting => idx \in Slots
      /\ 1 \in Slots
  BY <1>1, <1>3, ServiceAssumption DEF DeviceInv, PlaceShape, Waiting, Looking, Slots, Requesting
<1>5. Types'
  BY Zenon, <1>1, <1>2 DEF DeviceInv, Types, env
<1>6. PlaceShape'
  BY Zenon, <1>1, <1>3, <1>4 DEF DeviceInv, PlaceShape, Waiting, Looking, Requesting, env
<1>7. HeldShape' /\ \A c \in Client : CallShape(c)'
  BY Zenon, <1>1, HeldFrame, CallFrame DEF DeviceInv, env, Live
<1>8. ASSUME NEW i \in Slots PROVE SlotShape(i)'
  <2> DEFINE c == slot[i].fd
  <2>1. SlotShape(i) /\ i >= 1
    BY DEF DeviceInv, Slots
  <2>2. Reported(i)'
    BY Zenon, <1>1, <1>3, <1>4, <2>1 DEF SlotShape, Reported, Requesting
  <2>3. Taken(i) => c # NoClient
    BY Zenon, <2>1 DEF DeviceInv, HeldShape, SlotShape, Reported, Taken
  <2>4. ASSUME Taken(i), call[c].st = "sent" PROVE seen' \subseteq call[c].ever
    <3>1. c \in Client /\ Live(c) /\ CallShape(c)
      BY Zenon, <2>3, <2>4 DEF DeviceInv, Types, SlotStates, HeldShape
    <3>2. devices \subseteq call[c].ever
      BY Zenon, <2>4, <3>1 DEF CallShape, Pending, Live
    <3>3. at # "storage" => seen \subseteq call[c].ever
      BY Zenon, <1>1, <2>1, <2>4 DEF SlotShape, Sent
    <3> QED BY Zenon, <1>2, <3>2, <3>3
  <2>5. Sent(i)'
    BY Zenon, <1>1, <1>3, <2>1, <2>4 DEF SlotShape, Sent, Taken, Requesting, env
  <2>6. Asked(i)'
    BY Zenon, <1>1, <2>1, AskedFrame DEF Requesting, env
  <2> QED BY Zenon, <2>2, <2>5, <2>6 DEF SlotShape
<1> QED BY Zenon, <1>5, <1>6, <1>7, <1>8 DEF DeviceInv

\* After the slot loop the clock is read and the waiters' turn begins.
LEMMA ReadClockKeeps ==
  ASSUME DeviceInv, ReadClock
  PROVE  DeviceInv'
<1>1. /\ pc = "scan" /\ pc' = "storage" /\ idx \notin Slots /\ idx' = 1
      /\ UNCHANGED <<env, slot, revents, polled, seen, reading>>
      /\ expired' = {i \in Slots : slot[i].state = "WAIT" /\ slot[i].left = 0}
  BY Zenon DEF ReadClock
<1>2. ~Requesting /\ ~Waiting /\ ~Requesting' /\ Waiting' /\ idx = ClientLimit + 1 /\ 1 \in Slots
  BY <1>1, ServiceAssumption DEF DeviceInv, Types, PlaceShape, Looking, Waiting, Slots, Requesting
<1>3. Types'
  BY <1>1, <1>2, ServiceAssumption DEF DeviceInv, Types, env, Places
<1>4. PlaceShape'
  BY Zenon, <1>1, <1>2 DEF DeviceInv, PlaceShape, Looking, env
<1>5. HeldShape' /\ \A c \in Client : CallShape(c)'
  BY Zenon, <1>1, HeldFrame, CallFrame DEF DeviceInv, env, Live
<1>6. ASSUME NEW i \in Slots PROVE SlotShape(i)'
  <2>1. SlotShape(i) /\ i < idx /\ i >= 1
    BY <1>2, ServiceAssumption DEF DeviceInv, Slots
  <2>2. revents[i] = {}
    BY <1>1, <2>1, <1>2, ServiceAssumption DEF SlotShape, Reported, Slots
  <2>3. Reported(i)'
    BY Zenon, <1>1, <1>2, <2>1, <2>2 DEF SlotShape, Reported
  <2>4. Sent(i)' /\ Asked(i)'
    BY Zenon, <1>1, <1>2, <2>1, SlotFrame DEF env
  <2> QED BY Zenon, <2>3, <2>4 DEF SlotShape
<1> QED BY Zenon, <1>3, <1>4, <1>5, <1>6 DEF DeviceInv
-----------------------------------------------------------------------------
(* send and close *)

\* What the daemon holds of connections and slots is as it should be.
Settled ==
  /\ call' \in [Client -> Calls] /\ slot' \in [Slots -> SlotStates]
  /\ HeldShape' /\ \A d \in Client : CallShape(d)'

\* A slot and the client in it are not touched.
Same(i) == slot'[i] = slot[i] /\ (slot[i].fd # NoClient => call'[slot[i].fd] = call[slot[i].fd])

\* The daemon's end of one connection is closed.
LetGo(c) ==
  /\ call' \in [Client -> Calls] /\ \A d \in Client \ {c} : call'[d] = call[d]
  /\ CallShape(c)' /\ ~Live(c)'

Frees(k) == slot' = [slot EXCEPT ![k] = FreeSlot] /\ UNCHANGED <<backlog, devices>>

\* A slot is freed and the client in it is no longer held; the others are not
\* touched.
Closes(k) == Settled /\ slot'[k] = FreeSlot /\ \A i \in Slots \ {k} : Same(i)

LEMMA Closed ==
  ASSUME DeviceInv, NEW k \in Slots, NEW c \in Client, c = slot[k].fd, LetGo(c), Frees(k)
  PROVE  Closes(k)
<1>1. /\ slot \in [Slots -> SlotStates] /\ slot' \in [Slots -> SlotStates] /\ slot'[k] = FreeSlot
      /\ \A i \in Slots \ {k} : slot'[i] = slot[i]
  BY Zenon, Blank DEF DeviceInv, Types, Frees
<1>2. c # NoClient /\ \A i \in Slots : slot[i].fd \in Client \cup {NoClient}
  BY Zenon, <1>1, ServiceAssumption DEF SlotStates
<1>3. \A i \in Slots \ {k} : slot[i].fd # c
  BY Zenon, <1>2 DEF DeviceInv, HeldShape
<1>4. \A d \in Client : CallShape(d)'
  BY Zenon, CallFrame DEF DeviceInv, LetGo, Frees
<1>5. ~Live(c)' /\ \A d \in Client \ {c} : Live(d)' <=> Live(d)
  BY Zenon DEF LetGo, Live
<1>6. HeldShape'
  <2>1. backlog' = backlog /\ \A d : InBacklog(d)' <=> InBacklog(d)
    BY Zenon DEF Frees, InBacklog
  <2>2. ~InBacklog(c)
    BY Zenon, <1>2 DEF DeviceInv, HeldShape
  <2>9. \A m \in 1..Len(backlog) : backlog[m] \in Client /\ backlog[m] # c
    BY <2>2 DEF DeviceInv, Types, InBacklog
  <2>3. \A i \in Slots : slot'[i].state = "FREE" <=> slot'[i].fd = NoClient
    BY <1>1, Blank DEF DeviceInv, HeldShape
  <2>4. \A i \in Slots : slot'[i].fd # NoClient => Live(slot[i].fd)' /\ ~InBacklog(slot[i].fd)'
    BY <1>1, <1>2, <1>3, <1>5, <2>1, Blank DEF DeviceInv, HeldShape
  <2>5. \A i, j \in Slots : slot'[i].fd = slot'[j].fd /\ slot'[i].fd # NoClient => i = j
    BY <1>1, Blank DEF DeviceInv, HeldShape
  <2>6. \A m \in 1..Len(backlog') : Live(backlog[m])'
    BY Zenon, <1>5, <2>1, <2>9 DEF DeviceInv, HeldShape
  <2>7. \A d \in Client : Live(d)' => InBacklog(d)' \/ \E i \in Slots : slot'[i].fd = d
    BY Zenon, <1>1, <1>5, <2>1 DEF DeviceInv, HeldShape
  <2>8. \A m, n \in 1..Len(backlog') : backlog'[m] = backlog'[n] => m = n
    BY Zenon, <2>1 DEF DeviceInv, HeldShape
  <2> QED BY Zenon, <2>3, <2>4, <2>5, <2>6, <2>7, <2>8 DEF HeldShape
<1>7. \A i \in Slots \ {k} : Same(i)
  BY Zenon, <1>1, <1>2, <1>3 DEF LetGo, Same
<1> QED BY Zenon, <1>1, <1>4, <1>6, <1>7 DEF Closes, Settled, LetGo

\* The daemon closes a connection without a reply.
LEMMA ShutCall ==
  ASSUME DeviceInv, NEW c \in Client, Live(c), call' = Shut(call, c), devices' = devices
  PROVE  LetGo(c)
<1>1. CallShape(c) /\ call \in [Client -> Calls] /\ call[c] \in Calls
  BY Zenon DEF DeviceInv, Types
<1>2. PICK new : new = [call[c] EXCEPT !.shut = TRUE]
  BY Zenon
<1>3. call' \in [Client -> Calls] /\ (\A d \in Client \ {c} : call'[d] = call[d])
      /\ (call[c].st = "gone" => call'[c] = Idle) /\ (call[c].st # "gone" => call'[c] = new)
  BY <1>1, <1>2, ShutAt
<1>4. ASSUME call[c].st = "gone" PROVE CallShape(c)' /\ ~Live(c)'
  BY Zenon, <1>3, <1>4, CallIdle, Blank DEF Live
<1>5. ASSUME call[c].st # "gone" PROVE CallShape(c)' /\ ~Live(c)'
  <2>1. /\ new.st = call[c].st /\ new.req = call[c].req /\ new.unread = call[c].unread /\ new.shut
        /\ new.reply = call[c].reply /\ new.age = call[c].age /\ new.ever = call[c].ever
    BY Zenon, <1>1, <1>2 DEF Calls
  <2>2. call[c].reply.status = "none" /\ call[c].st # "idle"
    BY Zenon, <1>1 DEF CallShape, Live
  <2> QED BY Zenon, <1>1, <1>3, <1>5, <2>1, <2>2 DEF CallShape, Truthful, Pending, Live
<1> QED BY Zenon, <1>3, <1>4, <1>5 DEF LetGo

\* close_client.
LEMMA CloseClientCloses ==
  ASSUME DeviceInv, NEW k \in Slots, NEW c \in Client, c = slot[k].fd, CloseClient(k),
         UNCHANGED <<backlog, devices>>
  PROVE  Closes(k)
<1>1. Live(c)
  BY Zenon, ServiceAssumption DEF DeviceInv, HeldShape
<1>2. call' = Shut(call, c) /\ slot' = [slot EXCEPT ![k] = FreeSlot]
  BY Zenon DEF CloseClient
<1>3. LetGo(c)
  BY Zenon, <1>1, <1>2, ShutCall
<1> QED BY Zenon, <1>2, <1>3, Closed DEF Frees

\* The status is the one that the request deserves.
Deserved(c, status) ==
  /\ status = "OK" => (call[c].req.op = "WAIT" => call[c].req.mask \subseteq seen)
  /\ status = "TIMEOUT" /\ call[c].st = "sent" => call[c].age >= call[c].req.timeout
  /\ call[c].req.abi = 1 =>
       (status = "DENIED" <=> call[c].req.op = "ADMIN_PROBE" /\ c \notin Root)

\* send, with a reply that is true.
LEMMA TruthfulReply ==
  ASSUME NEW c \in Client, NEW reply, Told(call', call, c, reply), CallShape(c),
         call[c].st \in {"sent", "gone"}, call[c].st = "sent" => seen \subseteq call[c].ever,
         Deserved(c, reply.status), reply.devices = seen, reply.caps = peer_capabilities(c)
  PROVE  CallShape(c)' /\ ~Live(c)'
<1>1. CASE call[c].st = "gone"
  BY Zenon, <1>1, CallIdle, Blank DEF Live, Told
<1>2. CASE call[c].st = "sent"
  <2>1. /\ call'[c].st = "sent" /\ call'[c].req = call[c].req /\ call'[c].shut
        /\ call'[c].reply = reply /\ call'[c].age = call[c].age /\ call'[c].ever = call[c].ever
    BY Zenon, <1>2 DEF Told
  <2>2. Truthful(c)'
    BY Zenon, <1>2, <2>1 DEF Truthful, Deserved
  <2> QED BY Zenon, <1>2, <2>1, <2>2 DEF CallShape, Pending, Live
<1> QED BY Zenon, <1>1, <1>2

\* send and close_client.
LEMMA RespondCloses ==
  ASSUME DeviceInv, NEW k \in Slots, Taken(k), pc \in {"process", "evaluate"},
         NEW status \in Statuses \ {"none"},
         Respond(k, status), UNCHANGED <<backlog, devices>>,
         NEW c \in Client, c = slot[k].fd, Deserved(c, status)
  PROVE  Closes(k)
<1>1. PICK reply : reply = [status |-> status, devices |-> seen, caps |-> slot[k].caps]
  BY Zenon
<1>2. /\ CallShape(c) /\ SlotShape(k) /\ call \in [Client -> Calls]
      /\ slot[k].caps \in SUBSET AllCaps /\ seen \in SUBSET Flags
  BY Zenon DEF DeviceInv, Types, SlotStates
<1>3. slot[k].caps = peer_capabilities(c)
  BY Zenon, <1>2 DEF SlotShape, Reported, Taken
<1>4. call[c].st \in {"sent", "gone"} /\ (call[c].st = "sent" => seen \subseteq call[c].ever)
  BY Zenon, <1>2 DEF SlotShape, Sent
<1>5. reply \in Replies /\ reply.status = status /\ reply.devices = seen /\ reply.caps = peer_capabilities(c)
  BY Zenon, <1>1, <1>2, <1>3 DEF Replies
<1>6. call' = Shut([call EXCEPT ![c].reply = reply], c) /\ slot' = [slot EXCEPT ![k] = FreeSlot]
  BY Zenon, <1>1 DEF Respond
<1>7. Told(call', call, c, reply)
  BY Zenon, <1>2, <1>5, <1>6, ToldAt
<1>8. CallShape(c)' /\ ~Live(c)'
  BY Zenon, <1>2, <1>4, <1>5, <1>7, TruthfulReply
<1>9. LetGo(c) /\ Frees(k)
  BY Zenon, <1>6, <1>7, <1>8 DEF Told, LetGo, Frees
<1> QED BY Zenon, <1>9, Closed
-----------------------------------------------------------------------------
(* The slot loop, a request, the waiters, the listening socket, the end of *)
(* the daemon and its restart *)

\* Where the daemon is while it goes through the slots.
LEMMA Scanning ==
  ASSUME DeviceInv, pc = "scan", idx \in Slots
  PROVE  /\ ~Requesting /\ ~Waiting /\ seen = {} /\ idx + 1 \in 1..(ClientLimit + 1)
         /\ idx \in 0..ClientLimit /\ idx # 0 /\ revents[0] = {} /\ expired = {}
<1>1. ~Requesting /\ ~Waiting /\ seen = {} /\ revents[0] = {}
  BY Zenon DEF DeviceInv, PlaceShape, Looking, Waiting
<1>2. expired = {}
  BY Zenon, <1>1 DEF DeviceInv, Types, SlotShape, Reported
<1> QED BY <1>1, <1>2, ServiceAssumption DEF Slots

\* A slot with a waiter or with an event has a client.
LEMMA Held ==
  ASSUME DeviceInv, NEW i \in Slots, slot[i].state = "WAIT" \/ revents[i] # {}
  PROVE  slot[i].fd # NoClient
BY Zenon DEF DeviceInv, HeldShape, SlotShape, Reported

\* A slot of which nothing was reported, or a waiter that did not hang up.
LEMMA ScanSkipKeeps ==
  ASSUME DeviceInv, Scan, ScanSkip(idx)
  PROVE  DeviceInv'
<1>1. /\ pc = "scan" /\ idx \in Slots /\ idx' = idx + 1
      /\ revents' = [revents EXCEPT ![idx] = {}] /\ polled' = [polled EXCEPT ![idx] = NoClient]
      /\ UNCHANGED <<devices, backlog, seen, expired, call, slot, pc, reading>>
  BY Zenon DEF Scan, ScanSkip
<1>2. /\ ~Requesting /\ ~Waiting /\ seen = {} /\ idx' \in 1..(ClientLimit + 1)
      /\ idx \in 0..ClientLimit /\ idx # 0 /\ revents[0] = {} /\ expired = {}
  BY Zenon, <1>1, Scanning
<1>3. /\ revents \in [0..ClientLimit -> SUBSET {"in", "hup"}] /\ revents'[idx] = {}
      /\ \A i \in Slots \ {idx} : revents'[i] = revents[i] /\ polled'[i] = polled[i]
      /\ revents'[0] = {} /\ 0 \in 0..ClientLimit
  BY <1>1, <1>2, ServiceAssumption DEF DeviceInv, Types, Slots
<1>4. Types'
  BY Zenon, <1>1, <1>2 DEF DeviceInv, Types
<1>5. PlaceShape'
  BY Zenon, <1>1, <1>2, <1>3 DEF PlaceShape, Requesting, Looking, Waiting
<1>6. HeldShape' /\ \A c \in Client : CallShape(c)'
  BY Zenon, <1>1, HeldFrame, CallFrame DEF DeviceInv, Live
<1>7. ASSUME NEW i \in Slots PROVE SlotShape(i)'
  <2>1. SlotShape(i) /\ ~Requesting' /\ ~Waiting' /\ i \in Int /\ idx \in Int
    BY <1>1, <1>2 DEF DeviceInv, Requesting, Waiting, Looking, Slots
  <2>2. revents'[i] # {} => revents[i] # {} /\ revents'[i] = revents[i] /\ polled'[i] = polled[i] /\ i # idx
    BY Zenon, <1>3
  <2>3. Reported(i)'
    BY <1>1, <1>2, <2>1, <2>2 DEF SlotShape, Reported
  <2>4. Sent(i)' /\ Asked(i)'
    BY Zenon, <1>1, <1>2, <2>1, <2>2, SlotFrame
  <2> QED BY Zenon, <2>3, <2>4 DEF SlotShape
<1> QED BY Zenon, <1>4, <1>5, <1>6, <1>7 DEF DeviceInv

\* A slot whose client hung up.
LEMMA ScanCloseKeeps ==
  ASSUME DeviceInv, Scan, ScanClose(idx)
  PROVE  DeviceInv'
<1>1. /\ pc = "scan" /\ idx \in Slots /\ idx' = idx + 1 /\ slot[idx].state # "FREE" /\ CloseClient(idx)
      /\ revents' = [revents EXCEPT ![idx] = {}] /\ polled' = [polled EXCEPT ![idx] = NoClient]
      /\ UNCHANGED <<devices, backlog, seen, expired, pc, reading>>
  BY Zenon DEF Scan, ScanClose
<1>2. /\ ~Requesting /\ ~Waiting /\ seen = {} /\ idx' \in 1..(ClientLimit + 1)
      /\ idx \in 0..ClientLimit /\ idx # 0 /\ revents[0] = {} /\ expired = {}
  BY Zenon, <1>1, Scanning
<1>3. /\ revents \in [0..ClientLimit -> SUBSET {"in", "hup"}] /\ revents'[idx] = {}
      /\ \A i \in Slots \ {idx} : revents'[i] = revents[i] /\ polled'[i] = polled[i]
      /\ revents'[0] = {} /\ 0 \in 0..ClientLimit
  BY <1>1, <1>2, ServiceAssumption DEF DeviceInv, Types, Slots
<1>4. slot[idx].fd \in Client
  BY Zenon, <1>1 DEF DeviceInv, Types, SlotStates, HeldShape
<1>5. Closes(idx)
  BY Zenon, <1>1, <1>4, CloseClientCloses
<1>6. Types'
  BY Zenon, <1>1, <1>2, <1>5 DEF DeviceInv, Types, Closes, Settled
<1>7. PlaceShape'
  BY Zenon, <1>1, <1>2, <1>3 DEF PlaceShape, Requesting, Looking, Waiting
<1>8. ~Requesting' /\ ~Waiting' /\ idx \in Int
  BY <1>1, <1>2 DEF Requesting, Waiting, Looking, Slots
<1>9. ASSUME NEW i \in Slots PROVE SlotShape(i)'
  <2>1. SlotShape(i) /\ i \in Int
    BY DEF DeviceInv, Slots
  <2>2. CASE i = idx
    BY Zenon, <1>1, <1>2, <1>3, <1>5, <1>8, <2>2, Blank, SlotFreed DEF Closes
  <2>3. CASE i # idx
    <3>1. slot'[i] = slot[i] /\ revents'[i] = revents[i] /\ polled'[i] = polled[i]
      BY Zenon, <1>3, <1>5, <2>3 DEF Closes, Same
    <3>2. Reported(i)'
      BY <1>1, <1>2, <1>8, <2>1, <2>3, <3>1 DEF SlotShape, Reported
    <3>3. slot[i].state = "WAIT" \/ revents[i] # {} => call'[slot[i].fd] = call[slot[i].fd]
      BY Zenon, <1>5, <2>1, <2>3, Held DEF Closes, Same
    <3>4. Sent(i)' /\ Asked(i)'
      BY Zenon, <1>1, <1>2, <1>8, <2>1, <3>1, <3>3, SlotFrame
    <3> QED BY Zenon, <3>2, <3>4 DEF SlotShape
  <2> QED BY Zenon, <2>2, <2>3
<1> QED BY Zenon, <1>5, <1>6, <1>7, <1>9 DEF DeviceInv, Closes, Settled

\* What recv takes from a client's side of the connection.
LEMMA CallHeard ==
  ASSUME NEW c \in Client, CallShape(c), call[c].st # "idle", ~call'[c].unread, devices' = devices,
         call'[c].st = call[c].st, call'[c].req = call[c].req, call'[c].shut = call[c].shut,
         call'[c].reply = call[c].reply, call'[c].age = call[c].age, call'[c].ever = call[c].ever
  PROVE  CallShape(c)' /\ (Live(c)' <=> Live(c))
BY Zenon DEF CallShape, Truthful, Pending, Live

\* receive_request: the request of the client in the slot, which had sent it.
LEMMA ScanReceiveKeeps ==
  ASSUME DeviceInv, Scan, ScanReceive(idx)
  PROVE  DeviceInv'
<1>1. /\ pc = "scan" /\ idx \in Slots /\ UNCHANGED idx /\ pc' = "storage" /\ reading' = "request"
      /\ slot[idx].state = "REQUEST" /\ revents[idx] = {"in"}
      /\ UNCHANGED <<devices, backlog, seen, expired>>
  BY Zenon DEF Scan, ScanReceive
<1>2. PICK c : c = slot[idx].fd
  OBVIOUS
<1>3. /\ slot' = [slot EXCEPT ![idx].req = call[c].req]
      /\ call' = [call EXCEPT ![c].unread = FALSE]
      /\ revents' = [revents EXCEPT ![idx] = {}] /\ polled' = [polled EXCEPT ![idx] = NoClient]
  BY Zenon, <1>2 DEF Scan, ScanReceive
<1>4. /\ ~Requesting /\ ~Waiting /\ seen = {} /\ idx \in 0..ClientLimit /\ idx # 0
      /\ revents[0] = {} /\ expired = {} /\ Requesting' /\ ~Waiting'
  BY Zenon, <1>1, Scanning DEF Requesting, Waiting
<1>5. /\ revents' \in [0..ClientLimit -> SUBSET {"in", "hup"}] /\ revents'[idx] = {} /\ revents'[0] = {}
      /\ polled' \in [Slots -> Client \cup {NoClient}]
      /\ \A i \in Slots \ {idx} : revents'[i] = revents[i] /\ polled'[i] = polled[i]
  BY <1>3, <1>4, ServiceAssumption DEF DeviceInv, Types, Slots
<1>6. /\ call \in [Client -> Calls] /\ slot \in [Slots -> SlotStates] /\ slot[idx] \in SlotStates /\ c \in Client
  BY Zenon, <1>1, <1>2, Held DEF DeviceInv, Types, SlotStates
<1>7. call[c] \in Calls /\ call[c].st \in {"sent", "gone"} /\ CallShape(c)
  BY Zenon, <1>1, <1>2, <1>6 DEF DeviceInv, SlotShape, Sent
<1>8. PICK heard : heard = [call[c] EXCEPT !.unread = FALSE]
  BY Zenon
<1>9. /\ heard \in Calls /\ heard.st = call[c].st /\ heard.req = call[c].req /\ ~heard.unread
      /\ heard.shut = call[c].shut /\ heard.reply = call[c].reply /\ heard.age = call[c].age
      /\ heard.ever = call[c].ever
  BY Zenon, <1>7, <1>8 DEF Calls
<1>10. /\ call' \in [Client -> Calls] /\ call'[c] = heard /\ \A d \in Client \ {c} : call'[d] = call[d]
  BY Zenon, <1>3, <1>6, <1>8, <1>9
<1>11. PICK taken : taken = [slot[idx] EXCEPT !.req = call[c].req]
  BY Zenon
<1>12. /\ taken \in SlotStates /\ taken.fd = c /\ taken.state = slot[idx].state /\ taken.caps = slot[idx].caps
       /\ taken.req = call[c].req
  BY Zenon, <1>2, <1>6, <1>7, <1>11 DEF SlotStates, Calls
<1>13. slot' \in [Slots -> SlotStates] /\ slot'[idx] = taken /\ \A i \in Slots \ {idx} : slot'[i] = slot[i]
  BY Zenon, <1>1, <1>3, <1>6, <1>11, <1>12
<1>14. Types'
  BY Zenon, <1>1, <1>5, <1>10, <1>13 DEF DeviceInv, Types, Places
<1>15. PlaceShape'
  BY Zenon, <1>1, <1>4, <1>5 DEF PlaceShape, Looking
<1>16. CallShape(c)' /\ (Live(c)' <=> Live(c))
  <2>1. /\ call'[c].st = call[c].st /\ call'[c].req = call[c].req /\ ~call'[c].unread
        /\ call'[c].shut = call[c].shut /\ call'[c].reply = call[c].reply
        /\ call'[c].age = call[c].age /\ call'[c].ever = call[c].ever
    BY <1>9, <1>10, Zenon
  <2>2. devices' = devices /\ call[c].st # "idle"
    BY Zenon, <1>1, <1>7
  <2> QED BY <1>6, <1>7, <2>1, <2>2, CallHeard, Zenon
<1>17. \A d \in Client : CallShape(d)' /\ (Live(d)' <=> Live(d))
  BY Zenon, <1>1, <1>10, <1>16, CallFrame DEF DeviceInv, Live
<1>18. HeldShape'
  <2>1. \A i \in Slots : slot'[i].fd = slot[i].fd /\ slot'[i].state = slot[i].state
    BY Zenon, <1>2, <1>12, <1>13
  <2> QED BY Zenon, <1>1, <1>17, <2>1, HeldFrame DEF DeviceInv
<1>19. SlotShape(idx)'
  <2>1. slot'[idx].caps = peer_capabilities(c)
    BY Zenon, <1>1, <1>2, <1>12, <1>13 DEF DeviceInv, SlotShape, Reported
  <2>2. Reported(idx)'
    BY Zenon, <1>1, <1>4, <1>5, <1>12, <1>13, <2>1 DEF Reported
  <2>3. Sent(idx)'
    BY Zenon, <1>1, <1>5, <1>7, <1>9, <1>10, <1>12, <1>13 DEF Sent
  <2>4. Asked(idx)'
    BY Zenon, <1>1, <1>9, <1>10, <1>12, <1>13 DEF Asked
  <2> QED BY Zenon, <2>2, <2>3, <2>4 DEF SlotShape
<1>20. ASSUME NEW i \in Slots \ {idx} PROVE SlotShape(i)'
  <2>1. /\ SlotShape(i) /\ i \in Int /\ idx \in Int /\ slot'[i] = slot[i] /\ revents'[i] = revents[i]
        /\ polled'[i] = polled[i] /\ i # idx'
    BY <1>1, <1>5, <1>13 DEF DeviceInv, Slots
  <2>2. Reported(i)'
    BY Zenon, <1>1, <1>4, <2>1 DEF SlotShape, Reported
  <2>3. slot[i].fd # c /\ slot[i].fd \in Client \cup {NoClient}
    BY <1>1, <1>2, <1>6, ServiceAssumption DEF DeviceInv, HeldShape, Types, SlotStates
  <2>4. slot[i].state = "WAIT" \/ revents[i] # {} => call'[slot[i].fd] = call[slot[i].fd]
    BY Zenon, <1>10, <2>3, Held
  <2>5. Sent(i)' /\ Asked(i)'
    BY Zenon, <1>1, <2>1, <2>4, SlotFrame
  <2> QED BY Zenon, <2>2, <2>5 DEF SlotShape
<1> QED BY Zenon, <1>1, <1>14, <1>15, <1>17, <1>18, <1>19, <1>20 DEF DeviceInv

\* A request is answered (Respond) or becomes a wait (StartWait), and the slot
\* loop goes on.
ProcessEnds ==
  /\ pc = "process" /\ pc' = "scan" /\ idx' = idx + 1 /\ seen' = {} /\ reading' = "waiters"
  /\ UNCHANGED <<devices, backlog, revents, polled, expired>>

LEMMA ProcessTail ==
  ASSUME DeviceInv, NEW k \in Slots, k = idx, ProcessEnds, Settled, \A i \in Slots \ {k} : Same(i),
         revents'[k] = {} /\ k \notin expired' /\ ~Requesting' => SlotShape(k)'
  PROVE  DeviceInv'
<1>1. /\ Requesting /\ ~Waiting /\ ~Requesting' /\ ~Waiting' /\ revents[0] = {}
      /\ idx' = k + 1 /\ idx' \in 1..(ClientLimit + 1) /\ k \in Int /\ pc' = "scan" /\ seen' = {}
      /\ UNCHANGED <<revents, polled, expired>>
  BY ServiceAssumption DEF DeviceInv, PlaceShape, ProcessEnds, Looking, Waiting, Requesting, Slots
<1>2. expired = {} /\ revents[k] = {}
  BY Zenon, <1>1 DEF DeviceInv, Types, SlotShape, Reported
<1>3. Types'
  BY Zenon, <1>1 DEF DeviceInv, Types, Places, ProcessEnds, Settled
<1>4. PlaceShape'
  BY Zenon, <1>1 DEF PlaceShape
<1>5. ASSUME NEW i \in Slots, i # k PROVE SlotShape(i)'
  <2>1. SlotShape(i) /\ i \in Int /\ slot'[i] = slot[i]
    BY <1>5 DEF DeviceInv, Slots, Same
  <2>2. Reported(i)'
    BY <1>1, <1>2, <1>5, <2>1 DEF SlotShape, Reported
  <2>3. slot[i].state = "WAIT" \/ revents[i] # {} => call'[slot[i].fd] = call[slot[i].fd]
    BY Zenon, <1>5, Held DEF Same
  <2>4. Sent(i)' /\ Asked(i)'
    BY Zenon, <1>1, <2>1, <2>3, SlotFrame
  <2> QED BY Zenon, <2>2, <2>4 DEF SlotShape
<1> QED BY Zenon, <1>1, <1>2, <1>3, <1>4, <1>5 DEF DeviceInv, Settled

\* process_request answers as the request and the peer's capabilities demand.
LEMMA ProcessRequestKeeps ==
  ASSUME DeviceInv, ProcessRequest
  PROVE  DeviceInv'
<1> DEFINE r == slot[idx].req
<1>1. /\ ProcessEnds
      /\ \/ r.abi # 1 /\ Respond(idx, "VERSION")
         \/ r.abi = 1 /\ ~Allowed(r, slot[idx].caps) /\ Respond(idx, "DENIED")
         \/ r.abi = 1 /\ Allowed(r, slot[idx].caps) /\ Invalid(r) /\ Respond(idx, "INVALID")
         \/ /\ r.abi = 1 /\ Allowed(r, slot[idx].caps)
            /\ (r.op = "WAIT" => r.mask \subseteq seen) /\ Respond(idx, "OK")
         \/ r.abi = 1 /\ Allowed(r, slot[idx].caps) /\ r.op = "WAIT" /\ StartWait(idx)
  BY Zenon DEF ProcessRequest, ProcessEnds
<1>2. Requesting /\ idx \in Slots /\ Taken(idx) /\ pc = "process" /\ UNCHANGED <<backlog, devices>>
  BY Zenon, <1>1 DEF DeviceInv, PlaceShape, Taken, ProcessEnds
<1>3. SlotShape(idx) /\ slot[idx].state = "REQUEST" /\ slot[idx] \in SlotStates
  BY Zenon, <1>2 DEF DeviceInv, Types, SlotShape, Reported
<1>4. slot[idx].fd \in Client
  BY Zenon, <1>2, <1>3 DEF DeviceInv, SlotStates, HeldShape
<1>5. PICK c \in Client, k \in Slots : k = idx /\ c = slot[k].fd
  BY Zenon, <1>2, <1>4
<1>6. r = call[c].req /\ slot[idx].caps = peer_capabilities(c) /\ call[c].st \in {"sent", "gone"}
  BY Zenon, <1>2, <1>3, <1>5 DEF SlotShape, Sent, Asked, Reported
<1>7. Allowed(r, slot[idx].caps) <=> ~(call[c].req.op = "ADMIN_PROBE" /\ c \notin Root)
  BY Zenon, <1>6, AllowedCaps
<1> HIDE DEF r
<1>8. ASSUME NEW status \in {"VERSION", "DENIED", "INVALID", "OK"}, Respond(k, status),
             status = "VERSION" <=> r.abi # 1,
             r.abi = 1 => (status = "DENIED" <=> ~Allowed(r, slot[k].caps)),
             status = "OK" => (r.op = "WAIT" => r.mask \subseteq seen)
      PROVE  DeviceInv'
  <2>1. Closes(k)
    <3>1. Deserved(c, status)
      BY Zenon, <1>5, <1>6, <1>7, <1>8 DEF Deserved
    <3>2. status \in Statuses \ {"none"}
      BY Zenon DEF Statuses
    <3> QED BY Zenon, <1>2, <1>5, <1>8, <3>1, <3>2, RespondCloses
  <2>2. revents'[k] = {} /\ k \notin expired' /\ ~Requesting' => SlotShape(k)'
    BY Zenon, <2>1, Blank, SlotFreed DEF Closes
  <2> QED BY Zenon, <1>1, <1>5, <2>1, <2>2, ProcessTail DEF Closes
<1>9. ASSUME r.abi = 1, r.op = "WAIT", StartWait(k)
      PROVE  DeviceInv'
  <2>1. PICK wait : wait = [slot[k] EXCEPT !.state = "WAIT", !.mask = slot[k].req.mask,
                                         !.left = slot[k].req.timeout, !.req = NoRequest]
    OBVIOUS
  <2>2. slot[k] \in SlotStates /\ slot[k].req \in Requests /\ slot[k].req.timeout \in Nat
    BY Zenon, <1>3, <1>5, Timeouts DEF SlotStates
  <2>3. /\ wait \in SlotStates /\ wait.fd = c /\ wait.state = "WAIT" /\ wait.caps = slot[k].caps
        /\ wait.mask = slot[k].req.mask /\ wait.left = slot[k].req.timeout
    BY Zenon, <1>5, <2>1, <2>2, Blank DEF SlotStates
  <2>4. /\ slot' \in [Slots -> SlotStates] /\ slot'[k] = wait /\ call' = call /\ call \in [Client -> Calls]
        /\ \A i \in Slots \ {k} : slot'[i] = slot[i]
    BY Zenon, <1>9, <2>1, <2>3 DEF DeviceInv, Types, StartWait
  <2>5. HeldShape' /\ \A d \in Client : CallShape(d)'
    <3>1. \A i \in Slots : slot'[i].fd = slot[i].fd /\ (slot'[i].state = "FREE" <=> slot[i].state = "FREE")
      BY Zenon, <1>3, <1>5, <2>3, <2>4
    <3> QED BY Zenon, <1>2, <2>4, <3>1, HeldFrame, CallFrame DEF DeviceInv, Live
  <2>6. /\ slot'[k].fd = c /\ slot'[k].state = "WAIT" /\ slot'[k].caps = peer_capabilities(c)
        /\ slot'[k].mask = call[c].req.mask /\ slot'[k].left = call[c].req.timeout
        /\ call[c].age \in Nat /\ call[c].req.timeout \in Nat
        /\ call[c].req.op = "WAIT" /\ call[c].req.abi = 1
    BY Zenon, <1>5, <1>6, <1>9, <2>2, <2>3, <2>4 DEF Calls, r
  <2>7. ASSUME revents'[k] = {}, k \notin expired', ~Requesting' PROVE SlotShape(k)'
    <3>1. Reported(k)'
      BY Zenon, <2>6, <2>7 DEF Reported
    <3>2. seen' = {}
      BY Zenon, <1>1 DEF ProcessEnds
    <3>3. Sent(k)'
      BY Zenon, <1>6, <2>4, <2>6, <2>7, <3>2 DEF Sent
    <3>4. Asked(k)'
      BY <2>4, <2>6, <2>7 DEF Asked
    <3> QED BY Zenon, <3>1, <3>3, <3>4 DEF SlotShape
  <2> QED BY Zenon, <1>1, <1>5, <2>4, <2>5, <2>7, ProcessTail DEF Settled, Same
<1> QED BY Zenon, <1>1, <1>5, <1>8, <1>9 DEF r

\* The waiter loop goes on, or ends and with it the round.
EvaluateEnds(k) ==
  /\ pc = "evaluate"
  /\ IF k = ClientLimit THEN pc' = "poll" /\ idx' = 1 /\ seen' = {}
     ELSE idx' = k + 1 /\ UNCHANGED <<pc, seen>>
  /\ expired' = expired \ {k}
  /\ UNCHANGED <<devices, backlog, revents, polled, reading>>

LEMMA EvaluateTail ==
  ASSUME DeviceInv, NEW k \in Slots, k = idx, EvaluateEnds(k), Settled,
         slot'[k] = FreeSlot \/ Same(k), \A i \in Slots \ {k} : Same(i)
  PROVE  DeviceInv'
<1>1. /\ ~Requesting /\ ~Requesting' /\ Waiting /\ k \in Int /\ k >= 1 /\ k <= ClientLimit
      /\ idx' \in 1..(ClientLimit + 1) /\ (pc' = "evaluate" => idx' \in Slots) /\ pc' \in {"poll", "evaluate"}
      /\ pc = "evaluate" /\ (seen' = {} \/ seen' = seen) /\ (pc' = "poll" => seen' = {})
      /\ (pc' = "poll" <=> k = ClientLimit) /\ (pc' = "evaluate" => idx' = k + 1)
      /\ expired' = expired \ {k} /\ UNCHANGED <<revents, polled>>
  BY ServiceAssumption DEF DeviceInv, PlaceShape, EvaluateEnds, Looking, Waiting, Requesting, Slots
<1>2. revents[0] = {} /\ \A i \in Slots : revents[i] = {}
  BY Zenon, <1>1 DEF DeviceInv, PlaceShape, SlotShape, Reported
<1>3. Types'
  <2>1. seen' \in SUBSET Flags /\ expired' \in SUBSET Slots
    BY Zenon, <1>1 DEF DeviceInv, Types
  <2> QED BY Zenon, <1>1, <2>1 DEF DeviceInv, Types, Places, EvaluateEnds, Settled
<1>4. PlaceShape'
  BY Zenon, <1>1, <1>2 DEF PlaceShape, Looking
<1>5. ASSUME NEW i \in Slots PROVE SlotShape(i)'
  <2>1. SlotShape(i) /\ revents'[i] = {}
    BY Zenon, <1>1, <1>2 DEF DeviceInv
  <2>2. i \in Int /\ i <= ClientLimit
    BY ServiceAssumption DEF Slots
  <2>3. i \in expired' => i # k /\ i \in expired /\ i >= k
    BY Zenon, <1>1, <2>1 DEF SlotShape, Reported
  <2>4. i \in expired' => pc' = "evaluate" /\ i >= idx'
    BY <1>1, <2>2, <2>3
  <2>5. CASE i = k /\ slot'[i] = FreeSlot
    <3>1. i \notin expired' /\ slot'[i].state = "FREE"
      BY Zenon, <2>3, <2>5, Blank
    <3> QED BY Zenon, <1>1, <2>1, <3>1, SlotFreed
  <2>6. CASE Same(i)
    <3>1. Reported(i)'
      BY Zenon, <1>1, <2>1, <2>3, <2>4, <2>6 DEF SlotShape, Reported, Waiting, Same
    <3>2. slot[i].state = "WAIT" => call'[slot[i].fd] = call[slot[i].fd]
      BY Zenon, <2>6, Held DEF Same
    <3>3. Sent(i)' /\ Asked(i)'
      BY Zenon, <1>1, <2>1, <2>6, <3>2, SlotFrame DEF Same
    <3> QED BY Zenon, <3>1, <3>3 DEF SlotShape
  <2> QED BY Zenon, <2>5, <2>6
<1> QED BY Zenon, <1>3, <1>4, <1>5 DEF DeviceInv, Settled

\* A waiter is answered when its devices are there or its time is over.
LEMMA EvaluateKeeps ==
  ASSUME DeviceInv, Evaluate
  PROVE  DeviceInv'
<1>1. pc = "evaluate" /\ idx \in Slots
  BY Zenon DEF Evaluate, DeviceInv, PlaceShape
<1>2. PICK k \in Slots : k = idx
  BY Zenon, <1>1
<1>3. EvaluateEnds(k) /\ UNCHANGED <<backlog, devices>>
  BY Zenon, <1>2 DEF Evaluate, EvaluateEnds
<1>4. ASSUME NEW status \in {"OK", "TIMEOUT"}, Respond(k, status), slot[k].state = "WAIT",
             status = "OK" => slot[k].mask \subseteq seen,
             status = "TIMEOUT" => k \in expired
      PROVE  DeviceInv'
  <2>1. SlotShape(k) /\ slot[k].fd \in Client /\ slot[k].left \in Nat /\ Taken(k)
    BY Zenon, <1>4 DEF DeviceInv, Types, SlotStates, HeldShape, Taken
  <2>2. PICK c \in Client : c = slot[k].fd
    BY Zenon, <2>1
  <2>3. /\ call[c].req.op = "WAIT" /\ call[c].req.abi = 1 /\ slot[k].mask = call[c].req.mask
        /\ call[c].st = "sent" => call[c].age + slot[k].left >= call[c].req.timeout
        /\ k \in expired => slot[k].left = 0
    BY Zenon, <1>4, <2>1, <2>2 DEF SlotShape, Asked, Reported
  <2>4. status = "TIMEOUT" /\ call[c].st = "sent" => call[c].age >= call[c].req.timeout
    <3>1. call[c].age \in Nat
      BY Zenon DEF DeviceInv, Types, Calls
    <3> QED BY <1>4, <2>3, <3>1
  <2>5. status \in Statuses \ {"none"} /\ status # "DENIED"
    BY Zenon DEF Statuses
  <2>6. Deserved(c, status)
    BY Zenon, <1>4, <2>2, <2>3, <2>4 DEF Deserved
  <2>7. Closes(k)
    BY Zenon, <1>1, <1>3, <1>4, <2>1, <2>2, <2>5, <2>6, RespondCloses
  <2> QED BY Zenon, <1>2, <1>3, <2>7, EvaluateTail DEF Closes
<1>5. ASSUME UNCHANGED <<call, slot>> PROVE DeviceInv'
  <2>1. HeldShape' /\ \A d \in Client : CallShape(d)'
    BY Zenon, <1>3, <1>5, HeldFrame, CallFrame DEF DeviceInv, Live
  <2>2. call' \in [Client -> Calls] /\ slot' \in [Slots -> SlotStates]
    BY Zenon, <1>5 DEF DeviceInv, Types
  <2> QED BY Zenon, <1>2, <1>3, <1>5, <2>1, <2>2, EvaluateTail DEF Settled, Same
<1> QED BY Zenon, <1>2, <1>4, <1>5 DEF Evaluate

\* The slot loop begins: what was reported of the listening socket is used up.
AcceptEnds ==
  /\ pc = "accept" /\ pc' = "scan" /\ idx' = 1 /\ revents' = [revents EXCEPT ![0] = {}]
  /\ UNCHANGED <<devices, polled, seen, reading, expired>>

\* A free slot gets a connection.
Fills(i) ==
  /\ slot[i].state = "FREE" /\ slot'[i].state = "REQUEST"
  /\ slot'[i].caps = peer_capabilities(slot'[i].fd)

LEMMA AcceptTail ==
  ASSUME DeviceInv, AcceptEnds, backlog' \in Seq(Client), Len(backlog') <= ClientLimit, Settled,
         \A i \in Slots : Fills(i) \/ Same(i)
  PROVE  DeviceInv'
<1>1. /\ ~Requesting /\ ~Waiting /\ ~Requesting' /\ ~Waiting' /\ seen = {} /\ pc' = "scan" /\ idx' = 1
      /\ UNCHANGED <<polled, seen, expired>>
  BY Zenon DEF DeviceInv, PlaceShape, Looking, Waiting, Requesting, AcceptEnds
<1>2. expired = {}
  BY Zenon, <1>1 DEF DeviceInv, Types, SlotShape, Reported
<1>3. /\ revents' \in [0..ClientLimit -> SUBSET {"in", "hup"}] /\ revents'[0] = {}
      /\ \A i \in Slots : revents'[i] = revents[i] /\ i \in Int /\ i >= 1
      /\ 1 \in 1..(ClientLimit + 1)
  BY ServiceAssumption DEF DeviceInv, Types, Slots, AcceptEnds
<1>4. Types'
  BY Zenon, <1>1, <1>3 DEF DeviceInv, Types, Places, AcceptEnds, Settled
<1>5. PlaceShape'
  BY Zenon, <1>1, <1>3 DEF PlaceShape
<1>6. ASSUME NEW i \in Slots PROVE SlotShape(i)'
  <2>1. SlotShape(i) /\ revents'[i] = revents[i] /\ i >= 1
    BY Zenon, <1>3 DEF DeviceInv
  <2>2. CASE Fills(i)
    <3>1. revents'[i] = {}
      BY Zenon, <2>1, <2>2, Held DEF DeviceInv, HeldShape, Fills
    <3> QED BY Zenon, <1>1, <1>2, <2>2, <3>1 DEF SlotShape, Sent, Asked, Reported, Taken, Fills
  <2>3. CASE Same(i)
    <3>1. Reported(i)'
      BY Zenon, <1>1, <1>2, <2>1, <2>3 DEF SlotShape, Reported, Same
    <3>2. slot[i].state = "WAIT" \/ revents[i] # {} => call'[slot[i].fd] = call[slot[i].fd]
      BY Zenon, <2>3, Held DEF Same
    <3>3. Sent(i)' /\ Asked(i)'
      BY Zenon, <1>1, <2>1, <2>3, <3>2, SlotFrame DEF Same
    <3> QED BY Zenon, <3>1, <3>3 DEF SlotShape
  <2> QED BY Zenon, <2>2, <2>3
<1> QED BY Zenon, <1>4, <1>5, <1>6 DEF DeviceInv, Settled

\* accept_client gives the connection a free slot, or closes it.
LEMMA AcceptKeeps ==
  ASSUME DeviceInv, Accept
  PROVE  DeviceInv'
<1> DEFINE free == {i \in Slots : slot[i].state = "FREE"}
<1>1. AcceptEnds /\ devices' = devices
  BY Zenon DEF Accept, AcceptEnds
<1>2. /\ backlog \in Seq(Client) /\ Len(backlog) <= ClientLimit /\ call \in [Client -> Calls]
      /\ slot \in [Slots -> SlotStates] /\ HeldShape /\ \A d \in Client : CallShape(d)
  BY Zenon DEF DeviceInv, Types
<1>3. CASE revents[0] = {}
  <2>1. UNCHANGED <<call, backlog, slot>>
    BY Zenon, <1>3 DEF Accept
  <2>2. HeldShape' /\ \A d \in Client : CallShape(d)'
    BY Zenon, <1>1, <1>2, <2>1, HeldFrame, CallFrame DEF DeviceInv, Live
  <2> QED BY Zenon, <1>1, <1>2, <2>1, <2>2, AcceptTail DEF Settled, Same
<1>4. CASE revents[0] # {}
  <2>1. backlog # <<>>
    BY Zenon, <1>4 DEF DeviceInv, PlaceShape
  <2>2. /\ backlog' = Tail(backlog)
        /\ \/ call' = Shut(call, Head(backlog)) /\ UNCHANGED slot
           \/ \E i \in free : /\ slot' = [slot EXCEPT ![i] =
                                   [FreeSlot EXCEPT !.fd = Head(backlog), !.state = "REQUEST",
                                                    !.caps = peer_capabilities(Head(backlog))]]
                              /\ UNCHANGED call
    BY Zenon, <1>4 DEF Accept
  <2>3. PICK c \in Client : c = Head(backlog)
    BY <1>2, <2>1
  <2>4. /\ Len(backlog) \in Nat /\ Len(backlog) >= 1 /\ backlog[1] = c
        /\ backlog' \in Seq(Client) /\ Len(backlog') = Len(backlog) - 1 /\ Len(backlog') <= ClientLimit
        /\ \A m \in 1..Len(backlog') : backlog'[m] = backlog[m + 1] /\ m + 1 \in 1..Len(backlog)
        /\ \A m \in 2..Len(backlog) : backlog'[m - 1] = backlog[m] /\ m - 1 \in 1..Len(backlog')
    BY SMTT(20), <1>2, <2>1, <2>2, <2>3, ServiceAssumption
  <2>5. /\ Live(c) /\ \A i \in Slots : slot[i].fd # c
        /\ \A m \in 1..Len(backlog') : backlog'[m] # c /\ backlog'[m] \in Client
        /\ \A d \in Client \ {c} : InBacklog(d)' <=> InBacklog(d)
        /\ ~InBacklog(c)'
    <3>1. InBacklog(c) /\ Live(c)
      BY <2>4 DEF DeviceInv, HeldShape, InBacklog
    <3>2. \A i \in Slots : slot[i].fd # c
      BY <1>2, <3>1, ServiceAssumption DEF HeldShape
    <3>3. \A m \in 1..Len(backlog') : backlog'[m] # c /\ backlog'[m] \in Client
      BY <1>2, <2>4 DEF HeldShape
    <3>4. \A d \in Client \ {c} : InBacklog(d)' <=> InBacklog(d)
      <4>1. ASSUME NEW d \in Client, InBacklog(d)' PROVE InBacklog(d)
        <5>1. PICK m \in 1..Len(backlog') : backlog'[m] = d
          BY Zenon, <4>1 DEF InBacklog
        <5> QED BY Zenon, <2>4, <5>1 DEF InBacklog
      <4>2. ASSUME NEW d \in Client \ {c}, InBacklog(d) PROVE InBacklog(d)'
        <5>1. PICK m \in 1..Len(backlog) : backlog[m] = d
          BY Zenon, <4>2 DEF InBacklog
        <5>2. m \in 2..Len(backlog)
          BY <2>4, <5>1
        <5> QED BY Zenon, <2>4, <5>1, <5>2 DEF InBacklog
      <4> QED BY Zenon, <4>1, <4>2
    <3>5. ~InBacklog(c)'
      BY Zenon, <3>3 DEF InBacklog
    <3> QED BY Zenon, <3>1, <3>2, <3>3, <3>4, <3>5
  <2>6. \A m, n \in 1..Len(backlog') : backlog'[m] = backlog'[n] => m = n
    BY <1>2, <2>4 DEF HeldShape
  <2>7. \A i \in Slots : slot[i].fd \in Client \cup {NoClient}
    BY Zenon, <1>2 DEF SlotStates
  <2>8. CASE call' = Shut(call, c) /\ UNCHANGED slot
    <3>1. /\ call' \in [Client -> Calls] /\ \A d \in Client \ {c} : call'[d] = call[d]
          /\ CallShape(c)' /\ ~Live(c)'
      BY Zenon, <1>1, <2>5, <2>8, ShutCall DEF LetGo
    <3>2. \A d \in Client : CallShape(d)'
      BY Zenon, <1>1, <1>2, <3>1, CallFrame
    <3>3. \A d \in Client \ {c} : Live(d)' <=> Live(d)
      BY Zenon, <3>1 DEF Live
    <3>4. HeldShape'
      <4>1. \A i \in Slots : slot'[i].fd # NoClient => Live(slot[i].fd)' /\ ~InBacklog(slot[i].fd)'
        BY Zenon, <1>2, <2>5, <2>7, <2>8, <3>3 DEF HeldShape
      <4>2. \A m \in 1..Len(backlog') : Live(backlog[m])'
        BY <1>2, <2>4, <2>5, <3>3 DEF HeldShape
      <4>3. \A d \in Client : Live(d)' => InBacklog(d)' \/ \E i \in Slots : slot'[i].fd = d
        BY Zenon, <1>2, <2>5, <2>8, <3>1, <3>3 DEF HeldShape
      <4> QED BY Zenon, <1>2, <2>6, <2>8, <4>1, <4>2, <4>3 DEF HeldShape
    <3>5. \A i \in Slots : Same(i)
      BY Zenon, <2>5, <2>7, <2>8, <3>1 DEF Same
    <3> QED BY Zenon, <1>1, <1>2, <2>4, <2>8, <3>1, <3>2, <3>4, <3>5, AcceptTail DEF Settled
  <2>9. ASSUME NEW k \in free, UNCHANGED call,
               slot' = [slot EXCEPT ![k] = [FreeSlot EXCEPT !.fd = c, !.state = "REQUEST",
                                                            !.caps = peer_capabilities(c)]]
        PROVE  DeviceInv'
    <3> DEFINE new == [FreeSlot EXCEPT !.fd = c, !.state = "REQUEST", !.caps = peer_capabilities(c)]
    <3>1. new \in SlotStates /\ new.fd = c /\ new.state = "REQUEST" /\ new.caps = peer_capabilities(c)
      BY Zenon, AllowedCaps, Blank DEF FreeSlot, SlotStates
    <3>2. k \in Slots /\ slot[k].state = "FREE" /\ slot' = [slot EXCEPT ![k] = new]
      BY Zenon, <2>9
    <3> HIDE DEF new
    <3>3. slot' \in [Slots -> SlotStates] /\ slot'[k] = new /\ \A i \in Slots \ {k} : slot'[i] = slot[i]
      BY Zenon, <1>2, <3>1, <3>2
    <3>4. (\A d \in Client : Live(d)' <=> Live(d)) /\ \A d \in Client : CallShape(d)'
      BY Zenon, <1>1, <1>2, <2>9, CallFrame DEF Live
    <3>5. slot[k].fd = NoClient /\ c # NoClient
      BY Zenon, <1>2, <3>2, ServiceAssumption DEF HeldShape
    <3>6. HeldShape'
      <4>1. \A i \in Slots : slot'[i].state = "FREE" <=> slot'[i].fd = NoClient
        BY SMTT(20), <1>2, <3>1, <3>3, <3>5 DEF HeldShape
      <4>2. \A i \in Slots : slot'[i].fd # NoClient => Live(slot[i].fd)' /\ ~InBacklog(slot[i].fd)'
        BY SMTT(20), <1>2, <2>5, <2>7, <3>1, <3>3, <3>4 DEF HeldShape
      <4>3. \A i, j \in Slots : slot'[i].fd = slot'[j].fd /\ slot'[i].fd # NoClient => i = j
        BY <1>2, <2>5, <3>1, <3>3 DEF HeldShape
      <4>4. \A m \in 1..Len(backlog') : Live(backlog[m])'
        BY ZenonT(30), <1>2, <2>4, <2>5, <3>4 DEF HeldShape
      <4>5. ASSUME NEW d \in Client, Live(d)' PROVE InBacklog(d)' \/ \E i \in Slots : slot'[i].fd = d
        <5>1. CASE d = c
          BY Zenon, <3>1, <3>2, <3>3, <5>1
        <5>2. CASE d # c /\ InBacklog(d)
          BY Zenon, <2>5, <5>2
        <5>3. CASE d # c /\ Live(d) /\ ~InBacklog(d)
          <6>1. PICK i \in Slots : slot[i].fd = d
            BY Zenon, <1>2, <5>3 DEF HeldShape
          <6>2. d # NoClient
            BY Zenon, ServiceAssumption
          <6> QED BY Zenon, <3>3, <3>5, <6>1, <6>2
        <5> QED BY Zenon, <3>4, <4>5, <5>1, <5>2, <5>3
      <4> QED BY Zenon, <2>6, <4>1, <4>2, <4>3, <4>4, <4>5 DEF HeldShape
    <3>7. ASSUME NEW i \in Slots
          PROVE  Fills(i) \/ Same(i)
      BY Zenon, <2>9, <3>1, <3>2, <3>3 DEF Fills, Same
    <3> QED BY Zenon, <1>1, <1>2, <2>4, <2>9, <3>3, <3>4, <3>6, <3>7, AcceptTail DEF Settled
  <2> QED BY Zenon, <2>2, <2>3, <2>8, <2>9
<1> QED BY Zenon, <1>3, <1>4

\* The end of the daemon closes every connection.
LEMMA ExitKeeps ==
  ASSUME DeviceInv, Exit
  PROVE  DeviceInv'
<1>1. /\ pc' = "down" /\ backlog' = <<>> /\ slot' = [i \in Slots |-> FreeSlot]
      /\ idx' = 1 /\ seen' = {} /\ reading' = "waiters" /\ expired' = {}
      /\ revents' = [i \in 0..ClientLimit |-> {}] /\ polled' = [i \in Slots |-> NoClient]
      /\ devices' = devices
  BY Zenon DEF Exit
<1>2. ASSUME NEW c \in Client
      PROVE  call'[c] \in Calls /\ CallShape(c)' /\ ~Live(c)'
  <2> DEFINE new == [call[c] EXCEPT !.shut = TRUE]
  <2>1. CallShape(c) /\ call[c] \in Calls /\ call[c].st \in {"idle", "connected", "sent", "gone"}
    BY Zenon DEF DeviceInv, Types, Calls
  <2>2. CASE call[c].st = "gone"
    <3>1. call'[c] = Idle
      BY Zenon, <2>2 DEF Exit
    <3> QED BY Zenon, <3>1, CallIdle, Blank DEF Live
  <2>3. CASE call[c].st = "idle"
    <3>1. call'[c] = Idle
      BY Zenon, <2>1, <2>3 DEF Exit, CallShape
    <3> QED BY Zenon, <3>1, CallIdle, Blank DEF Live
  <2>4. CASE call[c].st \in {"connected", "sent"}
    <3>1. call'[c] = new
      BY Zenon, <2>4 DEF Exit
    <3>2. /\ new \in Calls /\ new.st = call[c].st /\ new.req = call[c].req /\ new.shut
          /\ new.unread = call[c].unread /\ new.reply = call[c].reply /\ new.age = call[c].age
          /\ new.ever = call[c].ever
      BY Zenon, <2>1 DEF Calls
    <3> HIDE DEF new
    <3> QED BY Zenon, <1>1, <2>1, <2>4, <3>1, <3>2 DEF CallShape, Truthful, Pending, Live
  <2> QED BY Zenon, <2>1, <2>2, <2>3, <2>4
<1>3. call' \in [Client -> Calls]
  BY Zenon, <1>2 DEF Exit
<1>4. Types'
  <2>1. slot' \in [Slots -> SlotStates]
    BY Zenon, <1>1, Blank
  <2>2. backlog' \in Seq(Client) /\ Len(backlog') <= ClientLimit /\ 1 \in 1..(ClientLimit + 1)
    BY <1>1, ServiceAssumption
  <2> QED BY Zenon, <1>1, <1>3, <2>1, <2>2 DEF DeviceInv, Types, Places
<1>5. 0 \in 0..ClientLimit /\ (\A i \in Slots : i \in 0..ClientLimit) /\ Len(backlog') = 0
  BY <1>1, ServiceAssumption DEF Slots
<1>6. \A i \in 0..ClientLimit : revents'[i] = {}
  BY Zenon, <1>1
<1>7. PlaceShape'
  BY Zenon, <1>1, <1>5, <1>6 DEF PlaceShape, Requesting, Looking, Waiting
<1>8. HeldShape'
  BY <1>1, <1>2, <1>5, Blank DEF HeldShape
<1>9. ASSUME NEW i \in Slots PROVE SlotShape(i)'
  BY Zenon, <1>1, <1>5, <1>6, Blank DEF SlotShape, Sent, Asked, Reported, Taken, Requesting
<1> QED BY Zenon, <1>2, <1>4, <1>7, <1>8, <1>9 DEF DeviceInv

\* The supervisor starts the daemon again, or nothing happens.
LEMMA StartKeeps ==
  ASSUME DeviceInv, Start \/ UNCHANGED vars
  PROVE  DeviceInv'
<1>1. /\ UNCHANGED <<env, slot, idx, revents, polled, seen, reading, expired>>
      /\ pc' = pc \/ (pc = "down" /\ pc' = "poll")
  BY Zenon DEF Start, vars, daemon
<1>2. Types'
  BY Zenon, <1>1 DEF DeviceInv, Types, env, Places
<1>3. (Requesting' <=> Requesting) /\ (Looking' <=> Looking) /\ (Waiting' <=> Waiting)
  BY Zenon, <1>1 DEF Requesting, Looking, Waiting
<1>4. PlaceShape'
  BY Zenon, <1>1, <1>3 DEF DeviceInv, PlaceShape, env
<1>5. HeldShape' /\ \A c \in Client : CallShape(c)'
  BY Zenon, <1>1, HeldFrame, CallFrame DEF DeviceInv, env, Live
<1>6. ASSUME NEW i \in Slots PROVE SlotShape(i)'
  <2>1. SlotShape(i)
    BY Zenon DEF DeviceInv
  <2>2. Reported(i)'
    BY Zenon, <1>1, <1>3, <2>1 DEF SlotShape, Reported
  <2>3. Sent(i)'
    BY Zenon, <1>1, <1>3, <2>1 DEF SlotShape, Sent, Taken, env
  <2>4. Asked(i)'
    BY Zenon, <1>1, <1>3, <2>1, AskedFrame DEF env
  <2> QED BY Zenon, <2>2, <2>3, <2>4 DEF SlotShape
<1> QED BY Zenon, <1>2, <1>4, <1>5, <1>6 DEF DeviceInv

\* Before the first connection.
LEMMA InitDeviceInv == Init => DeviceInv
<1> SUFFICES ASSUME Init PROVE DeviceInv
  OBVIOUS
<1>1. call \in [Client -> Calls] /\ slot \in [Slots -> SlotStates] /\ \A c \in Client : call[c] = Idle
  BY Zenon, Blank DEF Init
<1>2. Types
  <2>1. backlog \in Seq(Client) /\ Len(backlog) <= ClientLimit /\ 1 \in 1..(ClientLimit + 1)
    BY ServiceAssumption DEF Init
  <2> QED BY Zenon, <1>1, <2>1 DEF Init, Types, Places
<1>3. 0 \in 0..ClientLimit /\ (\A i \in Slots : i \in 0..ClientLimit) /\ Len(backlog) = 0
  BY ServiceAssumption DEF Slots, Init
<1>4. \A i \in 0..ClientLimit : revents[i] = {}
  BY Zenon DEF Init
<1>5. PlaceShape
  BY Zenon, <1>3, <1>4 DEF Init, PlaceShape, Requesting, Looking, Waiting
<1>6. HeldShape
  BY SMTT(20), <1>1, <1>3, Blank DEF Init, HeldShape, Live
<1>7. ASSUME NEW c \in Client PROVE CallShape(c)
  BY <1>1, Blank, Timeouts DEF CallShape, Truthful, Pending, NoReply
<1>8. ASSUME NEW i \in Slots PROVE SlotShape(i)
  BY Zenon, <1>3, <1>4, Blank DEF Init, SlotShape, Sent, Asked, Reported, Taken, Requesting
<1> QED BY Zenon, <1>2, <1>5, <1>6, <1>7, <1>8 DEF DeviceInv

\* The daemon's invariant holds whatever clients, devices, time and the supervisor do.
THEOREM DeviceInvariant == Spec => []DeviceInv
<1>1. DeviceInv /\ [Next]_vars => DeviceInv'
  <2> SUFFICES ASSUME DeviceInv, Next PROVE DeviceInv'
    BY Zenon, StartKeeps
  <2>1. ASSUME NEW c \in Client, \/ \E r \in Request[c] : Connect(c, r)
                                 \/ Send(c) \/ Return(c) \/ Timeout(c) \/ Die(c)
        PROVE  DeviceInv'
    BY Zenon, <2>1, ConnectKeeps, SendKeeps, ReturnKeeps, HangupKeeps DEF Timeout, Die, Pending
  <2>2. CASE Scan
    BY Zenon, <2>2, ScanSkipKeeps, ScanCloseKeeps, ScanReceiveKeeps DEF Scan
  <2>3. CASE StatStorage \/ StatNetwork \/ ReadOperstate
    <3>1. AfterLook \in Places /\ {"present", "operstate"} \subseteq Places
      BY Zenon DEF AfterLook, Places
    <3>2. CASE StatStorage
      BY Zenon, <3>1, <3>2, LookKeeps DEF StatStorage, Flags
    <3>3. CASE StatNetwork
      BY Zenon, <3>1, <3>3, LookKeeps DEF StatNetwork, Flags
    <3>4. CASE ReadOperstate
      BY Zenon, <3>1, <3>4, LookKeeps DEF ReadOperstate, Flags
    <3> QED BY Zenon, <2>3, <3>2, <3>3, <3>4
  <2>4. CASE Poll \/ Accept \/ ProcessRequest \/ ReadClock \/ Evaluate \/ Start
    BY Zenon, <2>4, PollKeeps, AcceptKeeps, ProcessRequestKeeps, ReadClockKeeps, EvaluateKeeps, StartKeeps
  <2> QED BY Zenon, <2>1, <2>2, <2>3, <2>4, ChangeKeeps, TickKeeps, ExitKeeps DEF Next, Step
<1> QED BY InitDeviceInv, <1>1, PTL DEF Spec

\* Events that poll reported are applied to the client they were reported of,
\* whoever was accepted into the table since (main, accept_client).
THEOREM EventsAreOwnHolds == Spec => []EventsAreOwn
<1>1. DeviceInv => EventsAreOwn
  <2> SUFFICES ASSUME DeviceInv, NEW i \in idx..ClientLimit, revents[i] # {} PROVE slot[i].fd = polled[i]
    BY Zenon DEF EventsAreOwn
  <2>1. i \in Slots
    BY DEF DeviceInv, Types, Slots
  <2> QED BY Zenon, <2>1 DEF DeviceInv, SlotShape, Reported
<1> QED BY <1>1, DeviceInvariant, PTL

\* Every reply is true of the devices, the time and the capabilities of the
\* client that gets it (process_request, evaluate_waiters, peer_capabilities).
THEOREM ReplyTruthfulHolds == Spec => []ReplyTruthful
<1>1. DeviceInv => ReplyTruthful
  BY Zenon DEF DeviceInv, CallShape, Truthful, ReplyTruthful
<1> QED BY <1>1, DeviceInvariant, PTL


\* ConnectionsHeldOnce counts the holders of a connection. The two counts it
\* needs follow from the definition of Cardinality: the empty set has none,
LEMMA EmptyCount == Cardinality({}) = 0
BY Zenon DEF Cardinality

\* and a set of one element one (the connection that accept_client put in a
\* slot is found there and nowhere else).
LEMMA SingleCount == ASSUME NEW x PROVE Cardinality({x}) = 1
<1> DEFINE Rec(f) == f = [T \in SUBSET {x} |-> IF T = {} THEN 0 ELSE 1 + f[T \ {CHOOSE y : y \in T}]]
           w == [T \in SUBSET {x} |-> IF T = {} THEN 0 ELSE 1]
           C == CHOOSE f : Rec(f)
<1>1. \A T \in SUBSET {x} : T = {} \/ T = {x}
  OBVIOUS
<1>2. (CHOOSE y : y \in {x}) = x
  OBVIOUS
<1>3. Rec(w)
  BY <1>1, <1>2
<1>4. Cardinality({x}) = C[{x}]
  BY DEF Cardinality
<1> HIDE DEF Rec, w
<1>5. Rec(C)
  BY Zenon, <1>3
<1> HIDE DEF C
<1>6. C[{}] = 0 /\ C[{x}] = 1 + C[{x} \ {CHOOSE y : y \in {x}}]
  BY <1>5 DEF Rec
<1>7. C[{x}] = 1
  BY <1>2, <1>6
<1> QED BY Zenon, <1>4, <1>7

\* No connection is lost or held twice: the daemon holds exactly those that it
\* has not closed, each in the backlog or in one slot (accept_client,
\* close_client).
THEOREM ConnectionsHeldOnceHolds == Spec => []ConnectionsHeldOnce
<1>1. DeviceInv => ConnectionsHeldOnce
  <2> SUFFICES ASSUME DeviceInv PROVE ConnectionsHeldOnce
    OBVIOUS
  <2>1. TypeOK
    <3>1. \A c \in Client : call[c].st \in {"idle", "connected", "sent", "gone"} /\ call[c].age \in Nat
      BY Zenon DEF DeviceInv, Types, Calls
    <3>2. \A c \in Client : Patience(call[c].req) \in Nat
      BY Zenon, Timeouts DEF DeviceInv, Types, Calls
    <3>3. \A c \in Client : call[c].age \in 0..Patience(call[c].req)
      BY <3>1, <3>2 DEF DeviceInv, CallShape
    <3>4. \A i \in Slots : slot[i].fd \in Client \cup {NoClient} /\ slot[i].state \in {"FREE", "REQUEST", "WAIT"}
      BY Zenon DEF DeviceInv, Types, SlotStates
    <3> QED BY Zenon, <3>1, <3>3, <3>4 DEF TypeOK, DeviceInv, Types, Places
  <2>2. ASSUME NEW c \in Client
        PROVE  Cardinality({i \in Slots : slot[i].fd = c}) + Cardinality({k \in 1..Len(backlog) : backlog[k] = c})
                 = IF Live(c) THEN 1 ELSE 0
    <3> DEFINE A == {i \in Slots : slot[i].fd = c}
               B == {k \in 1..Len(backlog) : backlog[k] = c}
    <3>1. c # NoClient
      BY ServiceAssumption
    <3>2. ~Live(c) \/ InBacklog(c) => \A i \in Slots : slot[i].fd # c
      BY <3>1 DEF DeviceInv, HeldShape
    <3>3. ~Live(c) => ~InBacklog(c)
      BY DEF DeviceInv, HeldShape, InBacklog
    <3>4. ~Live(c) \/ InBacklog(c) => Cardinality(A) = 0
      <4>1. (\A i \in Slots : slot[i].fd # c) => A = {}
        OBVIOUS
      <4> QED BY Zenon, <3>2, <4>1, EmptyCount
    <3>5. Live(c) /\ ~InBacklog(c) => Cardinality(A) = 1
      <4>1. ASSUME NEW j \in Slots, slot[j].fd = c PROVE A = {j}
        BY Zenon, <3>1, <4>1 DEF DeviceInv, HeldShape
      <4>2. Live(c) /\ ~InBacklog(c) => \E j \in Slots : slot[j].fd = c
        BY Zenon DEF DeviceInv, HeldShape
      <4> QED BY Zenon, <4>1, <4>2, SingleCount
    <3>6. ~InBacklog(c) => Cardinality(B) = 0
      <4>1. ~InBacklog(c) => B = {}
        BY DEF InBacklog
      <4> QED BY Zenon, <4>1, EmptyCount
    <3>7. InBacklog(c) => Cardinality(B) = 1
      <4>1. ASSUME NEW m \in 1..Len(backlog), backlog[m] = c PROVE B = {m}
        BY Zenon, <4>1 DEF DeviceInv, HeldShape
      <4> QED BY Zenon, <4>1, SingleCount DEF InBacklog
    <3> HIDE DEF A, B
    <3>8. Cardinality(A) + Cardinality(B) = IF Live(c) THEN 1 ELSE 0
      BY <3>3, <3>4, <3>5, <3>6, <3>7
    <3> QED BY <3>8 DEF A, B
  <2> QED BY Zenon, <2>1, <2>2 DEF ConnectionsHeldOnce, DeviceInv, HeldShape, Live
<1> QED BY <1>1, DeviceInvariant, PTL
=============================================================================

---------------------------- MODULE DeviceService ----------------------------
(***************************************************************************)
(* micronux-deviced, the device policy daemon, and the library calls that  *)
(* use it (micronux-deviced.c, libmicronux.c, micronux-deviced-supervise). *)
(*                                                                         *)
(* The daemon is one thread in a poll() loop.  Each line of the loop that  *)
(* reads what others write (poll, accept, recv, each stat) is a step, and  *)
(* clients, devices, time and the supervisor act between any two of them.  *)
(* A client is one library call on its own connection; its name is used    *)
(* again when the daemon has closed that connection.                       *)
(***************************************************************************)
EXTENDS Integers, Sequences, FiniteSets

CONSTANTS Client,        \* processes that call libmicronux
          Root,          \* those whose SO_PEERCRED uid is 0
          NoClient,      \* fd -1
          ClientLimit,   \* CLIENT_LIMIT: slots, and the listen backlog
          Request,       \* the requests each client makes
          Changing,      \* the device flags that come and go; the others stay
          MaxWait,       \* MICRONUX_DEVICE_MAX_WAIT_MS, in ticks
          Grace          \* CLIENT_RESPONSE_GRACE_MS, in ticks

ASSUME ServiceAssumption ==
  /\ Root \subseteq Client /\ NoClient \notin Client
  /\ ClientLimit \in Nat \ {0} /\ {MaxWait, Grace} \subseteq Nat
  /\ \A c \in Client : \A r \in Request[c] : r.timeout \in Nat

Flags == {"storage", "present", "up"}
Slots == 1..ClientLimit

ASSUME ChangingAssumption ==
  Changing \subseteq Flags /\ ("present" \in Changing => "up" \in Changing)

VARIABLES
  devices,   \* what /dev and /sys show now
  backlog,   \* connections that wait for accept
  call,      \* the client side of each call
  slot,      \* clients[]
  pc,        \* where the daemon is in its loop; "down" when it does not run
  idx,       \* the loop index
  revents,   \* poll_fds[].revents: events of slots, and whether 0 is readable
  polled,    \* poll_fds[].fd
  seen,      \* the flags current_devices has found so far
  reading,   \* who called current_devices
  expired    \* the waiters whose deadline is at or before now_ms

env    == <<devices, backlog, call>>
daemon == <<slot, pc, idx, revents, polled, seen, reading, expired>>
vars   == <<env, daemon>>

NoRequest == [op |-> "none", abi |-> 0, mask |-> {}, timeout |-> 0]
NoReply   == [status |-> "none", devices |-> {}, caps |-> {}]

(***************************************************************************)
(* One call: "idle", "connected", "sent", or "gone" when the client closed *)
(* its end and the daemon has not closed the other; shut when the daemon   *)
(* closed its end; age counts ticks since the send; ever collects the      *)
(* flags that have been up since then.                                     *)
(***************************************************************************)
Idle == [st |-> "idle", req |-> NoRequest, unread |-> FALSE, shut |-> FALSE,
         reply |-> NoReply, age |-> 0, ever |-> {}]

FreeSlot == [fd |-> NoClient, state |-> "FREE", caps |-> {},
             req |-> NoRequest, mask |-> {}, left |-> 0]

\* When the library's own poll gives up; ages are not counted further.
Patience(r) == r.timeout + Grace

Init ==
  /\ devices = Flags \ Changing
  /\ backlog = <<>>
  /\ call = [c \in Client |-> Idle]
  /\ slot = [i \in Slots |-> FreeSlot]
  /\ pc = "poll" /\ idx = 1
  /\ revents = [i \in 0..ClientLimit |-> {}]
  /\ polled = [i \in Slots |-> NoClient]
  /\ seen = {} /\ reading = "waiters" /\ expired = {}
-----------------------------------------------------------------------------
(* The library call: exchange() *)

\* socket and connect; without a daemon, or with a full backlog, it fails or waits.
Connect(c, r) ==
  /\ pc # "down" /\ Len(backlog) < ClientLimit
  /\ call[c] = Idle
  /\ backlog' = Append(backlog, c)
  /\ call' = [call EXCEPT ![c] = [Idle EXCEPT !.st = "connected", !.req = r]]
  /\ UNCHANGED <<devices, daemon>>

\* send; the daemon may have closed the connection already.
Send(c) ==
  /\ call[c].st = "connected"
  /\ call' = [call EXCEPT ![c] =
       IF @.shut THEN Idle
       ELSE [@ EXCEPT !.st = "sent", !.unread = TRUE, !.ever = devices]]
  /\ UNCHANGED <<devices, backlog, daemon>>

Pending(c) == call[c].st = "sent" /\ ~call[c].shut

\* poll returns for a reply or a hangup; recv, checks and close follow.
Return(c) ==
  /\ call[c].st = "sent" /\ call[c].shut
  /\ call' = [call EXCEPT ![c] = Idle]
  /\ UNCHANGED <<devices, backlog, daemon>>

\* The client closes its end: it was killed, or its own poll timed out.
Hangup(c) ==
  call' = [call EXCEPT ![c] =
    IF @.shut THEN Idle ELSE [@ EXCEPT !.st = "gone", !.age = 0, !.ever = {}]]

Timeout(c) ==
  /\ Pending(c) /\ call[c].age >= Patience(call[c].req)
  /\ Hangup(c)
  /\ UNCHANGED <<devices, backlog, daemon>>

Die(c) ==
  /\ call[c].st \in {"connected", "sent"}
  /\ Hangup(c)
  /\ UNCHANGED <<devices, backlog, daemon>>
-----------------------------------------------------------------------------
(* Devices and time *)

\* A card, an interface or its link comes or goes; a link needs its interface.
Change(f) ==
  LET new == IF f \in devices THEN devices \ {f} ELSE devices \cup {f} IN
  /\ "up" \in new => "present" \in new
  /\ devices' = new
  /\ call' = [c \in Client |-> IF Pending(c)
                               THEN [call[c] EXCEPT !.ever = @ \cup new] ELSE call[c]]
  /\ UNCHANGED <<backlog, daemon>>

Tick ==
  /\ call' = [c \in Client |-> IF Pending(c) /\ call[c].age < Patience(call[c].req)
                               THEN [call[c] EXCEPT !.age = @ + 1] ELSE call[c]]
  /\ slot' = [i \in Slots |-> IF slot[i].left > 0
                              THEN [slot[i] EXCEPT !.left = @ - 1] ELSE slot[i]]
  /\ UNCHANGED <<devices, backlog, pc, idx, revents, polled, seen, reading, expired>>
-----------------------------------------------------------------------------
(* The daemon *)

\* The kernel closes the daemon's end of c.
Shut(cs, c) == [cs EXCEPT ![c] = IF @.st = "gone" THEN Idle ELSE [@ EXCEPT !.shut = TRUE]]

\* Fault: a slot is freed and its descriptor stays open.
CloseClientLeaks(i) ==
  /\ slot' = [slot EXCEPT ![i] = FreeSlot]
  /\ UNCHANGED call

CloseClient(i) ==
  /\ call' = Shut(call, slot[i].fd)
  /\ slot' = [slot EXCEPT ![i] = FreeSlot]

\* send, then close_client whatever send returned.
Respond(i, status) ==
  LET c == slot[i].fd IN
  /\ call' = Shut([call EXCEPT ![c].reply = [status |-> status, devices |-> seen,
                                             caps |-> slot[i].caps]], c)
  /\ slot' = [slot EXCEPT ![i] = FreeSlot]

\* poll: what it reports is what is true now, for the descriptors of now.
Events(c) == IF c = NoClient THEN {}
             ELSE (IF call[c].st = "gone" THEN {"hup", "in"} ELSE {})
                  \cup (IF call[c].unread THEN {"in"} ELSE {})

Poll ==
  /\ pc = "poll"
  /\ polled' = [i \in Slots |-> slot[i].fd]
  /\ revents' = [i \in 0..ClientLimit |->
                   IF i = 0 THEN (IF backlog = <<>> THEN {} ELSE {"in"})
                            ELSE Events(slot[i].fd)]
  /\ pc' = "accept"
  /\ UNCHANGED <<env, slot, idx, seen, reading, expired>>

peer_capabilities(c) ==
  IF c \in Root THEN {"observe", "control", "admin"} ELSE {"observe"}

\* Fault: a slot whose client hung up counts as free before it is closed.
AcceptReclaims ==
  /\ pc = "accept"
  /\ pc' = "scan" /\ idx' = 1
  /\ IF revents[0] = {} THEN UNCHANGED <<call, backlog, slot>>
     ELSE LET c == Head(backlog)
              free == {i \in Slots : slot[i].state = "FREE" \/ "hup" \in revents[i]}
          IN  /\ backlog' = Tail(backlog)
              /\ IF free = {}
                 THEN call' = Shut(call, c) /\ UNCHANGED slot
                 ELSE \E i \in free :
                        /\ \A j \in free : i <= j
                        /\ slot' = [slot EXCEPT ![i] =
                             [FreeSlot EXCEPT !.fd = c, !.state = "REQUEST",
                                              !.caps = peer_capabilities(c)]]
                        /\ call' = IF slot[i].fd = NoClient THEN call ELSE Shut(call, slot[i].fd)
  /\ revents' = [revents EXCEPT ![0] = {}]
  /\ UNCHANGED <<devices, polled, seen, reading, expired>>

\* accept_client: the lowest free slot, or close when there is none or when set_nonblocking
\* or getsockopt fails.
Accept ==
  /\ pc = "accept"
  /\ pc' = "scan" /\ idx' = 1
  /\ IF revents[0] = {} THEN UNCHANGED <<call, backlog, slot>>
     ELSE LET c == Head(backlog)
              free == {i \in Slots : slot[i].state = "FREE"}
          IN  /\ backlog' = Tail(backlog)
              /\ \/ call' = Shut(call, c) /\ UNCHANGED slot
                 \/ \E i \in free :
                        /\ \A j \in free : i <= j
                        /\ slot' = [slot EXCEPT ![i] =
                             [FreeSlot EXCEPT !.fd = c, !.state = "REQUEST",
                                              !.caps = peer_capabilities(c)]]
                        /\ UNCHANGED call
  /\ revents' = [revents EXCEPT ![0] = {}]
  /\ UNCHANGED <<devices, polled, seen, reading, expired>>

\* The slot loop, one slot: skip, close on hangup or when recv fails, or receive_request.
ScanSkip(i) ==
  /\ slot[i].state = "FREE" \/ revents[i] = {} \/ (slot[i].state = "WAIT" /\ "hup" \notin revents[i])
  /\ idx' = idx + 1
  /\ UNCHANGED <<call, slot, pc, reading>>

ScanClose(i) ==
  /\ slot[i].state # "FREE" /\ ("hup" \in revents[i] \/ (slot[i].state = "REQUEST" /\ "in" \in revents[i]))
  /\ CloseClient(i)
  /\ idx' = idx + 1
  /\ UNCHANGED <<pc, reading>>

ScanReceive(i) ==
  /\ slot[i].state = "REQUEST" /\ revents[i] = {"in"}
  /\ slot' = [slot EXCEPT ![i].req = call[slot[i].fd].req]
  /\ call' = [call EXCEPT ![slot[i].fd].unread = FALSE]
  /\ pc' = "storage" /\ reading' = "request"
  /\ UNCHANGED idx

Scan ==
  /\ pc = "scan" /\ idx \in Slots
  /\ ScanSkip(idx) \/ ScanClose(idx) \/ ScanReceive(idx)
  /\ revents' = [revents EXCEPT ![idx] = {}]
  /\ polled' = [polled EXCEPT ![idx] = NoClient]
  /\ UNCHANGED <<devices, backlog, seen, expired>>

\* current_devices: three looks at the file system, one after the other.
Look(at, flag, then) ==
  /\ pc = at
  /\ seen' = IF flag = "storage" THEN devices \cap {flag} ELSE seen \cup (devices \cap {flag})
  /\ pc' = then
  /\ UNCHANGED <<env, slot, revents, polled, reading, expired>>

AfterLook == IF reading = "request" THEN "process" ELSE "evaluate"

StatStorage == Look("storage", "storage", "present") /\ UNCHANGED idx

StatNetwork ==
  /\ Look("present", "present", IF "present" \in devices THEN "operstate" ELSE AfterLook)
  /\ UNCHANGED idx

ReadOperstate == Look("operstate", "up", AfterLook) /\ UNCHANGED idx

\* A packet of another length is answered like an operation that is not among these.
Operations == {"INFO", "LIST", "WAIT", "ADMIN_PROBE"}

required_capability(op) ==
  CASE op = "INFO" -> {} [] op = "ADMIN_PROBE" -> {"admin"} [] OTHER -> {"observe"}

Invalid(r) ==
  \/ r.op \notin Operations
  \/ r.op = "WAIT" /\ (r.mask = {} \/ ~(r.mask \subseteq Flags) \/ r.timeout \notin 1..MaxWait)

Allowed(r, caps) == r.op \in Operations => required_capability(r.op) \subseteq caps

StartWait(i) ==
  /\ slot' = [slot EXCEPT ![i].state = "WAIT", ![i].mask = slot[i].req.mask,
                          ![i].left = slot[i].req.timeout, ![i].req = NoRequest]
  /\ UNCHANGED call

\* Fault: WAIT looks at the devices again and again before it returns.
ProcessBlocks ==
  LET i == idx
      r == slot[i].req
  IN  /\ pc = "process"
      /\ \/ r.abi # 1 /\ Respond(i, "VERSION")
         \/ r.abi = 1 /\ ~Allowed(r, slot[i].caps) /\ Respond(i, "DENIED")
         \/ r.abi = 1 /\ Allowed(r, slot[i].caps) /\ Invalid(r) /\ Respond(i, "INVALID")
         \/ /\ r.abi = 1 /\ Allowed(r, slot[i].caps) /\ ~Invalid(r)
            /\ IF r.op = "WAIT" => r.mask \subseteq seen
               THEN Respond(i, "OK")
               ELSE UNCHANGED <<call, slot>>
      /\ IF slot' = slot
         THEN pc' = "storage" /\ UNCHANGED <<idx, seen, reading>>
         ELSE pc' = "scan" /\ idx' = idx + 1 /\ seen' = {} /\ reading' = "waiters"
      /\ UNCHANGED <<devices, backlog, revents, polled, expired>>

\* process_request, after current_devices.
ProcessRequest ==
  LET i == idx
      r == slot[i].req
  IN  /\ pc = "process"
      /\ pc' = "scan" /\ idx' = idx + 1
      /\ \/ r.abi # 1 /\ Respond(i, "VERSION")
         \/ r.abi = 1 /\ ~Allowed(r, slot[i].caps) /\ Respond(i, "DENIED")
         \/ r.abi = 1 /\ Allowed(r, slot[i].caps) /\ Invalid(r) /\ Respond(i, "INVALID")
         \/ /\ r.abi = 1 /\ Allowed(r, slot[i].caps) /\ ~Invalid(r)
            /\ IF r.op = "WAIT" => r.mask \subseteq seen
               THEN Respond(i, "OK")
               ELSE StartWait(i)
      /\ seen' = {} /\ reading' = "waiters"
      /\ UNCHANGED <<devices, backlog, revents, polled, expired>>

\* After the slot loop: read the clock, then the devices.
ReadClock ==
  /\ pc = "scan" /\ idx \notin Slots
  /\ expired' = {i \in Slots : slot[i].state = "WAIT" /\ slot[i].left = 0}
  /\ pc' = "storage" /\ idx' = 1
  /\ UNCHANGED <<env, slot, revents, polled, seen, reading>>

\* Fault: one of the flags is enough.
EvaluateAny ==
  /\ pc = "evaluate"
  /\ IF slot[idx].state = "WAIT" /\ slot[idx].mask \cap seen # {} THEN Respond(idx, "OK")
     ELSE IF slot[idx].state = "WAIT" /\ idx \in expired THEN Respond(idx, "TIMEOUT")
     ELSE UNCHANGED <<call, slot>>
  /\ IF idx = ClientLimit THEN pc' = "poll" /\ idx' = 1 /\ seen' = {}
     ELSE idx' = idx + 1 /\ UNCHANGED <<pc, seen>>
  /\ expired' = expired \ {idx}
  /\ UNCHANGED <<devices, backlog, revents, polled, reading>>

\* Fault: deadlines are not looked at.
EvaluateNoDeadline ==
  /\ pc = "evaluate"
  /\ IF slot[idx].state = "WAIT" /\ slot[idx].mask \subseteq seen THEN Respond(idx, "OK")
     ELSE UNCHANGED <<call, slot>>
  /\ IF idx = ClientLimit THEN pc' = "poll" /\ idx' = 1 /\ seen' = {}
     ELSE idx' = idx + 1 /\ UNCHANGED <<pc, seen>>
  /\ expired' = expired \ {idx}
  /\ UNCHANGED <<devices, backlog, revents, polled, reading>>

\* The waiter loop, one slot: ready, overdue, or still waiting.
Evaluate ==
  /\ pc = "evaluate"
  /\ IF slot[idx].state = "WAIT" /\ slot[idx].mask \subseteq seen THEN Respond(idx, "OK")
     ELSE IF slot[idx].state = "WAIT" /\ idx \in expired THEN Respond(idx, "TIMEOUT")
     ELSE UNCHANGED <<call, slot>>
  /\ IF idx = ClientLimit THEN pc' = "poll" /\ idx' = 1 /\ seen' = {}
     ELSE idx' = idx + 1 /\ UNCHANGED <<pc, seen>>
  /\ expired' = expired \ {idx}
  /\ UNCHANGED <<devices, backlog, revents, polled, reading>>

(***************************************************************************)
(* The daemon ends: SIGTERM seen at the loop head, where main closes every *)
(* client, or a crash anywhere, where the kernel does.                     *)
(***************************************************************************)
Exit ==
  /\ pc # "down" /\ pc' = "down"
  /\ call' = [c \in Client |-> CASE call[c].st = "gone" -> Idle
                                 [] call[c].st \in {"connected", "sent"} ->
                                      [call[c] EXCEPT !.shut = TRUE]
                                 [] OTHER -> call[c]]
  /\ backlog' = <<>>
  /\ slot' = [i \in Slots |-> FreeSlot]
  /\ idx' = 1 /\ seen' = {} /\ reading' = "waiters" /\ expired' = {}
  /\ revents' = [i \in 0..ClientLimit |-> {}]
  /\ polled' = [i \in Slots |-> NoClient]
  /\ UNCHANGED devices

\* The supervisor's loop starts it again; prepare_socket replaces the socket.
Start ==
  /\ pc = "down" /\ pc' = "poll"
  /\ UNCHANGED <<env, slot, idx, revents, polled, seen, reading, expired>>
-----------------------------------------------------------------------------
Step == \/ Poll \/ Accept \/ Scan \/ StatStorage \/ StatNetwork \/ ReadOperstate
        \/ ProcessRequest \/ ReadClock \/ Evaluate \/ Start

Next ==
  \/ \E c \in Client : \/ \E r \in Request[c] : Connect(c, r)
                       \/ Send(c) \/ Return(c) \/ Timeout(c) \/ Die(c)
  \/ \E f \in Changing : Change(f)
  \/ Tick \/ Step \/ Exit

Spec == Init /\ [][Next]_vars

(***************************************************************************)
(* The daemon runs (poll has a timeout and nothing else in the loop blocks)*)
(* and a library call sends right after it has connected.  Time need not   *)
(* pass.                                                                   *)
(***************************************************************************)
FairSpec == Spec /\ WF_vars(Step) /\ \A c \in Client : WF_vars(Send(c))
-----------------------------------------------------------------------------
(* Properties *)

\* Every variable has a value its declaration allows.
TypeOK ==
  /\ devices \subseteq Flags
  /\ backlog \in Seq(Client) /\ Len(backlog) <= ClientLimit
  /\ \A c \in Client :
       /\ call[c].st \in {"idle", "connected", "sent", "gone"}
       /\ call[c].age \in 0..Patience(call[c].req)
  /\ \A i \in Slots : /\ slot[i].fd \in Client \cup {NoClient}
                      /\ slot[i].state \in {"FREE", "REQUEST", "WAIT"}
  /\ pc \in {"down", "poll", "accept", "scan", "storage", "present", "operstate",
             "process", "evaluate"}
  /\ idx \in 1..(ClientLimit + 1)

\* The table is sound: no connection is lost or held twice.  The daemon holds
\* exactly the connections it has not closed, each in the backlog or in one slot,
\* and a slot is free exactly when it holds none (accept_client, close_client).
ConnectionsHeldOnce ==
  LET held(c) == Cardinality({i \in Slots : slot[i].fd = c})
                 + Cardinality({k \in 1..Len(backlog) : backlog[k] = c})
  IN  /\ TypeOK
      /\ \A c \in Client : held(c) = IF call[c].st # "idle" /\ ~call[c].shut THEN 1 ELSE 0
      /\ \A i \in Slots : slot[i].state = "FREE" <=> slot[i].fd = NoClient

\* Events that poll reported for a descriptor are never applied to the client
\* that accept_client put into the same slot afterwards.
EventsAreOwn ==
  pc = "scan" => \A i \in idx..ClientLimit :
    slot[i].state # "FREE" /\ revents[i] # {} => slot[i].fd = polled[i]

\* A reply tells the truth.  A success reports only flags that were up at some
\* time after the client sent its request, and a successful WAIT all it waited
\* for, although the flags are read one by one and the reply may come much later;
\* a timeout comes only after the time the client asked for; every reply carries
\* the capabilities of the peer's own uid, whoever had the slot before, and an
\* operation is denied exactly when those do not allow it.
ReplyTruthful ==
  \A c \in Client :
    LET reply == call[c].reply
        req   == call[c].req
    IN  /\ reply.status = "OK" =>
             /\ reply.devices \subseteq call[c].ever
             /\ req.op = "WAIT" => req.mask \subseteq reply.devices
        /\ reply.status = "TIMEOUT" => call[c].age >= req.timeout
        /\ reply.status # "none" =>
             /\ reply.caps = peer_capabilities(c)
             /\ req.abi = 1 =>
                  (reply.status = "DENIED" <=> req.op = "ADMIN_PROBE" /\ c \notin Root)

\* While others wait, a connection is accepted or turned away and an accepted
\* request is taken up, without time passing: WAIT is state in the poll loop
\* and does not block the daemon.
RequestsTakenUp ==
  /\ \A c \in Client : (\E n \in DOMAIN backlog : backlog[n] = c) ~> (\A n \in DOMAIN backlog : backlog[n] # c)
  /\ \A i \in Slots : slot[i].state = "REQUEST" ~> slot[i].state # "REQUEST"

\* If time passes, every waiter is answered, has hung up, or sees the daemon end.
WaitsEnd == WF_vars(Tick) => \A i \in Slots : slot[i].state = "WAIT" ~> slot[i].state = "FREE"
=============================================================================

----------------------------- MODULE NetControl -----------------------------
(***************************************************************************)
(* micronux-netctl: commands that drive the ESP32-C6 radio through one     *)
(* serial device, one remote call at a time (micronux-netctl.c).  Each     *)
(* command is a process of its own.  What a process that gave up leaves in *)
(* the device, requests the radio has yet to serve and replies nobody has  *)
(* read, is there for the next one.  The radio and the device are          *)
(* external: they keep the order of requests and of replies, may lose a    *)
(* reply, may answer after any delay, and may send events at any time.     *)
(* Time is counted in ticks of the 250 ms sleep.                           *)
(***************************************************************************)
EXTENDS Naturals, Sequences

CONSTANTS
    Commands,       \* the commands given by hand
    MaxRuns,        \* bound: commands given by hand
    MaxFrames,      \* frames the device holds in either direction
    Pieces,         \* writes it takes to give the device a frame
    RpcTimeout,     \* RPC_TIMEOUT_MS, in ticks
    WaitTime,       \* the argument of wait, in ticks
    Stable          \* ASSOCIATION_STABLE_MS, in ticks

AllCommands == {"mac", "up", "connect", "down", "forget", "status", "wait"}

ASSUME NetAssumption ==
    /\ Commands \subseteq AllCommands
    /\ {MaxRuns, MaxFrames, Pieces, RpcTimeout, WaitTime, Stable} \subseteq Nat \ {0}

VARIABLES
    cmd, at,        \* the running command and its step
    uid,            \* next_uid
    todo,           \* in write_all, pieces of the frame still to be written
    waiting, left,  \* in rpc_exchange, ticks to its deadline; in write_all, to
                    \* that of the poll
    wleft, nap,     \* ticks to the deadline of wait, and of its sleep
    since,          \* ticks since connected_since_ms, None without one
    result,         \* the exit status of the last command
    ifup,           \* IFF_UP of ethsta0
    toC6, toHost,   \* the device
    wanted, assoc,  \* the radio: told to connect, associated
    runs,
    did, elapsed,   \* history of the running command
    failed          \* history: commands that failed since one that initialises
                    \* the radio found the device empty

None == Stable + 1
Dec(n) == IF n = 0 THEN 0 ELSE n - 1
Inc(n, bound) == IF n >= bound THEN n ELSE n + 1

proc == <<cmd, at, uid, todo, waiting, left, wleft, nap, since, result>>
radio == <<wanted, assoc>>
ghosts == <<did, elapsed, failed>>
vars == <<proc, ifup, toC6, toHost, radio, runs, ghosts>>

Steps(c) ==
    CASE c = "mac" -> <<"init", "mode", "mac", "setmac">>
      [] c = "up" -> <<"init", "mode", "mac", "setmac", "start", "associate", "ifup">>
      [] c = "connect" -> <<"init", "mode", "mac", "setmac", "config", "start", "associate", "ifup">>
      [] c = "down" -> <<"disconnect", "ifdown">>
      [] c = "forget" -> <<"init", "restore">>
      [] c \in {"status", "wait"} -> <<"apinfo">>
Local == {"setmac", "ifup", "ifdown"}
Step == Steps(cmd)[at]

Init ==
    /\ cmd = "none" /\ at = 1 /\ uid = 1 /\ todo = 0 /\ waiting = FALSE /\ left = 0
    /\ wleft = 0 /\ nap = 0 /\ since = None
    /\ result = 0 /\ ifup = FALSE
    /\ toC6 = <<>> /\ toHost = <<>>
    /\ wanted = FALSE /\ assoc = FALSE
    /\ runs = 0
    /\ did = {} /\ elapsed = 0 /\ failed = 0

-----------------------------------------------------------------------------
(* The process *)

\* The process is over with exit status r; its descriptor is closed.
Exit(r) ==
    /\ cmd' = "none" /\ at' = 1 /\ uid' = 1 /\ todo' = 0 /\ waiting' = FALSE /\ left' = 0
    /\ wleft' = 0 /\ nap' = 0 /\ since' = None
    /\ result' = r
    /\ did' = {} /\ elapsed' = 0 /\ failed' = failed + r

\* main and the head of each command; the device may fail to open.
Start(c) ==
    /\ cmd = "none"
    /\ runs' = Inc(runs, MaxRuns)
    /\ \/ /\ cmd' = c /\ result' = 0
          /\ wleft' = IF c = "wait" THEN WaitTime ELSE 0
          /\ failed' = IF Steps(c)[1] = "init" /\ toC6 = <<>> /\ toHost = <<>>
                       THEN 0 ELSE failed
       \/ /\ result' = 1
          /\ UNCHANGED <<cmd, wleft, failed>>
    /\ UNCHANGED <<at, uid, todo, waiting, left, nap, since, did, elapsed>>
    /\ UNCHANGED <<ifup, toC6, toHost, radio>>

Continue ==
    IF at = Len(Steps(cmd)) THEN Exit(0)
    ELSE /\ at' = at + 1 /\ waiting' = FALSE /\ left' = 0
         /\ UNCHANGED <<cmd, uid, todo, wleft, nap, since, result, ghosts>>

\* The head of rpc_exchange: a frame is to be written.
Send ==
    /\ cmd # "none" /\ todo = 0 /\ ~waiting /\ nap = 0 /\ Step \notin Local
    /\ \/ /\ todo' = Pieces /\ left' = RpcTimeout
          /\ UNCHANGED <<cmd, at, uid, waiting, wleft, nap, since, result, ghosts>>
       \/ Exit(1)
    /\ UNCHANGED <<ifup, toC6, toHost, radio, runs>>

\* One round of write_all: the device takes a piece, for which it may need the
\* whole time of the poll, or the write fails.  The deadline of the exchange is
\* taken when the frame is out.  next_uid is counted up only then: a process
\* whose write fails makes no other call.
Write ==
    /\ todo > 0
    /\ \/ /\ left > 0
          /\ todo' = todo - 1 /\ left' = RpcTimeout
          /\ IF todo > 1
             THEN UNCHANGED <<toC6, uid, waiting>>
             ELSE /\ Len(toC6) < MaxFrames
                  /\ toC6' = Append(toC6, [id |-> Step, uid |-> uid])
                  /\ uid' = uid + 1 /\ waiting' = TRUE
          /\ UNCHANGED <<cmd, at, wleft, nap, since, result, ghosts>>
       \/ Exit(1) /\ UNCHANGED toC6
    /\ UNCHANGED <<ifup, toHost, radio, runs>>

\* set_linux_mac and set_linux_interface_state.
SetInterface ==
    /\ cmd # "none" /\ ~waiting /\ Step \in Local
    /\ \/ /\ ifup' = IF Step = "setmac" THEN ifup ELSE Step = "ifup"
          /\ Continue
       \/ Exit(1) /\ UNCHANGED ifup
    /\ UNCHANGED <<toC6, toHost, radio, runs>>

\* One round of the loop of command_wait, after its exchange.
WaitSample(st) ==
    LET held == IF since = None THEN 0 ELSE since
    IN  IF st = "ok" /\ held >= Stable THEN Exit(0)
        ELSE IF st = "unavailable" THEN Exit(1)
        ELSE IF wleft = 0 THEN Exit(1)
        ELSE /\ since' = IF st = "ok" THEN held ELSE None
             /\ nap' = 1 /\ waiting' = FALSE /\ left' = 0
             /\ UNCHANGED <<cmd, at, uid, todo, wleft, result, ghosts>>

\* rpc_status_call, command_status and command_wait on the status of a reply.
Reply(st) ==
    CASE cmd = "wait" -> WaitSample(st)
      [] cmd = "status" -> Exit(IF st = "ok" THEN 0 ELSE 1)
      [] OTHER -> IF st = "ok" THEN Continue ELSE Exit(1)

\* As Accepts, but the first reply to arrive is taken, whatever it answers.
AcceptsFirst(f) == f.kind = "rsp"

\* The reply an exchange waits for.
Accepts(f) == f.kind = "rsp" /\ f.id = Step /\ f.uid = uid - 1

\* As Receive, but every frame restarts the time-out.
ReceiveRestarts ==
    /\ waiting /\ left > 0 /\ toHost # <<>>
    /\ toHost' = Tail(toHost)
    /\ LET f == Head(toHost)
       IN  IF f.kind = "bad" THEN Exit(1)
           ELSE IF Accepts(f) THEN Reply(f.st)
           ELSE /\ left' = RpcTimeout
                /\ UNCHANGED <<cmd, at, uid, todo, waiting, wleft, nap, since, result,
                               ghosts>>
    /\ UNCHANGED <<ifup, toC6, radio, runs>>

\* One round of the loop of rpc_exchange: a frame that cannot be decoded is an
\* error; events, of which a disconnect is only printed, are passed over.
Receive ==
    /\ waiting /\ left > 0 /\ toHost # <<>>
    /\ toHost' = Tail(toHost)
    /\ LET f == Head(toHost)
       IN  IF f.kind = "bad" THEN Exit(1)
           ELSE IF Accepts(f) THEN Reply(f.st)
           ELSE UNCHANGED <<proc, ghosts>>
    /\ UNCHANGED <<ifup, toC6, radio, runs>>

\* remaining_timeout_ms finds the deadline passed, whatever has arrived.
Expire ==
    /\ waiting /\ left = 0
    /\ Exit(1)
    /\ UNCHANGED <<ifup, toC6, toHost, radio, runs>>

\* The user interrupts the command.
Interrupt ==
    /\ cmd # "none"
    /\ Exit(1)
    /\ UNCHANGED <<ifup, toC6, toHost, radio, runs>>

-----------------------------------------------------------------------------
(* The radio *)

Post(f) == Len(toHost) < MaxFrames /\ toHost' = Append(toHost, f)

\* A request is served in turn, refused or not, and its reply may be lost.
C6Serve(ok, lost) ==
    /\ toC6 # <<>>
    /\ toC6' = Tail(toC6)
    /\ LET q == Head(toC6)
           st == IF q.id = "apinfo" /\ ok
                 THEN IF assoc THEN "ok" ELSE "disconnected"
                 ELSE IF ok THEN "ok" ELSE "unavailable"
       IN  /\ wanted' = IF ok /\ q.id = "associate" THEN TRUE
                        ELSE IF ok /\ q.id \in {"disconnect", "restore"} THEN FALSE
                        ELSE wanted
           /\ assoc' = (assoc /\ wanted')
           /\ did' = IF ok /\ cmd # "none" THEN did \cup {q.id} ELSE did
           /\ IF lost THEN UNCHANGED toHost
              ELSE Post([kind |-> "rsp", id |-> q.id, uid |-> q.uid, st |-> st])
    /\ UNCHANGED <<proc, ifup, runs, elapsed, failed>>

Associate ==
    /\ wanted /\ ~assoc
    /\ assoc' = TRUE
    /\ UNCHANGED <<proc, ifup, toC6, toHost, wanted, runs, ghosts>>

\* The access point goes away; the event may not reach the host.
Drop ==
    /\ assoc
    /\ assoc' = FALSE
    /\ \/ Post([kind |-> "other", id |-> "none", uid |-> 0, st |-> "none"])
       \/ UNCHANGED toHost
    /\ UNCHANGED <<proc, ifup, toC6, wanted, runs, ghosts>>

\* Any other event or frame, or one that cannot be decoded.
Noise(kind) ==
    /\ Post([kind |-> kind, id |-> "none", uid |-> 0, st |-> "none"])
    /\ UNCHANGED <<proc, ifup, toC6, radio, runs, ghosts>>

\* The time of wait, that of writing a frame and that of an exchange.
Longest == WaitTime + Pieces * RpcTimeout + RpcTimeout

\* A tick of CLOCK_MONOTONIC; code that does not wait takes no time.
Tick ==
    /\ cmd # "none" => nap > 0 \/ ((todo > 0 \/ waiting) /\ left > 0)
    /\ left' = Dec(left) /\ wleft' = Dec(wleft) /\ nap' = Dec(nap)
    /\ since' = IF since = None THEN None ELSE Inc(since, Stable)
    /\ elapsed' = IF cmd = "wait" THEN Inc(elapsed, Longest + 1) ELSE 0
    /\ UNCHANGED <<cmd, at, uid, todo, waiting, result, did, failed, ifup, toC6,
                   toHost, radio, runs>>

-----------------------------------------------------------------------------
Process == Send \/ Write \/ SetInterface \/ Receive \/ Expire

Radio ==
    \/ \E ok, lost \in BOOLEAN : C6Serve(ok, lost)
    \/ Associate \/ Drop
    \/ \E kind \in {"other", "bad"} : Noise(kind)

Next ==
    \/ runs < MaxRuns /\ \E c \in Commands : Start(c)
    \/ Process \/ Interrupt \/ Radio \/ Tick

-----------------------------------------------------------------------------
(* Properties *)

\* The uid of the call that step k of a command makes: setmac, the fourth where it
\* is one, makes none.
CallNo(k) == IF k > 4 THEN k - 1 ELSE k

\* What a command goes on to report was really done by the radio, whatever
\* earlier processes left in the device.  A reply meant for an earlier process
\* carries the uid that the counter of this one, which starts again at 1, comes
\* to (rpc_exchange): it can stand for the k-th call of a command, but only if k
\* commands have failed before it.  Every later call was served by the radio
\* since the command began.  When down goes on to take the interface down, the
\* radio is off the network and nothing an earlier command left behind puts it
\* back, unless five commands have failed: associate is the fifth call of up.
LinkIsReal ==
    /\ \A k \in 1..(at - 1) :
           Steps(cmd)[k] \notin Local /\ CallNo(k) > failed => Steps(cmd)[k] \in did
    /\ cmd = "down" /\ at = 2 /\ failed < 5
           => ~wanted /\ \A i \in 1..Len(toC6) : toC6[i].id # "associate"

\* A wait ends within its own time, the deadline of one exchange and the time its
\* frame may take to write, however many events the radio sends.  write_all polls
\* for up to RPC_TIMEOUT_MS each time the device has no room, before the exchange
\* has a deadline: the deadline alone is not the bound.
WaitBounded == elapsed <= Longest
=============================================================================

------------------------------ MODULE NetOnline ------------------------------
(***************************************************************************)
(* micronux-online: the script that brings the network up with the         *)
(* commands of NetControl and a DHCP client, again and again up to a       *)
(* bounded number of attempts.  Before it is started, commands have been   *)
(* given by hand; what they left behind is there when it begins.  Its      *)
(* sleeps between attempts only let time pass, in which the radio may do   *)
(* anything it may do anyway.                                              *)
(***************************************************************************)
EXTENDS NetControl

CONSTANT Attempts   \* ten in the script

ASSUME OnlineAssumption == Attempts \in Nat \ {0}

VARIABLES attempt, phase

allVars == <<vars, attempt, phase>>

OnlineInit == Init /\ attempt = 1 /\ phase = "shell"

ByHand == phase = "shell" /\ Next /\ UNCHANGED <<attempt, phase>>

\* micronux-online is started; the commands by hand are over.
StartScript ==
    /\ phase = "shell" /\ cmd = "none"
    /\ phase' = "up" /\ result' = 0 /\ runs' = MaxRuns
    /\ UNCHANGED <<cmd, at, uid, todo, waiting, left, wleft, nap, since, ifup,
                   toC6, toHost, radio, ghosts, attempt>>

\* The next command of the attempt is started.
Call(c) ==
    /\ phase = c /\ Start(c)
    /\ phase' = [up |-> "upping", wait |-> "waiting", status |-> "statusing"][c]
    /\ UNCHANGED attempt

\* As Retry, but the attempt is not counted.
RetryUncounted == phase' = "up" /\ UNCHANGED attempt

\* The attempt failed.
Retry ==
    IF attempt < Attempts
    THEN attempt' = attempt + 1 /\ phase' = "up"
    ELSE phase' = "failed" /\ UNCHANGED attempt

\* As Returned, but the exit status of up is ignored.
ReturnedUnchecked ==
    /\ cmd = "none"
    /\ \/ phase = "upping" /\ phase' = "wait" /\ UNCHANGED attempt
       \/ phase = "waiting" /\ result = 0 /\ phase' = "dhcp" /\ UNCHANGED attempt
       \/ phase = "waiting" /\ result # 0 /\ Retry
       \/ phase = "statusing" /\ Retry
    /\ UNCHANGED vars

\* The exit status of the command decides; that of status is ignored.
Returned ==
    /\ cmd = "none"
    /\ \/ phase = "upping" /\ result = 0 /\ phase' = "wait" /\ UNCHANGED attempt
       \/ phase = "upping" /\ result # 0 /\ Retry
       \/ phase = "waiting" /\ result = 0 /\ phase' = "dhcp" /\ UNCHANGED attempt
       \/ phase = "waiting" /\ result # 0 /\ Retry
       \/ phase = "statusing" /\ Retry
    /\ UNCHANGED vars

\* udhcpc gives up after its own retries.
Dhcp ==
    /\ phase = "dhcp"
    /\ phase' \in {"ready", "status"}
    /\ UNCHANGED <<vars, attempt>>

Script == (\E c \in {"up", "wait", "status"} : Call(c)) \/ Returned \/ Dhcp

OnlineNext ==
    \/ ByHand \/ StartScript \/ Script
    \/ phase # "shell" /\ (Process \/ Radio \/ Tick) /\ UNCHANGED <<attempt, phase>>

\* The script goes on with its next line or the command it waits for with its
\* own, and time passes; the radio need not do anything.
Advance == Script \/ (phase # "shell" /\ Process /\ UNCHANGED <<attempt, phase>>)
Pass == phase # "shell" /\ Tick /\ UNCHANGED <<attempt, phase>>

OnlineSpec ==
    /\ OnlineInit /\ [][OnlineNext]_allVars
    /\ WF_allVars(Advance) /\ WF_allVars(Pass)

\* Once started the script comes to an end whatever the radio answers, refuses, loses or
\* sends unasked: every exchange and every wait has a deadline.
OnlineEnds == phase = "up" ~> phase \in {"ready", "failed"}

\* When the script reports ready the interface is up and the radio has been
\* told to associate, also after attempts that were cut short and left
\* requests and replies behind; five failures, with the device never empty in
\* between, can leave a reply that up takes for that of its own associate.
ReadyIsUp == phase = "ready" /\ failed < 5 => ifup /\ wanted
=============================================================================

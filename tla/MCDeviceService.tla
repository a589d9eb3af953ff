--------------------------- MODULE MCDeviceService ---------------------------
(* Two library clients, one of them root, and a table of one slot.        *)
EXTENDS DeviceService

CONSTANTS a, b

Ask(op, abi, mask, timeout) == [op |-> op, abi |-> abi, mask |-> mask, timeout |-> timeout]

\* One request that is answered at once and one that waits.
TwoRequests ==
  [c \in Client |-> {Ask("ADMIN_PROBE", 1, {}, 0), Ask("WAIT", 1, {"storage", "up"}, 1)}]

\* From the client that is not root also those the daemon refuses.
AllRequests ==
  [c \in Client |-> IF c \in Root THEN TwoRequests[c]
                    ELSE TwoRequests[c] \cup {Ask("unknown", 1, {}, 0), Ask("INFO", 2, {}, 0),
                                              Ask("WAIT", 1, {"storage"}, MaxWait + 1)}]
=============================================================================

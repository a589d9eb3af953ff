CONSTANTS
  Commands = {"mac", "up", "connect", "down", "forget", "status", "wait"}
  MaxRuns = 2
  MaxFrames = 2
  Pieces = 2
  RpcTimeout = 2
  WaitTime = 1
  Stable = 1
  Attempts = 2
SPECIFICATION OnlineSpec
CHECK_DEADLOCK FALSE
INVARIANTS LinkIsReal WaitBounded ReadyIsUp
PROPERTY OnlineEnds

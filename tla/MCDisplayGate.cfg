SPECIFICATION Spec
CONSTANTS
  Modes <- AllModes
  Rounds = 6
  Troubles = 1
  Disconnect = 1
  Samples = 2
INVARIANTS PassIsHealthy FailIsExplained BoundaryWhileClosed

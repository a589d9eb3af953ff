CONSTANTS
  Sup = {s1}
  Free = Free
  Child = {c}
  WallTicks = 1
  OutputLimit = 1
  ReadSize = 2
  PipeSize = 3
  SigchldIgnored = FALSE
  FdMax = 7
  OpenSets = {{0,1,2}}
  Quiet = FALSE
SPECIFICATION RunSpec
CHECK_DEADLOCK FALSE
INVARIANT NoSurvivors
INVARIANT ForwardsUpToLimit
INVARIANT ReportTruthful
INVARIANT ProgramContained
PROPERTY JobsEnd

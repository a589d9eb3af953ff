CONSTANTS
  Sup = {s1, s2}
  Free = Free
  Child = {c}
  WallTicks = 1
  OutputLimit = 1
  ReadSize = 1
  PipeSize = 1
  Quiet = FALSE
  SigchldIgnored = FALSE
SPECIFICATION Spec
SYMMETRY Symmetry
CHECK_DEADLOCK FALSE
INVARIANT OneJobAtATime

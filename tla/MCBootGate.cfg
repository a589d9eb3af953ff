CONSTANTS
  Gates <- AllGates
  Boots = 2
  Troubles = 1
  LossLimit = 1
SPECIFICATION Spec
INVARIANTS PassIsEarned 

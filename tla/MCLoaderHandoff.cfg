CONSTANTS
  MaxBoots = 3
  Line = 2
  KernelBase = 4
  PoolBase = 8
SPECIFICATION Spec
CHECK_DEADLOCK FALSE
INVARIANTS ContractIsCurrent HandoffIsTrue NoEarlyContract CleanupCanRun

CONSTANTS
  MM = {m1, m2}
  NoMM = NoMM
  PoolPages = 4
SPECIFICATION FairSpec
INVARIANTS IInv WindowOwned MappingsReachable Accounting
PROPERTIES ImplementsPool Reclaimed

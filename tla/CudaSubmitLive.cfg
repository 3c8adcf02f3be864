SPECIFICATION FairSpec
CONSTANTS
  Calls = {c1, c2}
  Sites <- LiveSites
  DenseContexts = {d1}
  SparseContexts = {p1}
  GuardFailsAt <- AllSites
  None = None
PROPERTIES
  CallReturns
CHECK_DEADLOCK FALSE

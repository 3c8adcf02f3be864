SPECIFICATION Spec
CONSTANTS
  Calls = {c1, c2}
  Sites <- AllSites
  DenseContexts = {d1, d2}
  SparseContexts = {p1}
  GuardFailsAt <- RecoveringSites
  None = None
SYMMETRY Symmetry
INVARIANTS
  SubmitsInItsMode
  BuffersOutliveWork
  FailedCallLeavesNothing
PROPERTIES
  ImplementsAsyncCall
CHECK_DEADLOCK FALSE

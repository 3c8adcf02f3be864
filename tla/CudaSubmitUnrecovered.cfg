SPECIFICATION Spec
CONSTANTS
  Calls = {c1, c2}
  Sites <- DenseSites
  DenseContexts = {d1}
  SparseContexts = {p1}
  GuardFailsAt <- AllSites
  None = None
SYMMETRY Symmetry
INVARIANTS
  FailedCallLeavesNothing
CHECK_DEADLOCK FALSE

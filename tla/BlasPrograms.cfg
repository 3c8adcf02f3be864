CONSTANTS
  Cells <- CellRange
  Backing <- BackingRange
SPECIFICATION Spec
INVARIANTS
  SerialComputesTheDefinition
  CudaComputesTheDefinition
  AcceptedOperandsAreSeparate
CHECK_DEADLOCK FALSE

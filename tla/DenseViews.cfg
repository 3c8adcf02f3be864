CONSTANTS
  IndexMax = 7
  SizeMax = 15
  ElementSize = 3
  ElementMax = 7
  LayoutInputs <- LayoutCases
  ViewInputs <- ViewCases
  Offsets <- SubviewOffsets
  Shapes <- CallerShapes
  ArrayShapes <- CallerArrays
  Others <- OtherOperands
  Cells = 5
  Storage = 0
  Blocks = {1, 2, 3}
  Arrays = {a1, a2}
  Null = Null
  Unset = Unset
  None = None
SPECIFICATION Spec
INVARIANT MappingsCoverTheirStorage
PROPERTIES CallsComputeTheirDefinition FailuresChangeNothing

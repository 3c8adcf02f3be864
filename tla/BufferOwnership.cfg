SPECIFICATION Spec
CONSTANTS
  Buffers = {b1, b2, b3}
  Resources = {host, cuda}
  CudaResources = {cuda}
  Blocks = {p1, p2, p3}
  Sizes = {0, 4}
  Alignments = {4, 8}
  None = None
SYMMETRY Symmetry
INVARIANTS
  OwnedOnce
  NoLeak
  ReturnedAsRequested

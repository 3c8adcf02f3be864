CONSTANTS
  d1 = d1
  d2 = d2
  Domains = {d1, d2}
  LastOffset = 8
  Shapes <- SomeShapes
  Layouts <- SomeLayouts
  WordBase = 2
SYMMETRY Interchangeable
SPECIFICATION Spec
INVARIANTS WordsAreDrawnOnce GenerationIsExact

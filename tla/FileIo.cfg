CONSTANTS
  a = a
  b = b
  Files = {f, g}
  Streams = {s, t}
  Bytes = {a, b}
  Texts <- SomeTexts
  Limits = {0, 1, 2, 3}
  Chunk = 2
  MaxLength = 3
  None = None
  Custom = Custom
  Local = Local
  Unset = Unset
SPECIFICATION FairSpec
INVARIANTS TypeOK StreamsAreClosedOnce TransfersAreExact
PROPERTY CallReturns
CHECK_DEADLOCK FALSE

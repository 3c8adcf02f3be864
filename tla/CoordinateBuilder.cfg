SPECIFICATION FairSpec
CONSTANTS
  Shape <- TwoByTwo
  Indices <- AroundTheShape
  Low <- Lowest
  High = 1
  MaxCapacity = 3
INVARIANTS
  FailureKeepsEntries
  SumsWereChecked
  ArrayIsCanonical
  LookupFindsTheSum
PROPERTIES
  FinalizeReturns

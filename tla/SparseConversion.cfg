SPECIFICATION Spec
CONSTANTS
  Shape <- TwoByThree
  Indices <- AroundTheShape
  Elements = {0, 1}
  Default = 0
  Offsets <- AroundTheCounts
  MaxStored = 3
  Unset = Unset
INVARIANTS
  OwnerStoresItsMatrix
  RefusedArraysStoreNothing
  LookupReadsTheMatrix
  BuilderTakesEveryEntry
CHECK_DEADLOCK FALSE

CONSTANTS
  Width = 4
  DirectionRows <- FirstRows
  Primes <- FirstPrimes
  Positions = {0, 3, 10, 15}
  Counts = {0, 1, 2, 6, 8, 12, 16}
SPECIFICATION Spec
INVARIANTS PointsComeOnce PointsAreStratified DrawsAreUniform

SPECIFICATION Spec
CONSTANTS
  Ids = {i1, i2}
  Places <- MCPlaces
  HalfTurn = 1800
  SeparationMeters <- MCSeparation
  SeparationLimit = 100000
  Seqs = {0, 1}
  Sizes = {1}
  RecentLimit = 1
  SerialLimit = 3
INVARIANT SeparationWithinLimit

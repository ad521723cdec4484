SPECIFICATION Spec
CONSTANTS
  ViewId = "map"
  PressLimit = 3
  DepthLimit = 2
INVARIANTS
  TypeOK
  CommitsWithinPresses
  NoResultWaits

SPECIFICATION Spec
CONSTANTS
  Clients = {c1, c2}
  Ids = {i1, i2}
  NoId = NoId
  Garbage = Garbage
  Oversize = Oversize
  RecentLimit = 2
  StartLimit = 2
CHECK_DEADLOCK FALSE
INVARIANT ServesUntilStopped

SPECIFICATION Spec
CONSTANTS
  Apps = {a1, a2}
  Clients = {h1, h2}
  Looped = {a1}
  Impatient = TRUE
  Stubborn = {h2}
  None = None
  Torn = Torn
  StartLimit = 2
INVARIANTS TypeOK TaskFrameAlive StopIsQuiet NoStaleDiscovery
PROPERTIES StopReturns ConnectionsEnd
CHECK_DEADLOCK FALSE

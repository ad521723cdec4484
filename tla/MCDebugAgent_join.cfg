SPECIFICATION Spec
CONSTANTS
  Apps = {a1}
  Clients = {h1}
  Looped = {a1}
  Impatient = FALSE
  Stubborn = {}
  None = None
  Torn = Torn
  StartLimit = 1
PROPERTIES PostedLineRuns
CHECK_DEADLOCK FALSE

SPECIFICATION Spec
CONSTANTS
  Handles = {h1, h2, h3, h4}
  NoHandle = NoHandle
  TimeLimit = 4
INVARIANTS TypeOK ShownIsActive
PROPERTIES TabSwitchHeals CloseEnds
CHECK_DEADLOCK FALSE

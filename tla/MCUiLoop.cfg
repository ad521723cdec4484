SPECIFICATION Spec
CONSTANTS
  UI = ui
  p1 = p1
  p2 = p2
  Posters = {p1, p2}
  Kinds <- MCKinds
  PostLimit = 2
  TimeLimit = 2
  QueueLimit = 1
  DepthLimit = 2
INVARIANTS
  TypeOK
  OnePumpMessage
PROPERTIES
  NoLostWakeup
  StartsInOrder
  TasksSettle
  QuitReturns
CHECK_DEADLOCK FALSE

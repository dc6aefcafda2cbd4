SPECIFICATION Spec
CONSTANTS
  Subs = {s1, s2}
  QueueMax = 3
  ReplayDepth = 2
  MaxCursor = 5
INVARIANTS
  QueueIsNextInLine
  ReplayLeavesHeadroom
  ShutdownLosesNothing
PROPERTIES
  ClientSeesEveryCursor
  StreamsEnd
CHECK_DEADLOCK FALSE

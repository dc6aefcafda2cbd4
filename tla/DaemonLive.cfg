SPECIFICATION LiveSpec
CONSTANTS
  MaxSessions = 2
  MaxRetries = 0
  MaxLives = 1
  Faults = {"pump", "roll"}
PROPERTIES
  LockEnds
  FrozenSettles
  AmbientReturns
CHECK_DEADLOCK FALSE

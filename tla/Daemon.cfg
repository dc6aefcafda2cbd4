SPECIFICATION Spec
CONSTANTS
  MaxSessions = 2
  MaxRetries = 0
  MaxLives = 2
  Faults = {"crash", "set", "detach", "late"}
INVARIANTS
  OneEngine
  Supervised
  EngineHasItsStore
  SealedRefusesStart
  AnnouncedOnce
PROPERTIES
  CrashesAreReal
CHECK_DEADLOCK FALSE

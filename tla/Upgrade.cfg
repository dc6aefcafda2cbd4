CONSTANTS
  Recording = {a, b}
  None = None
  MaxWrites = 2
  MaxLives = 2
  Faults = {"crash", "reboot", "disk", "fail"}
SPECIFICATION LiveSpec
INVARIANTS
  NoFootageLost
  PlaintextStays
  CutOverWhole
  LockSparesSwap
PROPERTIES
  CutoverEnds
  UpgradeEnds
CHECK_DEADLOCK FALSE

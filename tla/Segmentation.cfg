SPECIFICATION Spec
CONSTANTS
  MaxSlot = 2
  Base = 2
  MaxKept = 2
  MaxEdits = 1
  MaxPurges = 2
  Opening = {}
INVARIANTS
  RangesDisjoint
  CacheClean
  VettedNamesClean
PROPERTIES
  CurationStays
CHECK_DEADLOCK FALSE

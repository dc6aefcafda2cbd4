SPECIFICATION Spec
CONSTANTS
  MaxChunks = 2
  Destination = "cloud"
  LiveUpload = FALSE
  Retention = "keep_forever"
  KeepRecent = 1
  SampleSize = 1
  Faults = {"upload"}
  MaxCrashes = 0
INVARIANTS
  SentinelMeansComplete
CHECK_DEADLOCK FALSE

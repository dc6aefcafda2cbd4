SPECIFICATION Spec
CONSTANTS
  MaxChunks = 2
  Destination = "cloud"
  LiveUpload = TRUE
  Retention = "delete_after_upload"
  KeepRecent = 1
  SampleSize = 8
  Faults = {"bucket_loss", "stage_error", "kill_engine", "upload", "upload_live", "delete", "delete_live"}
  MaxCrashes = 1
INVARIANTS
  NoFootageLost
  SentinelMeansComplete
PROPERTIES
  KeepsCustody
CHECK_DEADLOCK FALSE

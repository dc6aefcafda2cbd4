SPECIFICATION DaemonSpec
CONSTANTS
  MaxChunks = 2
  Destination = "cloud"
  LiveUpload = TRUE
  Retention = "size_cap"
  KeepRecent = 1
  SampleSize = 8
  Faults = {"flaky", "drain_timeout", "kill_engine", "kill_holder", "delete", "delete_live"}
  MaxCrashes = 1
INVARIANTS
  UploadedMeansInBucket
  EvictedStaysFree
PROPERTIES
  UploadsFinish
  DeletedStaysGone
CHECK_DEADLOCK FALSE

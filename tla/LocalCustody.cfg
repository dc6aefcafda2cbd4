SPECIFICATION RetrySpec
CONSTANTS
  MaxChunks = 2
  Destination = "local"
  LiveUpload = TRUE
  Retention = "delete_after_days"
  KeepRecent = 1
  SampleSize = 8
  Faults = {"flaky", "kill_engine", "kill_holder", "delete", "upload", "drain_timeout"}
  MaxCrashes = 1
PROPERTIES
  DeletesFinish
CHECK_DEADLOCK FALSE

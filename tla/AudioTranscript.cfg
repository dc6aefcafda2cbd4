SPECIFICATION Spec
CONSTANTS
  InitiallyMuted = FALSE
  Axes = {"mute"}
  Faults = {}
  PollTicks = 1
  MaxTime = 3
  MaxCommands = 2
  MaxTogether = 2
  Guard = 1
  MaxChunks = 2
INVARIANTS
  FramesKept
  MutedIsCovered
  HeardIsUncovered
PROPERTIES
  MutedSpeechStaysOut
  AckedFilesStay
CHECK_DEADLOCK FALSE

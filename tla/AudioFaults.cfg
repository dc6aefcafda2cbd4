SPECIFICATION LiveSpec
CONSTANTS
  InitiallyMuted = FALSE
  Axes = {"mute", "pause"}
  Faults = {"open", "stop", "device", "skip"}
  PollTicks = 1
  MaxTime = 1
  MaxCommands = 2
  MaxTogether = 3
  Guard = 1
  MaxChunks = 2
INVARIANTS
  ConfirmedMuteIsSilent
  OneAnswerPerRequest
PROPERTIES
  StopEnds
CHECK_DEADLOCK FALSE

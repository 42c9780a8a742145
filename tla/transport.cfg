CONSTANTS
  None = None
  MaxAttempts = 1
  MaxPackets = 2
  MaxBytes = 2
  MaxSignals = 1
  Sizes = {1, 2}
  MaxFaults = 1
  MaxEvents = 2
  MaxTasks = 2
SPECIFICATION FairSpec
INVARIANTS
  QueueIsCounted
  EndIsQuiet
  RestartIsWatched
PROPERTIES
  RecoveryEnds
  DeadPathIsReported
CHECK_DEADLOCK FALSE

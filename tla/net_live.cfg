CONSTANTS
  p1 = p1
  Player = {p1, p2}
  Input = {"none", "move"}
  Neutral = "none"
  PredictFrom <- MCPredictFrom
  Pressable <- MCPressableMove
  BootstrapEarly = TRUE
  Capacity = 1
  Readers = {p1}
  Observer = p1
  History = 6
  MaxRollback = 1
  InputDelay = 0
  MaxRedundant = 2
  AllowPrediction = TRUE
  CaptureLead = 0
  MaxFrame = 2
SPECIFICATION FairSpec
PROPERTIES
  EveryFrameIsPlayed
  EveryInputIsAcknowledged
CHECK_DEADLOCK FALSE

CONSTANTS
  Local = p1
  Player = {p1, p2}
  Input = {"none", "move"}
  Neutral = "none"
  PredictFrom <- MCPredictFrom
  Pressable <- MCPressable
  AckedFrames = 0
  Equivalent = {}
  History = 6
  MaxRollback = 1
  InputDelay = 0
  MaxRedundant = 2
  AllowPrediction = TRUE
  CaptureLead = 0
  MaxFrame = 7
SPECIFICATION Spec
INVARIANTS
  TypeOK
  NoHoleInConfirmedHistory
  RefusedOnlyIfEvicted
CHECK_DEADLOCK FALSE

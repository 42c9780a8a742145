CONSTANTS
  Local = p1
  Player = {p1, p2, p3}
  Input = {"none", "move"}
  Neutral = "none"
  PredictFrom <- MCPredictFrom
  Pressable <- MCPressable
  AckedFrames = 0
  Equivalent <- MCEquivalent
  History = 6
  MaxRollback = 2
  InputDelay = 1
  MaxRedundant = 2
  AllowPrediction = TRUE
  CaptureLead = 1
  MaxFrame = 3
SPECIFICATION Spec
INVARIANTS
  ConfirmedFramesReconciled
  ExportsAreFinal
  RollbackIsPossible
  BatchIsSampleLoop
CHECK_DEADLOCK FALSE

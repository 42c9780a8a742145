CONSTANTS
  p1 = p1
  Player = {p1, p2}
  Input = {"none", "move"}
  Neutral = "none"
  PredictFrom <- MCPredictFrom
  Pressable <- MCPressableMove
  BootstrapEarly = TRUE
  Capacity = 1
  Readers = {p1}
  Observer = p1
  History = 6
  MaxRollback = 1
  InputDelay = 1
  MaxRedundant = 2
  AllowPrediction = TRUE
  CaptureLead = 0
  MaxFrame = 3
SPECIFICATION Spec
INVARIANTS
  NoHonestFailure
  AcksAreConfirmed
PROPERTIES
  ImplementsLockstep
  ImplementsRollbackPeer
CHECK_DEADLOCK FALSE

CONSTANTS
  p1 = p1
  p2 = p2
  Player = {p1, p2}
  Contracts <- MCContracts
  FastLinks <- MCOneFastLink
  Frames = 1
  Defers = TRUE
  GivesUp = TRUE
  TimersTogether = TRUE
  MaxGeneration = 2
  MaxFaults = 1
  Capacity = 3
SPECIFICATION Spec
INVARIANTS
  TypeOK
  StartIsMutual
  FrontiersAreTrue
  HistoryIsDroppedWhenDone
  NoSpuriousFailure
CHECK_DEADLOCK FALSE

CONSTANTS
  p1 = p1
  p2 = p2
  Player = {p1, p2}
  Contracts <- MCOneContract
  FastLinks = {}
  Frames = 1
  Defers = FALSE
  GivesUp = FALSE
  TimersTogether = TRUE
  MaxGeneration = 2
  MaxFaults = 1
  Capacity = 9
SPECIFICATION FairSpec
PROPERTIES
  EverySessionRetires
  EchoEnds
CHECK_DEADLOCK FALSE

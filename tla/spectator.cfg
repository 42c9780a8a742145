CONSTANTS
  Input = {"stay", "clear"}
  Nothing = Nothing
  Stage <- MCStage
  Boss <- MCBoss
  Capacity = 2
  Window = 1
  Replay = 1
  MaxFrame = 3
  BufferFrames = 1
  MaxFrames = 3
  MaxControls = 2
SPECIFICATION FairSpec
INVARIANTS
  HistoryAcceptsTheStream
  WorldIsAtPosition
  PlaybackStaysBuffered
PROPERTIES
  GivenUpForACause
  ImplementsRun
  SeekArrives
  RunIsShown
CHECK_DEADLOCK FALSE

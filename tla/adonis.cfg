CONSTANTS
  p1 = p1
  p2 = p2
  None = None
  Player = {p1, p2}
  Host = p1
  Warmup = 1
  Samples = 1
  Needed = 1
  MaxRetries = 1
  Rtts <- MCRtts
  Configs <- MCConfigs
  Tails <- MCTails
  HasRetired = TRUE
  DeferLimit = 1
  Faults = {"startup", "peer", "measurement", "gap", "resends", "unsent", "tail", "closed", "recovering", "suspended", "failed", "lost control", "lost input"}
  MaxFaults = 1
SPECIFICATION FairSpec
INVARIANTS
  CommitIsUnanimous
  ChoiceCoversThePath
  NoSpuriousFailure
PROPERTIES
  CalibrationEnds
CHECK_DEADLOCK FALSE

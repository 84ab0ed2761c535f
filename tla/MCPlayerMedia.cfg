SPECIFICATION FairMediaSpec
CONSTANTS
  Definitions <- Hovers
  Targets = {"b"}
  Events = {"x", "y"}
  MaxInputsPerTick = 1
  MaxSequence = 3
  None = None
  Lookahead = 2
  CandidateReady = 1
  MaxIntents = 4
INVARIANTS
  RunsOwned QueueFits NextPlanned
PROPERTIES
  ForegroundFree FrameComes
CHECK_DEADLOCK FALSE

SPECIFICATION FastSpec
CONSTANTS
  Definitions <- Spinners
  Targets = {"b"}
  Events = {"x"}
  MaxInputsPerTick = 1
  MaxSequence = 2
  None = None
  Lookahead = 2
  CandidateReady = 1
  MaxIntents = 4
PROPERTIES
  RouteDeparts
CHECK_DEADLOCK FALSE

SPECIFICATION FairMediaSpec
CONSTANTS
  Definitions <- Hovers
  Targets = {"b"}
  Events = {"x", "y"}
  MaxInputsPerTick = 1
  MaxSequence = 2
  None = None
  Lookahead = 2
  CandidateReady = 1
  MaxIntents = 4
PROPERTIES
  HeadAdmitted
CHECK_DEADLOCK FALSE

SPECIFICATION FairSpec
CONSTANTS
  Definitions <- HoverAndOnce
  Targets = {"a", "b", "c", "nowhere"}
  Events = {"enter", "leave"}
  MaxInputsPerTick = 2
  MaxSequence = 4
  None = None
INVARIANTS
  TypeOK PhaseShape RequestedIsProspective GroupFollowsRoutes
PROPERTIES
  EachSettles
  EndsFollowStarts ImplementsLatestWins
CHECK_DEADLOCK FALSE

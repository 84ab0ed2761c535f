SPECIFICATION FairTransport
CONSTANTS
  Units = {"long", "short"}
  Ranges <- TwoAndOne
  Bodies = 1
  MaxLoads = 3
  MaxInterests = 2
INVARIANTS
  BodiesCounted LoadsWanted
PROPERTIES
  KeptForSomeone Answered
CHECK_DEADLOCK FALSE

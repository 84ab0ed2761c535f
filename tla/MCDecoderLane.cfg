SPECIFICATION FairSpec
CONSTANTS
  Samples <- Reordered
  Ring = 4
  ReadyFrames = 2
  Lag = 1
  MaxRuns = 3
INVARIANTS
  ProtocolHolds SurfacesBounded WatchdogJust
PROPERTIES
  LaneProgresses
CHECK_DEADLOCK FALSE

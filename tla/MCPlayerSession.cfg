SPECIFICATION SceneSpec
CONSTANTS
  Definitions <- ToggleAndSpring
  Targets = {"a", "b"}
  Events = {"enter"}
  MaxInputsPerTick = 3
  MaxSequence = 2
  None = None
INVARIANTS
  PromisesKept FramesFit HostKnows StaticAtRest
PROPERTIES
  NothingStale FailureToldFairly HeardFairly
CHECK_DEADLOCK FALSE

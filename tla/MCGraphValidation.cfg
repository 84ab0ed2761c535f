SPECIFICATION ValidationSpec
CONSTANTS
  Definitions <- Pairs
  Targets = {"b"}
  Events = {"enter", "leave"}
  MaxInputsPerTick = 1
  MaxSequence = 2
  None = None
  MaxFrames = 7
  Names = {"a", "b", "c"}
INVARIANTS
  WaitBounded NeverThrows CyclesFound
PROPERTIES
  WaitsForetold
CHECK_DEADLOCK FALSE

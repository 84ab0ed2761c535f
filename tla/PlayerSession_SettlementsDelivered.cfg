SPECIFICATION SceneSpec
CONSTANTS
  Definitions <- JustToggle
  Targets = {"a", "b"}
  Events = {"enter"}
  MaxInputsPerTick = 3
  MaxSequence = 2
  None = None
INVARIANT
  SettlementsDelivered
CHECK_DEADLOCK FALSE

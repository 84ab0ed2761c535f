SPECIFICATION SceneSpec
CONSTANTS
  MaxPlayers = 2
  MaxCalls = 3
INVARIANTS
  OnePlayer StandsAsAsked
PROPERTIES
  Served CallsSettle
CHECK_DEADLOCK FALSE

SPECIFICATION Spec
CONSTANTS
  MaxPlayers = 2
  MaxCalls = 2
INVARIANTS
  ShownResumes
CHECK_DEADLOCK FALSE

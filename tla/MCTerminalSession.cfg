SPECIFICATION Spec
CONSTANTS
  Scenarios <- AllScenarios
  AUTO_RESTART_WINDOW = 2
  MAX_AUTO_RESTARTS_PER_WINDOW = 1
INVARIANTS ManagedUnlessOverlapped CheckpointsKept
PROPERTIES ReviewLeftOnRequest
CHECK_DEADLOCK FALSE

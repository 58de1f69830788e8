SPECIFICATION StreamSpec
CONSTANTS
  v1 = v1
  v2 = v2
  Viewers <- TwoViewers
  OUTPUT_ACK_HIGH_WATER_MARK = 2
  OUTPUT_ACK_LOW_WATER_MARK = 1
  MaxChunks = 3
  MaxLosses = 2
INVARIANTS StreamIsExact PauseIsOwed
PROPERTIES PausedResumes
CHECK_DEADLOCK FALSE

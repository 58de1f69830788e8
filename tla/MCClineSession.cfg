SPECIFICATION Spec
CONSTANTS
  MaxCalls = 3
  MaxWork = 1
  MaxFaults = 1
INVARIANTS EventsStayWithTheirEntry InterruptedOnRequest
PROPERTIES RunningSettles
CHECK_DEADLOCK FALSE

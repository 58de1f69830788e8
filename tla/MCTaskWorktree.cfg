\* Four calls, two at a time, two faults and one crash.
SPECIFICATION Spec
CONSTANTS
  q1 = q1
  q2 = q2
  NoOne = NoOne
  Dead = Dead
  NoPatch = NoPatch
  Requests <- TwoCalls
  MaxRequests = 4
  MaxWork = 2
  MaxBase = 1
  MaxFaults = 2
  MaxCrashes = 1
INVARIANTS WorkIsKept
PROPERTIES EnsureLosesNothing EnsureRecovers
CHECK_DEADLOCK FALSE

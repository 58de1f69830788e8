\* Three invocations of one run and two faults: the safety properties.
CONSTANTS
  r1 = r1
  r2 = r2
  r3 = r3
  Invocations <- ThreeInvocations
  NoOne = NoOne
  None = None
  MaxAttempts = 2
  TimeoutMs = 1
  MinContinuationMs = 1
  MaxFaults = 2
SYMMETRY Symmetry
SPECIFICATION Spec
INVARIANTS
  TypeOK
  OneInvocationInside
  FinalizationMatchesFiles
  AttemptRecordIsSound
  SuccessIsCurrent
PROPERTIES
  RunsOnce
CHECK_DEADLOCK FALSE

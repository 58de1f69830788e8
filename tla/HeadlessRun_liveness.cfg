\* Two invocations, one fault, fair processes: every invocation ends.
CONSTANTS
  r1 = r1
  r2 = r2
  r3 = r3
  Invocations <- TwoInvocations
  NoOne = NoOne
  None = None
  MaxAttempts = 2
  TimeoutMs = 1
  MinContinuationMs = 1
  MaxFaults = 1
SPECIFICATION FairSpec
PROPERTY InvocationsSettle
CHECK_DEADLOCK FALSE

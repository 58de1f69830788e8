\* Every presentation, three nested calls on one file: safety and liveness.
SPECIFICATION FairSpec
CONSTANTS
  a = a
  None = None
  Kinds = {"retrieval", "mutation", "verification", "malformed"}
  Paths <- OnePath
  MaxToolCalls = 2
  MaxRejectedToolCalls = 1
  MaxParallel = 2
  MaxCalls = 3
  MaxDirectWrites = 2
INVARIANTS TypeOK CallsAreAccounted InSubmissionOrder WorktreeIsKnown
PROPERTIES CompositionEnds
CHECK_DEADLOCK FALSE

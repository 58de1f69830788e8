SPECIFICATION FairSpec
CONSTANTS
  MaxToolCalls = 2
  MaxRejectedToolCalls = 1
  MaxProtocolRecoveries = 1
  MaxCompletionDeferrals = 1
  MaxPlanRevisions = 1
  RepeatCount = 2
  AlternateCount = 4
  Setups <- Several
  MaxCrashes = 1
INVARIANTS TypeOK BudgetsHold ResumeLosesNothing FinishedIsVerified
PROPERTY AttemptEnds
CHECK_DEADLOCK FALSE

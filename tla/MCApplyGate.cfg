\* Two commands at a time beside the run and the user.
SPECIFICATION Spec
CONSTANTS
  c1 = c1
  c2 = c2
  t = t
  u = u
  None = None
  Commands <- TwoCommands
  Kinds = {"assess", "approve", "reject", "apply", "cleanup", "retention"}
  Files <- Repository
  Patches <- SomePatches
  Facts = {"passed"}
  ChangesRequired = TRUE
  MaxVersions = 2
  MaxDecisions = 2
  MaxCommands = 3
  MaxDisturbances = 1
SYMMETRY Symmetric
INVARIANTS AppliesAreSound LatestDecisionCounts
PROPERTIES UserFilesSurvive
CHECK_DEADLOCK FALSE

SPECIFICATION Spec
CONSTANTS
  N = 3
  BatchSize = 2
  Rolling = FALSE
  MaxParallel = 2
  ManualPromotion = TRUE
  RequiresApproval = FALSE
  MaxCommands = 2
  MaxPauses = 0
  MaxFaults = 2
  MaxEdits = 1
  Plans <- MCPlans
PROPERTIES
  CanariesFirst
  ForeignEditsSurvive
CHECK_DEADLOCK FALSE

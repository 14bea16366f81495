SPECIFICATION Spec
CONSTANTS
  N = 2
  BatchSize = 0
  Rolling = TRUE
  MaxParallel = 1
  ManualPromotion = FALSE
  RequiresApproval = FALSE
  MaxCommands = 1
  MaxPauses = 2
  MaxFaults = 0
  MaxEdits = 0
  Plans <- MCPlans
PROPERTIES
  RollbackHasCause
CHECK_DEADLOCK FALSE

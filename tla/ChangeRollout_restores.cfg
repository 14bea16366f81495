SPECIFICATION Spec
CONSTANTS
  N = 2
  BatchSize = 0
  Rolling = TRUE
  MaxParallel = 1
  ManualPromotion = FALSE
  RequiresApproval = FALSE
  MaxCommands = 2
  MaxPauses = 0
  MaxFaults = 4
  MaxEdits = 0
  Plans <- MCPlans
PROPERTIES
  RollbackRestores
CHECK_DEADLOCK FALSE

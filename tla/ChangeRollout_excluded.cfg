SPECIFICATION Spec
CONSTANTS
  N = 2
  BatchSize = 0
  Rolling = TRUE
  MaxParallel = 1
  ManualPromotion = FALSE
  RequiresApproval = FALSE
  MaxCommands = 2
  MaxPauses = 0
  MaxFaults = 0
  MaxEdits = 0
  Plans <- MCExcludedPlans
INVARIANTS
  ExcludedUntouched
CHECK_DEADLOCK FALSE

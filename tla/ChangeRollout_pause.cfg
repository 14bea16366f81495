SPECIFICATION FairSpec
CONSTANTS
  N = 3
  BatchSize = 0
  Rolling = TRUE
  MaxParallel = 1
  ManualPromotion = FALSE
  RequiresApproval = TRUE
  MaxCommands = 3
  MaxPauses = 2
  MaxFaults = 2
  MaxEdits = 0
  Plans <- MCPlans
INVARIANTS
  DeployedEverywhere
  StatusMatchesServer
  IdleIsSettled
  RemoteOnlyInProgress
PROPERTIES
  PauseStopsRollout
  EveryCommandEnds
CHECK_DEADLOCK FALSE

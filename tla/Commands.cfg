SPECIFICATION CommandsSpec
CONSTANTS
  Tasks = {cmd1, play1}
  ChangeTasks = {cmd1}
  TheChange = c1
  Changes <- MCChanges
  ChangeOf <- MCChangeOf
  Workers = {a1, a2}
  NoTask = NoTask
  NoWorker = NoWorker
  MaxCopies = 2
  MaxFaults = 3
  MaxOutages = 0
  ClusterNodes = {a1, a2}
  NoNode = NoNode
  LastPlan = 2
  MaxActions = 4
  MaxWrites = 1
  MaxMishaps = 1
  Configurations = {x0, x1}
  FirstConfiguration = x0
  LastChange = 2
  Operations = {b1, b2}
  NoOperation = NoOperation
  ClusterWorkers = {a1, a2}
  NoClusterWorker = NoClusterWorker
  MaxAdminEdits = 1
  MaxDisturbances = 2
SYMMETRY CommandsSymmetry
INVARIANTS
  CommandsTypeOK
  PublishedHasWakeup
  ExclusiveExecution
  ChangeStatusTrue
PROPERTIES
  ImplementsTaskLease
  StoppedAndHeld
  OnlyReviewedCommitted
CHECK_DEADLOCK FALSE

SPECIFICATION RequestSpec
CONSTANTS
  Tasks = {cmd1, cmd2}
  ChangeTasks = {cmd1, cmd2}
  TheChange = c1
  Changes <- MCChanges
  ChangeOf <- MCChangeOf
  Workers = {w1, w2}
  NoTask = NoTask
  NoWorker = NoWorker
  MaxCopies = 2
  MaxFaults = 1
  MaxOutages = 1
  Forms = {f1, f2}
  MaxToggles = 2
  MaxUpsets = 1
INVARIANTS
  AssignTypeOK
  NewestNeverLost
  ChangeRunsOnce
  RemoteWorkReserved
  ReservationLive
PROPERTIES
  OutcomeFinal
  EveryOperationSettles
  WorkerFollowsFlag
CHECK_DEADLOCK FALSE

SPECIFICATION EndpointSpec
CONSTANTS
  Queries = {q1, q2}
  NoCursor = NoCursor
  AnswerLimit = 1
  MaxRows = 2
  MaxFiles = 2
  MaxRecords = 3
  MaxRotations = 1
  MaxClicks = 2
  MaxFailures = 1
  Changes = {c1}
  MaxOps = 2
  MaxPosts = 2
  MaxLostCalls = 1
  Clusters = {k1, k2}
  NoCluster = NoCluster
  MaxRevision = 1
  MaxActs = 3
  MaxErrors = 1
  Hosts = {h1, h2}
  Texts = {t1, t2}
  Valid = {t1, t2}
  Blank = Blank
  MaxIds = 3
  MaxEdits = 2
  MaxSends = 2
  MaxMisses = 1
  d1 = d1
  d2 = d2
  Deliveries = {d1, d2}
  DeliveryAttempts = 2
  Limit = 2
  MaxLost = 1
  BackupWorkers = {w1, w2}
  GiveUpAfter = 2
  MaxTasks = 3
  MaxTroubles = 1
  MaxSaves = 1
  PageClusters = {g1, g2}
  NoSelection = NoSelection
  MaxPageClicks = 2
  MaxPageTroubles = 1
INVARIANTS
  EndpointTypeOK
  RowsOfOneStretch
  DeliveredReceived SendsExplained
PROPERTIES
  LiveCatchesUp
  ViewFollowsNewest
  PlansFollowServer
  SentAsMeant OperationReachesTable
  PageComesBack
  EveryDeliverySettles
  RunsTakenOnce ScheduleGoesOn
CHECK_DEADLOCK FALSE

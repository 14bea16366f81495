SPECIFICATION ManagedSpec
CONSTANTS
  Pages = {p1}
  Contents = {empty, full}
  Empty = empty
  Absent = Absent
  NoPage = NoPage
  NodeCount = 2
  MaxPid = 2
  MaxEdits = 1
  MaxChanges = 2
  MaxListFaults = 1
  Ops = {o1, o2}
  Certs = {c0, c1}
  Original = c0
  NoCert = NoCert
  N = 2
  MaxCertFaults = 2
  MaxCrashes = 1
  MaxForeign = 1
  MaxRetries = 1
  MaxTotal = 2
  Processes = {w1, w2}
  Shapes <- MCShapes
  NoProcess = NoProcess
  LastDay = 1
  MaxEvents = 2
  MaxBrokerCopies = 1
  MaxGone = 1
  MaxOverdue = 1
SYMMETRY ManagedSymmetry
INVARIANT
  ManagedTypeOK
PROPERTIES
  ListChangesHonest
  UpdateConsistent
  EventsTakeEffectOnce
CHECK_DEADLOCK FALSE

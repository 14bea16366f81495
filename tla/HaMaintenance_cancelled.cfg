SPECIFICATION HaSpec
CONSTANTS
  ClusterNodes = {n1, n2}
  NoNode = NoNode
  LastPlan = 1
  MaxActions = 4
  MaxWrites = 0
  MaxMishaps = 0
INVARIANT ReturnStaysOpen
CHECK_DEADLOCK FALSE

SPECIFICATION CertSpec
CONSTANTS
  Ops = {o1, o2}
  Certs = {c0, c1}
  Original = c0
  NoCert = NoCert
  N = 1
  MaxCertFaults = 2
  MaxCrashes = 0
  MaxForeign = 0
  MaxRetries = 1
  MaxTotal = 3
PROPERTY NothingToUndo
CHECK_DEADLOCK FALSE

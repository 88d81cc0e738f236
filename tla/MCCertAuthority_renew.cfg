CONSTANTS
  c1 = c1
  c2 = c2
  k1 = k1
  None = None
  Empty = Empty
  Certs <- MCCerts
  Keys <- MCKeys
  MidCrash = FALSE
  MaxOps = 2
  MaxFailures = 0
  MaxStops = 1
SPECIFICATION CASpec
SYMMETRY MCSymmetry
CHECK_DEADLOCK FALSE
INVARIANT RestartLoads

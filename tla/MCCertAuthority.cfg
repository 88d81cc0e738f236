CONSTANTS
  c1 = c1
  c2 = c2
  k1 = k1
  None = None
  Empty = Empty
  Certs <- MCCerts
  Keys <- MCKeys
  MidCrash = TRUE
  MaxOps = 4
  MaxFailures = 1
  MaxStops = 2
SPECIFICATION CASpec
SYMMETRY MCSymmetry
CHECK_DEADLOCK FALSE
INVARIANTS
  CATypeOK
  SerialsUnique
  Restartable
  Durable
  DeletedStays

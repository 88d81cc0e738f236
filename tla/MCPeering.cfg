CONSTANTS
  t1 = t1
  s1 = s1
  s2 = s2
  Nil = Nil
  Targets <- MCTargets
  Sources <- MCSources
  LateBind = FALSE
  Grace = 1
  MaxConnects = 2
  MaxFaults = 2
SPECIFICATION PeeringSpec
CHECK_DEADLOCK FALSE
INVARIANTS
  PeeringTypeOK
  RecordHonest
PROPERTIES
  GraceHolds
  PeersConverge

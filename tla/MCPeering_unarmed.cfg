CONSTANTS
  t1 = t1
  s1 = s1
  s2 = s2
  Nil = Nil
  Targets <- MCTargets
  Sources <- MCSources
  LateBind = TRUE
  Grace = 1
  MaxConnects = 2
  MaxFaults = 1
SPECIFICATION PeeringSpec
CHECK_DEADLOCK FALSE
INVARIANT RecordHonest

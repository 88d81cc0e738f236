SPECIFICATION FairDesiredSpec
CONSTANTS
  vip = vip
  l4_route = l4_route
  Stores = {vip, l4_route}
  Order <- MCOrder
  Values = {"none", "a", "b"}
  Empty = "none"
  NoFile = NoFile
  Torn = Torn
  Faults = {"kill", "stop", "writeError"}
  MaxChanges = 3
  MaxFaults = 2
INVARIANTS
  DesiredTypeOK
  LossBounded
PROPERTIES
  Durable
CHECK_DEADLOCK FALSE

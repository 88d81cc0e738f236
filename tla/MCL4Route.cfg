CONSTANTS
  r1 = r1
  r2 = r2
  tcp1 = tcp1
  w1 = w1
  w2 = w2
  a1 = a1
  a2 = a2
  o1 = o1
  o2 = o2
  Nil = Nil
  Names <- MCNames
  Ports <- MCPorts
  Nodes <- MCNodes
  Addrs <- MCAddrs
  Objects <- MCObjects
  MaxOps = 2
  MaxMoves = 2
  MaxConnects = 2
  MaxFailures = 1
SPECIFICATION RouteSpec
INVARIANTS
  RouteTypeOK
  RoutesHonest
  OneDestination
PROPERTY RoutesConverge
CHECK_DEADLOCK FALSE

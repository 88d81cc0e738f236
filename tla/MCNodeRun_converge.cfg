SPECIFICATION FairJoinedSpec
CONSTANTS
  n1 = n1
  n2 = n2
  p1 = p1
  p2 = p2
  None = None
  Names <- OneNode
  Peers <- BothPeers
  CN <- OneNodeCN
  Connected <- FirstPeer
  Late <- SecondPeer
  Callbacks <- MainCallbacks
  OnConnect <- MainOnConnect
  OnDisconnect <- MainOnDisconnect
  MaxAttempts = 2
  Faults <- AllFaults
  MaxFaults = 1
  MaxDeclares = 1
  MaxForces = 0
  MaxDeletes = 0
INVARIANTS
  TypeOK
  SettleCovers
PROPERTIES
  Converges
  ErrorsClear

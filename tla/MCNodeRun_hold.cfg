SPECIFICATION JoinedSpec
CONSTANTS
  n1 = n1
  n2 = n2
  p1 = p1
  p2 = p2
  None = None
  Names <- OneNode
  Peers <- BothPeers
  CN <- OneNodeCN
  Connected <- FirstPeer
  Late = {}
  Callbacks <- MainCallbacks
  OnConnect <- MainOnConnect
  OnDisconnect <- MainOnDisconnect
  MaxAttempts = 2
  Faults = {"push", "slow", "config", "dataplane"}
  MaxFaults = 3
  MaxDeclares = 3
  MaxForces = 1
  MaxDeletes = 1
INVARIANTS
  HoldEarned
  HoldStops
  SettleCovers

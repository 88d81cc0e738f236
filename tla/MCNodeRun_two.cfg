SPECIFICATION FairJoinedSpec
CONSTANTS
  n1 = n1
  n2 = n2
  p1 = p1
  p2 = p2
  None = None
  Names <- TwoNodes
  Peers <- BothPeers
  CN <- TwoNodesCN
  Connected <- BothPeers
  Late = {}
  Callbacks <- MainCallbacks
  OnConnect <- MainOnConnect
  OnDisconnect <- MainOnDisconnect
  MaxAttempts = 1
  Faults = {}
  MaxFaults = 0
  MaxDeclares = 2
  MaxForces = 0
  MaxDeletes = 0
PROPERTIES
  Converges

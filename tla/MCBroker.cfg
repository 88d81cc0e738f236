SPECIFICATION FairBrokerSpec
CONSTANTS
  n1 = n1
  n2 = n2
  p1 = p1
  p2 = p2
  p3 = p3
  q1 = q1
  None = None
  Names <- MCNames
  Peers <- MCPeers
  CN <- MCCN
  Callbacks <- MCCallbacks
  OnConnect <- MCOnConnect
  OnDisconnect <- MCOnDisconnect
INVARIANTS
  BrokerTypeOK
  OneEntryPerNode
  NoOrphan
PROPERTIES
  ImplementsInventory
  DeadEntriesLeave
  SupersededEnd

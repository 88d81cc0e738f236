SPECIFICATION WasmSpec
CONSTANTS
  n1 = n1
  p1 = p1
  p2 = p2
  m1 = m1
  m2 = m2
  A = A
  B = B
  k1 = k1
  k2 = k2
  None = None
  Names <- MCNames
  Peers <- MCPeers
  CN <- MCCN
  Callbacks <- MCCallbacks
  OnConnect <- MCOnConnect
  OnDisconnect <- MCOnDisconnect
  Workers = {"w1"}
  Ids <- MCIds
  Specs = {A, B}
  Keys = {k1, k2}
  KeysOf <- MCKeysOf
  MaxChanges = 2
  MaxFaults = 1
INVARIANTS
  WasmTypeOK
  InSync
  IndexSound
SYMMETRY MCSymmetry
CHECK_DEADLOCK FALSE

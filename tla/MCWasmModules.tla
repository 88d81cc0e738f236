--------------------------- MODULE MCWasmModules ---------------------------
(* One node with the two connections a reconnect can overlap, and requests *)
(* that run beside each other.  A and B are two declarations that share an *)
(* entry of the routing index.                                             *)
EXTENDS WasmModules, TLC

CONSTANTS n1, p1, p2, m1, m2, A, B, k1, k2

MCNames == {n1}
MCPeers == {p1, p2}
MCCN == [p \in MCPeers |-> n1]
MCCallbacks == {"push", "find", "clear"}
MCOnConnect == <<"push">>
MCOnDisconnect == <<"find", "clear">>
MCIds == {m1, m2}
MCKeysOf == [s \in {A, B} |-> IF s = A THEN {k1} ELSE {k1, k2}]

(* Connections are alike, and so are module ids. *)
MCSymmetry == Permutations(MCPeers) \cup Permutations(MCIds)
=============================================================================

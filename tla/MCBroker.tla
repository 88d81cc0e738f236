------------------------------ MODULE MCBroker ------------------------------
(* Three connections of one node and one of another: two may overlap while *)
(* a third comes, next to a node that must not be disturbed.               *)
EXTENDS Broker

CONSTANTS n1, n2, p1, p2, p3, q1

MCNames == {n1, n2}
MCPeers == {p1, p2, p3, q1}
MCCN == [p \in MCPeers |-> IF p = q1 THEN n2 ELSE n1]
MCCallbacks == {"connected", "gone"}
MCOnConnect == <<"connected", "connected">>
MCOnDisconnect == <<"gone", "gone">>
=============================================================================

------------------------------ MODULE MCL4Route ------------------------------
(* Two routes with one port to two nodes, for TLC.                         *)
EXTENDS L4Route, TLC

CONSTANTS r1, r2, tcp1, w1, w2, a1, a2, o1, o2

MCNames == {r1, r2}
MCPorts == {tcp1}
MCNodes == {w1, w2}
MCAddrs == {a1, a2}
MCObjects == {o1, o2}
=============================================================================

----------------------------- MODULE MCNodeRun -----------------------------
(* Instances of NodeRun: one node with the two connections a reconnect can *)
(* overlap, or two nodes with one connection each, which one evaluation    *)
(* serves from one snapshot.                                               *)
EXTENDS NodeRun, FiniteSets, TLC

CONSTANTS n1, n2, p1, p2,
          Connected,  \* the peers an instance starts with
          Late        \* peers whose link may have broken before their Add ran

OneNode == {n1}
OneNodeCN == (p1 :> n1) @@ (p2 :> n1)

TwoNodes == {n1, n2}
TwoNodesCN == (p1 :> n1) @@ (p2 :> n2)

BothPeers == {p1, p2}
FirstPeer == {p1}
SecondPeer == {p2}

MainCallbacks == {"stats", "config", "reset", "evaluate", "find", "clear", "forget"}
MainOnConnect == <<"stats", "config", "reset", "evaluate">>
MainOnDisconnect == <<"find", "clear", "forget">>

AllFaults == FaultKinds

JoinedInit == \E late \in SUBSET Late : Joined(Connected, late, Cardinality(late))

JoinedSpec == JoinedInit /\ [][Next]_vars
FairJoinedSpec == JoinedSpec /\ Fairness
=============================================================================

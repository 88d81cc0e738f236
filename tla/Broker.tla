------------------------------- MODULE Broker -------------------------------
(***************************************************************************)
(* The control plane's inventory of connected dataplane agents             *)
(* (src/dpbroker/broker.go).  Each accepted connection is registered by    *)
(* Add, whose OnConnect callbacks run outside the broker's lock, in order; *)
(* a watcher started after them calls Remove once the connection is done.  *)
(* Add drops the entry an earlier connection of the same node left behind  *)
(* and closes that connection from a goroutine of its own.                 *)
(*                                                                         *)
(* A step of this module is one critical section of the broker, one call   *)
(* of a registered callback, or one event of a connection.  The dp type of *)
(* a connection is a function of its CommonName (the certificate carries   *)
(* both), so the per-type buckets of Broker.nodes are one set here.  A     *)
(* connection's identity is used again once nothing refers to it, so that  *)
(* finitely many identities stand for any number of reconnects.            *)
(***************************************************************************)
EXTENDS Naturals, Sequences

CONSTANTS Names,         \* CommonNames of the dataplane nodes
          Peers,         \* identities of their connections
          CN,            \* CN[p]: the CommonName p authenticated with
          None,          \* a value that is no peer
          Callbacks,     \* names of the registered callbacks
          OnConnect,     \* Broker.onConnect, in registration order
          OnDisconnect   \* Broker.onDisconnect, in registration order

ASSUME BrokerAssumption ==
  /\ CN \in [Peers -> Names]
  /\ None \notin Peers
  /\ OnConnect \in Seq(Callbacks) /\ OnConnect # <<>>
  /\ OnDisconnect \in Seq(Callbacks) /\ OnDisconnect # <<>>

VARIABLES
  nodes,    \* the peers in Broker.nodes
  conn,     \* the control plane's end of each connection: "open" or "closed"
  phase,    \* how far the goroutines serving a peer have come
  calls,    \* callbacks a peer's Add or Remove still has to run
  closing   \* superseded peers whose Close goroutine has not run

brokerVars == <<nodes, conn, phase, calls, closing>>

Phases == {"idle", "accepted", "connecting", "watching", "disconnecting"}

BrokerTypeOK ==
  /\ nodes \in SUBSET Peers
  /\ conn \in [Peers -> {"open", "closed"}]
  /\ phase \in [Peers -> Phases]
  /\ calls \in [Peers -> Seq(Callbacks)]
  /\ closing \in SUBSET Peers

BrokerInit ==
  /\ nodes = {}
  /\ conn = [p \in Peers |-> "closed"]
  /\ phase = [p \in Peers |-> "idle"]
  /\ calls = [p \in Peers |-> <<>>]
  /\ closing = {}

SameNode(p) == {q \in Peers : CN[q] = CN[p]}

(* Broker.Find: the peers a scan over the inventory ps may return for n. *)
Matching(ps, n) == {p \in ps : CN[p] = n}
Found(n) == Matching(nodes, n)

-----------------------------------------------------------------------------
(* The server authenticated a new connection and wrapped it in a peer. *)
Accept(p) ==
  /\ phase[p] = "idle"
  /\ conn[p] = "closed"
  /\ p \notin closing
  /\ conn' = [conn EXCEPT ![p] = "open"]
  /\ phase' = [phase EXCEPT ![p] = "accepted"]
  /\ UNCHANGED <<nodes, calls, closing>>

(* The connection dies: transport error, close by the agent, or no pong    *)
(* within the liveness timeout.                                            *)
ConnectionDone(p) ==
  /\ conn[p] = "open"
  /\ conn' = [conn EXCEPT ![p] = "closed"]
  /\ UNCHANGED <<nodes, phase, calls, closing>>

(* Faulty variants, named Bad..., each break one property stated below.    *)
BadAddKeepsOld(p) ==
  /\ phase[p] = "accepted"
  /\ nodes' = nodes \cup {p}
  /\ calls' = [calls EXCEPT ![p] = OnConnect]
  /\ phase' = [phase EXCEPT ![p] = "connecting"]
  /\ UNCHANGED <<conn, closing>>

BadAddLeavesOpen(p) ==
  /\ phase[p] = "accepted"
  /\ nodes' = (nodes \ SameNode(p)) \cup {p}
  /\ calls' = [calls EXCEPT ![p] = OnConnect]
  /\ phase' = [phase EXCEPT ![p] = "connecting"]
  /\ UNCHANGED <<conn, closing>>

(* Add up to the unlock: the entry goes in, older entries of the same node *)
(* go out and are left to their Close goroutines.                          *)
Add(p) ==
  LET superseded == nodes \cap SameNode(p)
  IN /\ phase[p] = "accepted"
     /\ nodes' = (nodes \ superseded) \cup {p}
     /\ closing' = closing \cup superseded
     /\ calls' = [calls EXCEPT ![p] = OnConnect]
     /\ phase' = [phase EXCEPT ![p] = "connecting"]
     /\ UNCHANGED conn

(* One callback of Add returns; after the last one Add starts the watcher. *)
CallOnConnect(p) ==
  /\ phase[p] = "connecting"
  /\ calls[p] # <<>>
  /\ calls' = [calls EXCEPT ![p] = Tail(@)]
  /\ phase' = [phase EXCEPT ![p] = IF Tail(calls[p]) = <<>> THEN "watching" ELSE @]
  /\ UNCHANGED <<nodes, conn, closing>>

(* The goroutine Add started for a superseded connection closes it. *)
CloseSuperseded(p) ==
  /\ p \in closing
  /\ closing' = closing \ {p}
  /\ conn' = [conn EXCEPT ![p] = "closed"]
  /\ UNCHANGED <<nodes, phase, calls>>

BadRemoveByName(p) ==
  /\ phase[p] = "watching" /\ conn[p] = "closed"
  /\ nodes' = nodes \ SameNode(p)
  /\ phase' = [phase EXCEPT ![p] = "disconnecting"]
  /\ calls' = [calls EXCEPT ![p] = OnDisconnect]
  /\ UNCHANGED <<conn, closing>>

BadRemoveForgets(p) ==
  /\ phase[p] = "watching" /\ conn[p] = "closed"
  /\ phase' = [phase EXCEPT ![p] = "disconnecting"]
  /\ calls' = [calls EXCEPT ![p] = OnDisconnect]
  /\ UNCHANGED <<nodes, conn, closing>>

BadRemoveOnlyFound(p) ==
  /\ phase[p] = "watching" /\ conn[p] = "closed" /\ p \in nodes
  /\ nodes' = nodes \ {p}
  /\ phase' = [phase EXCEPT ![p] = "disconnecting"]
  /\ calls' = [calls EXCEPT ![p] = OnDisconnect]
  /\ UNCHANGED <<conn, closing>>

BadRemoveNoReset(p) ==
  /\ phase[p] = "watching" /\ conn[p] = "closed"
  /\ nodes' = nodes \ {p}
  /\ phase' = [phase EXCEPT ![p] = "removed"]
  /\ UNCHANGED <<conn, calls, closing>>

(* Remove up to the unlock.  A superseded peer is not found: no callbacks. *)
Remove(p) ==
  /\ phase[p] = "watching"
  /\ conn[p] = "closed"
  /\ nodes' = nodes \ {p}
  /\ IF p \in nodes
     THEN /\ phase' = [phase EXCEPT ![p] = "disconnecting"]
          /\ calls' = [calls EXCEPT ![p] = OnDisconnect]
     ELSE /\ phase' = [phase EXCEPT ![p] = "idle"]
          /\ UNCHANGED calls
  /\ UNCHANGED <<conn, closing>>

CallOnDisconnect(p) ==
  /\ phase[p] = "disconnecting"
  /\ calls[p] # <<>>
  /\ calls' = [calls EXCEPT ![p] = Tail(@)]
  /\ phase' = [phase EXCEPT ![p] = IF Tail(calls[p]) = <<>> THEN "idle" ELSE @]
  /\ UNCHANGED <<nodes, conn, closing>>

-----------------------------------------------------------------------------
BrokerNext ==
  \E p \in Peers :
    \/ Accept(p) \/ ConnectionDone(p)
    \/ Add(p) \/ CallOnConnect(p) \/ CloseSuperseded(p)
    \/ Remove(p) \/ CallOnDisconnect(p)

BrokerSpec == BrokerInit /\ [][BrokerNext]_brokerVars

(* The goroutines of the broker keep running; nothing is assumed about     *)
(* when connections come or die.                                           *)
BrokerFairness ==
  \A p \in Peers :
    /\ WF_brokerVars(Add(p))
    /\ WF_brokerVars(CallOnConnect(p))
    /\ WF_brokerVars(CloseSuperseded(p))
    /\ WF_brokerVars(Remove(p))
    /\ WF_brokerVars(CallOnDisconnect(p))

FairBrokerSpec == BrokerSpec /\ BrokerFairness

-----------------------------------------------------------------------------
(* A node is in the inventory at most once, however its reconnects overlap *)
(* with the callbacks of its earlier connections (Add's superseding scan). *)
OneEntryPerNode ==
  \A p, q \in nodes : CN[p] = CN[q] => p = q

Served == {"connecting", "watching"}

(* No connection the broker took over is forgotten while it is up: it is   *)
(* in the inventory, or its replacement is about to close it.              *)
NoOrphan ==
  \A p \in Peers :
    phase[p] \in Served /\ conn[p] = "open" => p \in nodes \cup closing

(* The inventory only ever holds live nodes, as far as a callback loop     *)
(* allows: the entry of a dead connection is gone eventually.              *)
DeadEntriesLeave ==
  \A p \in Peers : (p \in nodes /\ conn[p] = "closed") ~> p \notin nodes

(* A superseded connection is torn down, and its watcher ends with it.     *)
SupersededEnd ==
  \A p \in Peers : p \in closing ~> phase[p] \notin Served

(* The inventory as its users see it through Find. *)
CurrentOf(ps) ==
  [n \in Names |-> IF Matching(ps, n) = {} THEN None
                                          ELSE CHOOSE p \in Matching(ps, n) : TRUE]

Inv == INSTANCE Inventory WITH open <- {p \in Peers : conn[p] = "open"},
                               current <- CurrentOf(nodes)

(* The broker implements the inventory: no interleaving of Add, Remove and *)
(* the superseding Close drops the entry of an open connection.            *)
ImplementsInventory == Inv!Spec
=============================================================================

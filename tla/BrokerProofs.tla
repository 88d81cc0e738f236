---------------------------- MODULE BrokerProofs ----------------------------
(***************************************************************************)
(* Machine-checked proofs about Broker, for every set of connections and   *)
(* every list of callbacks.                                                *)
(***************************************************************************)
EXTENDS Broker, SequenceTheorems, TLAPS

(* An entry's callbacks or its watcher are still there to take it out. *)
EntriesServed == \A p \in nodes : phase[p] \in Served

(* A superseded connection has left the inventory and is no new one. *)
ClosingLeft == \A p \in closing : p \notin nodes /\ phase[p] # "accepted"

(* The inductive invariant: the two properties checked by TLC need to know *)
(* that an entry is served and that a superseded peer never comes back.    *)
BrokerInv ==
  /\ BrokerTypeOK
  /\ OneEntryPerNode
  /\ NoOrphan
  /\ EntriesServed
  /\ ClosingLeft

LEMMA BrokerInitInv == BrokerInit => BrokerInv
  BY BrokerAssumption
  DEF BrokerInit, BrokerInv, BrokerTypeOK, OneEntryPerNode, NoOrphan,
      EntriesServed, ClosingLeft, Phases, Served

(* Callback lists stay sequences of callbacks as they are consumed. *)
LEMMA CallsType ==
  ASSUME BrokerTypeOK, NEW p \in Peers, calls[p] # <<>>
  PROVE  [calls EXCEPT ![p] = Tail(@)] \in [Peers -> Seq(Callbacks)]
  <1>1. calls[p] \in Seq(Callbacks)
    BY DEF BrokerTypeOK
  <1>2. Tail(calls[p]) \in Seq(Callbacks)
    BY <1>1
  <1> QED
    BY <1>2 DEF BrokerTypeOK

LEMMA BrokerTypeStep == BrokerTypeOK /\ [BrokerNext]_brokerVars => BrokerTypeOK'
  <1> SUFFICES ASSUME BrokerTypeOK, [BrokerNext]_brokerVars
               PROVE  BrokerTypeOK'
    OBVIOUS
  <1> USE DEF BrokerTypeOK, Phases
  <1>1. ASSUME NEW p \in Peers, Accept(p)
        PROVE  BrokerTypeOK'
    BY <1>1 DEF Accept
  <1>2. ASSUME NEW p \in Peers, ConnectionDone(p)
        PROVE  BrokerTypeOK'
    BY <1>2 DEF ConnectionDone
  <1>3. ASSUME NEW p \in Peers, Add(p)
        PROVE  BrokerTypeOK'
    BY <1>3, BrokerAssumption DEF Add, SameNode
  <1>4. ASSUME NEW p \in Peers, CallOnConnect(p)
        PROVE  BrokerTypeOK'
    <2>1. calls' \in [Peers -> Seq(Callbacks)]
      BY <1>4, CallsType DEF CallOnConnect
    <2> QED
      BY <1>4, <2>1 DEF CallOnConnect
  <1>5. ASSUME NEW p \in Peers, CloseSuperseded(p)
        PROVE  BrokerTypeOK'
    BY <1>5 DEF CloseSuperseded
  <1>6. ASSUME NEW p \in Peers, Remove(p)
        PROVE  BrokerTypeOK'
    BY <1>6, BrokerAssumption DEF Remove
  <1>7. ASSUME NEW p \in Peers, CallOnDisconnect(p)
        PROVE  BrokerTypeOK'
    <2>1. calls' \in [Peers -> Seq(Callbacks)]
      BY <1>7, CallsType DEF CallOnDisconnect
    <2> QED
      BY <1>7, <2>1 DEF CallOnDisconnect
  <1>8. CASE UNCHANGED brokerVars
    BY <1>8 DEF brokerVars
  <1> QED
    BY <1>1, <1>2, <1>3, <1>4, <1>5, <1>6, <1>7, <1>8 DEF BrokerNext

LEMMA BrokerInvStep == BrokerInv /\ [BrokerNext]_brokerVars => BrokerInv'
  <1> SUFFICES ASSUME BrokerInv, [BrokerNext]_brokerVars
               PROVE  BrokerInv'
    OBVIOUS
  <1>0. BrokerTypeOK'
    BY BrokerTypeStep DEF BrokerInv
  <1> DEFINE Rest == OneEntryPerNode /\ NoOrphan /\ EntriesServed /\ ClosingLeft
  <1> USE DEF BrokerInv, BrokerTypeOK, OneEntryPerNode, NoOrphan,
              EntriesServed, ClosingLeft, Served
  <1>1. ASSUME NEW p \in Peers, Accept(p)
        PROVE  Rest'
    BY <1>1 DEF Accept
  <1>2. ASSUME NEW p \in Peers, ConnectionDone(p)
        PROVE  Rest'
    BY <1>2 DEF ConnectionDone
  <1>3. ASSUME NEW p \in Peers, Add(p)
        PROVE  Rest'
    <2>1. /\ nodes' = (nodes \ (nodes \cap SameNode(p))) \cup {p}
          /\ closing' = closing \cup (nodes \cap SameNode(p))
          /\ phase' = [phase EXCEPT ![p] = "connecting"]
          /\ conn' = conn
          /\ phase[p] = "accepted"
      BY <1>3 DEF Add
    <2>2. OneEntryPerNode'
      BY <2>1 DEF SameNode
    <2>3. NoOrphan'
      BY <2>1
    <2>4. EntriesServed'
      BY <2>1
    <2>5. ClosingLeft'
      BY <2>1 DEF SameNode
    <2> QED
      BY <2>2, <2>3, <2>4, <2>5
  <1>4. ASSUME NEW p \in Peers, CallOnConnect(p)
        PROVE  Rest'
    BY <1>4 DEF CallOnConnect
  <1>5. ASSUME NEW p \in Peers, CloseSuperseded(p)
        PROVE  Rest'
    BY <1>5 DEF CloseSuperseded
  <1>6. ASSUME NEW p \in Peers, Remove(p)
        PROVE  Rest'
    BY <1>6 DEF Remove
  <1>7. ASSUME NEW p \in Peers, CallOnDisconnect(p)
        PROVE  Rest'
    BY <1>7 DEF CallOnDisconnect
  <1>8. CASE UNCHANGED brokerVars
    BY <1>8 DEF brokerVars
  <1> QED
    BY <1>0, <1>1, <1>2, <1>3, <1>4, <1>5, <1>6, <1>7, <1>8 DEF BrokerNext

LEMMA BrokerInvariant == BrokerSpec => []BrokerInv
  BY BrokerInitInv, BrokerInvStep, PTL DEF BrokerSpec

(* Every state of the broker is well typed, whatever the callbacks are. *)
THEOREM BrokerTypeCorrect == BrokerSpec => []BrokerTypeOK
  BY BrokerInvariant, PTL DEF BrokerInv

(* However reconnects overlap, Broker.nodes holds one entry per node. *)
THEOREM BrokerOneEntry == BrokerSpec => []OneEntryPerNode
  BY BrokerInvariant, PTL DEF BrokerInv

(* No connection handed to Add is left open, outside the inventory and     *)
(* with nobody about to close it.                                          *)
THEOREM BrokerNoOrphan == BrokerSpec => []NoOrphan
  BY BrokerInvariant, PTL DEF BrokerInv

-----------------------------------------------------------------------------
(* The broker implements the inventory.                                    *)

(* With one entry per node, Find returns exactly that entry. *)
LEMMA CurrentIs ==
  ASSUME NEW ps \in SUBSET Peers, \A p, q \in ps : CN[p] = CN[q] => p = q,
         NEW p \in ps
  PROVE  CurrentOf(ps)[CN[p]] = p
  <1>1. CN[p] \in Names /\ p \in Matching(ps, CN[p])
    BY BrokerAssumption DEF Matching
  <1>2. \A q \in Matching(ps, CN[p]) : q = p
    BY DEF Matching
  <1> QED
    BY <1>1, <1>2 DEF CurrentOf

LEMMA CurrentNone ==
  ASSUME NEW ps, NEW n \in Names, \A p \in ps : CN[p] # n
  PROVE  CurrentOf(ps)[n] = None
  BY DEF CurrentOf, Matching

(* Changing the entry of one node leaves what Find says of the others. *)
LEMMA CurrentElsewhere ==
  ASSUME NEW ps \in SUBSET Peers, \A p, q \in ps : CN[p] = CN[q] => p = q,
         NEW qs \in SUBSET Peers, \A p, q \in qs : CN[p] = CN[q] => p = q,
         NEW n \in Names,
         \A p \in Peers : CN[p] = n => (p \in ps <=> p \in qs)
  PROVE  CurrentOf(qs)[n] = CurrentOf(ps)[n]
  <1>1. CASE \E p \in ps : CN[p] = n
    <2>1. PICK p \in ps : CN[p] = n
      BY <1>1
    <2>2. CurrentOf(ps)[CN[p]] = p
      BY CurrentIs
    <2>3. p \in qs
      BY <2>1
    <2>4. CurrentOf(qs)[CN[p]] = p
      BY <2>3, CurrentIs
    <2> QED
      BY <2>1, <2>2, <2>4
  <1>2. CASE \A p \in ps : CN[p] # n
    <2>1. \A p \in qs : CN[p] # n
      BY <1>2
    <2> QED
      BY <1>2, <2>1, CurrentNone
  <1> QED
    BY <1>1, <1>2

LEMMA BrokerRefinesStep ==
  BrokerInv /\ BrokerInv' /\ [BrokerNext]_brokerVars => [Inv!Next]_(Inv!invVars)
  <1> SUFFICES ASSUME BrokerInv, BrokerInv', [BrokerNext]_brokerVars
               PROVE  [Inv!Next]_(Inv!invVars)
    OBVIOUS
  <1> DEFINE Open == {p \in Peers : conn[p] = "open"}
  <1> USE DEF Inv!Next, Inv!invVars
  <1>0. /\ nodes \in SUBSET Peers /\ \A p, q \in nodes : CN[p] = CN[q] => p = q
        /\ nodes' \in SUBSET Peers /\ \A p, q \in nodes' : CN[p] = CN[q] => p = q
    BY DEF BrokerInv, BrokerTypeOK, OneEntryPerNode
  <1>1. ASSUME NEW p \in Peers, Accept(p)
        PROVE  Inv!Up(p)
    <2>1. Open' = Open \cup {p} /\ nodes' = nodes
      BY <1>1 DEF Accept, BrokerInv, BrokerTypeOK
    <2> QED
      BY <2>1 DEF Inv!Up
  <1>2. ASSUME NEW p \in Peers, ConnectionDone(p) \/ CloseSuperseded(p)
        PROVE  Inv!Down(p)
    <2>1. Open' = Open \ {p} /\ nodes' = nodes
      BY <1>2 DEF ConnectionDone, CloseSuperseded, BrokerInv, BrokerTypeOK
    <2> QED
      BY <2>1 DEF Inv!Down
  <1>3. ASSUME NEW p \in Peers, Add(p)
        PROVE  Inv!Join(p)
    <2>1. nodes' = (nodes \ SameNode(p)) \cup {p} /\ Open' = Open
      BY <1>3 DEF Add
    <2>2. ASSUME NEW n \in Names
          PROVE  CurrentOf(nodes')[n] = [CurrentOf(nodes) EXCEPT ![CN[p]] = p][n]
      <3>1. CASE n = CN[p]
        <4>1. CurrentOf(nodes')[CN[p]] = p
          BY <1>0, <2>1, CurrentIs
        <4> QED
          BY <3>1, <4>1 DEF CurrentOf
      <3>2. CASE n # CN[p]
        <4>1. CurrentOf(nodes')[n] = CurrentOf(nodes)[n]
          <5>1. \A q \in Peers : CN[q] = n => (q \in nodes <=> q \in nodes')
            BY <2>1, <3>2 DEF SameNode
          <5> QED
            BY <1>0, <5>1, CurrentElsewhere
        <4> QED
          BY <3>2, <4>1 DEF CurrentOf
      <3> QED
        BY <3>1, <3>2
    <2>3. CurrentOf(nodes') = [CurrentOf(nodes) EXCEPT ![CN[p]] = p]
      BY <2>2 DEF CurrentOf
    <2> QED
      BY <2>1, <2>3 DEF Inv!Join
  <1>4. ASSUME NEW p \in Peers, Remove(p), p \in nodes
        PROVE  Inv!Leave(p)
    <2>1. nodes' = nodes \ {p} /\ Open' = Open /\ p \notin Open
      BY <1>4 DEF Remove
    <2>2. CurrentOf(nodes)[CN[p]] = p
      BY <1>0, <1>4, CurrentIs
    <2>3. ASSUME NEW n \in Names
          PROVE  CurrentOf(nodes')[n] = [CurrentOf(nodes) EXCEPT ![CN[p]] = None][n]
      <3>1. CASE n = CN[p]
        <4>1. \A q \in nodes' : CN[q] # n
          BY <1>0, <1>4, <2>1, <3>1
        <4>2. CurrentOf(nodes')[n] = None
          BY <4>1, CurrentNone
        <4> QED
          BY <3>1, <4>2 DEF CurrentOf
      <3>2. CASE n # CN[p]
        <4>1. CurrentOf(nodes')[n] = CurrentOf(nodes)[n]
          <5>1. \A q \in Peers : CN[q] = n => (q \in nodes <=> q \in nodes')
            BY <2>1, <3>2
          <5> QED
            BY <1>0, <5>1, CurrentElsewhere
        <4> QED
          BY <3>2, <4>1 DEF CurrentOf
      <3> QED
        BY <3>1, <3>2
    <2>4. CurrentOf(nodes') = [CurrentOf(nodes) EXCEPT ![CN[p]] = None]
      BY <2>3 DEF CurrentOf
    <2> QED
      BY <2>1, <2>2, <2>4 DEF Inv!Leave
  <1>5. ASSUME NEW p \in Peers,
               \/ Remove(p) /\ p \notin nodes
               \/ CallOnConnect(p) \/ CallOnDisconnect(p)
        PROVE  UNCHANGED Inv!invVars
    <2>1. CASE Remove(p) /\ p \notin nodes
      BY <2>1 DEF Remove, BrokerInv, BrokerTypeOK, Inv!invVars
    <2>2. CASE CallOnConnect(p) \/ CallOnDisconnect(p)
      BY <2>2 DEF CallOnConnect, CallOnDisconnect, Inv!invVars
    <2> QED
      BY <1>5, <2>1, <2>2
  <1>6. CASE UNCHANGED brokerVars
    BY <1>6 DEF brokerVars
  <1> QED
    BY <1>1, <1>2, <1>3, <1>4, <1>5, <1>6 DEF BrokerNext

(* Add, Remove and the superseding Close together behave as an inventory   *)
(* from which only dead connections leave (Broker.Add, Broker.Remove).     *)
THEOREM BrokerImplementsInventory == BrokerSpec => ImplementsInventory
  <1>1. BrokerInit => Inv!Init
    BY BrokerAssumption DEF BrokerInit, Inv!Init, CurrentOf, Matching
  <1> QED
    BY <1>1, BrokerInvariant, BrokerRefinesStep, PTL
    DEF BrokerSpec, ImplementsInventory, Inv!Spec
=============================================================================

----------------------------- MODULE WasmProofs -----------------------------
(***************************************************************************)
(* Proofs about WasmModules, for any number of nodes, connections,         *)
(* requests, modules and failures: type correctness, that the routing      *)
(* index of a node never names a module that does not serve the entry, and *)
(* that a quiet, cleanly pushed node holds exactly the desired modules.    *)
(***************************************************************************)
EXTENDS WasmModules, BrokerProofs

Calling == {"register", "list", "unregister"}

(* A pusher that is about to call somebody has a peer to call. *)
PeerKnown == \A x \in Pushers : pc[x] \in Calling => peer[x] \in Peers

WasmInv == WasmTypeOK /\ PeerKnown /\ IndexSound

(* A node's registry and index agree. *)
IndexOf(modules, ix) ==
  \A k \in Keys : ix[k] # None => /\ modules[ix[k]] # None
                                  /\ k \in KeysOf[modules[ix[k]]]

(* Every step is one of the broker, or leaves the broker alone. *)
LEMMA WasmBrokerStep == [WasmNext]_wasmVars => [BrokerNext]_brokerVars
<1> SUFFICES ASSUME [WasmNext]_wasmVars
             PROVE  [BrokerNext]_brokerVars
  OBVIOUS
<1>1. ASSUME NEW w \in Workers, Request(w)
      PROVE  UNCHANGED brokerVars
  BY <1>1 DEF Request, Apply, Delete, Change
<1>2. ASSUME NEW x \in Pushers, PushStep(x)
      PROVE  [BrokerNext]_brokerVars
  <2>1. CASE Record(x)
    <3>1. CASE x \in Workers
      BY <2>1, <3>1 DEF Record
    <3>2. CASE x \notin Workers
      BY <2>1, <3>2 DEF Record, Pushers, BrokerNext
    <3>3. QED
      BY <3>1, <3>2
  <2>2. CASE ~Record(x)
    BY <1>2, <2>2 DEF PushStep, CallRegister, CallUnregister, AnswerLost, Reread,
                      CallListAttached
  <2>3. QED
    BY <2>1, <2>2
<1>3. ASSUME NEW w \in Workers, WorkerStep(w)
      PROVE  [BrokerNext]_brokerVars
  BY <1>2, <1>3 DEF WorkerStep, ListPeers, Return, PushNext, Begin, Pushers
<1>4. ASSUME NEW p \in Peers, PeerStep(p)
      PROVE  [BrokerNext]_brokerVars
  BY <1>2, <1>4 DEF PeerStep, PushConnected, Begin, OnFind, OnClear, BrokerStep,
                    Pushers, BrokerNext
<1>5. ASSUME NEW p \in Peers,
             LinkLost(p) \/ PeerDead(p) \/ AgentNotices(p) \/ Connect(p)
      PROVE  [BrokerNext]_brokerVars
  BY <1>5 DEF LinkLost, PeerDead, AgentNotices, Connect, BrokerNext
<1>6. ASSUME NEW n \in Names, AgentRestarts(n)
      PROVE  UNCHANGED brokerVars
  BY <1>6 DEF AgentRestarts
<1>7. CASE UNCHANGED wasmVars
  BY <1>7 DEF wasmVars
<1>8. QED
  BY <1>1, <1>3, <1>4, <1>5, <1>6, <1>7 DEF WasmNext

(* Register of a module that is not there as declared: its former entries  *)
(* go, and the entries it serves now name it, whoever they named before.   *)
LEMMA WithSound ==
  ASSUME NEW modules \in Modules, NEW ix \in Index, IndexOf(modules, ix),
         NEW i \in Ids, NEW s \in Specs
  PROVE  /\ With(ix, i, modules[i], s) \in Index
         /\ IndexOf([modules EXCEPT ![i] = s], With(ix, i, modules[i], s))
<1> DEFINE after == [modules EXCEPT ![i] = s]
           new == With(ix, i, modules[i], s)
<1>0. None \notin Specs /\ None \notin Ids
  BY WasmAssumption
<1>1. after \in Modules /\ new \in Index
  BY DEF With, Without, Modules, Index
<1>2. ASSUME NEW k \in Keys, new[k] # None
      PROVE  after[new[k]] # None /\ k \in KeysOf[after[new[k]]]
  <2>1. CASE k \in KeysOf[s]
    BY <1>0, <2>1 DEF With, Modules
  <2>2. CASE k \notin KeysOf[s]
    <3>1. /\ new[k] = ix[k] /\ ix[k] # None
          /\ ~(modules[i] # None /\ k \in KeysOf[modules[i]])
      BY <1>2, <2>2 DEF With, Without
    <3>2. ix[k] # i /\ ix[k] \in Ids
      BY <3>1 DEF IndexOf, Index
    <3>3. after[ix[k]] = modules[ix[k]]
      BY <3>2 DEF Modules
    <3>4. QED
      BY <3>1, <3>3 DEF IndexOf
  <2>3. QED
    BY <2>1, <2>2
<1>3. QED
  BY <1>1, <1>2 DEF IndexOf

(* Unregister: its entries go with it. *)
LEMMA WithoutSound ==
  ASSUME NEW modules \in Modules, NEW ix \in Index, IndexOf(modules, ix),
         NEW i \in Ids
  PROVE  /\ Without(ix, modules[i]) \in Index
         /\ IndexOf([modules EXCEPT ![i] = None], Without(ix, modules[i]))
<1> DEFINE after == [modules EXCEPT ![i] = None]
           new == Without(ix, modules[i])
<1>1. new \in Index
  BY DEF Without, Index
<1>2. ASSUME NEW k \in Keys, new[k] # None
      PROVE  after[new[k]] # None /\ k \in KeysOf[after[new[k]]]
  <2>1. /\ new[k] = ix[k] /\ ix[k] # None
        /\ ~(modules[i] # None /\ k \in KeysOf[modules[i]])
    BY <1>2 DEF Without
  <2>2. ix[k] # i /\ ix[k] \in Ids
    BY <2>1 DEF IndexOf, Index
  <2>3. after[ix[k]] = modules[ix[k]]
    BY <2>2 DEF Modules
  <2>4. QED
    BY <2>1, <2>3 DEF IndexOf
<1>3. QED
  BY <1>1, <1>2 DEF IndexOf

(* The registries and the indexes of all nodes. *)
EdgeOK ==
  /\ reg \in [Names -> Modules] /\ index \in [Names -> Index]
  /\ \A n \in Names : IndexOf(reg[n], index[n])

LEMMA EdgeIs == EdgeOK => IndexSound
BY DEF EdgeOK, IndexOf, IndexSound

LEMMA RegisterOK ==
  ASSUME EdgeOK, NEW n \in Names, NEW x, NEW i \in Ids, NEW s \in Specs,
         Register(n, x, i, s)
  PROVE  EdgeOK'
<1>1. CASE UNCHANGED <<reg, index>>
  BY <1>1 DEF Register, EdgeOK
<1>2. CASE ~UNCHANGED <<reg, index>>
  <2> DEFINE new == With(index[n], i, reg[n][i], s)
  <2>1. /\ reg' = [reg EXCEPT ![n] = [reg[n] EXCEPT ![i] = s]]
        /\ index' = [index EXCEPT ![n] = new]
    BY <1>2 DEF Register
  <2>2. [reg[n] EXCEPT ![i] = s] \in Modules /\ new \in Index
    BY WithSound DEF EdgeOK, Modules
  <2>3. IndexOf([reg[n] EXCEPT ![i] = s], new)
    BY WithSound DEF EdgeOK
  <2> HIDE DEF new
  <2>4. QED
    BY <2>1, <2>2, <2>3 DEF EdgeOK
<1>3. QED
  BY <1>1, <1>2

LEMMA UnregisterOK ==
  ASSUME EdgeOK, NEW n \in Names, NEW i \in Ids, Unregister(n, i)
  PROVE  EdgeOK'
<1> DEFINE new == Without(index[n], reg[n][i])
<1>1. /\ reg' = [reg EXCEPT ![n] = [reg[n] EXCEPT ![i] = None]]
      /\ index' = [index EXCEPT ![n] = new]
  BY DEF Unregister
<1>2. [reg[n] EXCEPT ![i] = None] \in Modules /\ new \in Index
  BY WithoutSound DEF EdgeOK, Modules
<1>3. IndexOf([reg[n] EXCEPT ![i] = None], new)
  BY WithoutSound DEF EdgeOK
<1> HIDE DEF new
<1>4. QED
  BY <1>1, <1>2, <1>3 DEF EdgeOK

(* What the pushers and the control plane keep, beside the edge runtimes. *)
PushOK ==
  /\ store \in Modules
  /\ pc \in [Pushers -> Steps]
  /\ targets \in [Workers -> SUBSET Peers]
  /\ peer \in [Pushers -> Peers \cup {None}]
  /\ items \in [Pushers -> Modules]
  /\ ids \in [Pushers -> SUBSET Ids]
  /\ failed \in [Pushers -> BOOLEAN]
  /\ PeerKnown

NodesOK ==
  /\ status \in [Names -> {"ok", "err"}]
  /\ wipe \in SUBSET Peers
  /\ attached \in SUBSET Peers
  /\ changes \in Nat /\ faults \in Nat
  /\ unclean \in SUBSET Names

Parts == BrokerTypeOK /\ PushOK /\ NodesOK /\ EdgeOK

LEMMA PartsAre == Parts <=> WasmInv
BY DEF Parts, WasmInv, WasmTypeOK, PushOK, NodesOK, EdgeOK, IndexOf, IndexSound

LEMMA WasmInitParts == WasmInit => Parts
<1> SUFFICES ASSUME WasmInit
             PROVE  Parts
  OBVIOUS
<1> USE DEF WasmInit
<1>1. BrokerTypeOK
  BY BrokerInitInv DEF BrokerInv
<1>2. NoModules \in Modules /\ NoIndex \in Index
  BY DEF NoModules, Modules, NoIndex, Index
<1>3. PushOK
  BY <1>2 DEF PushOK, PeerKnown, Calling, Steps
<1>4. NodesOK
  BY DEF NodesOK
<1>5. EdgeOK
  BY <1>2 DEF EdgeOK, IndexOf, NoIndex
<1>6. QED
  BY <1>1, <1>3, <1>4, <1>5 DEF Parts

(* Only calls that reach a handler, and a restart of the agent, change a   *)
(* node's registry and index.                                              *)
LEMMA EdgeStep == Parts /\ [WasmNext]_wasmVars => EdgeOK'
<1> SUFFICES ASSUME Parts, [WasmNext]_wasmVars
             PROVE  EdgeOK'
  OBVIOUS
<1>0. EdgeOK /\ PushOK /\ attached \in SUBSET Peers /\ \A p \in Peers : CN[p] \in Names
  BY BrokerAssumption DEF Parts, NodesOK
<1>1. ASSUME UNCHANGED <<reg, index>>
      PROVE  EdgeOK'
  BY <1>0, <1>1 DEF EdgeOK
<1>2. ASSUME NEW x \in Pushers, NEW i \in Ids,
             CallRegister(x, i) \/ CallUnregister(x, i) \/ AnswerLost(x, i)
      PROVE  EdgeOK'
  <2> DEFINE p == peer[x]
  <2>1. CASE UNCHANGED <<reg, index>>
    BY <1>1, <2>1
  <2>2. CASE ~UNCHANGED <<reg, index>>
    <3>1. \/ /\ p \in attached /\ Register(CN[p], x, i, items[x][i])
             /\ items[x][i] # None
          \/ p \in attached /\ Unregister(CN[p], i)
      BY <1>2, <2>2 DEF CallRegister, CallUnregister, AnswerLost, Usable
    <3>2. p \in attached => CN[p] \in Names
      BY <1>0
    <3>3. items[x][i] # None => items[x][i] \in Specs
      BY <1>0 DEF PushOK, Modules
    <3>4. QED
      BY <1>0, <3>1, <3>2, <3>3, RegisterOK, UnregisterOK
  <2>3. QED
    BY <2>1, <2>2
<1>3. ASSUME NEW x \in Pushers, PushStep(x)
      PROVE  EdgeOK'
  BY <1>1, <1>2, <1>3 DEF PushStep, Reread, CallListAttached, Record, agentVars
<1>4. ASSUME NEW w \in Workers, Request(w) \/ WorkerStep(w)
      PROVE  EdgeOK'
  BY <1>1, <1>3, <1>4 DEF Request, Apply, Delete, Change, WorkerStep, ListPeers,
                          Return, PushNext, Begin, agentVars, Pushers
<1>5. ASSUME NEW q \in Peers,
             \/ PeerStep(q) \/ LinkLost(q) \/ PeerDead(q) \/ AgentNotices(q)
             \/ Connect(q)
      PROVE  EdgeOK'
  BY <1>1, <1>3, <1>5 DEF PeerStep, PushConnected, Begin, OnFind, OnClear, BrokerStep,
                          LinkLost, PeerDead, AgentNotices, Connect, agentVars, Pushers
<1>6. ASSUME NEW n \in Names, AgentRestarts(n)
      PROVE  EdgeOK'
  <2>1. /\ reg' = [reg EXCEPT ![n] = NoModules]
        /\ index' = [index EXCEPT ![n] = NoIndex]
    BY <1>6 DEF AgentRestarts
  <2>2. NoModules \in Modules /\ NoIndex \in Index
    BY DEF NoModules, Modules, NoIndex, Index
  <2>3. IndexOf(NoModules, NoIndex)
    BY DEF IndexOf, NoIndex
  <2>4. QED
    BY <1>0, <2>1, <2>2, <2>3 DEF EdgeOK
<1>7. CASE UNCHANGED wasmVars
  BY <1>1, <1>7 DEF wasmVars, agentVars
<1>8. QED
  BY <1>4, <1>5, <1>6, <1>7 DEF WasmNext

(* The bookkeeping of the control plane: nodes named by a peer exist. *)
LEMMA NodesStep == Parts /\ [WasmNext]_wasmVars => NodesOK'
<1> SUFFICES ASSUME Parts, [WasmNext]_wasmVars
             PROVE  NodesOK'
  OBVIOUS
<1>0. NodesOK /\ \A p \in Peers : CN[p] \in Names
  BY BrokerAssumption DEF Parts
<1>1. \A x \in Pushers : pc[x] \in Calling => CN[peer[x]] \in Names
  BY <1>0 DEF Parts, PushOK, PeerKnown
<1>2. Fault \/ NoFault => faults' \in Nat
  BY <1>0 DEF Fault, NoFault, NodesOK
<1>3. ASSUME NEW x \in Pushers, PushStep(x)
      PROVE  NodesOK'
  <2>1. UNCHANGED <<wipe, attached, changes>>
    BY <1>3 DEF PushStep, CallRegister, CallUnregister, AnswerLost, Reread,
                CallListAttached, Record, agentVars
  <2>2. faults' \in Nat
    BY <1>0, <1>2, <1>3 DEF PushStep, CallRegister, CallUnregister, AnswerLost,
                            Reread, CallListAttached, Record, Refused, NodesOK
  <2>3. \/ unclean' \subseteq unclean \cup {CN[peer[x]]} /\ pc[x] \in Calling
        \/ unclean' = unclean
    BY <1>3 DEF PushStep, CallRegister, CallUnregister, AnswerLost, Reread,
                CallListAttached, Record, Calling
  <2>4. unclean' \in SUBSET Names
    BY <1>0, <1>1, <2>3 DEF NodesOK
  <2>5. status' \in [Names -> {"ok", "err"}]
    BY <1>0, <1>3 DEF PushStep, CallRegister, CallUnregister, AnswerLost, Reread,
                      CallListAttached, Record, NodesOK
  <2>6. QED
    BY <1>0, <2>1, <2>2, <2>4, <2>5 DEF NodesOK
<1>4. ASSUME NEW x \in Pushers, NEW p \in Peers, Begin(x, p)
      PROVE  NodesOK'
  BY <1>0, <1>4 DEF Begin, NodesOK, agentVars
<1>5. ASSUME NEW w \in Workers, Request(w)
      PROVE  NodesOK'
  BY <1>0, <1>5 DEF Request, Apply, Delete, Change, NodesOK, agentVars
<1>6. ASSUME NEW w \in Workers, WorkerStep(w)
      PROVE  NodesOK'
  <2>1. ASSUME NEW p \in targets[w], Begin(w, p)
        PROVE  NodesOK'
    BY <1>4, <2>1 DEF Parts, PushOK, Pushers
  <2>2. CASE PushStep(w)
    BY <1>3, <2>2 DEF Pushers
  <2>3. CASE PushNext(w)
    BY <2>1, <2>3 DEF PushNext
  <2>4. CASE ListPeers(w) \/ Return(w)
    BY <1>0, <2>4 DEF ListPeers, Return, NodesOK, agentVars
  <2>5. QED
    BY <1>6, <2>2, <2>3, <2>4 DEF WorkerStep
<1>7. ASSUME NEW q \in Peers, PeerStep(q)
      PROVE  NodesOK'
  <2>1. CASE PushConnected(q)
    BY <1>4, <2>1 DEF PushConnected, Pushers
  <2>2. CASE PushStep(q)
    BY <1>3, <2>2 DEF Pushers
  <2>3. CASE OnFind(q) \/ OnClear(q)
    BY <1>0, <2>3 DEF OnFind, OnClear, NodesOK, agentVars
  <2>4. CASE BrokerStep(q)
    BY <1>0, <2>4 DEF BrokerStep, NodesOK, agentVars
  <2>5. QED
    BY <1>7, <2>1, <2>2, <2>3, <2>4 DEF PeerStep
<1>8. ASSUME NEW q \in Peers,
             LinkLost(q) \/ PeerDead(q) \/ AgentNotices(q) \/ Connect(q)
      PROVE  NodesOK'
  BY <1>0, <1>2, <1>8 DEF LinkLost, PeerDead, AgentNotices, Connect, NodesOK, agentVars
<1>9. ASSUME NEW n \in Names, AgentRestarts(n)
      PROVE  NodesOK'
  BY <1>0, <1>2, <1>9 DEF AgentRestarts, NodesOK
<1>10. CASE UNCHANGED wasmVars
  BY <1>0, <1>10 DEF wasmVars, agentVars, NodesOK
<1>11. QED
  BY <1>5, <1>6, <1>7, <1>8, <1>9, <1>10 DEF WasmNext

(* The pushers: what a request or a push keeps between two of its steps. *)
LEMMA PushersStep == Parts /\ [WasmNext]_wasmVars => PushOK'
<1> SUFFICES ASSUME Parts, [WasmNext]_wasmVars
             PROVE  PushOK'
  OBVIOUS
<1>0. PushOK /\ nodes \in SUBSET Peers
  BY DEF Parts, BrokerTypeOK
<1>1. ASSUME UNCHANGED <<store, pushVars>>
      PROVE  PushOK'
  BY <1>0, <1>1 DEF pushVars, PushOK, PeerKnown
<1>2. ASSUME NEW x \in Pushers, NEW p \in Peers, Begin(x, p),
             targets' \in [Workers -> SUBSET Peers]
      PROVE  PushOK'
  BY <1>0, <1>2 DEF Begin, PushOK, PeerKnown, Calling, Steps
<1>3. ASSUME NEW x \in Pushers, NEW i \in Ids, CallRegister(x, i)
      PROVE  PushOK'
  <2>1. items' \in [Pushers -> Modules]
    BY <1>0, <1>3 DEF CallRegister, PushOK, Modules
  <2>2. failed' \in [Pushers -> BOOLEAN]
    BY <1>0, <1>3 DEF CallRegister, PushOK
  <2>3. QED
    BY <1>0, <1>3, <2>1, <2>2 DEF CallRegister, PushOK, PeerKnown
<1>4. ASSUME NEW x \in Pushers, NEW i \in Ids, CallUnregister(x, i)
      PROVE  PushOK'
  BY <1>0, <1>4 DEF CallUnregister, PushOK, PeerKnown
<1>5. ASSUME NEW x \in Pushers, NEW i \in Ids, AnswerLost(x, i)
      PROVE  PushOK'
  <2>1. items' \in [Pushers -> Modules]
    <3>1. items' = items \/ items' = [items EXCEPT ![x] = [items[x] EXCEPT ![i] = None]]
      BY <1>5 DEF AnswerLost
    <3>2. items \in [Pushers -> Modules] /\ [items[x] EXCEPT ![i] = None] \in Modules
      BY <1>0 DEF PushOK, Modules
    <3>3. QED
      BY <3>1, <3>2
  <2>2. failed' \in [Pushers -> BOOLEAN]
    BY <1>0, <1>5 DEF AnswerLost, PushOK
  <2>3. ids' \in [Pushers -> SUBSET Ids]
    BY <1>0, <1>5 DEF AnswerLost, PushOK
  <2>4. QED
    BY <1>0, <1>5, <2>1, <2>2, <2>3 DEF AnswerLost, PushOK, PeerKnown
<1>6. ASSUME NEW x \in Pushers, Reread(x) \/ CallListAttached(x)
      PROVE  PushOK'
  BY <1>0, <1>6 DEF Reread, CallListAttached, Registered, PushOK, PeerKnown,
                    Calling, Steps, agentVars
<1>7. ASSUME NEW x \in Pushers, Record(x)
      PROVE  PushOK'
  <2>1. \E step \in {"next", "idle"} : pc' = [pc EXCEPT ![x] = step]
    BY <1>7 DEF Record
  <2>2. /\ peer' = [peer EXCEPT ![x] = None]
        /\ failed' = [failed EXCEPT ![x] = FALSE]
        /\ UNCHANGED <<store, targets, items, ids>>
    BY <1>7 DEF Record
  <2>3. QED
    BY <1>0, <2>1, <2>2 DEF PushOK, PeerKnown, Calling, Steps
<1>8. ASSUME NEW x \in Pushers, PushStep(x)
      PROVE  PushOK'
  BY <1>3, <1>4, <1>5, <1>6, <1>7, <1>8 DEF PushStep
<1>9. ASSUME NEW w \in Workers, NEW i \in Ids, NEW s \in Specs \cup {None},
             Change(w, i, s)
      PROVE  PushOK'
  <2>1. store' \in Modules
    BY <1>0, <1>9 DEF Change, PushOK, Modules
  <2>2. QED
    BY <1>0, <1>9, <2>1 DEF Change, PushOK, PeerKnown, Calling, Steps, Pushers
<1>10. ASSUME NEW w \in Workers, WorkerStep(w)
       PROVE  PushOK'
  <2>1. CASE ListPeers(w) \/ Return(w)
    BY <1>0, <2>1 DEF ListPeers, Return, PushOK, PeerKnown, Calling, Steps, Pushers
  <2>2. CASE PushNext(w)
    <3>1. PICK p \in targets[w] : /\ targets' = [targets EXCEPT ![w] = @ \ {p}]
                                  /\ Begin(w, p)
      BY <2>2 DEF PushNext
    <3>2. p \in Peers /\ targets' \in [Workers -> SUBSET Peers]
      BY <1>0, <3>1 DEF PushOK
    <3>3. QED
      BY <1>2, <3>1, <3>2 DEF Pushers
  <2>3. CASE PushStep(w)
    BY <1>8, <2>3 DEF Pushers
  <2>4. QED
    BY <1>10, <2>1, <2>2, <2>3 DEF WorkerStep
<1>11. ASSUME NEW p \in Peers, PeerStep(p)
       PROVE  PushOK'
  <2>1. CASE PushConnected(p)
    BY <1>0, <1>2, <2>1 DEF PushConnected, PushOK, Pushers
  <2>2. CASE PushStep(p)
    BY <1>8, <2>2 DEF Pushers
  <2>3. CASE OnFind(p) \/ OnClear(p) \/ BrokerStep(p)
    BY <1>1, <2>3 DEF OnFind, OnClear, BrokerStep
  <2>4. QED
    BY <1>11, <2>1, <2>2, <2>3 DEF PeerStep
<1>12. ASSUME NEW p \in Peers,
              LinkLost(p) \/ PeerDead(p) \/ AgentNotices(p) \/ Connect(p)
       PROVE  PushOK'
  BY <1>1, <1>12 DEF LinkLost, PeerDead, AgentNotices, Connect
<1>13. ASSUME NEW n \in Names, AgentRestarts(n)
       PROVE  PushOK'
  BY <1>1, <1>13 DEF AgentRestarts
<1>14. CASE UNCHANGED wasmVars
  BY <1>1, <1>14 DEF wasmVars
<1>15. ASSUME NEW w \in Workers, Request(w)
       PROVE  PushOK'
  BY <1>9, <1>15 DEF Request, Apply, Delete
<1>16. QED
  BY <1>10, <1>11, <1>12, <1>13, <1>14, <1>15 DEF WasmNext

LEMMA WasmInvariant == WasmSpec => []Parts
<1>1. Parts /\ [WasmNext]_wasmVars => Parts'
  <2>1. Parts /\ [WasmNext]_wasmVars => BrokerTypeOK'
    BY WasmBrokerStep, BrokerTypeStep DEF Parts
  <2>2. QED
    BY <2>1, PushersStep, NodesStep, EdgeStep DEF Parts
<1>2. QED
  BY <1>1, WasmInitParts, PTL DEF WasmSpec

(* Type correctness of stores, pushes and nodes. *)
THEOREM WasmTypeCorrect == WasmSpec => []WasmTypeOK
<1>1. Parts => WasmTypeOK
  BY PartsAre DEF WasmInv
<1>2. QED
  BY <1>1, WasmInvariant, PTL

(* Whatever pushes register and unregister on a node, in whatever order    *)
(* and between whatever restarts, its routing index never leads a request  *)
(* to a module that is gone or does not serve it.                          *)
THEOREM WasmIndexSound == WasmSpec => []IndexSound
<1>1. Parts => IndexSound
  BY EdgeIs DEF Parts
<1>2. QED
  BY <1>1, WasmInvariant, PTL

(* A reconcile loop takes part in the broker's callbacks as a callback     *)
(* must: the inventory stays right, with one entry per node.               *)
THEOREM WasmOneEntry == WasmSpec => []OneEntryPerNode
<1>1. WasmInit => BrokerInv
  BY BrokerInitInv DEF WasmInit
<1>2. BrokerInv /\ [WasmNext]_wasmVars => BrokerInv'
  BY WasmBrokerStep, BrokerInvStep
<1>3. BrokerInv => OneEntryPerNode
  BY DEF BrokerInv
<1>4. QED
  BY <1>1, <1>2, <1>3, PTL DEF WasmSpec

(* The loop's system implements the broker, and through it the inventory:  *)
(* the pushes of Add's callbacks and of requests never keep it from being  *)
(* one (Broker.Add, Broker.Remove).                                        *)
THEOREM WasmImplementsInventory == WasmSpec => ImplementsInventory /\ []NoOrphan
<1>1. WasmInit => BrokerInit
  BY DEF WasmInit
<1>2. WasmSpec => BrokerSpec
  BY <1>1, WasmBrokerStep, PTL DEF WasmSpec, BrokerSpec
<1>3. QED
  BY <1>2, BrokerImplementsInventory, BrokerNoOrphan, PTL
-----------------------------------------------------------------------------
(* InSync.  The invariant says of every connected node how far the push    *)
(* that covers the last change has come (SyncOK).  It needs the order of   *)
(* the calls of one connection (PushShape), that an agent holds one        *)
(* connection (AttachedOne), and that a clean node's push is alone (Lone). *)
(* What the broker has left to do for one connection. *)
CallsOf(p) ==
  /\ phase[p] = "connecting" => calls[p] = <<"push">>
  /\ phase[p] = "disconnecting" => calls[p] \in {<<"find", "clear">>, <<"clear">>}
  /\ phase[p] \notin {"connecting", "disconnecting"} => calls[p] = <<>>
  /\ p \in nodes => phase[p] \in Served

(* A connection pushes to itself, in its Add; no pusher without a call has *)
(* a peer.                                                                 *)
PushShape ==
  /\ \A p \in Peers : CallsOf(p)
  /\ \A p \in Peers : pc[p] # "idle" => phase[p] = "connecting"
  /\ \A p \in Peers : peer[p] \in {p, None}
  /\ \A x \in Pushers : peer[x] # None => pc[x] \in Calling

(* The agent of a node holds one connection.                               *)
AttachedOne == \A p, q \in attached : CN[p] = CN[q] => p = q
(* A clean node has no two pushes at once.                                 *)
Lone ==
  \A x, y \in Pushers :
    /\ peer[x] # None /\ peer[y] # None
    /\ CN[peer[x]] = CN[peer[y]] /\ CN[peer[x]] \notin unclean
    => x = y

(* A push to p is still to begin: a request has not come to it yet, or its *)
(* own Add has not.                                                        *)
Announced(p) ==
  \/ \E w \in Workers : pc[w] = "notify" \/ p \in targets[w]
  \/ phase[p] = "connecting" /\ pc[p] = "idle"

(* p is current, its node clean, and no push to it is still to begin.      *)
Covered(p) == p \in nodes /\ p \in attached /\ CN[p] \notin unclean /\ ~Announced(p)

(* What is left of a push to a node that holds `modules`: the rest to      *)
(* register, the list of what to keep, the ids to prune.                   *)
Sends(x, modules) ==
  \A i \in Ids :
    /\ items[x][i] # None => items[x][i] = store[i]
    /\ store[i] # None => items[x][i] = store[i] \/ modules[i] = store[i]
Keeps(x, modules) ==
  \A i \in Ids :
    /\ store[i] # None => modules[i] = store[i]
    /\ i \in ids[x] <=> store[i] # None
Prunes(x, modules) ==
  \A i \in Ids :
    /\ store[i] # None => modules[i] = store[i] /\ i \notin ids[x]
    /\ store[i] = None /\ modules[i] # None => i \in ids[x]

(* Only a push over the current connection gets past its first call; one   *)
(* over an earlier connection fails there.                                 *)
OnItsWay(x, p) ==
  LET modules == reg[CN[p]]
  IN IF peer[x] = p
     THEN \/ pc[x] = "register" /\ Sends(x, modules)
          \/ pc[x] = "list" /\ Keeps(x, modules)
          \/ pc[x] = "unregister" /\ Prunes(x, modules)
     ELSE peer[x] \notin attached /\ pc[x] \in {"register", "list"}

(* A covered node has what is declared, or its push is about to see to it. *)
SyncOK(p) ==
  Covered(p) =>
    /\ Pushing(CN[p]) = {} => reg[CN[p]] = store
    /\ \A x \in Pushing(CN[p]) : OnItsWay(x, p)

SyncInv == PushShape /\ AttachedOne /\ Lone /\ \A p \in Peers : SyncOK(p)

(* main.go registers one callback with Add and two with Remove. *)
LEMMA CallLists ==
  /\ OnConnect = <<"push">> /\ OnDisconnect = <<"find", "clear">>
  /\ Head(<<"push">>) = "push" /\ Tail(<<"push">>) = <<>>
  /\ Head(<<"find", "clear">>) = "find" /\ Tail(<<"find", "clear">>) = <<"clear">>
  /\ Head(<<"clear">>) = "clear" /\ Tail(<<"clear">>) = <<>>
  /\ <<"push">> # <<>> /\ <<"find", "clear">> # <<>> /\ <<"clear">> # <<>>
<1>1. OnConnect = <<"push">> /\ OnDisconnect = <<"find", "clear">>
  BY WasmAssumption
<1>2. QED
  BY <1>1

LEMMA Disjoint == \A w \in Workers : w \notin Peers /\ w \in Pushers
BY WasmAssumption DEF Pushers

LEMMA CallsOfStep ==
  ASSUME BrokerTypeOK, NEW p \in Peers, CallsOf(p), [BrokerNext]_brokerVars
  PROVE  CallsOf(p)'
<1> USE DEF CallsOf, Served, BrokerTypeOK
<1>1. ASSUME NEW q \in Peers, Accept(q)
      PROVE  CallsOf(p)'
  BY <1>1 DEF Accept
<1>2. ASSUME NEW q \in Peers, Add(q)
      PROVE  CallsOf(p)'
  BY <1>2, CallLists DEF Add
<1>3. ASSUME NEW q \in Peers, CallOnConnect(q)
      PROVE  CallsOf(p)'
  BY <1>3, CallLists DEF CallOnConnect
<1>4. ASSUME NEW q \in Peers, Remove(q)
      PROVE  CallsOf(p)'
  BY <1>4, CallLists DEF Remove
<1>5. ASSUME NEW q \in Peers, CallOnDisconnect(q)
      PROVE  CallsOf(p)'
  BY <1>5, CallLists DEF CallOnDisconnect
<1>6. ASSUME NEW q \in Peers, ConnectionDone(q) \/ CloseSuperseded(q)
      PROVE  CallsOf(p)'
  BY <1>6 DEF ConnectionDone, CloseSuperseded
<1>7. CASE UNCHANGED brokerVars
  BY <1>7 DEF brokerVars
<1>8. QED
  BY <1>1, <1>2, <1>3, <1>4, <1>5, <1>6, <1>7 DEF BrokerNext

(* A callback that is about to push belongs to Add. *)
LEMMA PushesInAdd ==
  ASSUME NEW p \in Peers, CallsOf(p), calls[p] # <<>>, Head(calls[p]) = "push"
  PROVE  phase[p] = "connecting"
<1>1. CASE phase[p] = "disconnecting"
  BY <1>1, CallLists DEF CallsOf
<1>2. QED
  BY <1>1 DEF CallsOf

LEMMA ShapeStep ==
  ASSUME Parts, PushShape, [WasmNext]_wasmVars
  PROVE  PushShape'
<1>0. /\ PushOK /\ BrokerTypeOK
      /\ \A p \in Peers : CallsOf(p)
      /\ None \notin Peers
  BY BrokerAssumption DEF Parts, PushShape
<1>1. \A p \in Peers : CallsOf(p)'
  BY <1>0, CallsOfStep, WasmBrokerStep
<1>2. ASSUME \A p \in Peers : pc'[p] # "idle" => phase'[p] = "connecting",
             \A p \in Peers : peer'[p] \in {p, None},
             \A x \in Pushers : peer'[x] # None => pc'[x] \in Calling
      PROVE  PushShape'
  BY <1>1, <1>2 DEF PushShape
<1>3. /\ pc \in [Pushers -> Steps] /\ peer \in [Pushers -> Peers \cup {None}]
      /\ phase \in [Peers -> Phases]
      /\ \A p \in Peers : p \in Pushers
  BY <1>0 DEF PushOK, BrokerTypeOK, Pushers
<1>4. ASSUME UNCHANGED <<pc, peer>>,
             \A p \in Peers : phase[p] = "connecting" => phase'[p] = "connecting"
      PROVE  PushShape'
  BY <1>2, <1>4 DEF PushShape
<1>5. ASSUME NEW w \in Workers, UNCHANGED <<peer, brokerVars>>,
             peer[w] = None, NEW step, pc' = [pc EXCEPT ![w] = step]
      PROVE  PushShape'
  BY <1>2, <1>3, <1>5, Disjoint DEF PushShape, brokerVars
<1>6. ASSUME NEW x \in Pushers, NEW q \in Peers, Begin(x, q),
             x \in Peers => x = q /\ phase[q] = "connecting"
      PROVE  PushShape'
  <2>1. /\ pc' = [pc EXCEPT ![x] = "register"] /\ peer' = [peer EXCEPT ![x] = q]
        /\ phase' = phase
    BY <1>6 DEF Begin, brokerVars
  <2>2. QED
    BY <1>2, <1>3, <1>6, <2>1 DEF PushShape, Calling
<1>7. ASSUME NEW x \in Pushers, PushStep(x)
      PROVE  PushShape'
  <2>1. ASSUME NEW i \in Ids,
               CallRegister(x, i) \/ CallUnregister(x, i) \/ AnswerLost(x, i)
        PROVE  PushShape'
    BY <1>4, <2>1 DEF CallRegister, CallUnregister, AnswerLost, brokerVars
  <2>2. CASE Reread(x) \/ CallListAttached(x)
    <3>1. /\ pc[x] \in Calling /\ UNCHANGED <<peer, phase>>
          /\ \E step \in Calling : pc' = [pc EXCEPT ![x] = step]
      BY <2>2 DEF Reread, CallListAttached, Calling, brokerVars
    <3>2. QED
      BY <1>2, <1>3, <3>1 DEF PushShape, Calling
  <2>3. CASE Record(x)
    <3>1. /\ peer' = [peer EXCEPT ![x] = None]
          /\ \/ x \in Workers /\ pc' = [pc EXCEPT ![x] = "next"] /\ phase' = phase
             \/ x \in Peers /\ pc' = [pc EXCEPT ![x] = "idle"] /\ CallOnConnect(x)
      BY <2>3 DEF Record, Pushers, brokerVars
    <3>2. \A p \in Peers : p # x => pc'[p] = pc[p] /\ phase'[p] = phase[p]
      BY <1>3, <3>1 DEF CallOnConnect
    <3>3. x \in Peers => pc'[x] = "idle"
      BY <1>3, <3>1, Disjoint
    <3>4. \A p \in Peers : pc'[p] # "idle" => phase'[p] = "connecting"
      BY <3>2, <3>3 DEF PushShape
    <3>5. \A y \in Pushers : peer'[y] # None => pc'[y] \in Calling
      BY <1>3, <3>1 DEF PushShape
    <3>6. QED
      BY <1>2, <1>3, <3>1, <3>4, <3>5 DEF PushShape
  <2>4. QED
    BY <1>7, <2>1, <2>2, <2>3 DEF PushStep
<1>8. ASSUME NEW w \in Workers, Request(w)
      PROVE  PushShape'
  <2>1. /\ pc[w] = "idle" /\ pc' = [pc EXCEPT ![w] = "notify"]
        /\ UNCHANGED <<peer, brokerVars>>
    BY <1>8 DEF Request, Apply, Delete, Change
  <2>2. peer[w] = None
    BY <2>1, Disjoint DEF PushShape, Calling
  <2>3. QED
    BY <1>5, <2>1, <2>2
<1>9. ASSUME NEW w \in Workers, WorkerStep(w)
      PROVE  PushShape'
  <2>1. CASE ListPeers(w) \/ Return(w)
    <3>1. /\ pc[w] \in {"notify", "next"} /\ UNCHANGED <<peer, brokerVars>>
          /\ \E step \in Steps : pc' = [pc EXCEPT ![w] = step]
      BY <2>1 DEF ListPeers, Return, Steps
    <3>2. peer[w] = None
      BY <3>1, Disjoint DEF PushShape, Calling
    <3>3. QED
      BY <1>5, <3>1, <3>2
  <2>2. CASE PushNext(w)
    <3>1. PICK q \in targets[w] : Begin(w, q)
      BY <2>2 DEF PushNext
    <3>2. q \in Peers
      BY <1>0, <3>1 DEF PushOK
    <3>3. QED
      BY <1>6, <3>1, <3>2, Disjoint
  <2>3. CASE PushStep(w)
    BY <1>7, <2>3, Disjoint
  <2>4. QED
    BY <1>9, <2>1, <2>2, <2>3 DEF WorkerStep
<1>10. ASSUME NEW p \in Peers, PeerStep(p)
       PROVE  PushShape'
  <2>1. CASE PushConnected(p)
    BY <1>0, <1>3, <1>6, <2>1, PushesInAdd DEF PushConnected
  <2>2. CASE PushStep(p)
    BY <1>3, <1>7, <2>2
  <2>3. CASE OnFind(p) \/ OnClear(p)
    <3>1. UNCHANGED <<pc, peer>> /\ CallOnDisconnect(p)
      BY <2>3 DEF OnFind, OnClear, pushVars
    <3>2. QED
      BY <1>3, <1>4, <3>1 DEF CallOnDisconnect
  <2>4. CASE BrokerStep(p)
    BY <1>3, <1>4, <2>4 DEF BrokerStep, Add, CloseSuperseded, Remove, pushVars
  <2>5. QED
    BY <1>10, <2>1, <2>2, <2>3, <2>4 DEF PeerStep
<1>11. ASSUME NEW p \in Peers,
              LinkLost(p) \/ PeerDead(p) \/ AgentNotices(p) \/ Connect(p)
       PROVE  PushShape'
  BY <1>3, <1>4, <1>11 DEF LinkLost, PeerDead, AgentNotices, Connect, Accept,
                           ConnectionDone, brokerVars, pushVars
<1>12. ASSUME NEW n \in Names, AgentRestarts(n)
       PROVE  PushShape'
  BY <1>4, <1>12 DEF AgentRestarts, brokerVars, pushVars
<1>13. CASE UNCHANGED wasmVars
  BY <1>4, <1>13 DEF wasmVars, brokerVars, pushVars
<1>14. QED
  BY <1>8, <1>9, <1>10, <1>11, <1>12, <1>13 DEF WasmNext

(* A node has one connection at a time. *)
LEMMA AttachedStep ==
  ASSUME AttachedOne, [WasmNext]_wasmVars
  PROVE  AttachedOne'
<1>1. ASSUME attached' \subseteq attached
      PROVE  AttachedOne'
  BY <1>1 DEF AttachedOne
<1>2. ASSUME NEW x \in Pushers, PushStep(x)
      PROVE  attached' = attached
  BY <1>2 DEF PushStep, CallRegister, CallUnregister, AnswerLost, Reread,
              CallListAttached, Record, agentVars
<1>3. ASSUME NEW w \in Workers, Request(w) \/ WorkerStep(w)
      PROVE  attached' = attached
  BY <1>2, <1>3, Disjoint DEF Request, Apply, Delete, Change, WorkerStep, ListPeers,
                              Return, PushNext, Begin, agentVars
<1>4. ASSUME NEW p \in Peers, PeerStep(p)
      PROVE  attached' = attached
  BY <1>2, <1>4 DEF PeerStep, PushConnected, Begin, OnFind, OnClear, BrokerStep,
                    agentVars, Pushers
<1>5. ASSUME NEW p \in Peers, LinkLost(p) \/ PeerDead(p) \/ AgentNotices(p)
      PROVE  attached' \subseteq attached
  BY <1>5 DEF LinkLost, PeerDead, AgentNotices, agentVars
<1>6. ASSUME NEW p \in Peers, Connect(p)
      PROVE  AttachedOne'
  BY <1>6 DEF Connect, AttachedOne
<1>7. ASSUME NEW n \in Names, AgentRestarts(n)
      PROVE  attached' \subseteq attached
  BY <1>7 DEF AgentRestarts
<1>8. CASE UNCHANGED wasmVars
  BY <1>1, <1>8 DEF wasmVars, agentVars
<1>9. QED
  BY <1>1, <1>3, <1>4, <1>5, <1>6, <1>7, <1>8 DEF WasmNext

(* A push that starts beside another leaves the node unclean. *)
LEMMA LoneBegin ==
  ASSUME Parts, Lone, NEW x \in Pushers, NEW q \in Peers, Begin(x, q)
  PROVE  Lone'
<1>0. peer \in [Pushers -> Peers \cup {None}] /\ q # None
  BY BrokerAssumption DEF Parts, PushOK
<1>1. peer' = [peer EXCEPT ![x] = q]
  BY DEF Begin
<1>2. ASSUME NEW y \in Pushers, NEW z \in Pushers,
             peer'[y] # None, peer'[z] # None, CN[peer'[y]] = CN[peer'[z]],
             CN[peer'[y]] \notin unclean', y # z
      PROVE  FALSE
  <2>1. CASE CN[peer'[y]] = CN[q]
    <3>1. Pushing(CN[q]) = {}
      BY <1>2, <2>1 DEF Begin
    <3>2. PICK v \in Pushers : v # x /\ peer'[v] # None /\ CN[peer'[v]] = CN[q]
      BY <1>2, <2>1
    <3>3. peer[v] = peer'[v]
      BY <1>0, <1>1, <3>2
    <3>4. v \in Pushing(CN[q])
      BY <3>2, <3>3 DEF Pushing
    <3>5. QED
      BY <3>1, <3>4
  <2>2. CASE CN[peer'[y]] # CN[q]
    <3>1. y # x /\ z # x
      BY <1>0, <1>1, <1>2, <2>2
    <3>2. peer'[y] = peer[y] /\ peer'[z] = peer[z]
      BY <1>0, <1>1, <3>1
    <3>3. CN[peer[y]] \notin unclean
      BY <1>2, <2>2, <3>2 DEF Begin
    <3>4. QED
      BY <1>2, <3>2, <3>3 DEF Lone
  <2>3. QED
    BY <2>1, <2>2
<1>3. QED
  BY <1>2 DEF Lone

LEMMA LoneStep ==
  ASSUME Parts, Lone, [WasmNext]_wasmVars
  PROVE  Lone'
<1>0. /\ peer \in [Pushers -> Peers \cup {None}]
      /\ targets \in [Workers -> SUBSET Peers]
  BY DEF Parts, PushOK
<1>1. ASSUME peer' = peer, unclean \subseteq unclean'
      PROVE  Lone'
  BY <1>1 DEF Lone
<1>2. ASSUME NEW x \in Pushers, PushStep(x)
      PROVE  Lone'
  <2>1. CASE Record(x)
    <3>1. peer' = [peer EXCEPT ![x] = None] /\ unclean' = unclean
      BY <2>1 DEF Record
    <3>2. QED
      BY <1>0, <3>1 DEF Lone
  <2>2. CASE ~Record(x)
    <3>1. peer' = peer /\ unclean \subseteq unclean'
      BY <1>2, <2>2 DEF PushStep, CallRegister, CallUnregister, AnswerLost, Reread,
                        CallListAttached
    <3>2. QED
      BY <1>1, <3>1
  <2>3. QED
    BY <2>1, <2>2
<1>3. ASSUME NEW w \in Workers, Request(w) \/ WorkerStep(w)
      PROVE  Lone'
  <2>1. CASE PushNext(w)
    BY <1>0, <2>1, LoneBegin, Disjoint DEF PushNext
  <2>2. CASE PushStep(w)
    BY <1>2, <2>2, Disjoint
  <2>3. CASE Request(w) \/ ListPeers(w) \/ Return(w)
    BY <1>1, <2>3 DEF Request, Apply, Delete, Change, ListPeers, Return
  <2>4. QED
    BY <1>3, <2>1, <2>2, <2>3 DEF WorkerStep
<1>4. ASSUME NEW p \in Peers, PeerStep(p)
      PROVE  Lone'
  <2>1. CASE PushConnected(p)
    BY <2>1, LoneBegin DEF PushConnected, Pushers
  <2>2. CASE PushStep(p)
    BY <1>2, <2>2 DEF Pushers
  <2>3. CASE OnFind(p) \/ OnClear(p) \/ BrokerStep(p)
    BY <1>1, <2>3 DEF OnFind, OnClear, BrokerStep, pushVars
  <2>4. QED
    BY <1>4, <2>1, <2>2, <2>3 DEF PeerStep
<1>5. ASSUME NEW p \in Peers,
             LinkLost(p) \/ PeerDead(p) \/ AgentNotices(p) \/ Connect(p)
      PROVE  Lone'
  BY <1>1, <1>5 DEF LinkLost, PeerDead, AgentNotices, Connect, pushVars
<1>6. ASSUME NEW n \in Names, AgentRestarts(n)
      PROVE  Lone'
  BY <1>1, <1>6 DEF AgentRestarts, pushVars
<1>7. CASE UNCHANGED wasmVars
  BY <1>1, <1>7 DEF wasmVars, pushVars
<1>8. QED
  BY <1>3, <1>4, <1>5, <1>6, <1>7 DEF WasmNext

(* A step that leaves the node's registry and its pushes alone. *)
LEMMA SyncFrame ==
  ASSUME NEW p \in Peers, SyncOK(p), Covered(p)' => Covered(p), store' = store,
         reg'[CN[p]] = reg[CN[p]],
         \A x \in Pushers : \/ peer'[x] = peer[x]
                            \/ x \notin Pushing(CN[p]) /\ x \notin Pushing(CN[p])',
         \A x \in Pushing(CN[p]) :
           /\ pc'[x] = pc[x] /\ items'[x] = items[x] /\ ids'[x] = ids[x]
           /\ peer[x] \in attached' => peer[x] \in attached
  PROVE  SyncOK(p)'
<1>1. SUFFICES ASSUME Covered(p)'
               PROVE  /\ Pushing(CN[p])' = {} => reg'[CN[p]] = store'
                      /\ \A x \in Pushing(CN[p])' : OnItsWay(x, p)'
  BY DEF SyncOK
<1>2. Pushing(CN[p])' = Pushing(CN[p])
  BY DEF Pushing
<1>3. \A x \in Pushing(CN[p]) : peer'[x] = peer[x]
  BY DEF Pushing
<1>4. /\ Pushing(CN[p]) = {} => reg[CN[p]] = store
      /\ \A x \in Pushing(CN[p]) : OnItsWay(x, p)
  BY <1>1 DEF SyncOK
<1>5. ASSUME NEW x \in Pushing(CN[p])
      PROVE  OnItsWay(x, p)'
  BY <1>3, <1>4, <1>5 DEF OnItsWay, Sends, Keeps, Prunes
<1>6. QED
  BY <1>2, <1>4, <1>5

(* A push begins with everything that is declared still to send. *)
LEMMA SyncBegin ==
  ASSUME Parts, PushShape, AttachedOne, NEW p \in Peers, SyncOK(p),
         NEW x \in Pushers, NEW q \in Peers, Begin(x, q), pc[x] \in {"next", "idle"},
         p # q /\ Announced(p) => Announced(p)'
  PROVE  SyncOK(p)'
<1>0. /\ peer \in [Pushers -> Peers \cup {None}] /\ pc \in [Pushers -> Steps]
      /\ items \in [Pushers -> Modules] /\ None \notin Peers
  BY BrokerAssumption DEF Parts, PushOK
<1>1. /\ pc' = [pc EXCEPT ![x] = "register"] /\ peer' = [peer EXCEPT ![x] = q]
      /\ items' = [items EXCEPT ![x] = store]
      /\ UNCHANGED <<store, ids, reg, attached, nodes>>
  BY DEF Begin, agentVars, brokerVars
<1>2. peer[x] = None
  BY DEF PushShape, Calling
<1>3. CASE CN[q] # CN[p]
  <2>1. x \notin Pushing(CN[p]) /\ x \notin Pushing(CN[p])'
    BY <1>0, <1>1, <1>2, <1>3 DEF Pushing
  <2>2. CN[p] \in unclean' <=> CN[p] \in unclean
    BY <1>3 DEF Begin
  <2>3. Covered(p)' => Covered(p)
    BY <1>1, <1>3, <2>2 DEF Covered
  <2>4. \A y \in Pushers : y # x => /\ peer'[y] = peer[y] /\ pc'[y] = pc[y]
                                    /\ items'[y] = items[y]
    BY <1>0, <1>1
  <2>5. \A y \in Pushing(CN[p]) : y \in Pushers /\ y # x
    BY <2>1 DEF Pushing
  <2>6. QED
    BY <1>1, <2>1, <2>3, <2>4, <2>5, SyncFrame
<1>4. CASE CN[q] = CN[p]
  <2>1. SUFFICES ASSUME Covered(p)'
                 PROVE  /\ Pushing(CN[p])' # {}
                        /\ \A y \in Pushing(CN[p])' : OnItsWay(y, p)'
    BY DEF SyncOK
  <2>2. Pushing(CN[p]) = {}
    BY <1>4, <2>1 DEF Covered, Begin
  <2>3. Pushing(CN[p])' = {x}
    BY <1>0, <1>1, <1>4, <2>2 DEF Pushing
  <2>4. peer'[x] = q /\ pc'[x] = "register" /\ items'[x] = store
    BY <1>0, <1>1
  <2>5. q # p => q \notin attached'
    BY <1>1, <1>4, <2>1 DEF Covered, AttachedOne
  <2>6. Sends(x, reg[CN[p]])'
    BY <1>1, <2>4 DEF Sends
  <2>7. OnItsWay(x, p)'
    BY <2>4, <2>5, <2>6 DEF OnItsWay, Sends
  <2>8. QED
    BY <2>3, <2>7
<1>5. QED
  BY <1>3, <1>4

(* The calls of the only push to a node work off what SyncOK says is left. *)
LEMMA SyncCall ==
  ASSUME Parts, PushShape, AttachedOne, Lone, NEW p \in Peers, SyncOK(p),
         NEW x \in Pushers,
         \/ \E i \in Ids : CallRegister(x, i) \/ CallUnregister(x, i) \/ AnswerLost(x, i)
         \/ Reread(x) \/ CallListAttached(x)
  PROVE  SyncOK(p)'
<1> DEFINE n == CN[p]
<1>0. /\ peer \in [Pushers -> Peers \cup {None}] /\ pc \in [Pushers -> Steps]
      /\ items \in [Pushers -> Modules] /\ ids \in [Pushers -> SUBSET Ids]
      /\ reg \in [Names -> Modules] /\ store \in Modules
      /\ n \in Names /\ None \notin Peers
  BY BrokerAssumption DEF Parts, PushOK, EdgeOK
<1>1. /\ UNCHANGED <<store, peer, attached, nodes, targets, phase>>
      /\ unclean \subseteq unclean' /\ pc[x] \in Calling
  BY DEF CallRegister, CallUnregister, AnswerLost, Reread, CallListAttached,
         Calling, brokerVars, agentVars
<1>2. \A y \in Pushers : y # x => /\ pc'[y] = pc[y] /\ items'[y] = items[y]
                                  /\ ids'[y] = ids[y]
  BY <1>0 DEF CallRegister, CallUnregister, AnswerLost, Reread, CallListAttached
<1>3. Announced(p) => Announced(p)'
  BY <1>1, <1>2, Disjoint DEF Announced, Calling, Pushers
<1>4. Covered(p)' => Covered(p)
  BY <1>1, <1>3 DEF Covered
<1>5. peer[x] \in Peers /\ CN[peer[x]] \in Names
  BY <1>1, BrokerAssumption DEF Parts, PushOK, PeerKnown
<1>6. CASE CN[peer[x]] # n
  <2>1. x \notin Pushing(n)
    BY <1>6 DEF Pushing
  <2>2. reg'[n] = reg[n]
    BY <1>0, <1>5, <1>6 DEF CallRegister, CallUnregister, AnswerLost, Reread,
       CallListAttached, Register, Unregister, agentVars
  <2>3. \A y \in Pushing(n) : y \in Pushers /\ y # x
    BY <2>1 DEF Pushing
  <2>4. QED
    BY <1>1, <1>2, <1>4, <2>2, <2>3, SyncFrame
<1>7. CASE CN[peer[x]] = n
  <2>1. SUFFICES ASSUME Covered(p)'
                 PROVE  /\ Pushing(n)' # {}
                        /\ \A y \in Pushing(n)' : OnItsWay(y, p)'
    BY DEF SyncOK
  <2>2. x \in Pushing(n) /\ n \notin unclean /\ n \notin unclean' /\ p \in attached
    BY <1>0, <1>4, <1>5, <1>7, <2>1 DEF Pushing, Covered
  <2>3. Pushing(n)' = {x}
    BY <1>1, <2>2 DEF Pushing, Lone
  <2>4. OnItsWay(x, p)
    BY <1>4, <2>1, <2>2 DEF SyncOK
  <2>5. SUFFICES OnItsWay(x, p)'
    BY <2>3
  <2>6. peer[x] \in attached => peer[x] = p
    BY <1>7, <2>2 DEF AttachedOne
  <2>7. peer'[x] = peer[x]
    BY <1>1
  <2>8. ASSUME NEW i \in Ids, CallRegister(x, i)
        PROVE  OnItsWay(x, p)'
    <3>1. /\ Usable(peer[x]) /\ Register(n, x, i, items[x][i])
          /\ pc[x] = "register" /\ items[x][i] # None
          /\ items' = [items EXCEPT ![x][i] = None] /\ pc' = pc
      BY <1>7, <2>2, <2>8 DEF CallRegister
    <3>2. peer[x] = p /\ Sends(x, reg[n])
      BY <2>4, <2>6, <3>1 DEF Usable, OnItsWay
    <3>3. \A j \in Ids : /\ reg'[n][j] = IF j = i THEN items[x][i] ELSE reg[n][j]
                         /\ items'[x][j] = IF j = i THEN None ELSE items[x][j]
      BY <1>0, <3>1 DEF Register, Modules
    <3>4. \A j \in Ids :
            /\ items'[x][j] # None => items'[x][j] = store[j]
            /\ store[j] # None => items'[x][j] = store[j] \/ reg'[n][j] = store[j]
      BY <3>1, <3>2, <3>3 DEF Sends
    <3>5. Sends(x, reg[n])'
      BY <1>1, <3>4 DEF Sends
    <3>6. QED
      BY <2>7, <3>1, <3>2, <3>5 DEF OnItsWay, Sends
  <2>9. CASE Reread(x)
    <3>1. /\ pc[x] = "register" /\ pc'[x] = "list" /\ items[x] = NoModules
          /\ ids'[x] = {i \in Ids : store[i] # None} /\ reg' = reg
      BY <1>0, <2>9 DEF Reread, agentVars
    <3>2. CASE peer[x] # p
      BY <1>1, <2>4, <2>7, <3>1, <3>2 DEF OnItsWay
    <3>3. CASE peer[x] = p
      <4>1. Sends(x, reg[n])
        BY <2>4, <3>1, <3>3 DEF OnItsWay
      <4>2. \A i \in Ids : store[i] # None => reg[n][i] = store[i]
        BY <3>1, <4>1 DEF Sends, NoModules
      <4>3. Keeps(x, reg[n])'
        BY <1>1, <3>1, <4>2 DEF Keeps
      <4>4. QED
        BY <2>7, <3>1, <3>3, <4>3 DEF OnItsWay, Keeps
    <3>4. QED
      BY <3>2, <3>3
  <2>10. CASE CallListAttached(x)
    <3>1. /\ Usable(peer[x]) /\ pc[x] = "list" /\ pc'[x] = "unregister"
          /\ ids'[x] = Registered(n) \ ids[x] /\ reg' = reg
      BY <1>0, <1>7, <2>2, <2>10 DEF CallListAttached, agentVars
    <3>2. peer[x] = p /\ Keeps(x, reg[n])
      BY <2>4, <2>6, <3>1 DEF Usable, OnItsWay
    <3>3. Prunes(x, reg[n])'
      BY <1>1, <3>1, <3>2 DEF Prunes, Keeps, Registered
    <3>4. QED
      BY <2>7, <3>1, <3>2, <3>3 DEF OnItsWay, Prunes
  <2>11. ASSUME NEW i \in Ids, CallUnregister(x, i)
         PROVE  OnItsWay(x, p)'
    <3>1. /\ Usable(peer[x]) /\ pc[x] = "unregister" /\ pc' = pc
          /\ i \in ids[x] /\ ids' = [ids EXCEPT ![x] = ids[x] \ {i}]
          /\ IF reg[n][i] # None THEN Unregister(n, i) ELSE reg' = reg
      BY <1>7, <2>2, <2>11 DEF CallUnregister
    <3>2. peer[x] = p /\ Prunes(x, reg[n])
      BY <2>4, <2>6, <3>1 DEF Usable, OnItsWay
    <3>3. \A j \in Ids : reg'[n][j] = IF j = i THEN None ELSE reg[n][j]
      BY <1>0, <3>1 DEF Unregister, Modules
    <3>4. ids'[x] = ids[x] \ {i}
      BY <1>0, <3>1
    <3>5. Prunes(x, reg[n])'
      BY <1>1, <3>1, <3>2, <3>3, <3>4 DEF Prunes
    <3>6. QED
      BY <2>7, <3>1, <3>2, <3>5 DEF OnItsWay, Prunes
  <2>12. ASSUME NEW i \in Ids, AnswerLost(x, i)
         PROVE  FALSE
    BY <1>7, <2>2, <2>12 DEF AnswerLost
  <2>13. QED
    BY <2>8, <2>9, <2>10, <2>11, <2>12
<1>8. QED
  BY <1>6, <1>7

(* A push that ends leaves the node with exactly what is declared. *)
LEMMA SyncRecord ==
  ASSUME Parts, PushShape, AttachedOne, Lone, NEW p \in Peers, SyncOK(p),
         NEW x \in Pushers, Record(x)
  PROVE  SyncOK(p)'
<1> DEFINE n == CN[p]
<1>0. /\ peer \in [Pushers -> Peers \cup {None}] /\ pc \in [Pushers -> Steps]
      /\ phase \in [Peers -> Phases] /\ n \in Names
      /\ reg \in [Names -> Modules] /\ store \in Modules /\ None \notin Peers
  BY BrokerAssumption DEF Parts, PushOK, EdgeOK, BrokerTypeOK
<1>1. /\ UNCHANGED <<store, items, ids, reg, attached, targets, unclean, nodes>>
      /\ pc[x] = "unregister" /\ ids[x] = {}
      /\ peer' = [peer EXCEPT ![x] = None]
      /\ \A y \in Pushers : y # x => pc'[y] = pc[y]
      /\ \A q \in Peers : q # x => phase'[q] = phase[q]
  BY <1>0 DEF Record, CallOnConnect, brokerVars, agentVars
<1>2. Announced(p) => Announced(p)'
  BY <1>1, Disjoint DEF Announced, Pushers
<1>3. Covered(p)' => Covered(p)
  BY <1>1, <1>2 DEF Covered
<1>4. peer[x] \in Peers
  BY <1>1 DEF Parts, PushOK, PeerKnown, Calling
<1>5. peer'[x] = None /\ \A y \in Pushers : y # x => peer'[y] = peer[y]
  BY <1>0, <1>1
<1>6. CASE CN[peer[x]] # n
  <2>1. x \notin Pushing(n) /\ x \notin Pushing(n)'
    BY <1>5, <1>6 DEF Pushing
  <2>2. \A y \in Pushing(n) : y \in Pushers /\ y # x
    BY <2>1 DEF Pushing
  <2>3. QED
    BY <1>1, <1>3, <1>5, <2>1, <2>2, SyncFrame
<1>7. CASE CN[peer[x]] = n
  <2>1. SUFFICES ASSUME Covered(p)'
                 PROVE  Pushing(n)' = {} /\ reg[n] = store
    BY <1>1 DEF SyncOK
  <2>2. Covered(p) /\ x \in Pushing(n) /\ n \notin unclean
    BY <1>0, <1>3, <1>4, <1>7, <2>1 DEF Pushing, Covered
  <2>3. Pushing(n)' = {}
    BY <1>5, <2>2 DEF Pushing, Lone
  <2>4. OnItsWay(x, p)
    BY <2>2 DEF SyncOK
  <2>5. Prunes(x, reg[n])
    BY <1>1, <2>4 DEF OnItsWay
  <2>6. \A i \in Ids : reg[n][i] = store[i]
    BY <1>1, <2>5 DEF Prunes
  <2>7. reg[n] = store
    BY <1>0, <2>6 DEF Modules
  <2>8. QED
    BY <2>3, <2>7
<1>8. QED
  BY <1>6, <1>7

(* Until it lists the nodes, and then until it pushes, a request covers a  *)
(* node for what it changed.                                               *)
LEMMA SyncRequest ==
  ASSUME Parts, PushShape, NEW p \in Peers, SyncOK(p), NEW w \in Workers,
         Request(w) \/ ListPeers(w) \/ Return(w)
  PROVE  SyncOK(p)'
<1>0. pc \in [Pushers -> Steps] /\ targets \in [Workers -> SUBSET Peers]
  BY DEF Parts, PushOK
<1>1. CASE Request(w)
  <2>1. pc' = [pc EXCEPT ![w] = "notify"]
    BY <1>1 DEF Request, Apply, Delete, Change
  <2>2. Announced(p)'
    BY <1>0, <2>1, Disjoint DEF Announced
  <2>3. QED
    BY <2>2 DEF SyncOK, Covered
<1>2. CASE ListPeers(w)
  <2>1. targets' = [targets EXCEPT ![w] = nodes] /\ nodes' = nodes
    BY <1>2 DEF ListPeers, brokerVars
  <2>2. p \in nodes' => Announced(p)'
    BY <1>0, <2>1 DEF Announced
  <2>3. QED
    BY <2>2 DEF SyncOK, Covered
<1>3. CASE Return(w)
  <2>1. /\ pc[w] = "next" /\ targets[w] = {} /\ pc' = [pc EXCEPT ![w] = "idle"]
        /\ UNCHANGED <<store, reg, peer, items, ids, attached, nodes, phase, targets,
                       unclean>>
    BY <1>3 DEF Return, brokerVars, agentVars
  <2>2. \A y \in Pushers : y # w => pc'[y] = pc[y]
    BY <1>0, <2>1
  <2>3. Covered(p)' => Covered(p)
    BY <2>1, <2>2, Disjoint DEF Covered, Announced, Pushers
  <2>4. \A y \in Pushing(CN[p]) : y \in Pushers /\ y # w
    BY <2>1 DEF Pushing, PushShape, Calling
  <2>5. QED
    BY <2>1, <2>2, <2>3, <2>4, SyncFrame
<1>4. QED
  BY <1>1, <1>2, <1>3

(* Nor do the broker, the links and the agents leave a node uncovered: an  *)
(* Add pushes, a restarted agent has to connect, and a connection comes    *)
(* back under its identity only when no push to it is left.                *)
LEMMA SyncElsewhere ==
  ASSUME Parts, PushShape, NEW p \in Peers, SyncOK(p),
         \/ \E q \in Peers : \/ BrokerStep(q) \/ OnFind(q) \/ OnClear(q)
                             \/ LinkLost(q) \/ PeerDead(q) \/ AgentNotices(q) \/ Connect(q)
         \/ \E m \in Names : AgentRestarts(m)
  PROVE  SyncOK(p)'
<1>0. /\ phase \in [Peers -> Phases] /\ CN[p] \in Names /\ reg \in [Names -> Modules]
      /\ p \in nodes => phase[p] \in Served
      /\ phase[p] # "connecting" => pc[p] = "idle"
  BY BrokerAssumption DEF Parts, BrokerTypeOK, EdgeOK, PushShape, CallsOf
<1>1. UNCHANGED <<store, pc, targets, peer, items, ids, unclean>>
  BY DEF BrokerStep, OnFind, OnClear, LinkLost, PeerDead, AgentNotices, Connect,
         AgentRestarts, pushVars
<1>2. ASSUME Covered(p)' => Covered(p), reg'[CN[p]] = reg[CN[p]],
             \A x \in Pushing(CN[p]) : peer[x] \in attached' => peer[x] \in attached
      PROVE  SyncOK(p)'
  BY <1>1, <1>2, SyncFrame
<1>3. ASSUME NEW q \in Peers, BrokerStep(q) \/ OnFind(q) \/ OnClear(q)
      PROVE  SyncOK(p)'
  <2>1. UNCHANGED <<reg, attached>>
    BY <1>3 DEF BrokerStep, OnFind, OnClear, agentVars
  <2>2. CASE Add(q)
    <3>1. nodes' \subseteq nodes \cup {q} /\ phase' = [phase EXCEPT ![q] = "connecting"]
      BY <2>2 DEF Add
    <3>2. CASE q = p
      <4>1. pc[p] = "idle"
        BY <1>0, <2>2, <3>2 DEF Add
      <4>2. Announced(p)'
        BY <1>0, <1>1, <3>1, <3>2, <4>1 DEF Announced
      <4>3. QED
        BY <4>2 DEF SyncOK, Covered
    <3>3. CASE q # p
      <4>1. phase'[p] = phase[p] /\ (p \in nodes' => p \in nodes)
        BY <1>0, <3>1, <3>3
      <4>2. QED
        BY <1>1, <1>2, <2>1, <4>1 DEF Covered, Announced
    <3>4. QED
      BY <3>2, <3>3
  <2>3. CASE CloseSuperseded(q) \/ Remove(q) \/ CallOnDisconnect(q)
    <3>1. /\ nodes' \subseteq nodes
          /\ phase[p] = "connecting" => phase'[p] = "connecting"
      BY <1>0, <2>3 DEF CloseSuperseded, Remove, CallOnDisconnect
    <3>2. QED
      BY <1>1, <1>2, <2>1, <3>1 DEF Covered, Announced
  <2>4. QED
    BY <1>3, <2>2, <2>3 DEF BrokerStep, OnFind, OnClear
<1>4. ASSUME NEW q \in Peers, LinkLost(q) \/ PeerDead(q) \/ AgentNotices(q)
      PROVE  SyncOK(p)'
  <2>1. UNCHANGED <<reg, nodes, phase>> /\ attached' \subseteq attached
    BY <1>4 DEF LinkLost, PeerDead, AgentNotices, ConnectionDone, agentVars, brokerVars
  <2>2. QED
    BY <1>1, <1>2, <2>1 DEF Covered, Announced
<1>5. ASSUME NEW q \in Peers, Connect(q)
      PROVE  SyncOK(p)'
  <2>1. /\ phase[q] = "idle" /\ phase' = [phase EXCEPT ![q] = "accepted"]
        /\ nodes' = nodes /\ attached' = attached \cup {q} /\ reg' = reg
        /\ \A x \in Pushers : peer[x] # q
    BY <1>5 DEF Connect, Accept
  <2>2. CASE q = p
    BY <1>0, <2>1, <2>2 DEF SyncOK, Covered, Served
  <2>3. CASE q # p
    <3>1. Covered(p)' => Covered(p)
      BY <1>0, <1>1, <2>1, <2>3 DEF Covered, Announced
    <3>2. \A x \in Pushing(CN[p]) : peer[x] \in attached' => peer[x] \in attached
      BY <2>1 DEF Pushing
    <3>3. QED
      BY <1>2, <2>1, <3>1, <3>2
  <2>4. QED
    BY <2>2, <2>3
<1>6. ASSUME NEW m \in Names, AgentRestarts(m)
      PROVE  SyncOK(p)'
  <2>1. /\ reg' = [reg EXCEPT ![m] = NoModules]
        /\ attached' = {q \in attached : CN[q] # m} /\ UNCHANGED <<nodes, phase>>
    BY <1>6 DEF AgentRestarts, brokerVars
  <2>2. CASE CN[p] = m
    BY <2>1, <2>2 DEF SyncOK, Covered
  <2>3. CASE CN[p] # m
    <3>1. reg'[CN[p]] = reg[CN[p]] /\ attached' \subseteq attached
      BY <1>0, <2>1, <2>3
    <3>2. QED
      BY <1>1, <1>2, <2>1, <3>1 DEF Covered, Announced
  <2>4. QED
    BY <2>2, <2>3
<1>7. QED
  BY <1>3, <1>4, <1>5, <1>6

LEMMA SyncStep ==
  Parts /\ SyncInv /\ [WasmNext]_wasmVars => SyncInv'
<1> SUFFICES ASSUME Parts, SyncInv, [WasmNext]_wasmVars
             PROVE  SyncInv'
  OBVIOUS
<1>0. PushShape /\ AttachedOne /\ Lone /\ targets \in [Workers -> SUBSET Peers]
  BY DEF SyncInv, Parts, PushOK
<1>1. SUFFICES ASSUME NEW p \in Peers
               PROVE  SyncOK(p)'
  BY <1>0, ShapeStep, AttachedStep, LoneStep DEF SyncInv
<1>2. SyncOK(p)
  BY DEF SyncInv
<1>3. ASSUME NEW x \in Pushers, PushStep(x)
      PROVE  SyncOK(p)'
  BY <1>0, <1>2, <1>3, SyncCall, SyncRecord DEF PushStep
<1>4. ASSUME NEW w \in Workers, PushNext(w)
      PROVE  SyncOK(p)'
  <2>1. PICK q \in targets[w] : /\ targets' = [targets EXCEPT ![w] = targets[w] \ {q}]
                                /\ Begin(w, q) /\ pc[w] = "next"
    BY <1>4 DEF PushNext
  <2>2. q \in Peers /\ w \in Pushers /\ w \notin Peers /\ pc \in [Pushers -> Steps]
    BY <1>0, <2>1, Disjoint DEF Parts, PushOK
  <2>3. phase' = phase /\ \A y \in Pushers : y # w => pc'[y] = pc[y]
    BY <2>1, <2>2 DEF Begin, brokerVars
  <2>4. p # q /\ Announced(p) => Announced(p)'
    BY <1>0, <2>1, <2>2, <2>3, Disjoint DEF Announced, Pushers
  <2>5. QED
    BY <1>0, <1>2, <2>1, <2>2, <2>4, SyncBegin
<1>5. ASSUME NEW q \in Peers, PushConnected(q)
      PROVE  SyncOK(p)'
  <2>1. pc[q] = "idle" /\ targets' = targets /\ Begin(q, q)
    BY <1>5 DEF PushConnected
  <2>2. pc \in [Pushers -> Steps] /\ q \in Pushers /\ q \notin Workers
    BY Disjoint DEF Parts, PushOK, Pushers
  <2>3. phase' = phase /\ \A y \in Pushers : y # q => pc'[y] = pc[y]
    BY <2>1, <2>2 DEF Begin, brokerVars
  <2>4. p # q /\ Announced(p) => Announced(p)'
    BY <2>1, <2>2, <2>3, Disjoint DEF Announced, Pushers
  <2>5. QED
    BY <1>0, <1>2, <2>1, <2>2, <2>4, SyncBegin
<1>6. ASSUME NEW w \in Workers, Request(w) \/ WorkerStep(w)
      PROVE  SyncOK(p)'
  BY <1>0, <1>2, <1>3, <1>4, <1>6, SyncRequest, Disjoint DEF WorkerStep
<1>7. ASSUME NEW q \in Peers, PeerStep(q)
      PROVE  SyncOK(p)'
  BY <1>0, <1>2, <1>3, <1>5, <1>7, SyncElsewhere DEF PeerStep, Pushers
<1>8. CASE \/ \E q \in Peers : LinkLost(q) \/ PeerDead(q) \/ AgentNotices(q) \/ Connect(q)
           \/ \E m \in Names : AgentRestarts(m)
  BY <1>0, <1>2, <1>8, SyncElsewhere
<1>9. CASE UNCHANGED wasmVars
  <2>1. UNCHANGED <<store, reg, pc, targets, peer, items, ids, attached, nodes, phase,
                    unclean>>
    BY <1>9 DEF wasmVars, pushVars, agentVars, brokerVars
  <2>2. Covered(p)' => Covered(p)
    BY <2>1 DEF Covered, Announced
  <2>3. QED
    BY <1>2, <2>1, <2>2, SyncFrame
<1>10. QED
  BY <1>6, <1>7, <1>8, <1>9 DEF WasmNext

LEMMA SyncInit == WasmInit => SyncInv
<1> SUFFICES ASSUME WasmInit
             PROVE  SyncInv
  OBVIOUS
<1> USE DEF WasmInit, BrokerInit
<1>1. PushShape
  BY DEF PushShape, CallsOf, Pushers
<1>2. AttachedOne /\ Lone
  BY DEF AttachedOne, Lone
<1>3. \A p \in Peers : ~Covered(p)
  BY DEF Covered
<1>4. QED
  BY <1>1, <1>2, <1>3 DEF SyncInv, SyncOK

(* The reconcile loop misses nothing: for any number of nodes, reconnects, *)
(* requests and failures, a connected node whose last push succeeded and   *)
(* ran alone holds exactly the desired modules once all is quiet, however  *)
(* changes fell between the two reads of a push and its calls.             *)
THEOREM WasmInSync == WasmSpec => []InSync
<1>1. Parts /\ SyncInv => InSync
  BY DEF SyncInv, SyncOK, Covered, Announced, InSync, Quiet
<1>2. Parts /\ SyncInv /\ [WasmNext]_wasmVars => SyncInv'
  BY SyncStep
<1>3. QED
  BY <1>1, <1>2, SyncInit, WasmInvariant, PTL DEF WasmSpec
=============================================================================

---------------------------- MODULE WasmModules ----------------------------
(***************************************************************************)
(* Desired wasm modules on the popcache nodes: the store                   *)
(* (src/service/wasmmodule/store_gen.go), the generated reconcile loop     *)
(* (src/reconcile/wasm_module_gen.go) and the registry and routing index   *)
(* of the node's edge runtime (src/popcache/edge/edge.go), over the broker *)
(* whose callbacks start the pushes (module Broker).                       *)
(*                                                                         *)
(* Every Apply or Delete pushes from its own request goroutine and every   *)
(* Add from its own connection's, with no lock between them.  A push is a  *)
(* series of calls to the agent with the store read twice in it; each call *)
(* and each read is one step, so that pushes interleave as calls do.       *)
(***************************************************************************)
EXTENDS Broker

CONSTANTS Workers,     \* request goroutines of the store's Apply and Delete
          Ids,         \* module ids
          Specs,       \* what may be declared of a module
          Keys,        \* entries of the routing index: method, path, exact/prefix
          KeysOf,      \* KeysOf[s]: the entries a module declared as s serves
          MaxChanges,  \* bound: Apply and Delete calls
          MaxFaults    \* bound: failed calls, broken links and restarts

Pushers == Workers \cup Peers
Modules == [Ids -> Specs \cup {None}]   \* None: no such module
Index == [Keys -> Ids \cup {None}]      \* None: no entry

ASSUME WasmAssumption ==
  /\ KeysOf \in [Specs -> SUBSET Keys]
  /\ None \notin Specs /\ None \notin Ids
  /\ Workers \cap Peers = {} /\ None \notin Workers
  /\ MaxChanges \in Nat /\ MaxFaults \in Nat
  /\ OnConnect = <<"push">> /\ OnDisconnect = <<"find", "clear">>

VARIABLES
  store,     \* the desired set
  pc,        \* where each pusher stands
  targets,   \* the peers a request's OnChange callback has still to push to
  peer,      \* the peer a pusher is pushing to
  items,     \* desired modules the push has read and not sent yet
  ids,       \* ids the push read the second time, then those to unregister
  failed,    \* pushErr # nil
  status,    \* reconcile.Status of wasm_module, per node
  wipe,      \* peers whose OnDisconnect callback found no live connection
  reg,       \* per node: RoutingRegistry.idToMethodPath (and compiled)
  index,     \* per node: methodPathToID and prefixPathToID
  attached,  \* connections the agent process is really at the other end of
  changes, faults,   \* spent
  unclean    \* history: nodes whose last push failed or ran beside another

pushVars == <<pc, targets, peer, items, ids, failed>>
agentVars == <<reg, index, attached>>
wasmVars == <<brokerVars, store, pushVars, status, wipe, agentVars, changes,
              faults, unclean>>

Steps == {"idle", "notify", "next", "register", "list", "unregister"}
NoModules == [i \in Ids |-> None]
NoIndex == [k \in Keys |-> None]

WasmTypeOK ==
  /\ BrokerTypeOK
  /\ store \in Modules
  /\ pc \in [Pushers -> Steps]
  /\ targets \in [Workers -> SUBSET Peers]
  /\ peer \in [Pushers -> Peers \cup {None}]
  /\ items \in [Pushers -> Modules]
  /\ ids \in [Pushers -> SUBSET Ids]
  /\ failed \in [Pushers -> BOOLEAN]
  /\ status \in [Names -> {"ok", "err"}]
  /\ wipe \in SUBSET Peers
  /\ reg \in [Names -> Modules]
  /\ index \in [Names -> Index]
  /\ attached \in SUBSET Peers
  /\ changes \in Nat /\ faults \in Nat
  /\ unclean \in SUBSET Names

WasmInit ==
  /\ BrokerInit
  /\ store = NoModules
  /\ pc = [x \in Pushers |-> "idle"]
  /\ targets = [w \in Workers |-> {}]
  /\ peer = [x \in Pushers |-> None]
  /\ items = [x \in Pushers |-> NoModules]
  /\ ids = [x \in Pushers |-> {}]
  /\ failed = [x \in Pushers |-> FALSE]
  /\ status = [n \in Names |-> "ok"]
  /\ wipe = {}
  /\ reg = [n \in Names |-> NoModules]
  /\ index = [n \in Names |-> NoIndex]
  /\ attached = {}
  /\ changes = 0 /\ faults = 0
  /\ unclean = {}

Fault == faults < MaxFaults /\ faults' = faults + 1
NoFault == UNCHANGED faults

(* The pushes under way to a node. *)
Pushing(n) == {x \in Pushers : peer[x] # None /\ CN[peer[x]] = n}

-----------------------------------------------------------------------------
(* The edge runtime of a node.                                             *)

(* deleteKeys: the entries of a module's declaration, whoever they name. *)
Without(ix, s) ==
  [k \in Keys |-> IF s # None /\ k \in KeysOf[s] THEN None ELSE ix[k]]

(* Faulty variants, named Bad..., each break one property stated below.    *)
BadWith(ix, i, old, s) == [k \in Keys |-> IF k \in KeysOf[s] THEN i ELSE ix[k]]

With(ix, i, old, s) ==
  [k \in Keys |-> IF k \in KeysOf[s] THEN i ELSE Without(ix, old)[k]]

(* Register: nothing when the module is there as declared.  It is compared *)
(* before it is compiled: a push that ran beside may have registered it    *)
(* by then, and it is entered once more.                                   *)
Register(n, x, i, s) ==
  \/ reg[n][i] = s /\ UNCHANGED <<reg, index>>
  \/ /\ reg[n][i] # s \/ Pushing(n) # {x}
     /\ reg' = [reg EXCEPT ![n][i] = s]
     /\ index' = [index EXCEPT ![n] = With(@, i, reg[n][i], s)]

Unregister(n, i) ==
  /\ reg' = [reg EXCEPT ![n][i] = None]
  /\ index' = [index EXCEPT ![n] = Without(@, reg[n][i])]

Registered(n) == {i \in Ids : reg[n][i] # None}

(* A call over p: the handler runs or fails; on a connection that died the *)
(* caller gets an error, whether or not the handler ran before.            *)
Usable(p) == conn[p] = "open" /\ p \in attached
Refused(p) == (Usable(p) /\ Fault) \/ (conn[p] = "closed" /\ NoFault)

-----------------------------------------------------------------------------
(* The store.  A request whose change has been written runs the OnChange   *)
(* callback before it returns.                                             *)

Change(w, i, s) ==
  /\ pc[w] = "idle"
  /\ changes < MaxChanges /\ changes' = changes + 1
  /\ store' = [store EXCEPT ![i] = s]
  /\ pc' = [pc EXCEPT ![w] = "notify"]
  /\ UNCHANGED <<brokerVars, targets, peer, items, ids, failed, status, wipe,
                 agentVars, faults, unclean>>

Apply(w, i, s) == Change(w, i, s)
Delete(w, i) == Change(w, i, None)

BadListPeers(w) ==
  /\ pc[w] = "notify"
  /\ targets' = [targets EXCEPT ![w] = {p \in nodes : phase[p] = "watching"}]
  /\ pc' = [pc EXCEPT ![w] = "next"]
  /\ UNCHANGED <<brokerVars, store, peer, items, ids, failed, status, wipe,
                 agentVars, changes, faults, unclean>>

(* The callback lists the connected nodes once. *)
ListPeers(w) ==
  /\ pc[w] = "notify"
  /\ targets' = [targets EXCEPT ![w] = nodes]
  /\ pc' = [pc EXCEPT ![w] = "next"]
  /\ UNCHANGED <<brokerVars, store, peer, items, ids, failed, status, wipe,
                 agentVars, changes, faults, unclean>>

(* Apply reads the status back and returns; nothing is changed by that. *)
Return(w) ==
  /\ pc[w] = "next" /\ targets[w] = {}
  /\ pc' = [pc EXCEPT ![w] = "idle"]
  /\ UNCHANGED <<brokerVars, store, targets, peer, items, ids, failed, status,
                 wipe, agentVars, changes, faults, unclean>>

-----------------------------------------------------------------------------
(* A push.                                                                 *)

(* push(p) begins by reading the desired set. *)
Begin(x, p) ==
  /\ pc' = [pc EXCEPT ![x] = "register"]
  /\ peer' = [peer EXCEPT ![x] = p]
  /\ items' = [items EXCEPT ![x] = store]
  /\ failed' = [failed EXCEPT ![x] = FALSE]
  /\ unclean' = IF Pushing(CN[p]) = {} THEN unclean \ {CN[p]} ELSE unclean \cup {CN[p]}
  /\ UNCHANGED <<brokerVars, store, ids, status, wipe, agentVars, changes, faults>>

PushNext(w) ==
  /\ pc[w] = "next"
  /\ \E p \in targets[w] :
       /\ targets' = [targets EXCEPT ![w] = @ \ {p}]
       /\ Begin(w, p)

PushConnected(p) ==
  /\ pc[p] = "idle" /\ calls[p] # <<>> /\ Head(calls[p]) = "push"
  /\ UNCHANGED targets
  /\ Begin(p, p)

(* WasmService.Register for one desired module. *)
CallRegister(x, i) ==
  LET p == peer[x]
  IN /\ pc[x] = "register" /\ items[x][i] # None
     /\ items' = [items EXCEPT ![x][i] = None]
     /\ \/ /\ Usable(p) /\ NoFault
           /\ Register(CN[p], x, i, items[x][i])
           /\ UNCHANGED <<failed, unclean>>
        \/ /\ Refused(p)
           /\ failed' = [failed EXCEPT ![x] = TRUE]
           /\ unclean' = unclean \cup {CN[p]}
           /\ UNCHANGED <<reg, index>>
     /\ UNCHANGED <<brokerVars, store, pc, targets, peer, ids, status, wipe,
                    attached, changes>>

BadReread(x) ==
  /\ pc[x] = "register" /\ items[x] = NoModules
  /\ ids' = [ids EXCEPT ![x] = {store[i] : i \in {j \in Ids : store[j] # None}}]
  /\ pc' = [pc EXCEPT ![x] = "list"]
  /\ UNCHANGED <<brokerVars, store, targets, peer, items, failed, status, wipe,
                 agentVars, changes, faults, unclean>>

(* The desired set is read again: what to keep when pruning. *)
Reread(x) ==
  /\ pc[x] = "register" /\ items[x] = NoModules
  /\ ids' = [ids EXCEPT ![x] = {i \in Ids : store[i] # None}]
  /\ pc' = [pc EXCEPT ![x] = "list"]
  /\ UNCHANGED <<brokerVars, store, targets, peer, items, failed, status, wipe,
                 agentVars, changes, faults, unclean>>

(* ListAttached; when it fails nothing is pruned and no error recorded. *)
CallListAttached(x) ==
  LET p == peer[x]
  IN /\ pc[x] = "list"
     /\ pc' = [pc EXCEPT ![x] = "unregister"]
     /\ \/ /\ Usable(p) /\ NoFault
           /\ ids' = [ids EXCEPT ![x] = Registered(CN[p]) \ @]
           /\ UNCHANGED unclean
        \/ /\ Refused(p)
           /\ ids' = [ids EXCEPT ![x] = {}]
           /\ unclean' = unclean \cup {CN[p]}
     /\ UNCHANGED <<brokerVars, store, targets, peer, items, failed, status, wipe,
                    agentVars, changes>>

(* Unregister for one module to prune; its error is only logged. *)
CallUnregister(x, i) ==
  LET p == peer[x]
  IN /\ pc[x] = "unregister" /\ i \in ids[x]
     /\ ids' = [ids EXCEPT ![x] = @ \ {i}]
     /\ \/ /\ Usable(p) /\ NoFault
           /\ IF reg[CN[p]][i] # None THEN Unregister(CN[p], i)
                                       ELSE UNCHANGED <<reg, index>>
           /\ UNCHANGED unclean
        \/ /\ Refused(p)
           /\ unclean' = unclean \cup {CN[p]}
           /\ UNCHANGED <<reg, index>>
     /\ UNCHANGED <<brokerVars, store, pc, targets, peer, items, failed, status,
                    wipe, attached, changes>>

(* The handler ran, but the connection died before the answer came. *)
AnswerLost(x, i) ==
  LET p == peer[x]
  IN /\ p \in attached /\ conn[p] = "closed"
     /\ \/ /\ pc[x] = "register" /\ items[x][i] # None
           /\ items' = [items EXCEPT ![x][i] = None]
           /\ failed' = [failed EXCEPT ![x] = TRUE]
           /\ Register(CN[p], x, i, items[x][i])
           /\ UNCHANGED ids
        \/ /\ pc[x] = "unregister" /\ i \in Registered(CN[p]) \cap ids[x]
           /\ ids' = [ids EXCEPT ![x] = @ \ {i}]
           /\ Unregister(CN[p], i)
           /\ UNCHANGED <<items, failed>>
     /\ unclean' = unclean \cup {CN[p]}
     /\ UNCHANGED <<brokerVars, store, pc, targets, peer, status, wipe, attached,
                    changes, faults>>

(* Status.Record ends the push. *)
Record(x) ==
  LET n == CN[peer[x]]
  IN /\ pc[x] = "unregister" /\ ids[x] = {}
     /\ status' = [status EXCEPT ![n] = IF failed[x] THEN "err" ELSE "ok"]
     /\ peer' = [peer EXCEPT ![x] = None]
     /\ failed' = [failed EXCEPT ![x] = FALSE]
     /\ IF x \in Workers
        THEN pc' = [pc EXCEPT ![x] = "next"] /\ UNCHANGED brokerVars
        ELSE pc' = [pc EXCEPT ![x] = "idle"] /\ CallOnConnect(x)
     /\ UNCHANGED <<store, targets, items, ids, wipe, agentVars, changes, faults,
                    unclean>>

-----------------------------------------------------------------------------
(* The broker, the disconnect callback, agents and links.                  *)

BrokerStep(p) ==
  /\ Add(p) \/ CloseSuperseded(p) \/ Remove(p)
  /\ UNCHANGED <<store, pushVars, status, wipe, agentVars, changes, faults, unclean>>

OnFind(p) ==
  /\ calls[p] # <<>> /\ Head(calls[p]) = "find" /\ CallOnDisconnect(p)
  /\ wipe' = IF Found(CN[p]) # {} THEN wipe ELSE wipe \cup {p}
  /\ UNCHANGED <<store, pushVars, status, agentVars, changes, faults, unclean>>

OnClear(p) ==
  /\ calls[p] # <<>> /\ Head(calls[p]) = "clear" /\ CallOnDisconnect(p)
  /\ status' = IF p \in wipe THEN [status EXCEPT ![CN[p]] = "ok"] ELSE status
  /\ wipe' = wipe \ {p}
  /\ UNCHANGED <<store, pushVars, agentVars, changes, faults, unclean>>

(* A new process of the agent: its registry is empty. *)
AgentRestarts(n) ==
  /\ Fault
  /\ reg' = [reg EXCEPT ![n] = NoModules]
  /\ index' = [index EXCEPT ![n] = NoIndex]
  /\ attached' = {p \in attached : CN[p] # n}
  /\ UNCHANGED <<brokerVars, store, pushVars, status, wipe, changes, unclean>>

LinkLost(p) ==
  /\ p \in attached /\ Fault
  /\ attached' = attached \ {p}
  /\ UNCHANGED <<brokerVars, store, pushVars, status, wipe, reg, index, changes,
                 unclean>>

PeerDead(p) ==
  /\ p \notin attached /\ ConnectionDone(p)
  /\ UNCHANGED <<store, pushVars, status, wipe, agentVars, changes, faults, unclean>>

AgentNotices(p) ==
  /\ p \in attached /\ conn[p] = "closed"
  /\ attached' = attached \ {p}
  /\ UNCHANGED <<brokerVars, store, pushVars, status, wipe, reg, index, changes,
                 faults, unclean>>

(* One connection of a node at a time; p is a fresh identity. *)
Connect(p) ==
  /\ \A q \in attached : CN[q] # CN[p]
  /\ \A x \in Pushers : peer[x] # p
  /\ \A w \in Workers : p \notin targets[w]
  /\ Accept(p)
  /\ attached' = attached \cup {p}
  /\ UNCHANGED <<store, pushVars, status, wipe, reg, index, changes, faults,
                 unclean>>

-----------------------------------------------------------------------------
Request(w) ==
  \E i \in Ids : Delete(w, i) \/ \E s \in Specs : Apply(w, i, s)

PushStep(x) ==
  \/ \E i \in Ids : CallRegister(x, i) \/ CallUnregister(x, i) \/ AnswerLost(x, i)
  \/ Reread(x) \/ CallListAttached(x) \/ Record(x)

WorkerStep(w) == ListPeers(w) \/ Return(w) \/ PushNext(w) \/ PushStep(w)
PeerStep(p) == PushConnected(p) \/ PushStep(p) \/ OnFind(p) \/ OnClear(p) \/ BrokerStep(p)

WasmNext ==
  \/ \E w \in Workers : Request(w) \/ WorkerStep(w)
  \/ \E p \in Peers : \/ PeerStep(p) \/ LinkLost(p) \/ PeerDead(p)
                      \/ AgentNotices(p) \/ Connect(p)
  \/ \E n \in Names : AgentRestarts(n)

WasmSpec == WasmInit /\ [][WasmNext]_wasmVars

-----------------------------------------------------------------------------
(* Nothing is still to come for a connected node.                          *)
Quiet(p) ==
  /\ p \in nodes \cap attached /\ conn[p] = "open" /\ phase[p] = "watching"
  /\ Pushing(CN[p]) = {}
  /\ \A w \in Workers : pc[w] # "notify" /\ p \notin targets[w]

(* The loop misses nothing: whatever changes while nodes connect, restart  *)
(* and reconnect, a node whose last push succeeded and ran alone has       *)
(* exactly the desired modules once all is quiet.                          *)
InSync ==
  \A p \in Peers : Quiet(p) /\ CN[p] \notin unclean => reg[CN[p]] = store

(* The routing index never names a module that does not serve the entry    *)
(* (RoutingRegistry.Register, Unregister and deleteKeys).                  *)
IndexSound ==
  \A n \in Names, k \in Keys :
    LET i == index[n][k]
    IN i # None => reg[n][i] # None /\ k \in KeysOf[reg[n][i]]

(* LookupByMethodPath resolves the module handling a request: an entry a   *)
(* registered module serves leads to a module.                             *)
RoutesServed ==
  \A n \in Names, i \in Ids :
    reg[n][i] # None => \A k \in KeysOf[reg[n][i]] : index[n][k] # None
=============================================================================

------------------------------- MODULE L4Route -------------------------------
(***************************************************************************)
(* Declared port routes on their way into the kernel of an l4lb node: the  *)
(* l4_route service (src/service/l4route), the loop that pushes the full   *)
(* set (src/reconcile/l4route.go) and the agent that stages it and         *)
(* programs its driver with it (src/l4lb/control/controller.go).           *)
(*                                                                         *)
(* One l4lb node: the loop treats several one after the other in the same  *)
(* way.  Its connections are those of Inventory, as in Peering.  A set of  *)
(* routes is the set of its ports and addresses, and whether a port is in  *)
(* it twice; the order of its names is left out.                           *)
(***************************************************************************)
EXTENDS Naturals, FiniteSets

CONSTANTS Names, Ports, Nodes,
          Addrs,        \* addresses a node may report
          Objects,      \* eBPF objects, told apart by path and content
          Nil,          \* no value
          MaxOps,       \* bound: declarations, deletions, objects, stops
          MaxMoves,     \* bound: changes of a node's address
          MaxConnects,  \* bound: connections of the l4lb
          MaxFailures   \* bound: failing calls into the driver

ASSUME RouteAssumption ==
  /\ Nil \notin Addrs \cup Objects
  /\ MaxOps \in Nat /\ MaxMoves \in Nat /\ MaxConnects \in Nat
  /\ MaxFailures \in Nat

VARIABLES
  store,     \* Handlers.store: the declared routes by name
  checked,   \* declarations ValidateSet let pass, not stored yet
  where,     \* the address a node resolves to, Nil when it does not
  pushed,    \* pushed[cn]: the set pushed last, Nil when deleted
  failed,    \* Status: the last push of l4_route failed
  loop,      \* the push under way: the set and the connection; Nil: none
  link, listed, epoch, hook,  \* as in Peering
  staged,    \* agent: c.dyn.PortRoutes
  object,    \* agent: the objects of c.fix
  driver,    \* agent: c.drv with the objects it was built from; Nil: none
  kernel,    \* agent: the routes in port_route_map, Nil after a failed write
  ops, moves, failures  \* spent

ctlVars == <<store, checked, pushed, failed, loop>>
linkVars == <<link, listed, epoch, hook>>
agentVars == <<staged, object, driver, kernel>>
routeVars == <<ctlVars, where, linkVars, agentVars, ops, moves, failures>>

Decl == [port: Ports, node: Nodes]
Routes == SUBSET [port: Ports, at: Addrs]
Request == [routes: Routes, twice: BOOLEAN]

RouteTypeOK ==
  /\ store \in [Names -> {Nil} \cup Decl]
  /\ checked \subseteq [name: Names, decl: Decl]
  /\ where \in [Nodes -> {Nil} \cup Addrs]
  /\ pushed \in {Nil} \cup Request
  /\ failed \in BOOLEAN
  /\ loop \in {Nil} \cup [req: Request, to: Nat]
  /\ link \in Nat /\ listed \in Nat /\ epoch \in Nat /\ hook \in Nat
  /\ staged \in Routes
  /\ object \in Objects /\ driver \in {Nil} \cup Objects
  /\ kernel \in {Nil} \cup Routes
  /\ ops \in Nat /\ moves \in Nat /\ failures \in Nat

RouteInit ==
  /\ store = [n \in Names |-> Nil] /\ checked = {}
  /\ where = [n \in Nodes |-> Nil]
  /\ pushed = Nil /\ failed = FALSE /\ loop = Nil
  /\ link = 0 /\ listed = 0 /\ epoch = 0 /\ hook = 0
  /\ staged = {} /\ object \in Objects /\ driver = Nil /\ kernel = {}
  /\ ops = 0 /\ moves = 0 /\ failures = 0

Spends == ops < MaxOps /\ ops' = ops + 1
MayFail == failures < MaxFailures /\ failures' = failures + 1

-----------------------------------------------------------------------------
(* The service.                                                            *)

(* ValidateSet: no other declaration has the port.                         *)
PortFree(name, d) ==
  \A n \in Names \ {name} : store[n] # Nil => store[n].port # d.port

(* Apply reads the store, validates, and stores: nothing is held between.  *)
Validate(name, d) ==
  /\ PortFree(name, d) /\ Spends
  /\ checked' = checked \cup {[name |-> name, decl |-> d]}
  /\ UNCHANGED <<store, pushed, failed, loop, where, linkVars, agentVars,
                 moves, failures>>

Store(a) ==
  /\ a \in checked
  /\ checked' = checked \ {a}
  /\ store' = [store EXCEPT ![a.name] = a.decl]
  /\ UNCHANGED <<pushed, failed, loop, where, linkVars, agentVars,
                 ops, moves, failures>>

Delete(name) ==
  /\ store[name] # Nil /\ Spends
  /\ store' = [store EXCEPT ![name] = Nil]
  /\ UNCHANGED <<checked, pushed, failed, loop, where, linkVars, agentVars,
                 moves, failures>>

-----------------------------------------------------------------------------
(* The nodes and the connection of the l4lb.                               *)

(* A node connects, goes, or reports another address.                      *)
Moves(n, a) ==
  /\ where[n] # a /\ moves < MaxMoves
  /\ moves' = moves + 1
  /\ where' = [where EXCEPT ![n] = a]
  /\ UNCHANGED <<ctlVars, linkVars, agentVars, ops, failures>>

Connect ==
  /\ link = 0 /\ epoch < MaxConnects
  /\ epoch' = epoch + 1 /\ link' = epoch + 1 /\ listed' = epoch + 1
  /\ hook' = hook + 1
  /\ UNCHANGED <<ctlVars, where, agentVars, ops, moves, failures>>

(* The connection breaks; the process may have ended with it.              *)
Lose ==
  /\ link # 0 /\ epoch < MaxConnects
  /\ link' = 0
  /\ \/ UNCHANGED agentVars
     \/ staged' = {} /\ driver' = Nil /\ kernel' = {} /\ object' \in Objects
  /\ UNCHANGED <<ctlVars, where, listed, epoch, hook, ops, moves, failures>>

(* The control plane restarts: the declarations are restored, inventory,   *)
(* stats and the loop start empty.                                         *)
RestartControlPlane ==
  /\ link # 0 /\ epoch < MaxConnects
  /\ checked' = {} /\ pushed' = Nil /\ failed' = FALSE /\ loop' = Nil
  /\ where' = [n \in Nodes |-> Nil]
  /\ link' = 0 /\ listed' = 0 /\ hook' = 0
  /\ UNCHANGED <<store, epoch, agentVars, ops, moves, failures>>

(* Broker.Remove *)
Remove ==
  /\ listed # link
  /\ listed' = 0
  /\ UNCHANGED <<ctlVars, where, link, epoch, hook, agentVars, ops, moves,
                 failures>>

-----------------------------------------------------------------------------
(* The loop.                                                               *)

(* Faulty variants, named Bad..., each break one property stated below.    *)
BadForget ==
  /\ hook > 0 /\ loop = Nil
  /\ hook' = hook - 1
  /\ UNCHANGED <<ctlVars, where, link, listed, epoch, agentVars,
                 ops, moves, failures>>

(* OnConnect: the set is to be pushed again.                               *)
Forget ==
  /\ hook > 0 /\ loop = Nil
  /\ hook' = hook - 1
  /\ pushed' = Nil
  /\ UNCHANGED <<store, checked, failed, loop, where, link, listed, epoch,
                 agentVars, ops, moves, failures>>

BadResolved == {n \in Names : store[n] # Nil}

(* Resolve: a route whose node has no address is left out.                 *)
Resolved == {n \in Names : store[n] # Nil /\ where[store[n].node] # Nil}

BadTwice(ns) == \E m, n \in ns : m # n /\ store[m] = store[n]

Twice(ns) == \E m, n \in ns : m # n /\ store[m].port = store[n].port

Desired ==
  [routes |-> {[port |-> store[n].port, at |-> where[store[n].node]] :
                 n \in Resolved},
   twice |-> Twice(Resolved)]

BadFingerprint(req) == IF req = Nil THEN Nil ELSE {r.port : r \in req.routes}

Fingerprint(req) == req

(* On the tick, a change or a connect, under mu: the set differs from what *)
(* was pushed last.                                                        *)
Reconcile ==
  /\ loop = Nil /\ listed # 0
  /\ pushed = Nil \/ Fingerprint(pushed) # Fingerprint(Desired)
  /\ loop' = [req |-> Desired, to |-> listed]
  /\ UNCHANGED <<store, checked, pushed, failed, where, linkVars, agentVars,
                 ops, moves, failures>>

(* SetPortRoutes in the agent: the set is staged, and programmed when a    *)
(* driver runs.                                                            *)
Programs(routes) ==
  /\ staged' = routes
  /\ kernel' = IF driver = Nil THEN kernel ELSE routes

SetPortRoutes ==
  /\ loop # Nil /\ link = loop.to /\ ~loop.req.twice
  /\ Programs(loop.req.routes)
  /\ pushed' = loop.req /\ failed' = FALSE /\ loop' = Nil
  /\ UNCHANGED <<store, checked, where, linkVars, object, driver,
                 ops, moves, failures>>

(* The call fails: the connection is gone, perhaps after the agent was     *)
(* through; a port is there twice; or the driver fails in its writes.      *)
PushFails ==
  /\ loop # Nil
  /\ \/ link # loop.to /\ UNCHANGED <<link, agentVars, failures>>
     \/ link = loop.to /\ loop.req.twice /\ UNCHANGED <<link, agentVars, failures>>
     \/ /\ link = loop.to /\ ~loop.req.twice /\ epoch < MaxConnects
        /\ Programs(loop.req.routes)
        /\ link' = 0
        /\ UNCHANGED <<object, driver, failures>>
     \/ /\ link = loop.to /\ ~loop.req.twice /\ driver # Nil /\ MayFail
        /\ staged' = loop.req.routes /\ kernel' = Nil
        /\ UNCHANGED <<link, object, driver>>
  /\ pushed' = Nil /\ failed' = TRUE /\ loop' = Nil
  /\ UNCHANGED <<store, checked, where, listed, epoch, hook, ops, moves>>

-----------------------------------------------------------------------------
(* The agent's other calls.                                                *)

(* buildLocked: the driver is built from the staged config, or none runs.  *)
Builds(o) ==
  \/ driver' = o /\ kernel' = staged /\ UNCHANGED failures
  \/ driver' = Nil /\ kernel' = {} /\ MayFail

(* node_run starts the node again after a stop or a failure.               *)
Start ==
  /\ driver = Nil /\ link # 0
  /\ Builds(object)
  /\ UNCHANGED <<ctlVars, where, linkVars, staged, object, ops, moves>>

Stop ==
  /\ driver # Nil /\ link # 0 /\ Spends
  /\ driver' = Nil /\ kernel' = {}
  /\ UNCHANGED <<ctlVars, where, linkVars, staged, object, moves, failures>>

(* A running driver built from other objects is closed and built again.    *)
SetBalancerObject(o) ==
  /\ link # 0 /\ Spends
  /\ object' = o
  /\ IF driver \in {Nil, o} THEN UNCHANGED <<driver, kernel, failures>>
     ELSE Builds(o)
  /\ UNCHANGED <<ctlVars, where, linkVars, staged, moves>>

RouteNext ==
  \/ \E name \in Names : Delete(name) \/ \E d \in Decl : Validate(name, d)
  \/ \E a \in checked : Store(a)
  \/ \E n \in Nodes, a \in {Nil} \cup Addrs : Moves(n, a)
  \/ Connect \/ Lose \/ Remove \/ RestartControlPlane
  \/ Forget \/ Reconcile \/ SetPortRoutes \/ PushFails
  \/ Start \/ Stop \/ \E o \in Objects : SetBalancerObject(o)

RouteFairness ==
  /\ \A a \in [name: Names, decl: Decl] : WF_routeVars(Store(a))
  /\ WF_routeVars(Connect) /\ SF_routeVars(Forget) /\ WF_routeVars(Reconcile)
  /\ WF_routeVars(SetPortRoutes) /\ WF_routeVars(PushFails)
  /\ WF_routeVars(Start)

RouteSpec == RouteInit /\ [][RouteNext]_routeVars /\ RouteFairness

-----------------------------------------------------------------------------
(* Properties.                                                             *)

(* What the loop takes for pushed is what the connected agent has staged   *)
(* and, whenever a driver runs, what its kernel map holds: through starts, *)
(* stops, reloads that fail, failed writes and broken connections.         *)
RoutesHonest ==
  (pushed # Nil /\ link # 0 /\ hook = 0) =>
    /\ staged = pushed.routes
    /\ driver # Nil => kernel = staged

(* One destination for a port, in what is staged and in the kernel: two    *)
(* names may come to declare one port, as Apply holds nothing between      *)
(* ValidateSet and the store, but never does the agent take them both.     *)
OneEach(routes) == \A r, q \in routes : r.port = q.port => r = q
OneDestination == OneEach(staged) /\ (kernel # Nil => OneEach(kernel))

(* As long as no port is declared twice, the node ends up running with     *)
(* exactly the routes that resolve.                                        *)
RoutesConverge ==
  <>[](link # 0 /\ ~Desired.twice => driver # Nil /\ kernel = Desired.routes)
=============================================================================

---------------------------- MODULE L4RouteProofs ----------------------------
(***************************************************************************)
(* Proofs about L4Route, for every set of names, ports, nodes, addresses   *)
(* and objects and every bound: its types, and that what the loop takes    *)
(* for pushed is what the agent holds and its kernel map shows.  The       *)
(* second needs no strengthening: every step that touches the agent, or    *)
(* replaces its connection, also touches what the loop remembers, or is    *)
(* announced by a callback.                                                *)
(***************************************************************************)
EXTENDS L4Route, TLAPS

(* The set a reconcile wants is a request: only routes that resolve. *)
LEMMA DesiredIsRequest == ASSUME RouteTypeOK PROVE Desired \in Request
<1>1. Resolved \subseteq Names
  BY DEF Resolved
<1>2. \A n \in Resolved : store[n].port \in Ports /\ where[store[n].node] \in Addrs
  <2> TAKE n \in Resolved
  <2>1. store[n] \in Decl /\ where[store[n].node] # Nil
    BY DEF Resolved, RouteTypeOK
  <2>2. store[n].port \in Ports /\ store[n].node \in Nodes
    BY <2>1 DEF Decl
  <2>3. QED
    BY <2>1, <2>2 DEF RouteTypeOK
<1>3. {[port |-> store[n].port, at |-> where[store[n].node]] : n \in Resolved} \in Routes
  BY <1>2 DEF Routes
<1>4. Twice(Resolved) \in BOOLEAN
  BY DEF Twice
<1>5. QED
  BY <1>3, <1>4 DEF Desired, Request

(* What the operator, the nodes and the connection do keeps the types. *)
LEMMA RouteTypeWorld ==
  ASSUME RouteTypeOK,
         \/ \E name \in Names : Delete(name) \/ \E d \in Decl : Validate(name, d)
         \/ \E a \in checked : Store(a)
         \/ \E n \in Nodes, a \in {Nil} \cup Addrs : Moves(n, a)
         \/ Connect \/ Lose \/ Remove \/ RestartControlPlane
  PROVE  RouteTypeOK'
<1> USE DEF RouteTypeOK, linkVars, agentVars, ctlVars, Spends
<1>1. ASSUME NEW name \in Names, Delete(name) PROVE RouteTypeOK'
  BY <1>1 DEF Delete
<1>2. ASSUME NEW name \in Names, NEW d \in Decl, Validate(name, d) PROVE RouteTypeOK'
  BY <1>2 DEF Validate
<1>3. ASSUME NEW a \in checked, Store(a) PROVE RouteTypeOK'
  <2>1. a.name \in Names /\ a.decl \in Decl
    OBVIOUS
  <2>2. store' \in [Names -> {Nil} \cup Decl]
    BY <1>3, <2>1 DEF Store
  <2>3. QED
    BY <1>3, <2>2 DEF Store
<1>4. ASSUME NEW n \in Nodes, NEW a \in {Nil} \cup Addrs, Moves(n, a) PROVE RouteTypeOK'
  BY <1>4 DEF Moves
<1>5. CASE Connect
  BY <1>5 DEF Connect
<1>6. CASE Lose
  BY <1>6 DEF Lose, Routes
<1>7. CASE Remove
  BY <1>7 DEF Remove
<1>8. CASE RestartControlPlane
  BY <1>8 DEF RestartControlPlane
<1>9. QED
  BY <1>1, <1>2, <1>3, <1>4, <1>5, <1>6, <1>7, <1>8

(* What the loop and the agent do keeps the types. *)
LEMMA RouteTypeLoop ==
  ASSUME RouteTypeOK,
         \/ Forget \/ Reconcile \/ SetPortRoutes \/ PushFails
         \/ Start \/ Stop \/ \E o \in Objects : SetBalancerObject(o)
  PROVE  RouteTypeOK'
<1> USE DEF RouteTypeOK, linkVars, agentVars, ctlVars, MayFail, Spends
<1>1. CASE Forget
  BY <1>1 DEF Forget
<1>2. CASE Reconcile
  BY <1>2, DesiredIsRequest DEF Reconcile
<1>3. loop # Nil => loop.req \in Request /\ loop.req.routes \in Routes
  BY DEF Request
<1>4. CASE SetPortRoutes
  BY <1>3, <1>4 DEF SetPortRoutes, Programs
<1>5. CASE PushFails
  BY <1>3, <1>5 DEF PushFails, Programs
<1>6. CASE Start
  BY <1>6 DEF Start, Builds, Routes
<1>7. CASE Stop
  BY <1>7 DEF Stop, Routes
<1>8. ASSUME NEW o \in Objects, SetBalancerObject(o) PROVE RouteTypeOK'
  BY <1>8 DEF SetBalancerObject, Builds, Routes
<1>9. QED
  BY <1>1, <1>2, <1>4, <1>5, <1>6, <1>7, <1>8

(* Type correctness of the service, the loop and the agent. *)
THEOREM RouteTypeCorrect == RouteSpec => []RouteTypeOK
<1>1. RouteInit => RouteTypeOK
  <2> SUFFICES ASSUME RouteInit PROVE RouteTypeOK
    OBVIOUS
  <2>1. {} \in Routes
    BY DEF Routes
  <2>2. store \in [Names -> {Nil} \cup Decl] /\ where \in [Nodes -> {Nil} \cup Addrs]
    BY DEF RouteInit
  <2>3. checked \subseteq [name: Names, decl: Decl] /\ object \in Objects
    BY DEF RouteInit
  <2>4. QED
    BY <2>1, <2>2, <2>3 DEF RouteInit, RouteTypeOK
<1>2. RouteTypeOK /\ [RouteNext]_routeVars => RouteTypeOK'
  <2> SUFFICES ASSUME RouteTypeOK, [RouteNext]_routeVars PROVE RouteTypeOK'
    OBVIOUS
  <2>1. CASE RouteNext
    BY <2>1, RouteTypeWorld, RouteTypeLoop DEF RouteNext
  <2>2. CASE UNCHANGED routeVars
    BY <2>2 DEF RouteTypeOK, routeVars, ctlVars, linkVars, agentVars
  <2>3. QED
    BY <2>1, <2>2
<1>3. QED
  BY <1>1, <1>2, PTL DEF RouteSpec

-----------------------------------------------------------------------------
(* A step that touches neither the agent nor what was pushed, and brings   *)
(* no connection without its callback, leaves the two as they are.         *)
LEMMA HonestQuiet ==
  ASSUME RoutesHonest, UNCHANGED <<pushed, agentVars>>,
         (link' # 0 /\ hook' = 0) => (link # 0 /\ hook = 0)
  PROVE  RoutesHonest'
BY DEF RoutesHonest, agentVars

(* Every step keeps the record of the loop true. *)
LEMMA HonestStep == RouteTypeOK /\ RoutesHonest /\ [RouteNext]_routeVars => RoutesHonest'
<1> SUFFICES ASSUME RouteTypeOK, RoutesHonest, [RouteNext]_routeVars PROVE RoutesHonest'
  OBVIOUS
<1>1. ASSUME NEW name \in Names, NEW d \in Decl, Validate(name, d) PROVE RoutesHonest'
  BY <1>1, HonestQuiet DEF Validate, linkVars
<1>2. ASSUME NEW a \in checked, Store(a) PROVE RoutesHonest'
  BY <1>2, HonestQuiet DEF Store, linkVars
<1>3. ASSUME NEW n \in Nodes, NEW a \in {Nil} \cup Addrs, Moves(n, a) PROVE RoutesHonest'
  BY <1>3, HonestQuiet DEF Moves, linkVars, ctlVars
<1>4. CASE Connect
  <2>1. hook' # 0
    BY <1>4 DEF Connect, RouteTypeOK
  <2>2. QED
    BY <2>1 DEF RoutesHonest
<1>5. CASE Lose
  BY <1>5 DEF Lose, RoutesHonest
<1>6. CASE Remove
  BY <1>6, HonestQuiet DEF Remove, ctlVars
<1>7. CASE RestartControlPlane \/ Forget \/ PushFails
  BY <1>7 DEF RestartControlPlane, Forget, PushFails, RoutesHonest
<1>8. CASE Reconcile
  BY <1>8, HonestQuiet DEF Reconcile, linkVars
<1>9. CASE SetPortRoutes
  BY <1>9 DEF SetPortRoutes, Programs, RoutesHonest
<1>10. CASE Start
  BY <1>10 DEF Start, Builds, RoutesHonest, ctlVars, linkVars
<1>11. CASE Stop
  BY <1>11 DEF Stop, RoutesHonest, ctlVars, linkVars
<1>12. ASSUME NEW o \in Objects, SetBalancerObject(o) PROVE RoutesHonest'
  BY <1>12 DEF SetBalancerObject, Builds, RoutesHonest, ctlVars, linkVars
<1>13. CASE UNCHANGED routeVars
  BY <1>13, HonestQuiet DEF routeVars, ctlVars, linkVars
<1>14. ASSUME NEW name \in Names, Delete(name) PROVE RoutesHonest'
  BY <1>14, HonestQuiet DEF Delete, linkVars
<1>15. QED
  BY <1>1, <1>2, <1>3, <1>4, <1>5, <1>6, <1>7, <1>8, <1>9, <1>10, <1>11, <1>12, <1>13,
     <1>14 DEF RouteNext

(* What was pushed last is what the agent holds and its kernel map shows,  *)
(* through starts, stops, reloads, failed writes and broken connections.   *)
THEOREM RoutesHonestCorrect == RouteSpec => []RoutesHonest
<1>1. RouteInit => RoutesHonest
  BY DEF RouteInit, RoutesHonest
<1>2. QED
  BY RouteTypeCorrect, HonestStep, <1>1, PTL DEF RouteSpec

-----------------------------------------------------------------------------
(* One destination for a port, whatever declarations race past ValidateSet.*)
(* Nor is a set on its way with two, unless the agent will refuse it.      *)
OneInv ==
  /\ OneDestination
  /\ loop # Nil => (~loop.req.twice => OneEach(loop.req.routes))

(* A set the loop does not count a port twice in sends it to one address.  *)
LEMMA DesiredOnce ==
  ASSUME ~Desired.twice
  PROVE  OneEach(Desired.routes)
<1> SUFFICES ASSUME NEW r \in Desired.routes, NEW q \in Desired.routes, r.port = q.port
             PROVE  r = q
  BY DEF OneEach
<1>1. PICK m \in Resolved : r = [port |-> store[m].port, at |-> where[store[m].node]]
  BY DEF Desired
<1>2. PICK n \in Resolved : q = [port |-> store[n].port, at |-> where[store[n].node]]
  BY DEF Desired
<1>3. store[m].port = store[n].port
  BY <1>1, <1>2
<1>4. m = n
  BY <1>3 DEF Desired, Twice
<1>5. QED
  BY <1>1, <1>2, <1>4

(* A step that touches neither the agent nor the push under way.           *)
LEMMA OneQuiet ==
  ASSUME OneInv, loop' \in {Nil, loop}, UNCHANGED <<staged, kernel>>
  PROVE  OneInv'
BY DEF OneInv, OneDestination

(* The agent programs what it has staged, or nothing.                      *)
LEMMA OneBuilds ==
  ASSUME OneInv, NEW o \in Objects, Builds(o), UNCHANGED <<loop, staged>>
  PROVE  OneInv'
BY DEF OneInv, OneDestination, OneEach, Builds

(* Every step keeps one destination for a port.                            *)
LEMMA OneStep == OneInv /\ RouteTypeOK /\ [RouteNext]_routeVars => OneInv'
<1> SUFFICES ASSUME OneInv, RouteTypeOK, [RouteNext]_routeVars PROVE OneInv'
  OBVIOUS
<1> USE DEF ctlVars, linkVars, agentVars
<1>1. ASSUME NEW name \in Names, NEW d \in Decl, Validate(name, d) PROVE OneInv'
  BY <1>1, OneQuiet DEF Validate
<1>2. ASSUME NEW a \in checked, Store(a) PROVE OneInv'
  BY <1>2, OneQuiet DEF Store
<1>3. ASSUME NEW n \in Nodes, NEW a \in {Nil} \cup Addrs, Moves(n, a) PROVE OneInv'
  BY <1>3, OneQuiet DEF Moves
<1>4. ASSUME NEW name \in Names, Delete(name) PROVE OneInv'
  BY <1>4, OneQuiet DEF Delete
<1>5. CASE Connect \/ Remove \/ RestartControlPlane \/ Forget
  BY <1>5, OneQuiet DEF Connect, Remove, RestartControlPlane, Forget
<1>6. CASE Lose
  <2>1. loop' = loop
    BY <1>6 DEF Lose
  <2>2. UNCHANGED <<staged, kernel>> \/ (staged' = {} /\ kernel' = {})
    BY <1>6 DEF Lose
  <2>3. QED
    BY <2>1, <2>2 DEF OneInv, OneDestination, OneEach
<1>7. CASE Reconcile
  <2>1. loop'.req = Desired /\ UNCHANGED <<staged, kernel>>
    BY <1>7 DEF Reconcile
  <2>2. QED
    BY <2>1, DesiredOnce DEF OneInv, OneDestination
<1>8. CASE SetPortRoutes
  BY <1>8 DEF SetPortRoutes, Programs, OneInv, OneDestination
<1>9. CASE PushFails
  <2>1. loop # Nil /\ loop' = Nil
    BY <1>9 DEF PushFails
  <2>2. \/ UNCHANGED <<staged, kernel>>
        \/ /\ ~loop.req.twice /\ staged' = loop.req.routes
           /\ kernel' \in {Nil, kernel, loop.req.routes}
    BY <1>9 DEF PushFails, Programs
  <2>3. QED
    BY <2>1, <2>2 DEF OneInv, OneDestination
<1>10. CASE Start
  <2>1. object \in Objects /\ Builds(object) /\ UNCHANGED <<loop, staged>>
    BY <1>10 DEF Start, RouteTypeOK
  <2>2. QED
    BY <2>1, OneBuilds
<1>11. CASE Stop
  BY <1>11 DEF Stop, OneInv, OneDestination, OneEach
<1>12. ASSUME NEW o \in Objects, SetBalancerObject(o) PROVE OneInv'
  BY <1>12, OneBuilds, OneQuiet DEF SetBalancerObject
<1>13. CASE UNCHANGED routeVars
  BY <1>13, OneQuiet DEF routeVars
<1>14. QED
  BY <1>1, <1>2, <1>3, <1>4, <1>5, <1>6, <1>7, <1>8, <1>9, <1>10, <1>11, <1>12, <1>13
  DEF RouteNext

(* Apply holds nothing between ValidateSet and the store, so two names can *)
(* declare one port; the agent all the same never stages, and its table    *)
(* never shows, two destinations for a port.                               *)
THEOREM OneDestinationCorrect == RouteSpec => []OneDestination
<1>1. RouteInit => OneInv
  BY DEF RouteInit, OneInv, OneDestination, OneEach
<1>2. OneInv => OneDestination
  BY DEF OneInv
<1>3. QED
  BY <1>1, <1>2, OneStep, RouteTypeCorrect, PTL DEF RouteSpec
=============================================================================

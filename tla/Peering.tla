------------------------------- MODULE Peering -------------------------------
(***************************************************************************)
(* The peering loops of the control plane (src/reconcile/peering_gen.go):  *)
(* the set of ready source nodes, read from the stat cache, is pushed to   *)
(* every connected target on a tick and on a connect.  There are three of  *)
(* them, told apart by the type of their targets, which is chosen once:    *)
(*   "l4lb"      popcache backends into the destination table, after an    *)
(*               entry of the target itself                                *)
(*   "popcache"  l4lb fronts for the decapsulation tunnels, ignored by the *)
(*               agent until an interface is bound                         *)
(*   "workload"  l4lb fronts for the allowlist                             *)
(*                                                                         *)
(* The connections are those of Inventory: an entry of the inventory may   *)
(* outlive its connection, a new one replaces it and then has its OnConnect *)
(* callback run.  A loop works under one mutex, over the RPC.  Time passes *)
(* in ticks, at any point of it.                                           *)
(***************************************************************************)
EXTENDS Naturals, FiniteSets

CONSTANTS Targets, Sources,
          Nil,          \* no value
          LateBind,     \* may an interface be declared while the target is connected
          Grace,        \* peeringStartupGrace, in ticks
          MaxConnects,  \* bound: connections of a target
          MaxFaults     \* bound: restarts of the control plane, connections
                        \* lost by sources that run on, pushes refused

ASSUME PeeringAssumption ==
  /\ Nil \notin Targets \cup Nat /\ \A S \in SUBSET Sources : Nil # S
  /\ LateBind \in BOOLEAN
  /\ Grace \in Nat \ {0}
  /\ MaxConnects \in Nat /\ MaxFaults \in Nat

VARIABLES
  kind,      \* the target type of this loop
  ready,     \* sources that run, are bound and have a ServerID
  gone,      \* sources that left for good
  known,     \* sources that are ready as the inventory and the cache have it
  selfUp,    \* targets whose own stats in the cache pass the same gate
  link,      \* agent: the live connection of a target, 0 when there is none
  listed,    \* dpbroker: the connection in the inventory, 0 when there is none
  epoch,     \* number of connections of a target so far
  hook,      \* OnConnect callbacks of a target that still have to run
  declared,  \* targets with a declared interface
  bound,     \* agent: the interface is bound (vipBoundDev)
  table,     \* agent: the set it holds, Nil in a new process
  mgrs,      \* DestManager.DestList by target, Nil when there is no manager
  seen,      \* time since seen[cn] of a target was set, Nil when it is not
  age,       \* history: time since the target's last connection was added
  loop,      \* the reconcile under way, Nil when mu is free
  faults     \* spent

agentVars == <<bound, table>>
ctlVars == <<mgrs, seen>>
worldVars == <<ready, gone, known, selfUp, declared>>
peerVars == <<kind, worldVars, link, listed, epoch, hook, agentVars, ctlVars,
              age, loop, faults>>

Kinds == {"l4lb", "popcache", "workload"}
WithSelf == kind = "l4lb"
Loop == [sources: SUBSET Sources, live: SUBSET Targets,
         todo: [Targets -> Nat], wait: Targets \cup {Nil}]

PeeringTypeOK ==
  /\ kind \in Kinds
  /\ ready \subseteq Sources /\ gone \subseteq Sources \ ready
  /\ known \subseteq Sources
  /\ selfUp \subseteq Targets
  /\ link \in [Targets -> Nat] /\ listed \in [Targets -> Nat]
  /\ epoch \in [Targets -> Nat]
  /\ hook \in [Targets -> Nat]
  /\ declared \subseteq Targets /\ bound \subseteq Targets
  /\ table \in [Targets -> {Nil} \cup SUBSET Sources]
  /\ mgrs \in [Targets -> {Nil} \cup SUBSET Sources]
  /\ seen \in [Targets -> {Nil} \cup 0..Grace] /\ age \in [Targets -> 0..Grace]
  /\ loop \in {Nil} \cup Loop
  /\ \A t \in Targets :
       (mgrs[t] # Nil \/ (loop # Nil /\ loop.wait = t)) => seen[t] # Nil
  /\ faults \in Nat

PeeringInit ==
  /\ kind \in Kinds
  /\ ready \in SUBSET Sources /\ gone = {} /\ known = {}
  /\ selfUp = {}
  /\ link = [t \in Targets |-> 0] /\ listed = [t \in Targets |-> 0]
  /\ epoch = [t \in Targets |-> 0]
  /\ hook = [t \in Targets |-> 0]
  /\ declared = {} /\ bound = {}
  /\ table = [t \in Targets |-> Nil]
  /\ mgrs = [t \in Targets |-> Nil]
  /\ seen = [t \in Targets |-> Nil] /\ age = [t \in Targets |-> Grace]
  /\ loop = Nil
  /\ faults = 0

-----------------------------------------------------------------------------
(* The nodes.                                                              *)

SourceJoins(s) ==
  /\ s \notin ready \cup gone
  /\ ready' = ready \cup {s}
  /\ UNCHANGED <<kind, gone, known, selfUp, declared, link, listed, epoch, hook,
                 agentVars, ctlVars, age, loop, faults>>

(* Its dataplane stops or loses its interface.                             *)
SourceLeaves(s) ==
  /\ s \in ready
  /\ ready' = ready \ {s} /\ gone' = gone \cup {s}
  /\ UNCHANGED <<kind, known, selfUp, declared, link, listed, epoch, hook,
                 agentVars, ctlVars, age, loop, faults>>

(* What the inventory and the cache have of a source becomes true, sooner  *)
(* or later: it connects and reports; it reports the stop, or is removed.  *)
SourceReports(s) ==
  /\ s \in known <=> s \notin ready
  /\ known' = IF s \in ready THEN known \cup {s} ELSE known \ {s}
  /\ UNCHANGED <<kind, ready, gone, selfUp, declared, link, listed, epoch, hook,
                 agentVars, ctlVars, age, loop, faults>>

(* A source that runs on loses its connection to the control plane, and    *)
(* with it its entry and its stats.                                        *)
SourceLost(s) ==
  /\ s \in ready \cap known /\ faults < MaxFaults
  /\ faults' = faults + 1
  /\ known' = known \ {s}
  /\ UNCHANGED <<kind, ready, gone, selfUp, declared, link, listed, epoch, hook,
                 agentVars, ctlVars, age, loop>>

TargetReports(t) ==
  /\ WithSelf /\ link[t] # 0 /\ t \notin selfUp
  /\ selfUp' = selfUp \cup {t}
  /\ UNCHANGED <<kind, ready, gone, known, declared, link, listed, epoch, hook,
                 agentVars, ctlVars, age, loop, faults>>

(* Broker.Add: the new connection takes the place of the one listed, then  *)
(* the callbacks run.                                                      *)
Connect(t) ==
  /\ link[t] = 0 /\ epoch[t] < MaxConnects
  /\ epoch' = [epoch EXCEPT ![t] = @ + 1]
  /\ link' = [link EXCEPT ![t] = epoch[t] + 1]
  /\ listed' = [listed EXCEPT ![t] = epoch[t] + 1]
  /\ hook' = [hook EXCEPT ![t] = @ + 1]
  /\ age' = [age EXCEPT ![t] = 0]
  /\ UNCHANGED <<kind, worldVars, agentVars, ctlVars, loop, faults>>

(* The connection breaks; the process may have ended with it.              *)
Lose(t) ==
  /\ link[t] # 0 /\ epoch[t] < MaxConnects
  /\ link' = [link EXCEPT ![t] = 0]
  /\ \/ UNCHANGED <<agentVars, selfUp>>
     \/ /\ table' = [table EXCEPT ![t] = Nil]
        /\ bound' = bound \ {t}
        /\ selfUp' \in {selfUp, selfUp \ {t}}
  /\ UNCHANGED <<kind, ready, gone, known, declared, listed, epoch, hook,
                 ctlVars, age, loop, faults>>

(* Broker.Remove: the stats go with the entry.                             *)
Remove(t) ==
  /\ listed[t] # link[t]
  /\ listed' = [listed EXCEPT ![t] = 0]
  /\ selfUp' = selfUp \ {t}
  /\ UNCHANGED <<kind, ready, gone, known, declared, link, epoch, hook, agentVars,
                 ctlVars, age, loop, faults>>

(* An interface is declared and pushed to the target if it is connected.   *)
DeclareInterface(t) ==
  /\ kind = "popcache"  \* the other agents take a push without one
  /\ t \notin declared /\ (LateBind \/ link[t] = 0)
  /\ declared' = declared \cup {t}
  /\ bound' = IF link[t] # 0 THEN bound \cup {t} ELSE bound
  /\ UNCHANGED <<kind, ready, gone, known, selfUp, link, listed, epoch, hook,
                 table, ctlVars, age, loop, faults>>

(* The control plane restarts: cache, inventory and loop start empty, every *)
(* agent has to connect again.                                             *)
RestartControlPlane ==
  /\ faults < MaxFaults /\ \A t \in Targets : epoch[t] < MaxConnects
  /\ faults' = faults + 1
  /\ known' = {} /\ selfUp' = {}
  /\ link' = [t \in Targets |-> 0] /\ listed' = [t \in Targets |-> 0]
  /\ hook' = [t \in Targets |-> 0]
  /\ mgrs' = [t \in Targets |-> Nil] /\ seen' = [t \in Targets |-> Nil]
  /\ loop' = Nil
  /\ UNCHANGED <<kind, ready, gone, declared, epoch, agentVars, age>>

(* Time passes, for every clock.                                           *)
Older(time) == IF time \in {Nil, Grace} THEN time ELSE time + 1

Tick ==
  /\ \E t \in Targets : Older(seen[t]) # seen[t] \/ Older(age[t]) # age[t]
  /\ seen' = [t \in Targets |-> Older(seen[t])]
  /\ age' = [t \in Targets |-> Older(age[t])]
  /\ UNCHANGED <<kind, worldVars, link, listed, epoch, hook, agentVars, mgrs,
                 loop, faults>>

-----------------------------------------------------------------------------
(* The loop.                                                               *)

(* Faulty variants, named Bad..., each break one property stated below.    *)
BadForget(t) ==
  /\ hook[t] > 0 /\ loop = Nil
  /\ hook' = [hook EXCEPT ![t] = @ - 1]
  /\ seen' = [seen EXCEPT ![t] = Nil]
  /\ bound' = IF t \in declared /\ link[t] # 0 THEN bound \cup {t} ELSE bound
  /\ UNCHANGED <<kind, worldVars, link, listed, epoch, table, mgrs, age, loop,
                 faults>>

BadForgetSeen(t) ==
  /\ hook[t] > 0 /\ loop = Nil
  /\ hook' = [hook EXCEPT ![t] = @ - 1]
  /\ mgrs' = [mgrs EXCEPT ![t] = Nil]
  /\ bound' = IF t \in declared /\ link[t] # 0 THEN bound \cup {t} ELSE bound
  /\ UNCHANGED <<kind, worldVars, link, listed, epoch, table, seen, age, loop,
                 faults>>

(* OnConnect: what is known of the target is forgotten (a Reconcile        *)
(* follows).  The interface loop's callback ran before this one.           *)
Forget(t) ==
  /\ hook[t] > 0 /\ loop = Nil
  /\ hook' = [hook EXCEPT ![t] = @ - 1]
  /\ mgrs' = [mgrs EXCEPT ![t] = Nil]
  /\ seen' = [seen EXCEPT ![t] = Nil]
  /\ bound' = IF t \in declared /\ link[t] # 0 THEN bound \cup {t} ELSE bound
  /\ UNCHANGED <<kind, worldVars, link, listed, epoch, table, age, loop,
                 faults>>

(* On the tick or from a callback: mu is taken, the sources and the targets *)
(* are read.                                                               *)
Reconcile ==
  /\ loop = Nil
  /\ loop' = [sources |-> known, live |-> {t \in Targets : listed[t] # 0},
              todo |-> listed, wait |-> Nil]
  /\ UNCHANGED <<kind, worldVars, link, listed, epoch, hook, agentVars, ctlVars,
                 age, faults>>

(* A new DestManager holds no entries: without an entry of the target it   *)
(* does not differ from an empty set.                                      *)
NewManager == IF WithSelf THEN Nil ELSE {}

Held(t) == IF mgrs[t] = Nil THEN NewManager ELSE mgrs[t]

Seen(t) == IF seen[t] = Nil THEN 0 ELSE seen[t]

HeldBack(t) == loop.sources = {} /\ Seen(t) < Grace
NotReady(t) == WithSelf /\ t \notin selfUp

Skipped(t) == HeldBack(t) \/ NotReady(t)
Done(t) == loop' = [loop EXCEPT !.todo[t] = 0, !.wait = Nil]

BadUnchanged(t) ==
  Held(t) # Nil /\ Cardinality(Held(t)) = Cardinality(loop.sources)

(* DestManager.UpdateIfDiffer *)
Unchanged(t) == Held(t) = loop.sources

(* One target of the list, up to the call: none is made when the set is    *)
(* held back, has no first entry yet or is what was pushed last.           *)
Visit(t) ==
  /\ loop # Nil /\ loop.wait = Nil /\ loop.todo[t] # 0
  /\ seen' = [seen EXCEPT ![t] = Seen(t)]
  /\ mgrs' = IF Skipped(t) THEN mgrs ELSE [mgrs EXCEPT ![t] = Held(t)]
  /\ IF Skipped(t) \/ Unchanged(t)
     THEN Done(t) ELSE loop' = [loop EXCEPT !.wait = t]
  /\ UNCHANGED <<kind, worldVars, link, listed, epoch, hook, agentVars, age,
                 faults>>

Waits(t) == loop # Nil /\ loop.wait = t
Alive(t) == link[t] = loop.todo[t]

(* The agent handles the call.  A popcache without interface returns       *)
(* before it does anything.                                                *)
Takes(t) == link[t] # 0 /\ (kind = "popcache" => t \in bound)
Taken(t) ==
  IF ~Takes(t) THEN table
  ELSE [table EXCEPT ![t] = loop.sources]

(* The answer comes back and the set is recorded; the connection may break *)
(* after the agent applied the set.                                        *)
Pushed(t) ==
  /\ Waits(t) /\ Alive(t)
  /\ table' = Taken(t)
  /\ \/ mgrs' = [mgrs EXCEPT ![t] = loop.sources] /\ UNCHANGED link
     \/ /\ epoch[t] < MaxConnects
        /\ link' = [link EXCEPT ![t] = 0]
        /\ UNCHANGED mgrs
  /\ Done(t)
  /\ UNCHANGED <<kind, worldVars, listed, epoch, hook, bound, seen, age,
                 faults>>

BadPushFails(t) ==
  /\ Waits(t)
  /\ \/ ~Alive(t) /\ UNCHANGED faults
     \/ Alive(t) /\ faults < MaxFaults /\ faults' = faults + 1
  /\ mgrs' = [mgrs EXCEPT ![t] = loop.sources]
  /\ Done(t)
  /\ UNCHANGED <<kind, worldVars, link, listed, epoch, hook, agentVars, seen,
                 age>>

(* The call fails before the agent did anything: nothing is recorded.      *)
PushFails(t) ==
  /\ Waits(t)
  /\ \/ ~Alive(t) /\ UNCHANGED faults
     \/ Alive(t) /\ faults < MaxFaults /\ faults' = faults + 1
  /\ Done(t)
  /\ UNCHANGED <<kind, worldVars, link, listed, epoch, hook, agentVars, ctlVars,
                 age>>

(* Managers of targets that are not listed any more go; mu is released.    *)
Kept(t) == mgrs[t] = Nil \/ t \in loop.live

Release ==
  /\ loop # Nil /\ loop.wait = Nil /\ \A t \in Targets : loop.todo[t] = 0
  /\ mgrs' = [t \in Targets |-> IF Kept(t) THEN mgrs[t] ELSE Nil]
  /\ seen' = [t \in Targets |-> IF Kept(t) THEN seen[t] ELSE Nil]
  /\ loop' = Nil
  /\ UNCHANGED <<kind, worldVars, link, listed, epoch, hook, agentVars, age,
                 faults>>

PeeringNext ==
  \/ \E s \in Sources :
       SourceJoins(s) \/ SourceReports(s) \/ SourceLost(s) \/ SourceLeaves(s)
  \/ \E t \in Targets :
       \/ TargetReports(t) \/ Connect(t) \/ Lose(t) \/ Remove(t)
       \/ DeclareInterface(t) \/ Forget(t)
       \/ Visit(t) \/ Pushed(t) \/ PushFails(t)
  \/ Tick \/ Reconcile \/ Release \/ RestartControlPlane

PeeringFairness ==
  /\ \A s \in Sources : WF_peerVars(SourceReports(s))
  /\ \A t \in Targets :
       /\ WF_peerVars(TargetReports(t)) /\ WF_peerVars(Connect(t))
       /\ SF_peerVars(Forget(t))
       /\ WF_peerVars(Visit(t)) /\ WF_peerVars(Pushed(t) \/ PushFails(t))
  /\ WF_peerVars(Tick) /\ WF_peerVars(Reconcile) /\ WF_peerVars(Release)

PeeringSpec == PeeringInit /\ [][PeeringNext]_peerVars /\ PeeringFairness

-----------------------------------------------------------------------------
(* Properties.                                                             *)

(* What a manager recorded as pushed is what the agent of a connected      *)
(* target holds, once the callbacks of its connection ran: otherwise       *)
(* nothing pushes the set again, however long the two differ.              *)
Recorded(t) == mgrs[t] # Nil /\ mgrs[t] # NewManager
RecordHonest ==
  \A t \in Targets :
    (Recorded(t) /\ Takes(t) /\ hook[t] = 0) => table[t] = mgrs[t]

(* A target that just connected, to a control plane that may just have     *)
(* started and knows no source yet, does not have its table emptied within *)
(* the grace of that connection, which runs from the connection and not    *)
(* from an earlier one.  (Until its callback ran, a tick may still find    *)
(* the seen time of the connection before.)                                *)
GraceHolds ==
  [][\A t \in Targets :
       (table'[t] = {} /\ table[t] \notin {Nil, {}}) =>
         age[t] = Grace \/ hook[t] > 0]_peerVars

(* Whatever restarted, broke or was refused before, every target ends up   *)
(* with exactly the ready sources (when there are none left, only the      *)
(* tables with an entry of their own are known to end up empty).           *)
PeersConverge ==
  \A t \in Targets :
    <>[](Takes(t) /\ (ready # {} \/ WithSelf) => table[t] = ready)
=============================================================================

------------------------------- MODULE NodeRun -------------------------------
(***************************************************************************)
(* Run-state convergence of the dataplane nodes                            *)
(* (src/reconcile/node_run.go), composed with everything it stands on: the *)
(* broker and its callbacks (module Broker), the expected_node store the   *)
(* operator writes, the stat cache fed by one collector per connection,    *)
(* the reconcile status other config loops record into, and the agents'    *)
(* Start/StopDataplane handlers.                                           *)
(*                                                                         *)
(* One evaluation at a time holds the controller's mutex, over its         *)
(* southbound calls too; everything else moves meanwhile.  Time is kept as *)
(* what the controller asks of it: whether a backoff or a settle window is *)
(* still running.  Whatever breaks of its own accord is one of Faults and  *)
(* spends one of MaxFaults; the operator has MaxDeclares start/stop calls, *)
(* the first MaxForces of them forced, and MaxDeletes removals per node.   *)
(***************************************************************************)
EXTENDS Broker

CONSTANTS MaxAttempts,   \* nodeRunMaxAttempts
          Faults,        \* the failures a run explores: see FaultKinds
          MaxFaults,     \* bound: how many of them
          MaxDeclares,   \* bound: `node start` / `node stop` per node
          MaxForces,     \* bound: how many of them may be `--force`
          MaxDeletes     \* bound: `expected_node delete` per node

FaultKinds == {"push",      \* the agent's handler fails
               "slow",      \* a call outlasts nodeRunSettle
               "config",    \* a config push fails
               "dataplane", \* the serving dataplane dies or a reload fails
               "process",   \* the agent restarts
               "link"}      \* the connection breaks under a running agent

ASSUME NodeRunAssumption ==
  /\ Faults \subseteq FaultKinds
  /\ MaxAttempts \in Nat \ {0}
  /\ MaxFaults \in Nat /\ MaxDeclares \in Nat
  /\ MaxForces \in Nat /\ MaxDeletes \in Nat
  /\ "timer" \notin Peers /\ "timer" # None

(* The registrations of main.go: the stat collector first, then the config *)
(* loops (one stands for all), node_run last; on disconnect the clean-up   *)
(* of the caches (a Find, then the deletions), then node_run's forget.     *)
ASSUME CallbackAssumption ==
  /\ OnConnect = <<"stats", "config", "reset", "evaluate">>
  /\ OnDisconnect = <<"find", "clear", "forget">>

VARIABLES
  store,     \* expected_node: declared run-state and generation of each node
  st,        \* NodeRunController.nodes (an absent entry is the zero state)
  holder,    \* who runs Evaluate under the controller's mutex: a peer's
             \* OnConnect callback, "timer" (tick or OnChange), or None
  snap,      \* what that evaluation read from the store
  todo,      \* the nodes it has still to look at
  via, rpc,  \* its southbound call: the peer it goes to, and how far it is
  stat,      \* stat cache: the app status last reported by each node
  stream,    \* per peer, its stat collector: off, idle, or the batch it holds
  wipe,      \* peers whose OnDisconnect callback found no live connection
  cfgErr,    \* reconcile.Status: nodes with an error of another resource
  runErr,    \* reconcile.Status: the node_run entry of each node
  agent,     \* lifecycle of each node's dataplane process
  attached,  \* connections the agent process is really at the other end of
  forcing,   \* `node start --force` calls between ForceNext and SetDesiredRun
  faults,    \* failures spent
  declares,  \* start/stop calls spent, per node
  deletes    \* removals spent, per node

(* History, read by no action. *)
VARIABLES
  fails,     \* failed pushes to a node since the operator's last declaration
  covered    \* nodes a start made run that nothing should start once more

evalVars == <<holder, snap, todo>>
callVars == <<via, rpc>>
statusVars == <<cfgErr, runErr>>
statVars == <<stat, stream>>
agentVars == <<agent, attached>>
operatorVars == <<store, forcing, declares, deletes>>
histVars == <<fails, covered>>
vars == <<brokerVars, st, evalVars, callVars, statusVars, statVars, wipe,
          agentVars, operatorVars, faults, histVars>>

(* nodeRunState; backoff is now < nextTry, settling is a push less than    *)
(* nodeRunSettle ago.                                                      *)
RunState == [gen : Nat, attempts : Nat, backoff : BOOLEAN, held : BOOLEAN,
             forceOnce : BOOLEAN, settling : BOOLEAN]
ZeroState == [gen |-> 0, attempts |-> 0, backoff |-> FALSE, held |-> FALSE,
              forceOnce |-> FALSE, settling |-> FALSE]

(* DesiredRun and RunGeneration.  An absent entry is never touched and     *)
(* starts at generation 0, exactly like one nothing was declared for.      *)
Declared == [run : {"", "running", "stopped"}, gen : Nat]
Unmanaged == [run |-> "", gen |-> 0]

Lifecycle == {"Running", "Down"}   \* Down: Initialized, Stopped or Error

TypeOK ==
  /\ BrokerTypeOK
  /\ store \in [Names -> Declared]
  /\ st \in [Names -> RunState]
  /\ holder \in Peers \cup {"timer", None}
  /\ snap \in [Names -> Declared]
  /\ todo \in SUBSET Names
  /\ via \in Peers \cup {None}
  /\ rpc \in {"none", "sent", "ok", "err"}
  /\ stat \in [Names -> Lifecycle \cup {"Unknown"}]
  /\ stream \in [Peers -> Lifecycle \cup {"off", "idle"}]
  /\ wipe \in SUBSET Peers
  /\ cfgErr \in SUBSET Names
  /\ runErr \in [Names -> {"ok", "blocked", "retry", "held"}]
  /\ agent \in [Names -> Lifecycle]
  /\ attached \in SUBSET Peers
  /\ forcing \in SUBSET Names
  /\ faults \in Nat
  /\ declares \in [Names -> Nat] /\ deletes \in [Names -> Nat]
  /\ fails \in [Names -> Nat] /\ covered \in SUBSET Names

Init ==
  /\ BrokerInit
  /\ store = [n \in Names |-> Unmanaged]
  /\ st = [n \in Names |-> ZeroState]
  /\ holder = None /\ snap = [n \in Names |-> Unmanaged] /\ todo = {}
  /\ via = None /\ rpc = "none"
  /\ stat = [n \in Names |-> "Unknown"]
  /\ stream = [p \in Peers |-> "off"]
  /\ wipe = {}
  /\ cfgErr = {} /\ runErr = [n \in Names |-> "ok"]
  /\ agent = [n \in Names |-> "Down"] /\ attached = {}
  /\ forcing = {} /\ faults = 0
  /\ declares = [n \in Names |-> 0] /\ deletes = [n \in Names |-> 0]
  /\ fails = [n \in Names |-> 0] /\ covered = {}

(* The states a control plane is in once the agents of `connected` joined  *)
(* and their callbacks ran, before anything is declared or reported; an    *)
(* earlier connection of theirs, in `late`, may still wait for its Add.    *)
Joined(connected, late, spent) ==
  /\ nodes = connected /\ attached = connected /\ closing = {}
  /\ conn = [p \in Peers |-> IF p \in connected \cup late THEN "open" ELSE "closed"]
  /\ phase = [p \in Peers |-> CASE p \in connected -> "watching"
                                [] p \in late -> "accepted"
                                [] OTHER -> "idle"]
  /\ calls = [p \in Peers |-> <<>>]
  /\ stream = [p \in Peers |-> IF p \in connected THEN "idle" ELSE "off"]
  /\ store = [n \in Names |-> Unmanaged]
  /\ st = [n \in Names |-> ZeroState]
  /\ holder = None /\ snap = [n \in Names |-> Unmanaged] /\ todo = {}
  /\ via = None /\ rpc = "none"
  /\ stat = [n \in Names |-> "Unknown"]
  /\ wipe = {} /\ cfgErr = {} /\ runErr = [n \in Names |-> "ok"]
  /\ agent = [n \in Names |-> "Down"]
  /\ forcing = {} /\ faults = spent
  /\ declares = [n \in Names |-> 0] /\ deletes = [n \in Names |-> 0]
  /\ fails = [n \in Names |-> 0] /\ covered = {}

Live(n) == Found(n) # {}

Fault(kind) == kind \in Faults /\ faults < MaxFaults /\ faults' = faults + 1
NoFault == UNCHANGED faults

-----------------------------------------------------------------------------
(* The operator.                                                           *)

(* ForceNext: waits for the mutex, marks the next push of n as forced. *)
ForceNext(n) ==
  /\ holder = None
  /\ n \notin forcing
  /\ declares[n] < MaxDeclares /\ declares[n] < MaxForces
  /\ st' = [st EXCEPT ![n].forceOnce = TRUE]
  /\ forcing' = forcing \cup {n}
  /\ UNCHANGED <<brokerVars, evalVars, callVars, statusVars, statVars, wipe,
                 agentVars, store, declares, deletes, faults, histVars>>

(* SetDesiredRun over the targets of one call.  Its notify() is an         *)
(* evaluation like any other: EvalTick.                                    *)
SetDesiredRun(targets, run) ==
  /\ \A n \in targets : declares[n] < MaxDeclares
  /\ store' = [n \in Names |-> IF n \in targets
                               THEN [run |-> run, gen |-> store[n].gen + 1]
                               ELSE store[n]]
  /\ declares' = [n \in Names |-> IF n \in targets THEN declares[n] + 1 ELSE declares[n]]
  /\ fails' = [n \in Names |-> IF n \in targets THEN 0 ELSE fails[n]]
  /\ forcing' = IF run = "running" THEN forcing \ targets ELSE forcing
  /\ UNCHANGED <<brokerVars, st, evalVars, callVars, statusVars, statVars, wipe,
                 agentVars, deletes, faults, covered>>

(* Delete of the expected_node entry. *)
DeleteEntry(n) ==
  /\ store[n] # Unmanaged
  /\ deletes[n] < MaxDeletes
  /\ store' = [store EXCEPT ![n] = Unmanaged]
  /\ deletes' = [deletes EXCEPT ![n] = @ + 1]
  /\ UNCHANGED <<brokerVars, st, evalVars, callVars, statusVars, statVars, wipe,
                 agentVars, forcing, declares, faults, histVars>>

(* A config resource is applied again: its loop pushes to the connected    *)
(* node and records the outcome.                                           *)
ConfigPush(n) ==
  /\ Live(n)
  /\ \/ n \in cfgErr /\ cfgErr' = cfgErr \ {n} /\ NoFault
     \/ cfgErr' = cfgErr \cup {n} /\ Fault("config")
  /\ UNCHANGED <<brokerVars, st, evalVars, callVars, runErr, statVars, wipe,
                 agentVars, operatorVars, histVars>>

-----------------------------------------------------------------------------
(* Evaluate.                                                               *)

EvalBegin(who) ==
  /\ holder = None
  /\ holder' = who
  /\ snap' = store
  /\ todo' = {n \in Names : store[n].run # ""}
  /\ UNCHANGED <<brokerVars, st, callVars, statusVars, statVars, wipe,
                 agentVars, operatorVars, faults, histVars>>

EvalTick == EvalBegin("timer")

EvalOnConnect(p) ==
  /\ phase[p] = "connecting" /\ calls[p] # <<>> /\ Head(calls[p]) = "evaluate"
  /\ EvalBegin(p)

(* Faulty variants, named Bad..., each break one property stated below.    *)
BadRefreshedKeepsHold(n) == [st[n] EXCEPT !.gen = snap[n].gen]

(* The bookkeeping the evaluation works on: a generation it has not seen   *)
(* clears everything but the force mark.                                   *)
Refreshed(n) ==
  IF snap[n].gen # st[n].gen
  THEN [ZeroState EXCEPT !.gen = snap[n].gen, !.forceOnce = st[n].forceOnce]
  ELSE st[n]

(* The cache has what a running node reports, and no older batch is on its *)
(* way to it.                                                              *)
Reported(n) ==
  /\ agent[n] = "Running" /\ stat[n] \in {"Running", "Unknown"}
  /\ \A p \in Peers : CN[p] = n => stream[p] \in {"off", "idle", "Running"}

(* History: the settle window of n is dropped, or over.  It was needed if  *)
(* the report is not in yet.                                               *)
WindowGone(n) == covered' = IF Reported(n) THEN covered ELSE covered \ {n}

WindowRefreshed(n) ==
  IF snap[n].gen # st[n].gen THEN WindowGone(n) ELSE UNCHANGED covered

Looking(n) == holder # None /\ via = None /\ n \in todo

Observed(n) == Live(n) /\ stat[n] # "Unknown"

BadSatisfiedByAny(n) == stat[n] # "Unknown"

Satisfied(n) == (snap[n].run = "running") <=> (stat[n] = "Running")

BadPushDueHeld(s) == ~s.backoff /\ ~s.settling

BadPushDueUnsettled(s) == ~s.held /\ ~s.backoff

PushDue(s) == ~s.held /\ ~s.backoff /\ ~s.settling

Gated(n) == snap[n].run = "running" /\ n \in cfgErr /\ ~Refreshed(n).forceOnce

(* Not connected, or not reported yet: nothing is done. *)
EvalSkip(n) ==
  /\ Looking(n) /\ ~Observed(n)
  /\ st' = [st EXCEPT ![n] = Refreshed(n)]
  /\ todo' = todo \ {n}
  /\ WindowRefreshed(n)
  /\ UNCHANGED <<brokerVars, holder, snap, callVars, statusVars, statVars, wipe,
                 agentVars, operatorVars, faults, fails>>

BadConvergedNoRecord(n) ==
  /\ Looking(n) /\ Observed(n) /\ Satisfied(n)
  /\ st' = [st EXCEPT ![n] = [Refreshed(n) EXCEPT !.attempts = 0, !.held = FALSE,
                                                  !.forceOnce = FALSE]]
  /\ todo' = todo \ {n}
  /\ WindowRefreshed(n)
  /\ UNCHANGED <<brokerVars, holder, snap, callVars, statusVars, statVars, wipe,
                 agentVars, operatorVars, faults, fails>>

BadConvergedReturns(n) ==
  /\ Looking(n) /\ Observed(n) /\ Satisfied(n)
  /\ todo' = {}
  /\ UNCHANGED <<brokerVars, st, holder, snap, callVars, statusVars, statVars, wipe,
                 agentVars, operatorVars, faults, histVars>>

EvalConverged(n) ==
  /\ Looking(n) /\ Observed(n) /\ Satisfied(n)
  /\ st' = [st EXCEPT ![n] = [Refreshed(n) EXCEPT !.attempts = 0, !.held = FALSE,
                                                  !.forceOnce = FALSE]]
  /\ runErr' = [runErr EXCEPT ![n] = "ok"]
  /\ todo' = todo \ {n}
  /\ WindowRefreshed(n)
  /\ UNCHANGED <<brokerVars, holder, snap, callVars, cfgErr, statVars, wipe,
                 agentVars, operatorVars, faults, fails>>

(* Held, backing off, or settling after the last push. *)
EvalWait(n) ==
  /\ Looking(n) /\ Observed(n) /\ ~Satisfied(n)
  /\ ~PushDue(Refreshed(n))
  /\ st' = [st EXCEPT ![n] = Refreshed(n)]
  /\ todo' = todo \ {n}
  /\ WindowRefreshed(n)
  /\ UNCHANGED <<brokerVars, holder, snap, callVars, statusVars, statVars, wipe,
                 agentVars, operatorVars, faults, fails>>

(* A start of a node whose config failed to reconcile, not forced. *)
EvalBlocked(n) ==
  /\ Looking(n) /\ Observed(n) /\ ~Satisfied(n)
  /\ PushDue(Refreshed(n)) /\ Gated(n)
  /\ st' = [st EXCEPT ![n] = Refreshed(n)]
  /\ runErr' = [runErr EXCEPT ![n] = "blocked"]
  /\ todo' = todo \ {n}
  /\ WindowRefreshed(n)
  /\ UNCHANGED <<brokerVars, holder, snap, callVars, cfgErr, statVars, wipe,
                 agentVars, operatorVars, faults, fails>>

(* Start or StopDataplane goes out, the mutex held until it returns. *)
EvalPush(n) ==
  /\ Looking(n) /\ Observed(n) /\ ~Satisfied(n)
  /\ PushDue(Refreshed(n)) /\ ~Gated(n)
  /\ st' = [st EXCEPT ![n] = Refreshed(n)]
  /\ via' \in Found(n)
  /\ rpc' = "sent"
  /\ todo' = todo \ {n}
  /\ WindowRefreshed(n)
  /\ UNCHANGED <<brokerVars, holder, snap, statusVars, statVars, wipe,
                 agentVars, operatorVars, faults, fails>>

PushReturns ==
  /\ via' = None /\ rpc' = "none"
  /\ UNCHANGED <<brokerVars, evalVars, cfgErr, statVars, wipe,
                 agentVars, operatorVars>>

(* pushedAt is the time the evaluation began: behind a slow call to this   *)
(* or to an earlier node the settle window is over before it starts.       *)
PushOk ==
  /\ rpc = "ok"
  /\ \E settling \in BOOLEAN :
       /\ IF settling THEN NoFault /\ UNCHANGED covered
                      ELSE Fault("slow") /\ WindowGone(CN[via])
       /\ st' = [st EXCEPT ![CN[via]] =
                   [@ EXCEPT !.attempts = 0, !.held = FALSE,
                             !.forceOnce = FALSE, !.settling = settling]]
  /\ runErr' = [runErr EXCEPT ![CN[via]] = "ok"]
  /\ UNCHANGED fails
  /\ PushReturns

Failed(s) ==
  IF s.attempts + 1 >= MaxAttempts
  THEN [s EXCEPT !.attempts = @ + 1, !.held = TRUE]
  ELSE [s EXCEPT !.attempts = @ + 1, !.backoff = TRUE]

(* The agent refused, or the connection took the answer with it. *)
PushErr ==
  /\ via # None
  /\ rpc = "err" \/ conn[via] = "closed"
  /\ st' = [st EXCEPT ![CN[via]] = Failed(@)]
  /\ runErr' = [runErr EXCEPT ![CN[via]] = IF Failed(st[CN[via]]).held THEN "held" ELSE "retry"]
  /\ fails' = [fails EXCEPT ![CN[via]] = @ + 1]
  /\ WindowGone(CN[via])
  /\ NoFault
  /\ PushReturns

(* The mutex is released; an OnConnect callback returns to Add. *)
EvalEnd ==
  /\ holder # None /\ via = None /\ todo = {}
  /\ holder' = None
  /\ snap' = [n \in Names |-> Unmanaged]
  /\ IF holder = "timer" THEN UNCHANGED brokerVars ELSE CallOnConnect(holder)
  /\ UNCHANGED <<st, todo, callVars, statusVars, statVars, wipe,
                 agentVars, operatorVars, faults, histVars>>

BackoffEnds(n) ==
  /\ st[n].backoff
  /\ st' = [st EXCEPT ![n].backoff = FALSE]
  /\ UNCHANGED <<brokerVars, evalVars, callVars, statusVars, statVars, wipe,
                 agentVars, operatorVars, faults, histVars>>

(* nodeRunSettle is over, whatever the stats say by then.                  *)
SettleEnds(n) ==
  /\ st[n].settling
  /\ st' = [st EXCEPT ![n].settling = FALSE]
  /\ WindowGone(n)
  /\ UNCHANGED <<brokerVars, evalVars, callVars, statusVars, statVars, wipe,
                 agentVars, operatorVars, faults, fails>>

-----------------------------------------------------------------------------
(* The callbacks of the broker.                                            *)

Next1(p, name) == calls[p] # <<>> /\ Head(calls[p]) = name

(* The stat collector goroutine of p starts. *)
OnStats(p) ==
  /\ Next1(p, "stats") /\ CallOnConnect(p)
  /\ stream' = [stream EXCEPT ![p] = "idle"]
  /\ UNCHANGED <<st, evalVars, callVars, statusVars, stat, wipe,
                 agentVars, operatorVars, faults, histVars>>

(* The config loops push the declared config to p and record the outcome. *)
OnConfig(p) ==
  /\ Next1(p, "config") /\ CallOnConnect(p)
  /\ \/ cfgErr' = cfgErr \ {CN[p]} /\ NoFault
     \/ cfgErr' = cfgErr \cup {CN[p]} /\ conn[p] = "closed" /\ NoFault
     \/ cfgErr' = cfgErr \cup {CN[p]} /\ Fault("config")
  /\ UNCHANGED <<st, evalVars, callVars, runErr, statVars, wipe,
                 agentVars, operatorVars, histVars>>

OnReset(p) ==
  /\ Next1(p, "reset") /\ CallOnConnect(p)
  /\ holder = None
  /\ st' = [st EXCEPT ![CN[p]] = ZeroState]
  /\ WindowGone(CN[p])
  /\ UNCHANGED <<evalVars, callVars, statusVars, statVars, wipe,
                 agentVars, operatorVars, faults, fails>>

(* Is another connection of the node live?  Only the answer is kept. *)
OnFind(p) ==
  /\ Next1(p, "find") /\ CallOnDisconnect(p)
  /\ wipe' = IF Live(CN[p]) THEN wipe ELSE wipe \cup {p}
  /\ UNCHANGED <<st, evalVars, callVars, statusVars, statVars,
                 agentVars, operatorVars, faults, histVars>>

(* statCache.Delete and Status.ClearNode. *)
OnClear(p) ==
  /\ Next1(p, "clear") /\ CallOnDisconnect(p)
  /\ wipe' = wipe \ {p}
  /\ IF p \in wipe
     THEN /\ stat' = [stat EXCEPT ![CN[p]] = "Unknown"]
          /\ cfgErr' = cfgErr \ {CN[p]}
          /\ runErr' = [runErr EXCEPT ![CN[p]] = "ok"]
     ELSE UNCHANGED <<stat, statusVars>>
  /\ UNCHANGED <<st, evalVars, callVars, stream, agentVars, operatorVars,
                 faults, histVars>>

OnForget(p) ==
  /\ Next1(p, "forget") /\ CallOnDisconnect(p)
  /\ holder = None
  /\ st' = [st EXCEPT ![CN[p]] = ZeroState]
  /\ WindowGone(CN[p])
  /\ UNCHANGED <<evalVars, callVars, statusVars, statVars, wipe,
                 agentVars, operatorVars, faults, fails>>

BrokerStep(p) ==
  /\ Add(p) \/ CloseSuperseded(p) \/ Remove(p)
  /\ UNCHANGED <<st, evalVars, callVars, statusVars, statVars, wipe,
                 agentVars, operatorVars, faults, histVars>>

-----------------------------------------------------------------------------
(* The stat collector.                                                     *)

(* The agent at the other end of p sends a batch (every 2s). *)
Sample(p) ==
  /\ stream[p] = "idle" /\ conn[p] = "open" /\ p \in attached
  /\ stream' = [stream EXCEPT ![p] = agent[CN[p]]]
  /\ UNCHANGED <<brokerVars, st, evalVars, callVars, statusVars, stat, wipe,
                 agentVars, operatorVars, faults, histVars>>

BadSetStatEmpty(p) ==
  /\ stream[p] # "off"
  /\ stat' = [stat EXCEPT ![CN[p]] = stream[p]]
  /\ UNCHANGED <<brokerVars, st, evalVars, callVars, statusVars, stream, wipe,
                 agentVars, operatorVars, faults, histVars>>

(* statCache.Set, however late.  A collector that has nothing to set ends  *)
(* with its connection; one of a closed connection may still have.         *)
SetStat(p) ==
  /\ stream[p] \in Lifecycle
  /\ stat' = [stat EXCEPT ![CN[p]] = stream[p]]
  /\ stream' = [stream EXCEPT ![p] = "idle"]
  /\ UNCHANGED <<brokerVars, st, evalVars, callVars, statusVars, wipe,
                 agentVars, operatorVars, faults, histVars>>

-----------------------------------------------------------------------------
(* Agents and links.                                                       *)

(* StartDataplane: an error when it is running already. *)
HandleStart ==
  LET n == CN[via]
  IN /\ rpc = "sent" /\ via \in attached /\ snap[n].run = "running"
     /\ \/ /\ agent[n] = "Running" /\ rpc' = "err" /\ NoFault
           /\ UNCHANGED <<agent, covered>>
        \/ /\ agent[n] = "Down" /\ rpc' = "ok" /\ NoFault
           /\ agent' = [agent EXCEPT ![n] = "Running"] /\ covered' = covered \cup {n}
        \/ /\ agent[n] = "Down" /\ rpc' = "err" /\ Fault("push")
           /\ UNCHANGED <<agent, covered>>
     /\ UNCHANGED <<brokerVars, st, evalVars, via, statusVars, statVars, wipe,
                    attached, operatorVars, fails>>

(* StopDataplane: an error when nothing runs; the driver is gone even when *)
(* closing it fails.                                                       *)
HandleStop ==
  LET n == CN[via]
  IN /\ rpc = "sent" /\ via \in attached /\ snap[n].run = "stopped"
     /\ agent' = [agent EXCEPT ![n] = "Down"] /\ covered' = covered \ {n}
     /\ \/ agent[n] = "Down" /\ rpc' = "err" /\ NoFault
        \/ agent[n] = "Running" /\ rpc' = "ok" /\ NoFault
        \/ agent[n] = "Running" /\ rpc' = "err" /\ Fault("push")
     /\ UNCHANGED <<brokerVars, st, evalVars, via, statusVars, statVars, wipe,
                    attached, operatorVars, fails>>

(* A live reload fails, or the serving dataplane dies under the agent. *)
AgentFails(n) ==
  /\ agent[n] = "Running" /\ Fault("dataplane")
  /\ agent' = [agent EXCEPT ![n] = "Down"] /\ covered' = covered \ {n}
  /\ UNCHANGED <<brokerVars, st, evalVars, callVars, statusVars, statVars, wipe,
                 attached, operatorVars, fails>>

(* A fresh process: nothing started, every connection of the old one dead. *)
AgentRestarts(n) ==
  /\ Fault("process")
  /\ agent' = [agent EXCEPT ![n] = "Down"] /\ covered' = covered \ {n}
  /\ attached' = {p \in attached : CN[p] # n}
  /\ UNCHANGED <<brokerVars, st, evalVars, callVars, statusVars, statVars, wipe,
                 operatorVars, fails>>

(* The link breaks; the dataplane keeps running (Start ran on runCtx). *)
LinkLost(p) ==
  /\ p \in attached /\ Fault("link")
  /\ attached' = attached \ {p}
  /\ UNCHANGED <<brokerVars, st, evalVars, callVars, statusVars, statVars, wipe,
                 agent, operatorVars, histVars>>

(* The control plane notices: a transport error or the liveness timeout. *)
PeerDead(p) ==
  /\ p \notin attached /\ ConnectionDone(p)
  /\ UNCHANGED <<st, evalVars, callVars, statusVars, statVars, wipe,
                 agentVars, operatorVars, faults, histVars>>

(* The close of a superseded connection reaches the agent. *)
AgentNotices(p) ==
  /\ p \in attached /\ conn[p] = "closed"
  /\ attached' = attached \ {p}
  /\ UNCHANGED <<brokerVars, st, evalVars, callVars, statusVars, statVars, wipe,
                 agent, operatorVars, faults, histVars>>

(* The agent's reconnect loop: one connection at a time, a fresh identity. *)
Connect(p) ==
  /\ \A q \in attached : CN[q] # CN[p]
  /\ stream[p] \notin Lifecycle /\ p # via
  /\ Accept(p)
  /\ attached' = attached \cup {p}
  /\ stream' = [stream EXCEPT ![p] = "off"]
  /\ UNCHANGED <<st, evalVars, callVars, statusVars, stat, wipe,
                 agent, operatorVars, faults, histVars>>

-----------------------------------------------------------------------------
Operator ==
  \/ \E n \in Names : ForceNext(n) \/ DeleteEntry(n) \/ ConfigPush(n)
  \/ \E targets \in SUBSET Names \ {{}}, run \in {"running", "stopped"} :
       SetDesiredRun(targets, run)

EvalNode(n) ==
  EvalSkip(n) \/ EvalConverged(n) \/ EvalWait(n) \/ EvalBlocked(n) \/ EvalPush(n)

Callback(p) ==
  \/ OnStats(p) \/ OnConfig(p) \/ OnReset(p)
  \/ OnFind(p) \/ OnClear(p) \/ OnForget(p)

Next ==
  \/ Operator
  \/ EvalTick \/ EvalEnd \/ PushOk \/ PushErr \/ HandleStart \/ HandleStop
  \/ \E n \in Names : \/ EvalNode(n) \/ BackoffEnds(n) \/ SettleEnds(n)
                      \/ AgentFails(n) \/ AgentRestarts(n)
  \/ \E p \in Peers : \/ EvalOnConnect(p) \/ Callback(p) \/ BrokerStep(p)
                      \/ Sample(p) \/ SetStat(p)
                      \/ LinkLost(p) \/ PeerDead(p) \/ AgentNotices(p)
                      \/ Connect(p)

Spec == Init /\ [][Next]_vars

(* Goroutines run, calls return, time passes, a dead connection is noticed *)
(* (livenessTimeout) and a live agent reconnects and reports.  What waits  *)
(* for the mutex gets it (sync.Mutex hands over to the longest waiter).    *)
(* Nothing is assumed of the operator, of failures, or of when config is   *)
(* repaired.                                                               *)
Evaluation ==
  \/ EvalTick \/ EvalEnd \/ PushOk \/ PushErr \/ HandleStart \/ HandleStop
  \/ \E n \in Names : EvalNode(n)

Fairness ==
  /\ WF_vars(Evaluation)
  /\ \A n \in Names :
       /\ WF_vars(BackoffEnds(n)) /\ WF_vars(SettleEnds(n))
       /\ WF_vars(\E p \in {q \in Peers : CN[q] = n} : Connect(p))
  /\ \A p \in Peers :
       /\ SF_vars(EvalOnConnect(p) \/ Callback(p))
       /\ WF_vars(BrokerStep(p))
       /\ WF_vars(Sample(p) \/ SetStat(p))
       /\ WF_vars(PeerDead(p) \/ AgentNotices(p))

FairSpec == Spec /\ Fairness
-----------------------------------------------------------------------------
(* A node is given up on only for failed pushes of what is declared for it *)
(* now: unless the entry was removed in between, a hold under the present  *)
(* generation has nodeRunMaxAttempts failures since that declaration       *)
(* behind it, however declarations overlap with a push that is under way   *)
(* (Evaluate's generation reset, pushLocked's hold).                       *)
GivenUp(n) == st[n].held /\ store[n].run # "" /\ st[n].gen = store[n].gen

HoldEarned ==
  \A n \in Names : GivenUp(n) /\ deletes[n] = 0 => fails[n] >= MaxAttempts

(* And giving up is final: no call goes out to a held node before a later  *)
(* declaration or a reconnect, so that failures in a row stop exactly at   *)
(* nodeRunMaxAttempts, and with them the shift that computes the backoff   *)
(* (pushDue, pushLocked).                                                  *)
HoldStops ==
  \A n \in Names :
    /\ st[n].attempts <= MaxAttempts
    /\ st[n].held <=> st[n].attempts = MaxAttempts

(* What ends an operator's wait: the dataplane is as declared, or          *)
(* node_run has given up under this declaration, or it is not started      *)
(* because its config failed.                                              *)
AsDeclared(n) == (store[n].run = "running") <=> (agent[n] = "Running")
Misconfigured(n) == store[n].run = "running" /\ n \in cfgErr
Settled(n) ==
  store[n].run # "" => AsDeclared(n) \/ GivenUp(n) \/ Misconfigured(n)

(* Once operators and failures come to rest, every declared node ends up   *)
(* settled: no reconnect, late status report, superseded connection or     *)
(* lost answer leaves Evaluate waiting for ever.                           *)
Converges == \A n \in Names : <>[]Settled(n)

(* And then `node list` does not go on showing a node_run error for a node *)
(* that runs as declared (converged's Record).                             *)
ErrorsClear ==
  \A n \in Names :
    <>[](store[n].run # "" /\ AsDeclared(n) => runErr[n] = "ok")

Pushing(p, run) == via = p /\ rpc = "sent" /\ snap[CN[p]].run = run

(* nodeRunSettle: no start goes to a dataplane that a start made run: the  *)
(* window holds it back until the report is in, and then the report does,  *)
(* whatever is declared, breaks, reconnects or reports late.  `covered`    *)
(* ends with the run, and with a window that is gone before the report     *)
(* came: it ran out, the call outlasted it, its answer was lost, or a      *)
(* declaration or a reconnect dropped pushedAt (pushDue, pushLocked).      *)
Redundant(p) == Pushing(p, "running") /\ agent[CN[p]] = "Running"
SettleCovers == \A p \in Peers : Redundant(p) => CN[p] \notin covered
=============================================================================

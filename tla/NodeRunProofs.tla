---------------------------- MODULE NodeRunProofs ----------------------------
(***************************************************************************)
(* Machine-checked proofs about NodeRun, for every set of nodes and        *)
(* connections, every number of attempts and every bound on what the       *)
(* operator does and on what fails.                                        *)
(***************************************************************************)
EXTENDS NodeRun, BrokerProofs

-----------------------------------------------------------------------------
(* To the broker, every step of the composition is one of its own steps or *)
(* none at all.                                                            *)
LEMMA OperatorLeavesBroker == Operator => UNCHANGED brokerVars
  BY DEF Operator, ForceNext, DeleteEntry, ConfigPush, SetDesiredRun

LEMMA EvalLeavesBroker ==
  ASSUME NEW n \in Names, EvalNode(n)
  PROVE  UNCHANGED brokerVars
  BY DEF EvalNode, EvalSkip, EvalConverged, EvalWait, EvalBlocked, EvalPush

LEMMA PushLeavesBroker ==
  PushOk \/ PushErr \/ HandleStart \/ HandleStop => UNCHANGED brokerVars
  BY DEF PushOk, PushErr, PushReturns, HandleStart, HandleStop

LEMMA NodeLeavesBroker ==
  ASSUME NEW n \in Names,
         BackoffEnds(n) \/ SettleEnds(n) \/ AgentFails(n) \/ AgentRestarts(n)
  PROVE  UNCHANGED brokerVars
  BY DEF BackoffEnds, SettleEnds, AgentFails, AgentRestarts

LEMMA PeerStepsBroker ==
  ASSUME NEW p \in Peers,
         \/ EvalOnConnect(p) \/ Callback(p) \/ BrokerStep(p)
         \/ Sample(p) \/ SetStat(p)
         \/ LinkLost(p) \/ PeerDead(p) \/ AgentNotices(p) \/ Connect(p)
  PROVE  [BrokerNext]_brokerVars
  <1>1. CASE \/ EvalOnConnect(p) \/ Sample(p) \/ SetStat(p)
             \/ LinkLost(p) \/ AgentNotices(p)
    BY <1>1 DEF EvalOnConnect, EvalBegin, Sample, SetStat, LinkLost, AgentNotices
  <1>2. CASE Callback(p)
    BY <1>2 DEF Callback, OnStats, OnConfig, OnReset, OnFind, OnClear, OnForget,
                BrokerNext
  <1>3. CASE BrokerStep(p) \/ PeerDead(p) \/ Connect(p)
    BY <1>3 DEF BrokerStep, PeerDead, Connect, BrokerNext
  <1> QED
    BY <1>1, <1>2, <1>3

LEMMA StepsBroker == TypeOK /\ [Next]_vars => [BrokerNext]_brokerVars
  <1> SUFFICES ASSUME TypeOK, [Next]_vars
               PROVE  [BrokerNext]_brokerVars
    OBVIOUS
  <1>1. CASE EvalEnd
    <2>1. holder \in Peers \cup {"timer"}
      BY <1>1 DEF EvalEnd, TypeOK
    <2> QED
      BY <1>1, <2>1 DEF EvalEnd, BrokerNext
  <1>2. CASE EvalTick
    BY <1>2 DEF EvalTick, EvalBegin
  <1>3. CASE UNCHANGED vars
    BY <1>3 DEF vars
  <1> QED
    BY <1>1, <1>2, <1>3, OperatorLeavesBroker, EvalLeavesBroker, PushLeavesBroker,
       NodeLeavesBroker, PeerStepsBroker DEF Next

(* What the broker proves of itself therefore holds here, under any        *)
(* interleaving of its callbacks with evaluations, reports and failures.   *)
-----------------------------------------------------------------------------
(* Types.                                                                  *)
LEMMA NodeRunInitType == Init => TypeOK
  <1> SUFFICES ASSUME Init
               PROVE  TypeOK
    OBVIOUS
  <1>1. BrokerTypeOK
    BY BrokerInitInv DEF Init, BrokerInv
  <1>2. st \in [Names -> RunState]
    BY DEF Init, ZeroState, RunState
  <1>3. store \in [Names -> Declared] /\ snap \in [Names -> Declared]
    BY DEF Init, Unmanaged, Declared
  <1> QED
    BY <1>1, <1>2, <1>3 DEF Init, TypeOK, Lifecycle

LEMMA RunStateUpdates ==
  ASSUME NEW s \in RunState
  PROVE  /\ [s EXCEPT !.forceOnce = TRUE] \in RunState
         /\ [s EXCEPT !.backoff = FALSE] \in RunState
         /\ [s EXCEPT !.settling = FALSE] \in RunState
         /\ [s EXCEPT !.attempts = 0, !.held = FALSE, !.forceOnce = FALSE] \in RunState
         /\ \A b \in BOOLEAN :
              [s EXCEPT !.attempts = 0, !.held = FALSE, !.forceOnce = FALSE,
                        !.settling = b] \in RunState
  BY DEF RunState

LEMMA FailedType ==
  ASSUME NEW s \in RunState
  PROVE  Failed(s) \in RunState
  <1> DEFINE k == s.attempts + 1
  <1>1. k \in Nat
    BY DEF RunState
  <1>2. /\ [s EXCEPT !.attempts = k, !.held = TRUE] \in RunState
        /\ [s EXCEPT !.attempts = k, !.backoff = TRUE] \in RunState
    <2> HIDE DEF k
    <2> QED
      BY <1>1 DEF RunState
  <1> QED
    BY <1>2 DEF Failed

LEMMA RefreshedType ==
  ASSUME TypeOK, NEW n \in Names
  PROVE  Refreshed(n) \in RunState
  BY DEF TypeOK, Refreshed, RunState, ZeroState, Declared

LEMMA FaultType ==
  ASSUME TypeOK, (\E kind \in FaultKinds : Fault(kind)) \/ NoFault
  PROVE  faults' \in Nat
  BY DEF TypeOK, Fault, NoFault

(* The actions that change a node's bookkeeping. *)
LEMMA StChanges ==
  ASSUME [Next]_vars
  PROVE  \/ st' = st
         \/ \E n \in Names : \/ ForceNext(n) \/ EvalNode(n)
                             \/ BackoffEnds(n) \/ SettleEnds(n)
         \/ PushOk \/ PushErr
         \/ \E p \in Peers : OnReset(p) \/ OnForget(p)
  <1>1. CASE Operator
    BY <1>1 DEF Operator, DeleteEntry, ConfigPush, SetDesiredRun
  <1>2. CASE EvalTick \/ EvalEnd \/ HandleStart \/ HandleStop
    BY <1>2 DEF EvalTick, EvalBegin, EvalEnd, HandleStart, HandleStop
  <1>3. ASSUME NEW n \in Names, AgentFails(n) \/ AgentRestarts(n)
        PROVE  st' = st
    BY <1>3 DEF AgentFails, AgentRestarts
  <1>4. ASSUME NEW p \in Peers,
               \/ EvalOnConnect(p) \/ BrokerStep(p) \/ Sample(p) \/ SetStat(p)
               \/ LinkLost(p) \/ PeerDead(p) \/ AgentNotices(p) \/ Connect(p)
        PROVE  st' = st
    BY <1>4 DEF EvalOnConnect, EvalBegin, BrokerStep, Sample, SetStat, LinkLost,
                PeerDead, AgentNotices, Connect
  <1>5. ASSUME NEW p \in Peers, Callback(p)
        PROVE  st' = st \/ OnReset(p) \/ OnForget(p)
    BY <1>5 DEF Callback, OnStats, OnConfig, OnFind, OnClear
  <1>6. CASE UNCHANGED vars
    BY <1>6 DEF vars
  <1> QED
    BY <1>1, <1>2, <1>3, <1>4, <1>5, <1>6 DEF Next

LEMMA StType == TypeOK /\ [Next]_vars => st' \in [Names -> RunState]
  <1> SUFFICES ASSUME TypeOK, [Next]_vars
               PROVE  st' \in [Names -> RunState]
    OBVIOUS
  <1>0. st \in [Names -> RunState]
    BY DEF TypeOK
  <1>1. ASSUME NEW n \in Names, ForceNext(n)
        PROVE  st' \in [Names -> RunState]
    <2>1. st' = [st EXCEPT ![n] = [st[n] EXCEPT !.forceOnce = TRUE]]
      BY <1>1 DEF ForceNext
    <2> QED
      BY <1>0, <2>1, RunStateUpdates
  <1>2. ASSUME NEW n \in Names, EvalNode(n)
        PROVE  st' \in [Names -> RunState]
    <2>1. \/ st' = [st EXCEPT ![n] = Refreshed(n)]
          \/ st' = [st EXCEPT ![n] = [Refreshed(n) EXCEPT !.attempts = 0, !.held = FALSE,
                                                         !.forceOnce = FALSE]]
      BY <1>2 DEF EvalNode, EvalSkip, EvalConverged, EvalWait, EvalBlocked, EvalPush
    <2> QED
      BY <1>0, <2>1, RefreshedType, RunStateUpdates
  <1>3. CASE PushOk
    <2>1. PICK b \in BOOLEAN :
            st' = [st EXCEPT ![CN[via]] =
                     [st[CN[via]] EXCEPT !.attempts = 0, !.held = FALSE,
                                         !.forceOnce = FALSE, !.settling = b]]
      BY <1>3 DEF PushOk
    <2>2. CASE CN[via] \in Names
      BY <1>0, <2>1, <2>2, RunStateUpdates
    <2>3. CASE CN[via] \notin Names
      BY <1>0, <2>1, <2>3
    <2> QED
      BY <2>2, <2>3
  <1>4. CASE PushErr
    <2>1. CN[via] \in Names
      BY <1>4, BrokerAssumption DEF PushErr, TypeOK
    <2>2. st' = [st EXCEPT ![CN[via]] = Failed(st[CN[via]])]
      BY <1>4 DEF PushErr
    <2> QED
      BY <1>0, <2>1, <2>2, FailedType
  <1>5. ASSUME NEW n \in Names, BackoffEnds(n) \/ SettleEnds(n)
        PROVE  st' \in [Names -> RunState]
    <2>1. \/ st' = [st EXCEPT ![n] = [st[n] EXCEPT !.backoff = FALSE]]
          \/ st' = [st EXCEPT ![n] = [st[n] EXCEPT !.settling = FALSE]]
      BY <1>5 DEF BackoffEnds, SettleEnds
    <2> QED
      BY <1>0, <2>1, RunStateUpdates
  <1>6. ASSUME NEW p \in Peers, OnReset(p) \/ OnForget(p)
        PROVE  st' \in [Names -> RunState]
    <2>1. ZeroState \in RunState
      BY DEF ZeroState, RunState
    <2>2. st' = [st EXCEPT ![CN[p]] = ZeroState]
      BY <1>6 DEF OnReset, OnForget
    <2> QED
      BY <1>0, <2>1, <2>2, BrokerAssumption
  <1> QED
    BY <1>0, <1>1, <1>2, <1>3, <1>4, <1>5, <1>6, StChanges

(* Counters and declarations. *)
LEMMA DeclaredAgain ==
  ASSUME NEW d \in Declared, NEW r \in {"running", "stopped"}
  PROVE  [run |-> r, gen |-> d.gen + 1] \in Declared
  <1>1. d.gen \in Nat
    BY DEF Declared
  <1>2. d.gen + 1 \in Nat
    BY <1>1
  <1> QED
    BY <1>2 DEF Declared

LEMMA OperatorType ==
  ASSUME TypeOK, Operator
  PROVE  /\ store' \in [Names -> Declared]
         /\ declares' \in [Names -> Nat] /\ deletes' \in [Names -> Nat]
         /\ fails' \in [Names -> Nat]
         /\ forcing' \in SUBSET Names
         /\ cfgErr' \in SUBSET Names /\ faults' \in Nat
  <1>0. declares \in [Names -> Nat]
    BY DEF TypeOK
  <1>1. ASSUME NEW n \in Names, ForceNext(n)
        PROVE  /\ store' = store /\ declares' = declares /\ deletes' = deletes
               /\ fails' = fails /\ cfgErr' = cfgErr /\ faults' = faults
               /\ forcing' = forcing \cup {n}
    BY <1>1 DEF ForceNext, statusVars, histVars
  <1>2. ASSUME NEW n \in Names, DeleteEntry(n)
        PROVE  /\ store' \in [Names -> Declared]
               /\ deletes' \in [Names -> Nat]
               /\ declares' = declares /\ fails' = fails /\ forcing' = forcing
               /\ cfgErr' = cfgErr /\ faults' = faults
    <2>1. store' \in [Names -> Declared]
      BY <1>2 DEF TypeOK, DeleteEntry, Unmanaged, Declared
    <2>2. deletes' \in [Names -> Nat]
      BY <1>2 DEF TypeOK, DeleteEntry
    <2> QED
      BY <1>2, <2>1, <2>2 DEF DeleteEntry, statusVars, histVars, TypeOK
  <1>3. ASSUME NEW n \in Names, ConfigPush(n)
        PROVE  /\ UNCHANGED <<store, declares, deletes, fails, forcing>>
               /\ cfgErr' \in SUBSET Names /\ faults' \in Nat
    <2>1. cfgErr' \in SUBSET Names
      BY <1>3 DEF TypeOK, ConfigPush
    <2>2. faults' \in Nat
      BY <1>3, FaultType DEF ConfigPush, FaultKinds
    <2> QED
      BY <1>3, <2>1, <2>2 DEF ConfigPush, operatorVars, histVars
  <1>4. ASSUME NEW targets \in SUBSET Names, NEW run \in {"running", "stopped"},
               SetDesiredRun(targets, run)
        PROVE  /\ store' \in [Names -> Declared]
               /\ declares' \in [Names -> Nat] /\ fails' \in [Names -> Nat]
               /\ deletes' = deletes /\ cfgErr' = cfgErr /\ faults' = faults
               /\ forcing' \in SUBSET Names
    <2>1. store' \in [Names -> Declared]
      <3>1. \A n \in Names : [run |-> run, gen |-> store[n].gen + 1] \in Declared
        BY DeclaredAgain DEF TypeOK
      <3> QED
        BY <1>4, <3>1 DEF TypeOK, SetDesiredRun
    <2>2. declares' = [n \in Names |-> IF n \in targets THEN declares[n] + 1
                                                      ELSE declares[n]]
      BY <1>4 DEF SetDesiredRun
    <2>3. declares' \in [Names -> Nat]
      BY <1>0, <2>2
    <2>4. fails' \in [Names -> Nat]
      BY <1>4 DEF TypeOK, SetDesiredRun
    <2>5. forcing' \in SUBSET Names
      BY <1>4 DEF TypeOK, SetDesiredRun
    <2> QED
      BY <1>4, <2>1, <2>3, <2>4, <2>5 DEF SetDesiredRun, statusVars
  <1> QED
    BY <1>1, <1>2, <1>3, <1>4 DEF Operator, TypeOK

(* The control plane's own steps. *)
LEMMA EvaluationType ==
  ASSUME TypeOK, Evaluation
  PROVE  /\ snap' \in [Names -> Declared] /\ todo' \in SUBSET Names
         /\ holder' \in Peers \cup {"timer", None}
         /\ via' \in Peers \cup {None}
         /\ rpc' \in {"none", "sent", "ok", "err"}
         /\ runErr' \in [Names -> {"ok", "blocked", "retry", "held"}]
         /\ agent' \in [Names -> Lifecycle]
         /\ fails' \in [Names -> Nat]
         /\ faults' \in Nat
         /\ UNCHANGED <<store, stat, stream, wipe, cfgErr, attached, forcing,
                        declares, deletes>>
  <1> USE DEF statusVars, statVars, agentVars, operatorVars, histVars, evalVars, callVars
  <1>1. CASE EvalTick
    BY <1>1 DEF EvalTick, EvalBegin, TypeOK
  <1>2. CASE EvalEnd
    <2>1. snap' \in [Names -> Declared]
      BY <1>2 DEF EvalEnd, Unmanaged, Declared
    <2> QED
      BY <1>2, <2>1 DEF EvalEnd, TypeOK
  <1>3. CASE PushOk
    <2>1. faults' \in Nat
      BY <1>3, FaultType DEF PushOk, FaultKinds
    <2>2. runErr' \in [Names -> {"ok", "blocked", "retry", "held"}]
      BY <1>3 DEF PushOk, TypeOK
    <2> QED
      BY <1>3, <2>1, <2>2 DEF PushOk, PushReturns, TypeOK
  <1>4. CASE PushErr
    <2>1. runErr' \in [Names -> {"ok", "blocked", "retry", "held"}]
      BY <1>4 DEF PushErr, TypeOK
    <2>2. fails' \in [Names -> Nat]
      BY <1>4, BrokerAssumption DEF PushErr, TypeOK
    <2> QED
      BY <1>4, <2>1, <2>2 DEF PushErr, PushReturns, NoFault, TypeOK
  <1>5. CASE HandleStart
    <2>1. faults' \in Nat
      BY <1>5, FaultType DEF HandleStart, FaultKinds
    <2>2. agent' \in [Names -> Lifecycle] /\ rpc' \in {"none", "sent", "ok", "err"}
      BY <1>5 DEF HandleStart, TypeOK, Lifecycle
    <2> QED
      BY <1>5, <2>1, <2>2 DEF HandleStart, TypeOK
  <1>6. CASE HandleStop
    <2>1. faults' \in Nat
      BY <1>6, FaultType DEF HandleStop, FaultKinds
    <2>2. agent' \in [Names -> Lifecycle] /\ rpc' \in {"none", "sent", "ok", "err"}
      BY <1>6 DEF HandleStop, TypeOK, Lifecycle
    <2> QED
      BY <1>6, <2>1, <2>2 DEF HandleStop, TypeOK
  <1>7. ASSUME NEW n \in Names, EvalSkip(n) \/ EvalWait(n)
        PROVE  /\ todo' \in SUBSET Names
               /\ UNCHANGED <<holder, snap, via, rpc, runErr, agent, fails,
                              faults, store, stat, stream, wipe, cfgErr, attached,
                              forcing, declares, deletes>>
    BY <1>7 DEF EvalSkip, EvalWait, TypeOK
  <1>8. ASSUME NEW n \in Names, EvalConverged(n) \/ EvalBlocked(n)
        PROVE  /\ todo' \in SUBSET Names
               /\ runErr' \in [Names -> {"ok", "blocked", "retry", "held"}]
               /\ UNCHANGED <<holder, snap, via, rpc, agent, fails,
                              faults, store, stat, stream, wipe, cfgErr, attached,
                              forcing, declares, deletes>>
    BY <1>8 DEF EvalConverged, EvalBlocked, TypeOK
  <1>9. ASSUME NEW n \in Names, EvalPush(n)
        PROVE  /\ todo' \in SUBSET Names
               /\ via' \in Peers /\ rpc' = "sent"
               /\ UNCHANGED <<holder, snap, runErr, agent, fails,
                              faults, store, stat, stream, wipe, cfgErr, attached,
                              forcing, declares, deletes>>
    BY <1>9 DEF EvalPush, Found, Matching, TypeOK, BrokerTypeOK
  <1> QED
    BY <1>1, <1>2, <1>3, <1>4, <1>5, <1>6, <1>7, <1>8, <1>9
    DEF Evaluation, EvalNode, TypeOK

(* Callbacks, the stat collectors, agents and links. *)
LEMMA PeerType ==
  ASSUME TypeOK, NEW p \in Peers,
         \/ EvalOnConnect(p) \/ Callback(p) \/ BrokerStep(p)
         \/ Sample(p) \/ SetStat(p)
         \/ LinkLost(p) \/ PeerDead(p) \/ AgentNotices(p) \/ Connect(p)
  PROVE  /\ snap' \in [Names -> Declared] /\ todo' \in SUBSET Names
         /\ holder' \in Peers \cup {"timer", None}
         /\ stat' \in [Names -> Lifecycle \cup {"Unknown"}]
         /\ stream' \in [Peers -> Lifecycle \cup {"off", "idle"}]
         /\ wipe' \in SUBSET Peers /\ attached' \in SUBSET Peers
         /\ cfgErr' \in SUBSET Names
         /\ runErr' \in [Names -> {"ok", "blocked", "retry", "held"}]
         /\ faults' \in Nat
         /\ UNCHANGED <<store, via, rpc, agent, forcing, declares, deletes, fails>>
  <1> USE BrokerAssumption
      DEF statusVars, statVars, agentVars, operatorVars, histVars, evalVars, callVars
  <1>1. CASE EvalOnConnect(p)
    BY <1>1 DEF EvalOnConnect, EvalBegin, TypeOK
  <1>2. CASE OnStats(p) \/ OnReset(p) \/ OnFind(p) \/ OnForget(p)
    BY <1>2 DEF OnStats, OnReset, OnFind, OnForget, TypeOK
  <1>3. CASE OnConfig(p)
    <2>1. faults' \in Nat
      BY <1>3, FaultType DEF OnConfig, FaultKinds
    <2>2. cfgErr' \in SUBSET Names
      BY <1>3 DEF OnConfig, TypeOK
    <2> QED
      BY <1>3, <2>1, <2>2 DEF OnConfig, TypeOK
  <1>4. CASE OnClear(p)
    BY <1>4 DEF OnClear, TypeOK
  <1>5. CASE BrokerStep(p) \/ PeerDead(p) \/ AgentNotices(p) \/ Connect(p)
    BY <1>5 DEF BrokerStep, PeerDead, AgentNotices, Connect, TypeOK
  <1>6. CASE Sample(p)
    <2>1. agent[CN[p]] \in Lifecycle
      BY DEF TypeOK
    <2>2. stream' \in [Peers -> Lifecycle \cup {"off", "idle"}]
      BY <1>6, <2>1 DEF Sample, TypeOK
    <2> QED
      BY <1>6, <2>2 DEF Sample, TypeOK
  <1>8. CASE SetStat(p)
    <2>1. stream' \in [Peers -> Lifecycle \cup {"off", "idle"}]
      BY <1>8 DEF SetStat, TypeOK
    <2>2. stat' \in [Names -> Lifecycle \cup {"Unknown"}]
      BY <1>8 DEF SetStat, TypeOK
    <2> QED
      BY <1>8, <2>1, <2>2 DEF SetStat, TypeOK
  <1>7. CASE LinkLost(p)
    <2>1. faults' \in Nat
      BY <1>7, FaultType DEF LinkLost, FaultKinds
    <2> QED
      BY <1>7, <2>1 DEF LinkLost, TypeOK
  <1> QED
    BY <1>1, <1>2, <1>3, <1>4, <1>5, <1>6, <1>7, <1>8 DEF Callback

LEMMA AgentType ==
  ASSUME TypeOK, NEW n \in Names,
         BackoffEnds(n) \/ SettleEnds(n) \/ AgentFails(n) \/ AgentRestarts(n)
  PROVE  /\ agent' \in [Names -> Lifecycle] /\ attached' \in SUBSET Peers
         /\ faults' \in Nat
         /\ UNCHANGED <<store, holder, snap, todo, via, rpc, stat, stream, wipe,
                        cfgErr, runErr, forcing, declares, deletes, fails>>
  <1> USE DEF statusVars, statVars, agentVars, operatorVars, histVars, evalVars, callVars
  <1>1. CASE BackoffEnds(n) \/ SettleEnds(n)
    BY <1>1 DEF BackoffEnds, SettleEnds, TypeOK
  <1>2. CASE AgentFails(n) \/ AgentRestarts(n)
    <2>1. faults' \in Nat
      BY <1>2, FaultType DEF AgentFails, AgentRestarts, FaultKinds
    <2>2. agent' \in [Names -> Lifecycle] /\ attached' \in SUBSET Peers
      BY <1>2 DEF AgentFails, AgentRestarts, TypeOK, Lifecycle
    <2> QED
      BY <1>2, <2>1, <2>2 DEF AgentFails, AgentRestarts
  <1> QED
    BY <1>1, <1>2

LEMMA CoveredType == TypeOK /\ [Next]_vars => covered' \in SUBSET Names
  <1> SUFFICES ASSUME TypeOK, [Next]_vars
               PROVE  covered' \in SUBSET Names
    OBVIOUS
  <1>0. covered \in SUBSET Names
    BY DEF TypeOK
  <1>1. CASE Operator
    BY <1>0, <1>1 DEF Operator, ForceNext, DeleteEntry, ConfigPush, SetDesiredRun,
                      histVars
  <1>2. ASSUME NEW n \in Names, EvalNode(n)
        PROVE  covered' \in SUBSET Names
    BY <1>0, <1>2 DEF EvalNode, EvalSkip, EvalConverged, EvalWait, EvalBlocked,
                      EvalPush, WindowRefreshed, WindowGone
  <1>3. CASE EvalTick \/ EvalEnd \/ PushOk \/ PushErr
    BY <1>0, <1>3 DEF EvalTick, EvalBegin, EvalEnd, PushOk, PushErr, WindowGone,
                      histVars
  <1>4. CASE HandleStart \/ HandleStop
    <2>1. covered' = covered \/ covered' = covered \cup {CN[via]}
          \/ covered' = covered \ {CN[via]}
      BY <1>4 DEF HandleStart, HandleStop
    <2>2. via \in Peers
      BY <1>4, BrokerAssumption DEF HandleStart, HandleStop, TypeOK, BrokerTypeOK
    <2> QED
      BY <1>0, <2>1, <2>2, BrokerAssumption
  <1>5. ASSUME NEW n \in Names,
               BackoffEnds(n) \/ SettleEnds(n) \/ AgentFails(n) \/ AgentRestarts(n)
        PROVE  covered' \in SUBSET Names
    BY <1>0, <1>5 DEF BackoffEnds, SettleEnds, AgentFails, AgentRestarts,
                      WindowGone, histVars
  <1>6. ASSUME NEW p \in Peers,
               \/ EvalOnConnect(p) \/ BrokerStep(p) \/ Sample(p) \/ SetStat(p)
               \/ LinkLost(p) \/ PeerDead(p) \/ AgentNotices(p) \/ Connect(p)
        PROVE  covered' \in SUBSET Names
    BY <1>0, <1>6 DEF EvalOnConnect, EvalBegin, BrokerStep, Sample, SetStat,
                      LinkLost, PeerDead, AgentNotices, Connect, histVars
  <1>7. ASSUME NEW p \in Peers, Callback(p)
        PROVE  covered' \in SUBSET Names
    BY <1>0, <1>7 DEF Callback, OnStats, OnReset, OnFind, OnForget, OnConfig,
                      OnClear, WindowGone, histVars
  <1>8. CASE UNCHANGED vars
    BY <1>0, <1>8 DEF vars, histVars
  <1> QED
    BY <1>1, <1>2, <1>3, <1>4, <1>5, <1>6, <1>7, <1>8 DEF Next, Evaluation

LEMMA NodeRunTypeStep == TypeOK /\ [Next]_vars => TypeOK'
  <1> SUFFICES ASSUME TypeOK, [Next]_vars
               PROVE  TypeOK'
    OBVIOUS
  <1>1. BrokerTypeOK' /\ st' \in [Names -> RunState] /\ covered' \in SUBSET Names
    BY StepsBroker, BrokerTypeStep, StType, CoveredType DEF TypeOK
  <1>2. CASE Operator
    <2>1. UNCHANGED <<holder, snap, todo, via, rpc, stat, stream, wipe, runErr,
                      agent, attached>>
      BY <1>2 DEF Operator, ForceNext, DeleteEntry, ConfigPush, SetDesiredRun,
                  statusVars, statVars, agentVars, evalVars, callVars, histVars
    <2> QED
      BY <1>1, <1>2, <2>1, OperatorType DEF TypeOK
  <1>3. CASE Evaluation
    BY <1>1, <1>3, EvaluationType DEF TypeOK
  <1>4. ASSUME NEW n \in Names,
               BackoffEnds(n) \/ SettleEnds(n) \/ AgentFails(n) \/ AgentRestarts(n)
        PROVE  TypeOK'
    BY <1>1, <1>4, AgentType DEF TypeOK
  <1>5. ASSUME NEW p \in Peers,
               \/ EvalOnConnect(p) \/ Callback(p) \/ BrokerStep(p)
               \/ Sample(p) \/ SetStat(p)
               \/ LinkLost(p) \/ PeerDead(p) \/ AgentNotices(p) \/ Connect(p)
        PROVE  TypeOK'
    BY <1>1, <1>5, PeerType DEF TypeOK
  <1>6. CASE UNCHANGED vars
    BY <1>1, <1>6 DEF vars, TypeOK, statusVars, statVars, agentVars, operatorVars,
                      histVars, evalVars, callVars
  <1> QED
    BY <1>2, <1>3, <1>4, <1>5, <1>6 DEF Next, Evaluation

(* Every state of the composition is well typed.                           *)
THEOREM NodeRunTypeCorrect == Spec => []TypeOK
  BY NodeRunInitType, NodeRunTypeStep, PTL DEF Spec

LEMMA NodeRunKeepsBroker == Spec => BrokerSpec
  <1>1. Init => BrokerInit
    BY DEF Init
  <1> QED
    BY <1>1, NodeRunTypeCorrect, StepsBroker, PTL DEF Spec, BrokerSpec

(* A node is in the inventory once, under evaluations, late status reports *)
(* and failures too.                                                       *)
THEOREM NodeRunOneEntry == Spec => []OneEntryPerNode
  BY NodeRunKeepsBroker, BrokerOneEntry, PTL

(* And it is an inventory still: no reconnect, evaluation or failure drops *)
(* the entry of an open connection or leaves a connection behind (Add,     *)
(* Remove and the superseding Close, under node_run's callbacks).          *)
THEOREM NodeRunImplementsInventory == Spec => ImplementsInventory /\ []NoOrphan
  BY NodeRunKeepsBroker, BrokerImplementsInventory, BrokerNoOrphan, PTL
-----------------------------------------------------------------------------
(* Holds.  HoldEarned is not inductive: a push that fails under an older   *)
(* generation counts attempts nobody counts against the present one.  What *)
(* makes it harmless is that neither the bookkeeping nor a snapshot ever   *)
(* runs ahead of the store, so that the next evaluation sees the bump.     *)
HoldOK(s, declared, seen, failed) ==
  /\ seen.gen <= declared.gen
  /\ s.gen <= declared.gen
  /\ s.gen = declared.gen => s.attempts <= failed
  /\ s.held => MaxAttempts <= s.attempts

HoldInv ==
  \A n \in Names : deletes[n] = 0 => HoldOK(st[n], store[n], snap[n], fails[n])

LEMMA HoldInit == Init => HoldInv
  <1> SUFFICES ASSUME Init, NEW n \in Names
               PROVE  HoldOK(st[n], store[n], snap[n], fails[n])
    BY DEF HoldInv
  <1>1. /\ st[n].gen = 0 /\ st[n].attempts = 0 /\ st[n].held = FALSE
        /\ store[n].gen = 0 /\ snap[n].gen = 0 /\ fails[n] = 0
    BY DEF Init, ZeroState, Unmanaged
  <1> QED
    BY <1>1 DEF HoldOK

LEMMA StoreGen ==
  ASSUME TypeOK, NEW n \in Names
  PROVE  store[n].gen \in Nat
  <1>1. store[n] \in Declared
    BY DEF TypeOK
  <1> QED
    BY <1>1 DEF Declared

(* A step that leaves the four parts of one node's record alone. *)
LEMMA HoldFrame ==
  ASSUME TypeOK, HoldInv, UNCHANGED <<st, store, snap, fails, deletes>>
  PROVE  HoldInv'
  BY DEF HoldInv

LEMMA HoldOperator == ASSUME TypeOK, HoldInv, Operator PROVE HoldInv'
  <1>1. ASSUME NEW m \in Names, ForceNext(m)
        PROVE  HoldInv'
    <2>1. /\ st' = [st EXCEPT ![m] = [st[m] EXCEPT !.forceOnce = TRUE]]
          /\ UNCHANGED <<store, snap, fails, deletes>>
      BY <1>1 DEF ForceNext, evalVars, histVars
    <2>2. \A n \in Names : /\ st'[n].gen = st[n].gen
                            /\ st'[n].attempts = st[n].attempts
                            /\ st'[n].held = st[n].held
      BY <2>1 DEF TypeOK, RunState
    <2> QED
      BY <2>1, <2>2 DEF HoldInv, HoldOK
  <1>2. ASSUME NEW m \in Names, DeleteEntry(m)
        PROVE  HoldInv'
    <2>1. /\ store' = [store EXCEPT ![m] = Unmanaged]
          /\ deletes' = [deletes EXCEPT ![m] = deletes[m] + 1]
          /\ UNCHANGED <<st, snap, fails>>
      BY <1>2 DEF DeleteEntry, evalVars, histVars
    <2>2. ASSUME NEW n \in Names, deletes'[n] = 0
          PROVE  n # m
      <3>1. deletes[m] \in Nat
        BY DEF TypeOK
      <3>2. deletes'[m] = deletes[m] + 1
        BY <2>1 DEF TypeOK
      <3> QED
        BY <2>2, <3>1, <3>2
    <2>3. \A n \in Names : n # m => store'[n] = store[n] /\ deletes'[n] = deletes[n]
      BY <2>1 DEF TypeOK
    <2> QED
      BY <2>1, <2>2, <2>3 DEF HoldInv
  <1>3. ASSUME NEW m \in Names, ConfigPush(m)
        PROVE  HoldInv'
    BY <1>3, HoldFrame DEF ConfigPush, evalVars, operatorVars, histVars
  <1>4. ASSUME NEW targets \in SUBSET Names, NEW run \in {"running", "stopped"},
               SetDesiredRun(targets, run)
        PROVE  HoldInv'
    <2>1. UNCHANGED <<st, snap, deletes>>
      BY <1>4 DEF SetDesiredRun, evalVars
    <2>2. \A n \in targets : store'[n].gen = store[n].gen + 1
      BY <1>4 DEF SetDesiredRun
    <2>3. \A n \in Names \ targets : store'[n] = store[n] /\ fails'[n] = fails[n]
      BY <1>4 DEF SetDesiredRun
    <2>4. \A n \in Names : /\ store[n].gen \in Nat /\ snap[n].gen \in Nat
                            /\ st[n].gen \in Nat
      BY DEF TypeOK, Declared, RunState
    <2>5. ASSUME NEW n \in targets, deletes[n] = 0
          PROVE  HoldOK(st[n], store'[n], snap[n], fails'[n])
      BY <2>2, <2>4, <2>5 DEF HoldInv, HoldOK
    <2>6. ASSUME NEW n \in Names \ targets, deletes[n] = 0
          PROVE  HoldOK(st[n], store'[n], snap[n], fails'[n])
      BY <2>3, <2>6 DEF HoldInv
    <2> QED
      BY <2>1, <2>5, <2>6 DEF HoldInv
  <1> QED
    BY <1>1, <1>2, <1>3, <1>4 DEF Operator

(* Evaluating a node works on Refreshed(n), which is no further than the   *)
(* snapshot, and clears attempts with the generation.                      *)
LEMMA HoldRefreshed ==
  ASSUME TypeOK, HoldInv, NEW n \in Names, deletes[n] = 0
  PROVE  HoldOK(Refreshed(n), store[n], snap[n], fails[n])
  <1>1. /\ snap[n].gen \in Nat /\ store[n].gen \in Nat /\ fails[n] \in Nat
    BY DEF TypeOK, Declared
  <1>2. CASE snap[n].gen # st[n].gen
    <2>1. /\ Refreshed(n).gen = snap[n].gen
          /\ Refreshed(n).attempts = 0 /\ Refreshed(n).held = FALSE
      BY <1>2 DEF Refreshed, ZeroState
    <2> QED
      BY <1>1, <2>1 DEF HoldInv, HoldOK
  <1>3. CASE snap[n].gen = st[n].gen
    BY <1>3 DEF Refreshed, HoldInv
  <1> QED
    BY <1>2, <1>3

LEMMA HoldEvalNode ==
  ASSUME TypeOK, HoldInv, NEW m \in Names, EvalNode(m)
  PROVE  HoldInv'
  <1>1. UNCHANGED <<store, snap, fails, deletes>>
    BY DEF EvalNode, EvalSkip, EvalConverged, EvalWait, EvalBlocked, EvalPush,
           operatorVars, histVars
  <1>2. ASSUME st' = [st EXCEPT ![m] = Refreshed(m)]
        PROVE  HoldInv'
    BY <1>1, <1>2, HoldRefreshed DEF HoldInv, TypeOK
  <1>3. ASSUME st' = [st EXCEPT ![m] = [Refreshed(m) EXCEPT !.attempts = 0, !.held = FALSE,
                                                          !.forceOnce = FALSE]]
        PROVE  HoldInv'
    <2>1. /\ st'[m].gen = Refreshed(m).gen
          /\ st'[m].attempts = 0 /\ st'[m].held = FALSE
      BY <1>3, RefreshedType DEF TypeOK, RunState
    <2>2. \A n \in Names : n # m => st'[n] = st[n]
      BY <1>3 DEF TypeOK
    <2>3. fails[m] \in Nat
      BY DEF TypeOK
    <2>4. deletes[m] = 0 => HoldOK(st'[m], store[m], snap[m], fails[m])
      BY <2>1, <2>3, HoldRefreshed DEF HoldOK
    <2> QED
      BY <1>1, <2>2, <2>4 DEF HoldInv
  <1> QED
    BY <1>2, <1>3 DEF EvalNode, EvalSkip, EvalConverged, EvalWait, EvalBlocked, EvalPush

LEMMA HoldPushOk == ASSUME TypeOK, HoldInv, PushOk PROVE HoldInv'
  <1>1. PICK b \in BOOLEAN :
          st' = [st EXCEPT ![CN[via]] =
                   [st[CN[via]] EXCEPT !.attempts = 0, !.held = FALSE,
                                       !.forceOnce = FALSE, !.settling = b]]
    BY DEF PushOk
  <1>2. UNCHANGED <<store, snap, fails, deletes>>
    BY DEF PushOk, PushReturns, operatorVars, evalVars
  <1>3. ASSUME NEW n \in Names
        PROVE  \/ st'[n] = st[n]
               \/ st'[n].gen = st[n].gen /\ st'[n].attempts = 0 /\ st'[n].held = FALSE
    BY <1>1 DEF TypeOK, RunState
  <1>4. ASSUME NEW n \in Names, deletes[n] = 0
        PROVE  HoldOK(st'[n], store[n], snap[n], fails[n])
    <2>1. HoldOK(st[n], store[n], snap[n], fails[n])
      BY <1>4 DEF HoldInv
    <2>2. fails[n] \in Nat
      BY DEF TypeOK
    <2>3. CASE st'[n] = st[n]
      BY <2>1, <2>3
    <2>4. CASE /\ st'[n].gen = st[n].gen
               /\ st'[n].attempts = 0 /\ st'[n].held = FALSE
      BY <2>1, <2>2, <2>4 DEF HoldOK
    <2> QED
      BY <1>3, <2>3, <2>4
  <1> QED
    BY <1>2, <1>4 DEF HoldInv

LEMMA HoldPushErr == ASSUME TypeOK, HoldInv, PushErr PROVE HoldInv'
  <1> DEFINE m == CN[via]
  <1>1. m \in Names
    BY BrokerAssumption DEF PushErr, TypeOK
  <1>2. /\ st' = [st EXCEPT ![m] = Failed(st[m])]
        /\ fails' = [fails EXCEPT ![m] = fails[m] + 1]
        /\ UNCHANGED <<store, snap, deletes>>
    BY DEF PushErr, PushReturns, operatorVars, evalVars
  <1> HIDE DEF m
  <1>3. /\ st[m].attempts \in Nat /\ fails[m] \in Nat
        /\ st[m] \in RunState
    BY <1>1 DEF TypeOK, RunState
  <1>4. /\ Failed(st[m]).gen = st[m].gen
        /\ Failed(st[m]).attempts = st[m].attempts + 1
        /\ Failed(st[m]).held => st[m].held \/ st[m].attempts + 1 >= MaxAttempts
    BY <1>3 DEF Failed, RunState
  <1>5. st'[m] = Failed(st[m]) /\ fails'[m] = fails[m] + 1
    BY <1>1, <1>2 DEF TypeOK
  <1>6. \A n \in Names : n # m => st'[n] = st[n] /\ fails'[n] = fails[n]
    BY <1>1, <1>2 DEF TypeOK
  <1>7. deletes[m] = 0 => HoldOK(st'[m], store[m], snap[m], fails'[m])
    BY <1>1, <1>3, <1>4, <1>5, NodeRunAssumption DEF HoldInv, HoldOK
  <1> QED
    BY <1>2, <1>6, <1>7 DEF HoldInv

LEMMA HoldStep == TypeOK /\ HoldInv /\ [Next]_vars => HoldInv'
  <1> SUFFICES ASSUME TypeOK, HoldInv, [Next]_vars
               PROVE  HoldInv'
    OBVIOUS
  <1>1. ASSUME NEW who, EvalBegin(who)
        PROVE  HoldInv'
    <2>1. snap' = store /\ UNCHANGED <<st, store, fails, deletes>>
      BY <1>1 DEF EvalBegin, operatorVars, histVars
    <2>2. \A n \in Names : store[n].gen <= store[n].gen
      BY StoreGen
    <2> QED
      BY <2>1, <2>2 DEF HoldInv, HoldOK
  <1>2. CASE EvalEnd
    <2>1. /\ \A n \in Names : snap'[n].gen = 0
          /\ UNCHANGED <<st, store, fails, deletes>>
      BY <1>2 DEF EvalEnd, Unmanaged, operatorVars, histVars
    <2>2. \A n \in Names : 0 <= store[n].gen
      BY StoreGen
    <2> QED
      BY <2>1, <2>2 DEF HoldInv, HoldOK
  <1>3. ASSUME NEW n \in Names, BackoffEnds(n) \/ SettleEnds(n)
        PROVE  HoldInv'
    <2>1. \/ st' = [st EXCEPT ![n] = [st[n] EXCEPT !.backoff = FALSE]]
          \/ st' = [st EXCEPT ![n] = [st[n] EXCEPT !.settling = FALSE]]
      BY <1>3 DEF BackoffEnds, SettleEnds
    <2>2. UNCHANGED <<store, snap, fails, deletes>>
      BY <1>3 DEF BackoffEnds, SettleEnds, operatorVars, evalVars, histVars
    <2>3. \A k \in Names : /\ st'[k].gen = st[k].gen
                            /\ st'[k].attempts = st[k].attempts
                            /\ st'[k].held = st[k].held
      BY <2>1 DEF TypeOK, RunState
    <2> QED
      BY <2>2, <2>3 DEF HoldInv, HoldOK
  <1>4. ASSUME NEW p \in Peers, OnReset(p) \/ OnForget(p)
        PROVE  HoldInv'
    <2>1. /\ st' = [st EXCEPT ![CN[p]] = ZeroState]
          /\ UNCHANGED <<store, snap, fails, deletes>>
      BY <1>4 DEF OnReset, OnForget, operatorVars, evalVars, histVars
    <2>2. \A n \in Names :
            \/ st'[n] = st[n]
            \/ st'[n].gen = 0 /\ st'[n].attempts = 0 /\ st'[n].held = FALSE
      BY <2>1 DEF TypeOK, ZeroState
    <2>3. \A n \in Names : store[n].gen \in Nat /\ fails[n] \in Nat
      BY DEF TypeOK, Declared
    <2> QED
      BY <2>1, <2>2, <2>3 DEF HoldInv, HoldOK
  <1>5. ASSUME NEW p \in Peers,
               \/ OnStats(p) \/ OnConfig(p) \/ OnFind(p) \/ OnClear(p)
               \/ BrokerStep(p) \/ Sample(p) \/ SetStat(p)
               \/ LinkLost(p) \/ PeerDead(p) \/ AgentNotices(p) \/ Connect(p)
        PROVE  HoldInv'
    BY <1>5, HoldFrame
    DEF OnStats, OnConfig, OnFind, OnClear, BrokerStep, Sample, SetStat, LinkLost,
        PeerDead, AgentNotices, Connect, operatorVars, evalVars, histVars
  <1>6. ASSUME NEW n \in Names, AgentFails(n) \/ AgentRestarts(n)
        PROVE  HoldInv'
    BY <1>6, HoldFrame DEF AgentFails, AgentRestarts, operatorVars, evalVars, histVars
  <1>7. CASE HandleStart \/ HandleStop
    BY <1>7, HoldFrame DEF HandleStart, HandleStop, operatorVars, evalVars, histVars
  <1>8. CASE UNCHANGED vars
    BY <1>8, HoldFrame DEF vars, operatorVars, evalVars, histVars
  <1> QED
    BY <1>1, <1>2, <1>3, <1>4, <1>5, <1>6, <1>7, <1>8,
       HoldOperator, HoldEvalNode, HoldPushOk, HoldPushErr
    DEF Next, EvalTick, EvalOnConnect, Callback

LEMMA HoldImplies == TypeOK /\ HoldInv => HoldEarned
  <1> SUFFICES ASSUME TypeOK, HoldInv, NEW n \in Names, GivenUp(n), deletes[n] = 0
               PROVE  fails[n] >= MaxAttempts
    BY DEF HoldEarned
  <1>1. st[n].attempts \in Nat /\ fails[n] \in Nat
    BY DEF TypeOK, RunState
  <1>2. HoldOK(st[n], store[n], snap[n], fails[n])
    BY DEF HoldInv
  <1>3. MaxAttempts <= st[n].attempts /\ st[n].attempts <= fails[n]
    BY <1>2 DEF HoldOK, GivenUp
  <1> QED
    BY <1>1, <1>3, NodeRunAssumption

(* node_run gives a node up only for failures of what is declared now, for *)
(* any number of nodes, attempts, declarations and failures, as long as    *)
(* the expected_node entry is not removed in between.                      *)
THEOREM NodeRunHoldEarned == Spec => []HoldEarned
  BY HoldImplies, HoldInit, HoldStep, NodeRunTypeCorrect, PTL DEF Spec
-----------------------------------------------------------------------------
(* Giving up is final.  A call is made under the mutex, which keeps        *)
(* declarations and reconnects from the node's bookkeeping until it        *)
(* returns: the node that is called is not held, and the failure of the    *)
(* call takes it one attempt further at most.                              *)
StopsAt(s) ==
  /\ s.attempts <= MaxAttempts
  /\ s.held <=> s.attempts = MaxAttempts

StopsInv ==
  /\ \A n \in Names : StopsAt(st[n])
  /\ via # None => holder # None /\ ~st[CN[via]].held

LEMMA StopsZero == StopsAt(ZeroState)
  BY NodeRunAssumption DEF StopsAt, ZeroState

LEMMA StopsRefreshed ==
  ASSUME TypeOK, StopsInv, NEW n \in Names
  PROVE  StopsAt(Refreshed(n))
  <1>1. CASE snap[n].gen # st[n].gen
    <2>1. Refreshed(n).attempts = 0 /\ Refreshed(n).held = FALSE
      BY <1>1 DEF Refreshed, ZeroState
    <2> QED
      BY <2>1, NodeRunAssumption DEF StopsAt
  <1>2. CASE snap[n].gen = st[n].gen
    BY <1>2 DEF Refreshed, StopsInv
  <1> QED
    BY <1>1, <1>2

(* Marking a push and the passing of time change neither attempts nor hold.*)
LEMMA StopsMarks ==
  ASSUME TypeOK, StopsInv, NEW n \in Names,
         \/ st' = [st EXCEPT ![n] = [st[n] EXCEPT !.forceOnce = TRUE]]
         \/ st' = [st EXCEPT ![n] = [st[n] EXCEPT !.backoff = FALSE]]
         \/ st' = [st EXCEPT ![n] = [st[n] EXCEPT !.settling = FALSE]],
         UNCHANGED <<via, holder>>
  PROVE  StopsInv'
  <1>1. st \in [Names -> RunState] /\ st[n] \in RunState
    BY DEF TypeOK
  <1>2. PICK r \in RunState :
          st' = [st EXCEPT ![n] = r] /\ r.attempts = st[n].attempts /\ r.held = st[n].held
    <2>1. CASE st' = [st EXCEPT ![n] = [st[n] EXCEPT !.forceOnce = TRUE]]
      <3>1. /\ [st[n] EXCEPT !.forceOnce = TRUE] \in RunState
            /\ [st[n] EXCEPT !.forceOnce = TRUE].attempts = st[n].attempts
            /\ [st[n] EXCEPT !.forceOnce = TRUE].held = st[n].held
        BY <1>1 DEF RunState
      <3> QED
        BY <2>1, <3>1
    <2>2. CASE st' = [st EXCEPT ![n] = [st[n] EXCEPT !.backoff = FALSE]]
      <3>1. /\ [st[n] EXCEPT !.backoff = FALSE] \in RunState
            /\ [st[n] EXCEPT !.backoff = FALSE].attempts = st[n].attempts
            /\ [st[n] EXCEPT !.backoff = FALSE].held = st[n].held
        BY <1>1 DEF RunState
      <3> QED
        BY <2>2, <3>1
    <2>3. CASE st' = [st EXCEPT ![n] = [st[n] EXCEPT !.settling = FALSE]]
      <3>1. /\ [st[n] EXCEPT !.settling = FALSE] \in RunState
            /\ [st[n] EXCEPT !.settling = FALSE].attempts = st[n].attempts
            /\ [st[n] EXCEPT !.settling = FALSE].held = st[n].held
        BY <1>1 DEF RunState
      <3> QED
        BY <2>3, <3>1
    <2> QED
      BY <2>1, <2>2, <2>3
  <1>3. \A m \in Names : st'[m].attempts = st[m].attempts /\ st'[m].held = st[m].held
    BY <1>1, <1>2
  <1>4. via # None => CN[via] \in Names
    BY BrokerAssumption DEF TypeOK
  <1> QED
    BY <1>3, <1>4 DEF StopsInv, StopsAt

LEMMA StopsEvalNode ==
  ASSUME TypeOK, StopsInv, NEW n \in Names, EvalNode(n)
  PROVE  StopsInv'
  <1>1. via = None /\ holder # None /\ holder' = holder
    BY DEF EvalNode, EvalSkip, EvalConverged, EvalWait, EvalBlocked, EvalPush,
           Looking, evalVars
  <1>2. \/ st' = [st EXCEPT ![n] = Refreshed(n)]
        \/ st' = [st EXCEPT ![n] = [Refreshed(n) EXCEPT !.attempts = 0, !.held = FALSE,
                                                       !.forceOnce = FALSE]]
    BY DEF EvalNode, EvalSkip, EvalConverged, EvalWait, EvalBlocked, EvalPush
  <1>3. Refreshed(n) \in RunState /\ StopsAt(Refreshed(n)) /\ st \in [Names -> RunState]
    BY RefreshedType, StopsRefreshed DEF TypeOK
  <1>4. StopsAt([Refreshed(n) EXCEPT !.attempts = 0, !.held = FALSE, !.forceOnce = FALSE])
    BY <1>3, NodeRunAssumption DEF StopsAt, RunState
  <1>5. \A m \in Names : StopsAt(st'[m])
    BY <1>2, <1>3, <1>4 DEF StopsInv
  <1>6. CASE EvalPush(n)
    <2>1. /\ via' \in Found(n) /\ ~Refreshed(n).held
          /\ st' = [st EXCEPT ![n] = Refreshed(n)]
      BY <1>6 DEF EvalPush, PushDue
    <2>2. CN[via'] = n
      BY <2>1 DEF Found, Matching
    <2>3. ~st'[CN[via']].held
      BY <1>3, <2>1, <2>2
    <2> QED
      BY <1>1, <1>5, <2>3 DEF StopsInv, StopsAt
  <1>7. CASE via' = None
    BY <1>5, <1>7 DEF StopsInv, StopsAt
  <1> QED
    BY <1>1, <1>6, <1>7
    DEF EvalNode, EvalSkip, EvalConverged, EvalWait, EvalBlocked, callVars

LEMMA StopsPush ==
  ASSUME TypeOK, StopsInv, PushOk \/ PushErr
  PROVE  StopsInv'
  <1>1. via # None => CN[via] \in Names
    BY BrokerAssumption DEF TypeOK
  <1>2. via' = None
    BY DEF PushOk, PushErr, PushReturns
  <1>3. CASE PushOk
    <2>0. PICK b \in BOOLEAN :
            st' = [st EXCEPT ![CN[via]] =
                     [st[CN[via]] EXCEPT !.attempts = 0, !.held = FALSE,
                                         !.forceOnce = FALSE, !.settling = b]]
      BY <1>3 DEF PushOk
    <2>1. ASSUME NEW n \in Names
          PROVE  \/ st'[n] = st[n]
                 \/ st'[n].attempts = 0 /\ st'[n].held = FALSE
      BY <2>0 DEF TypeOK, RunState
    <2>2. ASSUME NEW n \in Names
          PROVE  StopsAt(st'[n])
      <3>1. CASE st'[n] = st[n]
        BY <3>1 DEF StopsInv
      <3>2. CASE st'[n].attempts = 0 /\ st'[n].held = FALSE
        BY <3>2, NodeRunAssumption DEF StopsAt
      <3> QED
        BY <2>1, <3>1, <3>2
    <2> QED
      BY <1>2, <2>2 DEF StopsInv, StopsAt
  <1>4. CASE PushErr
    <2> PICK m \in Names : m = CN[via] /\ via # None
      BY <1>1, <1>4 DEF PushErr
    <2>1. st[m] \in RunState /\ st[m].attempts \in Nat /\ StopsAt(st[m]) /\ ~st[m].held
      BY DEF TypeOK, RunState, StopsInv
    <2>2. st[m].attempts + 1 <= MaxAttempts
      BY <2>1, NodeRunAssumption DEF StopsAt
    <2>3. /\ Failed(st[m]).attempts = st[m].attempts + 1
          /\ Failed(st[m]).held <=> st[m].attempts + 1 >= MaxAttempts
      BY <2>1 DEF Failed, RunState
    <2>4. StopsAt(Failed(st[m]))
      BY <2>1, <2>2, <2>3, NodeRunAssumption DEF StopsAt
    <2>5. st' = [st EXCEPT ![m] = Failed(st[m])]
      BY <1>4 DEF PushErr
    <2>6. \A n \in Names : StopsAt(st'[n])
      BY <2>4, <2>5 DEF StopsInv, TypeOK
    <2> QED
      BY <1>2, <2>6 DEF StopsInv, StopsAt
  <1> QED
    BY <1>3, <1>4

LEMMA StopsStep == TypeOK /\ StopsInv /\ [Next]_vars => StopsInv'
  <1> SUFFICES ASSUME TypeOK, StopsInv, [Next]_vars
               PROVE  StopsInv'
    OBVIOUS
  <1> USE DEF evalVars, callVars
  <1>1. ASSUME UNCHANGED <<st, via, holder>>
        PROVE  StopsInv'
    BY <1>1 DEF StopsInv, StopsAt
  <1>2. CASE Operator
    <2>1. ASSUME NEW n \in Names, ForceNext(n)
          PROVE  StopsInv'
      <3>1. st' = [st EXCEPT ![n] = [st[n] EXCEPT !.forceOnce = TRUE]]
        BY <2>1 DEF ForceNext
      <3> QED
        BY <2>1, <3>1, StopsMarks DEF ForceNext
    <2> QED
      BY <1>1, <1>2, <2>1 DEF Operator, DeleteEntry, ConfigPush, SetDesiredRun
  <1>3. ASSUME NEW who, EvalBegin(who)
        PROVE  StopsInv'
    <2>1. holder = None /\ UNCHANGED <<st, via>>
      BY <1>3 DEF EvalBegin
    <2> QED
      BY <2>1 DEF StopsInv, StopsAt
  <1>4. CASE EvalEnd
    <2>1. via = None /\ UNCHANGED <<st, via>>
      BY <1>4 DEF EvalEnd
    <2> QED
      BY <2>1 DEF StopsInv, StopsAt
  <1>5. CASE HandleStart \/ HandleStop
    BY <1>1, <1>5 DEF HandleStart, HandleStop
  <1>6. ASSUME NEW n \in Names, BackoffEnds(n) \/ SettleEnds(n)
        PROVE  StopsInv'
    <2>1. \/ st' = [st EXCEPT ![n] = [st[n] EXCEPT !.backoff = FALSE]]
          \/ st' = [st EXCEPT ![n] = [st[n] EXCEPT !.settling = FALSE]]
      BY <1>6 DEF BackoffEnds, SettleEnds
    <2> QED
      BY <1>6, <2>1, StopsMarks DEF BackoffEnds, SettleEnds
  <1>7. ASSUME NEW n \in Names, AgentFails(n) \/ AgentRestarts(n)
        PROVE  StopsInv'
    BY <1>1, <1>7 DEF AgentFails, AgentRestarts
  <1>8. ASSUME NEW p \in Peers, OnReset(p) \/ OnForget(p)
        PROVE  StopsInv'
    <2>1. holder = None /\ st' = [st EXCEPT ![CN[p]] = ZeroState] /\ via' = via
      BY <1>8 DEF OnReset, OnForget
    <2>2. \A n \in Names : StopsAt(st'[n])
      BY <2>1, StopsZero DEF TypeOK, StopsInv
    <2>3. via = None
      BY <2>1 DEF StopsInv
    <2> QED
      BY <2>1, <2>2, <2>3 DEF StopsInv, StopsAt
  <1>9. ASSUME NEW p \in Peers,
               \/ OnStats(p) \/ OnConfig(p) \/ OnFind(p) \/ OnClear(p)
               \/ BrokerStep(p) \/ Sample(p) \/ SetStat(p)
               \/ LinkLost(p) \/ PeerDead(p) \/ AgentNotices(p) \/ Connect(p)
        PROVE  StopsInv'
    BY <1>1, <1>9
    DEF OnStats, OnConfig, OnFind, OnClear, BrokerStep, Sample, SetStat, LinkLost,
        PeerDead, AgentNotices, Connect
  <1>10. CASE UNCHANGED vars
    BY <1>1, <1>10 DEF vars
  <1> QED
    BY <1>2, <1>3, <1>4, <1>5, <1>6, <1>7, <1>8, <1>9, <1>10, StopsEvalNode, StopsPush
    DEF Next, EvalTick, EvalOnConnect, Callback

LEMMA StopsInit ==
  ASSUME via = None, st = [n \in Names |-> ZeroState]
  PROVE  StopsInv
  BY StopsZero DEF StopsInv

(* Whatever reconnects, declarations, late answers and failures come in    *)
(* between, a node that is given up on gets no further push: failures in a *)
(* row end at nodeRunMaxAttempts.                                          *)
THEOREM NodeRunHoldStops == Spec => []HoldStops
  <1>1. Init => StopsInv
    BY StopsInit DEF Init
  <1>2. StopsInv => HoldStops
    BY DEF StopsInv, StopsAt, HoldStops
  <1> QED
    BY <1>1, <1>2, StopsStep, NodeRunTypeCorrect, PTL DEF Spec
-----------------------------------------------------------------------------
(* The settle window.  A node that is covered runs, and either its window  *)
(* is open, or its report is in, or the answer to the start is on its way  *)
(* and opens the window.                                                   *)
To(n) == via # None /\ CN[via] = n
Answered(n) == To(n) /\ rpc = "ok"
HeldOff(n) == agent[n] = "Running" /\ (st[n].settling \/ Reported(n) \/ Answered(n))

CoverInv ==
  /\ via # None => holder # None
  /\ \A n \in covered : HeldOff(n)
  /\ \A n \in covered : To(n) /\ rpc = "sent" => snap[n].run # "running"

LEMMA CoverInit ==
  ASSUME via = None, covered = {}
  PROVE  CoverInv
  BY DEF CoverInv

LEMMA CoverImplies ==
  ASSUME TypeOK, CoverInv
  PROVE  SettleCovers
  BY BrokerAssumption DEF CoverInv, SettleCovers, Redundant, Pushing, To, TypeOK

(* No report on its way to the cache says anything else than the one that  *)
(* is in, for as long as the node runs.                                    *)
LEMMA ReportedStays ==
  ASSUME TypeOK, [Next]_vars, NEW n \in Names, Reported(n), agent'[n] = "Running"
  PROVE  Reported(n)'
  <1> USE DEF statVars, evalVars, callVars, agentVars, operatorVars, histVars, statusVars
  <1>1. ASSUME UNCHANGED statVars
        PROVE  Reported(n)'
    BY <1>1 DEF Reported
  <1>2. ASSUME NEW p \in Peers, Sample(p)
        PROVE  Reported(n)'
    BY <1>2 DEF Sample, Reported, TypeOK
  <1>3. ASSUME NEW p \in Peers, SetStat(p)
        PROVE  Reported(n)'
    <2>1. CN[p] = n => stream[p] = "Running"
      BY <1>3 DEF SetStat, Reported, Lifecycle
    <2> QED
      BY <1>3, <2>1 DEF SetStat, Reported, TypeOK
  <1>4. ASSUME NEW p \in Peers, OnStats(p) \/ Connect(p)
        PROVE  Reported(n)'
    BY <1>4 DEF OnStats, Connect, Reported, TypeOK
  <1>5. ASSUME NEW p \in Peers, OnClear(p)
        PROVE  Reported(n)'
    BY <1>5 DEF OnClear, Reported, TypeOK
  <1>6. ASSUME NEW p \in Peers,
               \/ OnConfig(p) \/ OnReset(p) \/ OnFind(p) \/ OnForget(p)
               \/ EvalOnConnect(p) \/ BrokerStep(p)
               \/ LinkLost(p) \/ PeerDead(p) \/ AgentNotices(p)
        PROVE  Reported(n)'
    BY <1>1, <1>6 DEF OnConfig, OnReset, OnFind, OnForget, EvalOnConnect, EvalBegin,
       BrokerStep, LinkLost, PeerDead, AgentNotices
  <1>7. CASE Operator \/ EvalTick \/ EvalEnd
    BY <1>1, <1>7 DEF Operator, ForceNext, DeleteEntry, ConfigPush, SetDesiredRun,
       EvalTick, EvalBegin, EvalEnd
  <1>8. CASE PushOk \/ PushErr \/ HandleStart \/ HandleStop
    BY <1>1, <1>8 DEF PushOk, PushErr, PushReturns, HandleStart, HandleStop
  <1>9. ASSUME NEW m \in Names, EvalNode(m)
        PROVE  Reported(n)'
    BY <1>1, <1>9
    DEF EvalNode, EvalSkip, EvalConverged, EvalWait, EvalBlocked, EvalPush
  <1>10. ASSUME NEW m \in Names,
                BackoffEnds(m) \/ SettleEnds(m) \/ AgentFails(m) \/ AgentRestarts(m)
         PROVE  Reported(n)'
    BY <1>1, <1>10 DEF BackoffEnds, SettleEnds, AgentFails, AgentRestarts
  <1>11. CASE UNCHANGED vars
    BY <1>1, <1>11 DEF vars
  <1> QED
    BY <1>2, <1>3, <1>4, <1>5, <1>6, <1>7, <1>8, <1>9, <1>10, <1>11 DEF Next, Callback

(* A step that makes no call, and lets a node lose its cover or its window *)
(* together.                                                               *)
LEMMA CoverFrame ==
  ASSUME TypeOK, CoverInv, [Next]_vars,
         UNCHANGED <<via, rpc>>, covered' \subseteq covered,
         via # None => holder' # None /\ snap' = snap,
         \A n \in covered' :
           /\ agent'[n] = "Running"
           /\ Reported(n) \/ st'[n].settling = st[n].settling
  PROVE  CoverInv'
  <1>1. ASSUME NEW n \in covered'
        PROVE  HeldOff(n)'
    <2>1. n \in Names /\ HeldOff(n)
      BY <1>1 DEF CoverInv, TypeOK
    <2>2. Reported(n) => Reported(n)'
      BY <1>1, <2>1, ReportedStays
    <2>3. Answered(n) => Answered(n)'
      BY DEF Answered, To
    <2> QED
      BY <1>1, <2>1, <2>2, <2>3 DEF HeldOff
  <1>2. ASSUME NEW n \in covered', To(n)', rpc' = "sent"
        PROVE  snap'[n].run # "running"
    BY <1>2 DEF CoverInv, To
  <1> QED
    BY <1>1, <1>2 DEF CoverInv

(* One node's window is gone. *)
LEMMA CoverGone ==
  ASSUME TypeOK, CoverInv, [Next]_vars, NEW m \in Names, WindowGone(m),
         UNCHANGED <<via, rpc, holder, snap, agent>>,
         \A n \in Names \ {m} : st'[n] = st[n]
  PROVE  CoverInv'
  <1>1. covered' \subseteq covered /\ (m \in covered' => Reported(m))
    BY DEF WindowGone
  <1>2. covered \subseteq Names
    BY DEF TypeOK
  <1>3. \A n \in covered' : agent'[n] = "Running"
    BY <1>1 DEF CoverInv, HeldOff
  <1> QED
    BY <1>1, <1>2, <1>3, CoverFrame DEF CoverInv

(* An evaluation of one node: what it does to the bookkeeping of its window*)
(* and whom it calls.                                                      *)
LEMMA CoverEvalNode ==
  ASSUME TypeOK, CoverInv, [Next]_vars, NEW m \in Names, EvalNode(m)
  PROVE  CoverInv'
  <1> USE DEF evalVars, callVars, statVars, agentVars, operatorVars
  <1>1. /\ via = None /\ holder # None /\ WindowRefreshed(m)
        /\ UNCHANGED <<holder, snap, agent>>
    BY DEF EvalNode, EvalSkip, EvalConverged, EvalWait, EvalBlocked, EvalPush, Looking
  <1>2. /\ \A n \in Names \ {m} : st'[n] = st[n]
        /\ st'[m].settling = Refreshed(m).settling
    <2>1. Refreshed(m) \in RunState /\ st \in [Names -> RunState]
      BY RefreshedType DEF TypeOK
    <2>2. \/ st' = [st EXCEPT ![m] = Refreshed(m)]
          \/ st' = [st EXCEPT ![m] = [Refreshed(m) EXCEPT !.attempts = 0, !.held = FALSE,
                                                         !.forceOnce = FALSE]]
      BY DEF EvalNode, EvalSkip, EvalConverged, EvalWait, EvalBlocked, EvalPush
    <2> QED
      BY <2>1, <2>2 DEF RunState
  <1>3. /\ covered' \subseteq covered /\ covered \subseteq Names
        /\ m \in covered' => Reported(m) \/ st'[m].settling = st[m].settling
    BY <1>1, <1>2 DEF WindowRefreshed, WindowGone, Refreshed, TypeOK
  <1>4. \A n \in covered' : agent'[n] = "Running"
    BY <1>1, <1>3 DEF CoverInv, HeldOff
  <1>5. CASE UNCHANGED <<via, rpc>>
    BY <1>1, <1>2, <1>3, <1>4, <1>5, CoverFrame
  <1>6. CASE EvalPush(m)
    <2>1. /\ via' \in Found(m) /\ rpc' = "sent"
          /\ Observed(m) /\ ~Satisfied(m) /\ PushDue(Refreshed(m))
      BY <1>6 DEF EvalPush
    <2>2. CN[via'] = m
      BY <2>1 DEF Found, Matching
    <2>3. ASSUME snap[m].run = "running"
          PROVE  m \notin covered'
      <3>1. ~Reported(m)
        BY <2>1, <2>3 DEF Observed, Satisfied, Reported
      <3>2. ~st'[m].settling
        BY <1>2, <2>1 DEF PushDue
      <3>3. ~Answered(m)
        BY <1>1 DEF Answered, To
      <3> QED
        BY <1>3, <3>1, <3>2, <3>3 DEF CoverInv, HeldOff
    <2>4. ASSUME NEW n \in covered'
          PROVE  HeldOff(n)'
      <3>1. n \in Names /\ HeldOff(n) /\ ~Answered(n) /\ agent'[n] = "Running"
        BY <1>1, <1>3, <1>4, <2>4 DEF CoverInv, Answered, To
      <3>2. Reported(n) => Reported(n)'
        BY <3>1, ReportedStays
      <3>3. Reported(n) \/ st'[n].settling = st[n].settling
        BY <1>2, <1>3, <2>4, <3>1
      <3> QED
        BY <3>1, <3>2, <3>3 DEF HeldOff
    <2> QED
      BY <1>1, <2>2, <2>3, <2>4 DEF CoverInv, To
  <1> QED
    BY <1>5, <1>6 DEF EvalNode, EvalSkip, EvalConverged, EvalWait, EvalBlocked

(* The answer opens the window, or is lost with its connection.            *)
LEMMA CoverPush ==
  ASSUME TypeOK, CoverInv, [Next]_vars, PushOk \/ PushErr
  PROVE  CoverInv'
  <1> USE DEF evalVars, callVars, statVars, agentVars, operatorVars
  <1>1. /\ via' = None /\ UNCHANGED agent
        /\ covered \subseteq Names /\ st \in [Names -> RunState]
    BY DEF PushOk, PushErr, PushReturns, TypeOK
  <1>2. \A n \in Names : To(n) <=> via # None /\ n = CN[via]
    BY DEF To
  <1>3. /\ covered' \subseteq covered
        /\ \A n \in covered' : \/ ~To(n) /\ st'[n] = st[n]
                               \/ Reported(n)
                               \/ st'[n].settling
    <2>1. CASE PushOk
      <3>1. PICK b \in BOOLEAN :
              /\ IF b THEN NoFault /\ UNCHANGED covered
                      ELSE Fault("slow") /\ WindowGone(CN[via])
              /\ st' = [st EXCEPT ![CN[via]] =
                          [@ EXCEPT !.attempts = 0, !.held = FALSE,
                                    !.forceOnce = FALSE, !.settling = b]]
        BY <2>1 DEF PushOk
      <3>2. ASSUME NEW n \in Names, n # CN[via]
            PROVE  st'[n] = st[n] /\ ~To(n)
        BY <1>1, <1>2, <3>1, <3>2
      <3>3. CASE b = TRUE
        <4>1. CN[via] \in Names => st'[CN[via]].settling
          BY <1>1, <3>1, <3>3 DEF RunState
        <4> QED
          BY <1>1, <3>1, <3>2, <3>3, <4>1
      <3>4. CASE b = FALSE
        BY <1>1, <3>1, <3>2, <3>4 DEF WindowGone
      <3> QED
        BY <3>3, <3>4
    <2>2. CASE PushErr
      <3>1. WindowGone(CN[via]) /\ st' = [st EXCEPT ![CN[via]] = Failed(st[CN[via]])]
        BY <2>2 DEF PushErr
      <3>2. ASSUME NEW n \in Names, n # CN[via]
            PROVE  st'[n] = st[n] /\ ~To(n)
        BY <1>1, <1>2, <3>1, <3>2
      <3> QED
        BY <1>1, <3>1, <3>2 DEF WindowGone
    <2> QED
      BY <2>1, <2>2
  <1>4. ASSUME NEW n \in covered'
        PROVE  HeldOff(n)'
    <2>1. n \in Names /\ HeldOff(n) /\ agent'[n] = "Running"
      BY <1>1, <1>3, <1>4 DEF CoverInv, HeldOff
    <2>2. Reported(n) => Reported(n)'
      BY <2>1, ReportedStays
    <2> QED
      BY <1>3, <1>4, <2>1, <2>2 DEF HeldOff, Answered
  <1> QED
    BY <1>1, <1>4 DEF CoverInv, To

(* The agent starts, or stops, or refuses. *)
LEMMA CoverHandle ==
  ASSUME TypeOK, CoverInv, [Next]_vars, HandleStart \/ HandleStop
  PROVE  CoverInv'
  <1> USE DEF evalVars, callVars, statVars, agentVars, operatorVars
  <1>1. /\ rpc = "sent" /\ rpc' \in {"ok", "err"} /\ via' = via
        /\ UNCHANGED <<st, holder, snap>>
        /\ covered \subseteq Names /\ agent \in [Names -> Lifecycle]
    BY DEF HandleStart, HandleStop, TypeOK
  <1>2. ASSUME NEW n \in covered'
        PROVE  /\ n \in Names /\ agent'[n] = "Running"
               /\ n \in covered \/ Answered(n)'
    <2>1. CASE HandleStart
      <3>1. via # None /\ via \in Peers /\ CN[via] \in Names
        BY <2>1, BrokerAssumption DEF HandleStart, TypeOK
      <3>2. CASE UNCHANGED <<agent, covered>>
        BY <1>1, <1>2, <3>2 DEF CoverInv, HeldOff
      <3>3. CASE /\ rpc' = "ok" /\ agent' = [agent EXCEPT ![CN[via]] = "Running"]
                 /\ covered' = covered \cup {CN[via]}
        BY <1>1, <1>2, <3>1, <3>3 DEF CoverInv, HeldOff, Answered, To
      <3> QED
        BY <2>1, <3>2, <3>3 DEF HandleStart
    <2>2. CASE HandleStop
      <3>1. /\ agent' = [agent EXCEPT ![CN[via]] = "Down"]
            /\ covered' = covered \ {CN[via]}
        BY <2>2 DEF HandleStop
      <3> QED
        BY <1>1, <1>2, <3>1 DEF CoverInv, HeldOff
    <2> QED
      BY <2>1, <2>2
  <1>3. ASSUME NEW n \in covered'
        PROVE  HeldOff(n)'
    <2>1. CASE n \in covered
      <3>1. HeldOff(n) /\ ~Answered(n)
        BY <1>1, <2>1 DEF CoverInv, Answered
      <3>2. Reported(n) => Reported(n)'
        BY <1>2, <1>3, ReportedStays
      <3> QED
        BY <1>1, <1>2, <1>3, <3>1, <3>2 DEF HeldOff
    <2>2. CASE Answered(n)'
      BY <1>2, <1>3, <2>2 DEF HeldOff
    <2> QED
      BY <1>2, <1>3, <2>1, <2>2
  <1> QED
    BY <1>1, <1>3 DEF CoverInv

LEMMA CoverStep == TypeOK /\ CoverInv /\ [Next]_vars => CoverInv'
  <1> SUFFICES ASSUME TypeOK, CoverInv, [Next]_vars
               PROVE  CoverInv'
    OBVIOUS
  <1> USE DEF evalVars, callVars, statVars, agentVars, operatorVars, histVars
  <1>1. ASSUME UNCHANGED <<via, rpc, holder, snap, agent, covered>>,
               \A n \in Names : st'[n].settling = st[n].settling
        PROVE  CoverInv'
    <2>1. \A n \in covered' : n \in Names /\ agent'[n] = "Running"
      BY <1>1 DEF CoverInv, HeldOff, TypeOK
    <2> QED
      BY <1>1, <2>1, CoverFrame DEF CoverInv
  <1>2. CASE Operator
    <2>1. ASSUME NEW n \in Names, ForceNext(n)
          PROVE  \A k \in Names : st'[k].settling = st[k].settling
      BY <2>1 DEF ForceNext, TypeOK, RunState
    <2> QED
      BY <1>1, <1>2, <2>1 DEF Operator, ForceNext, DeleteEntry, ConfigPush, SetDesiredRun
  <1>3. ASSUME NEW who, EvalBegin(who)
        PROVE  CoverInv'
    <2>1. holder = None /\ UNCHANGED <<st, via, rpc, agent, covered>>
      BY <1>3 DEF EvalBegin
    <2>2. via = None /\ \A n \in covered' : agent'[n] = "Running"
      BY <2>1 DEF CoverInv, HeldOff
    <2> QED
      BY <2>1, <2>2, CoverFrame
  <1>4. CASE EvalEnd
    <2>1. via = None /\ UNCHANGED <<st, via, rpc, agent, covered>>
      BY <1>4 DEF EvalEnd
    <2>2. \A n \in covered' : agent'[n] = "Running"
      BY <2>1 DEF CoverInv, HeldOff
    <2> QED
      BY <2>1, <2>2, CoverFrame
  <1>5. ASSUME NEW n \in Names, BackoffEnds(n)
        PROVE  CoverInv'
    <2>1. \A k \in Names : st'[k].settling = st[k].settling
      BY <1>5 DEF BackoffEnds, TypeOK, RunState
    <2> QED
      BY <1>1, <1>5, <2>1 DEF BackoffEnds
  <1>6. ASSUME NEW n \in Names, SettleEnds(n)
        PROVE  CoverInv'
    <2>1. \A k \in Names \ {n} : st'[k] = st[k]
      BY <1>6 DEF SettleEnds, TypeOK
    <2> QED
      BY <1>6, <2>1, CoverGone DEF SettleEnds
  <1>7. ASSUME NEW p \in Peers, OnReset(p) \/ OnForget(p)
        PROVE  CoverInv'
    <2>1. CN[p] \in Names /\ \A k \in Names \ {CN[p]} : st'[k] = st[k]
      BY <1>7, BrokerAssumption DEF OnReset, OnForget, TypeOK
    <2> QED
      BY <1>7, <2>1, CoverGone DEF OnReset, OnForget
  <1>8. ASSUME NEW n \in Names, AgentFails(n) \/ AgentRestarts(n)
        PROVE  CoverInv'
    <2>1. /\ UNCHANGED <<st, via, rpc, holder, snap>>
          /\ agent' = [agent EXCEPT ![n] = "Down"] /\ covered' = covered \ {n}
      BY <1>8 DEF AgentFails, AgentRestarts
    <2>2. \A k \in covered' : agent'[k] = "Running"
      BY <2>1 DEF CoverInv, HeldOff, TypeOK
    <2> QED
      BY <2>1, <2>2, CoverFrame DEF CoverInv
  <1>9. ASSUME NEW p \in Peers,
               \/ OnStats(p) \/ OnConfig(p) \/ OnFind(p) \/ OnClear(p)
               \/ BrokerStep(p) \/ Sample(p) \/ SetStat(p)
               \/ LinkLost(p) \/ PeerDead(p) \/ AgentNotices(p) \/ Connect(p)
        PROVE  CoverInv'
    BY <1>1, <1>9
    DEF OnStats, OnConfig, OnFind, OnClear, BrokerStep, Sample, SetStat, LinkLost,
        PeerDead, AgentNotices, Connect
  <1>10. CASE UNCHANGED vars
    BY <1>1, <1>10 DEF vars
  <1> QED
    BY <1>2, <1>3, <1>4, <1>5, <1>6, <1>7, <1>8, <1>9, <1>10,
       CoverEvalNode, CoverPush, CoverHandle
    DEF Next, EvalTick, EvalOnConnect, Callback

(* From the call that made it run until it stops, no second start goes to  *)
(* a node whose settle window was not cut short before its report came:    *)
(* for any number of nodes, connections, declarations and failures, and    *)
(* however reports of its connections overtake each other.                 *)
THEOREM NodeRunSettleCovers == Spec => []SettleCovers
  <1>1. Init => CoverInv
    BY CoverInit DEF Init
  <1>2. TypeOK /\ CoverInv => SettleCovers
    BY CoverImplies
  <1> QED
    BY <1>1, <1>2, CoverStep, NodeRunTypeCorrect, PTL DEF Spec
-----------------------------------------------------------------------------
(* A control plane some agents have already joined.                        *)
FromJoined(connected, late, spent) ==
  Joined(connected, late, spent) /\ [][Next]_vars

LEMMA JoinedType ==
  ASSUME NEW connected \in SUBSET Peers, NEW late \in SUBSET Peers, NEW spent \in Nat,
         Joined(connected, late, spent)
  PROVE  TypeOK
  <1> USE DEF Joined
  <1>1. BrokerTypeOK
    BY DEF BrokerTypeOK, Phases
  <1>2. /\ st \in [Names -> RunState]
        /\ store \in [Names -> Declared] /\ snap \in [Names -> Declared]
    BY DEF ZeroState, RunState, Unmanaged, Declared
  <1> QED
    BY <1>1, <1>2 DEF TypeOK, Lifecycle

LEMMA JoinedHold ==
  ASSUME NEW connected, NEW late, NEW spent, Joined(connected, late, spent)
  PROVE  HoldInv
  <1>1. SUFFICES ASSUME NEW n \in Names
                 PROVE  HoldOK(st[n], store[n], snap[n], fails[n])
    BY DEF HoldInv
  <1>2. /\ st[n].gen = 0 /\ st[n].attempts = 0 /\ st[n].held = FALSE
        /\ store[n].gen = 0 /\ snap[n].gen = 0 /\ fails[n] = 0
    BY DEF Joined, ZeroState, Unmanaged
  <1> QED
    BY <1>2 DEF HoldOK

(* What is proved of a control plane that starts empty holds of one whose  *)
(* agents have joined, with earlier connections of theirs still waiting    *)
(* for Add: its states are well typed, it gives up only on failures of     *)
(* what is declared, and that for good, and it starts no node twice that a *)
(* settle window or a report covers.                                       *)
THEOREM NodeRunJoined ==
  ASSUME NEW connected \in SUBSET Peers, NEW late \in SUBSET Peers, NEW spent \in Nat
  PROVE  FromJoined(connected, late, spent)
           => [](TypeOK /\ HoldEarned /\ HoldStops /\ SettleCovers)
  <1>1. Joined(connected, late, spent) => TypeOK /\ HoldInv /\ StopsInv /\ CoverInv
    <2> SUFFICES ASSUME Joined(connected, late, spent)
                 PROVE  TypeOK /\ HoldInv /\ StopsInv /\ CoverInv
      OBVIOUS
    <2>1. via = None /\ covered = {} /\ st = [n \in Names |-> ZeroState]
      BY DEF Joined
    <2>2. TypeOK
      BY JoinedType
    <2>3. HoldInv
      BY JoinedHold
    <2>4. StopsInv /\ CoverInv
      BY <2>1, StopsInit, CoverInit
    <2> QED
      BY <2>2, <2>3, <2>4
  <1>2. TypeOK /\ HoldInv /\ StopsInv /\ CoverInv /\ [Next]_vars
          => (TypeOK /\ HoldInv /\ StopsInv /\ CoverInv)'
    BY NodeRunTypeStep, HoldStep, StopsStep, CoverStep
  <1>3. StopsInv => HoldStops
    BY DEF StopsInv, StopsAt, HoldStops
  <1> QED
    BY <1>1, <1>2, <1>3, HoldImplies, CoverImplies, PTL DEF FromJoined
=============================================================================

---------------------------- MODULE PeeringProofs ----------------------------
(***************************************************************************)
(* Proofs about Peering, for every set of targets and sources, every grace *)
(* and every bound: its types; that what a manager recorded is what its    *)
(* agent holds, when interfaces are declared before their target connects; *)
(* and that no push empties a table within the grace of its connection.    *)
(*                                                                         *)
(* The last rests on GraceInv: once the callbacks of a target ran, the     *)
(* grace it is in is one of its present connection, and a loop with an     *)
(* empty set waits only for a target whose grace is over.                  *)
(***************************************************************************)
EXTENDS Peering, TLAPS

(* What the types say of a reconcile under way. *)
LEMMA LoopFacts ==
  ASSUME PeeringTypeOK, loop # Nil
  PROVE  /\ loop \in Loop
         /\ loop.sources \in SUBSET Sources
         /\ loop.live \in SUBSET Targets /\ loop.todo \in [Targets -> Nat]
         /\ loop.wait \in Targets \cup {Nil}
BY DEF PeeringTypeOK, Loop

(* A target that is done, or waited for, leaves the rest of the loop alone. *)
LEMMA LoopSteps ==
  ASSUME PeeringTypeOK, loop # Nil, NEW t \in Targets,
         Done(t) \/ loop' = [loop EXCEPT !.wait = t]
  PROVE  /\ loop' \in Loop
         /\ loop'.sources = loop.sources /\ loop'.live = loop.live
         /\ loop'.wait = Nil \/ loop' = [loop EXCEPT !.wait = t]
         /\ loop'.wait \in {Nil, t}
<1>1. CASE Done(t)
  <2>1. [loop.todo EXCEPT ![t] = 0] \in [Targets -> Nat]
    BY LoopFacts
  <2>2. loop' = [loop EXCEPT !.todo = [loop.todo EXCEPT ![t] = 0], !.wait = Nil]
    BY <1>1, LoopFacts DEF Done, Loop
  <2>3. QED
    BY <2>1, <2>2, LoopFacts DEF Loop
<1>2. CASE loop' = [loop EXCEPT !.wait = t]
  BY <1>2, LoopFacts DEF Loop
<1>3. QED
  BY <1>1, <1>2

(* A target that is done is not waited for. *)
LEMMA DoneWait ==
  ASSUME PeeringTypeOK, loop # Nil, NEW t \in Targets, Done(t)
  PROVE  loop'.wait = Nil
BY LoopFacts DEF Done, Loop

(* What the nodes and the connections do keeps the types. *)
LEMMA PeeringTypeWorld ==
  ASSUME PeeringTypeOK,
         \/ \E s \in Sources :
              SourceJoins(s) \/ SourceReports(s) \/ SourceLost(s) \/ SourceLeaves(s)
         \/ \E t \in Targets :
              TargetReports(t) \/ Connect(t) \/ Lose(t) \/ Remove(t) \/ DeclareInterface(t)
         \/ Tick \/ RestartControlPlane
  PROVE  PeeringTypeOK'
<1> USE DEF PeeringTypeOK, worldVars, agentVars, ctlVars
<1>1. ASSUME NEW s \in Sources, SourceJoins(s) PROVE PeeringTypeOK'
  BY <1>1 DEF SourceJoins
<1>2. ASSUME NEW s \in Sources, SourceReports(s) PROVE PeeringTypeOK'
  BY <1>2 DEF SourceReports
<1>3. ASSUME NEW s \in Sources, SourceLeaves(s) PROVE PeeringTypeOK'
  BY <1>3 DEF SourceLeaves
<1>4. ASSUME NEW t \in Targets, TargetReports(t) PROVE PeeringTypeOK'
  BY <1>4 DEF TargetReports
<1>5. ASSUME NEW t \in Targets, Connect(t) PROVE PeeringTypeOK'
  <2>1. epoch[t] + 1 \in Nat /\ hook[t] + 1 \in Nat
    OBVIOUS
  <2>2. /\ epoch' \in [Targets -> Nat] /\ link' \in [Targets -> Nat]
        /\ listed' \in [Targets -> Nat] /\ hook' \in [Targets -> Nat]
        /\ age' \in [Targets -> 0..Grace]
    BY <1>5, <2>1, PeeringAssumption DEF Connect
  <2>3. QED
    BY <1>5, <2>2 DEF Connect
<1>6. ASSUME NEW t \in Targets, Lose(t) PROVE PeeringTypeOK'
  BY <1>6 DEF Lose
<1>7. ASSUME NEW t \in Targets, Remove(t) PROVE PeeringTypeOK'
  BY <1>7 DEF Remove
<1>8. ASSUME NEW t \in Targets, DeclareInterface(t) PROVE PeeringTypeOK'
  BY <1>8 DEF DeclareInterface
<1>9. CASE Tick
  <2>1. \A time \in 0..Grace : Older(time) \in 0..Grace /\ Older(time) # Nil
    BY PeeringAssumption DEF Older
  <2>2. Older(Nil) = Nil
    BY DEF Older
  <2>3. QED
    BY <1>9, <2>1, <2>2 DEF Tick
<1>10. CASE RestartControlPlane
  BY <1>10 DEF RestartControlPlane
<1>11. ASSUME NEW s \in Sources, SourceLost(s) PROVE PeeringTypeOK'
  BY <1>11 DEF SourceLost
<1>12. QED
  BY <1>1, <1>2, <1>3, <1>4, <1>5, <1>6, <1>7, <1>8, <1>9, <1>10, <1>11

(* What the loop does keeps the types. *)
LEMMA PeeringTypeLoop ==
  ASSUME PeeringTypeOK,
         \/ \E t \in Targets : Forget(t) \/ Visit(t) \/ Pushed(t) \/ PushFails(t)
         \/ Reconcile \/ Release
  PROVE  PeeringTypeOK'
<1> USE DEF worldVars, agentVars, ctlVars
<1>1. ASSUME NEW t \in Targets, Forget(t) PROVE PeeringTypeOK'
  <2>1. hook' \in [Targets -> Nat]
    BY <1>1 DEF Forget, PeeringTypeOK
  <2>2. QED
    BY <1>1, <2>1 DEF Forget, PeeringTypeOK
<1>2. ASSUME NEW t \in Targets, Visit(t) PROVE PeeringTypeOK'
  <2>1. loop # Nil
    BY <1>2 DEF Visit
  <2>2. /\ Held(t) \in {Nil} \cup SUBSET Sources
        /\ Seen(t) \in 0..Grace /\ Seen(t) # Nil
    BY PeeringAssumption DEF Held, Seen, NewManager, PeeringTypeOK
  <2>3. loop' \in Loop
    BY <1>2, <2>1, LoopSteps DEF Visit
  <2>4. /\ mgrs' \in [Targets -> {Nil} \cup SUBSET Sources]
        /\ seen' \in [Targets -> {Nil} \cup 0..Grace]
    BY <1>2, <2>2 DEF Visit, PeeringTypeOK
  <2>5. /\ seen'[t] # Nil
        /\ \A u \in Targets \ {t} : seen'[u] = seen[u] /\ mgrs'[u] = mgrs[u]
    BY <1>2, <2>2 DEF Visit, PeeringTypeOK
  <2>6. loop'.wait \in {Nil, t}
    BY <1>2, <2>1, LoopSteps DEF Visit
  <2>7. \A u \in Targets : (mgrs'[u] # Nil \/ loop'.wait = u) => seen'[u] # Nil
    BY <2>5, <2>6, PeeringAssumption DEF PeeringTypeOK
  <2>8. QED
    BY <1>2, <2>3, <2>4, <2>7 DEF Visit, PeeringTypeOK
<1>3. ASSUME NEW t \in Targets, Pushed(t) PROVE PeeringTypeOK'
  <2>1. loop # Nil
    BY <1>3 DEF Pushed, Waits
  <2>2. loop' \in Loop /\ loop.sources \in SUBSET Sources
    BY <1>3, <2>1, LoopSteps, LoopFacts DEF Pushed
  <2>3. /\ table' \in [Targets -> {Nil} \cup SUBSET Sources]
        /\ mgrs' \in [Targets -> {Nil} \cup SUBSET Sources]
        /\ link' \in [Targets -> Nat]
    BY <1>3, <2>2 DEF Pushed, Taken, PeeringTypeOK
  <2>4. loop'.wait = Nil /\ seen[t] # Nil
    BY <1>3, <2>1, DoneWait DEF Pushed, Waits, PeeringTypeOK
  <2>5. \A u \in Targets : mgrs'[u] # Nil => seen'[u] # Nil
    BY <1>3, <2>4 DEF Pushed, PeeringTypeOK
  <2>6. QED
    BY <1>3, <2>2, <2>3, <2>4, <2>5, PeeringAssumption DEF Pushed, PeeringTypeOK
<1>4. ASSUME NEW t \in Targets, PushFails(t) PROVE PeeringTypeOK'
  <2>1. loop' \in Loop /\ loop'.wait = Nil
    BY <1>4, LoopSteps, DoneWait DEF PushFails, Waits
  <2>2. QED
    BY <1>4, <2>1, PeeringAssumption DEF PushFails, PeeringTypeOK
<1>5. CASE Reconcile
  <2>1. /\ known \in SUBSET Sources
        /\ {t \in Targets : listed[t] # 0} \in SUBSET Targets /\ listed \in [Targets -> Nat]
    BY DEF PeeringTypeOK
  <2>2. loop' \in Loop /\ loop'.wait = Nil
    BY <1>5, <2>1 DEF Reconcile, Loop
  <2>3. QED
    BY <1>5, <2>2, PeeringAssumption DEF Reconcile, PeeringTypeOK
<1>6. CASE Release
  BY <1>6 DEF Release, PeeringTypeOK
<1>7. QED
  BY <1>1, <1>2, <1>3, <1>4, <1>5, <1>6

(* Every step keeps the types. *)
LEMMA PeeringTypeStep == PeeringTypeOK /\ [PeeringNext]_peerVars => PeeringTypeOK'
<1> SUFFICES ASSUME PeeringTypeOK, [PeeringNext]_peerVars PROVE PeeringTypeOK'
  OBVIOUS
<1>1. CASE PeeringNext
  BY <1>1, PeeringTypeWorld, PeeringTypeLoop DEF PeeringNext
<1>2. CASE UNCHANGED peerVars
  BY <1>2 DEF PeeringTypeOK, peerVars, worldVars, agentVars, ctlVars
<1>3. QED
  BY <1>1, <1>2

(* Type correctness of the loop, the inventory and the agents. *)
THEOREM PeeringTypeCorrect == PeeringSpec => []PeeringTypeOK
<1>1. PeeringInit => PeeringTypeOK
  BY PeeringAssumption DEF PeeringInit, PeeringTypeOK
<1>2. QED
  BY <1>1, PeeringTypeStep, PTL DEF PeeringSpec

-----------------------------------------------------------------------------
(* What is recorded is what is there.                                      *)

(* A step that touches neither record nor table, and brings no target to   *)
(* take pushes without its callback. *)
LEMMA RecordQuiet ==
  ASSUME RecordHonest, UNCHANGED <<kind, mgrs, table>>,
         \A t \in Targets : (Takes(t)' /\ hook'[t] = 0) => (Takes(t) /\ hook[t] = 0)
  PROVE  RecordHonest'
BY DEF RecordHonest, Recorded, NewManager, WithSelf

(* Every step keeps the records true, with interfaces declared in time. *)
LEMMA RecordStep ==
  ASSUME ~LateBind, PeeringTypeOK, RecordHonest, [PeeringNext]_peerVars
  PROVE  RecordHonest'
<1> USE DEF worldVars, agentVars, ctlVars
<1>1. ASSUME NEW s \in Sources,
             SourceJoins(s) \/ SourceReports(s) \/ SourceLost(s) \/ SourceLeaves(s)
      PROVE  RecordHonest'
  BY <1>1, RecordQuiet DEF SourceJoins, SourceReports, SourceLost, SourceLeaves, Takes
<1>2. ASSUME NEW t \in Targets, TargetReports(t) \/ Remove(t) \/ PushFails(t)
      PROVE  RecordHonest'
  BY <1>2, RecordQuiet DEF TargetReports, Remove, PushFails, Takes
<1>3. ASSUME NEW t \in Targets, Connect(t) PROVE RecordHonest'
  <2>1. /\ hook'[t] # 0 /\ UNCHANGED <<kind, mgrs, table, bound>>
        /\ \A u \in Targets \ {t} : link'[u] = link[u] /\ hook'[u] = hook[u]
    BY <1>3 DEF Connect, PeeringTypeOK
  <2>2. QED
    BY <2>1, RecordQuiet DEF Takes
<1>4. ASSUME NEW t \in Targets, Lose(t) PROVE RecordHonest'
  <2>1. link'[t] = 0 /\ \A u \in Targets \ {t} : link'[u] = link[u]
    BY <1>4 DEF Lose, PeeringTypeOK
  <2>2. /\ UNCHANGED <<kind, mgrs, hook>> /\ bound' \subseteq bound
        /\ \A u \in Targets \ {t} : table'[u] = table[u]
    BY <1>4 DEF Lose, PeeringTypeOK
  <2>3. QED
    BY <2>1, <2>2 DEF RecordHonest, Recorded, NewManager, WithSelf, Takes
<1>5. ASSUME NEW t \in Targets, DeclareInterface(t) PROVE RecordHonest'
  <2>1. link[t] = 0 /\ UNCHANGED <<kind, mgrs, table, bound, link, hook>>
    BY <1>5 DEF DeclareInterface
  <2>2. QED
    BY <2>1, RecordQuiet DEF Takes
<1>6. ASSUME NEW t \in Targets, Forget(t) PROVE RecordHonest'
  <2>1. /\ mgrs'[t] = Nil /\ UNCHANGED <<kind, table, link>>
        /\ \A u \in Targets \ {t} : mgrs'[u] = mgrs[u] /\ hook'[u] = hook[u]
        /\ \A u \in Targets \ {t} : u \in bound' <=> u \in bound
    BY <1>6 DEF Forget, PeeringTypeOK
  <2>2. QED
    BY <2>1 DEF RecordHonest, Recorded, NewManager, WithSelf, Takes
<1>7. ASSUME NEW t \in Targets, Visit(t) PROVE RecordHonest'
  <2>1. /\ UNCHANGED <<kind, table, link, hook, bound>>
        /\ mgrs'[t] \in {mgrs[t], Held(t)}
        /\ \A u \in Targets \ {t} : mgrs'[u] = mgrs[u]
    BY <1>7 DEF Visit, PeeringTypeOK
  <2>2. QED
    BY <2>1 DEF RecordHonest, Recorded, NewManager, WithSelf, Takes, Held
<1>8. ASSUME NEW t \in Targets, Pushed(t) PROVE RecordHonest'
  <2>1. /\ UNCHANGED <<kind, hook, bound>> /\ table' = Taken(t)
        /\ \A u \in Targets \ {t} : mgrs'[u] = mgrs[u] /\ link'[u] = link[u]
        /\ link'[t] = 0 \/ (mgrs'[t] = loop.sources /\ link' = link)
    BY <1>8 DEF Pushed, PeeringTypeOK
  <2>2. /\ \A u \in Targets \ {t} : table'[u] = table[u]
        /\ Takes(t) => table'[t] = loop.sources
    BY <2>1 DEF Taken, PeeringTypeOK
  <2>3. QED
    BY <2>1, <2>2 DEF RecordHonest, Recorded, NewManager, WithSelf, Takes
<1>9. CASE Reconcile \/ Tick
  BY <1>9, RecordQuiet DEF Reconcile, Tick, Takes
<1>10. CASE Release
  <2>1. /\ UNCHANGED <<kind, table, link, hook, bound>>
        /\ \A u \in Targets : mgrs'[u] \in {mgrs[u], Nil}
    BY <1>10 DEF Release, PeeringTypeOK
  <2>2. QED
    BY <2>1 DEF RecordHonest, Recorded, NewManager, WithSelf, Takes
<1>11. CASE RestartControlPlane
  BY <1>11 DEF RestartControlPlane, RecordHonest, Recorded
<1>12. CASE UNCHANGED peerVars
  BY <1>12, RecordQuiet DEF peerVars, Takes
<1>13. QED
  BY <1>1, <1>2, <1>3, <1>4, <1>5, <1>6, <1>7, <1>8, <1>9, <1>10, <1>11, <1>12
  DEF PeeringNext

(* When interfaces are declared before their target connects, what a       *)
(* manager recorded as pushed is what its agent holds.                     *)
THEOREM RecordHonestCorrect ==
  ASSUME ~LateBind
  PROVE  PeeringSpec => []RecordHonest
<1>1. PeeringInit => RecordHonest
  BY DEF PeeringInit, RecordHonest, Recorded
<1>2. PeeringTypeOK /\ RecordHonest /\ [PeeringNext]_peerVars => RecordHonest'
  BY RecordStep
<1>3. QED
  BY PeeringTypeCorrect, <1>1, <1>2, PTL DEF PeeringSpec


-----------------------------------------------------------------------------
(* No table is emptied within the grace of its connection.                 *)

(* Once the callbacks of a target ran, its grace is not older than its     *)
(* connection.                                                             *)
GraceOwn ==
  \A t \in Targets : (hook[t] = 0 /\ seen[t] # Nil) => seen[t] <= age[t]

(* A loop with an empty set waits only for targets whose grace is over.    *)
EmptyLate ==
  \A t \in Targets :
    (loop # Nil /\ loop.sources = {} /\ loop.wait = t) => seen[t] = Grace

GraceInv == GraceOwn /\ EmptyLate

(* A step that leaves the clocks and callbacks alone, and at most ends a   *)
(* wait of the loop. *)
LEMMA GraceQuiet ==
  ASSUME PeeringTypeOK, GraceInv, UNCHANGED <<hook, seen, age>>,
         loop' = Nil \/ loop' = loop \/ loop'.wait = Nil
  PROVE  GraceInv'
BY PeeringAssumption DEF GraceInv, GraceOwn, EmptyLate

(* Every step keeps the invariant. *)
LEMMA GraceStep == PeeringTypeOK /\ GraceInv /\ [PeeringNext]_peerVars => GraceInv'
<1> SUFFICES ASSUME PeeringTypeOK, GraceInv, [PeeringNext]_peerVars PROVE GraceInv'
  OBVIOUS
<1> USE DEF worldVars, agentVars, ctlVars
<1>1. ASSUME NEW s \in Sources,
             SourceJoins(s) \/ SourceReports(s) \/ SourceLost(s) \/ SourceLeaves(s)
      PROVE  GraceInv'
  BY <1>1, GraceQuiet DEF SourceJoins, SourceReports, SourceLost, SourceLeaves
<1>2. ASSUME NEW t \in Targets,
             TargetReports(t) \/ Lose(t) \/ Remove(t) \/ DeclareInterface(t)
      PROVE  GraceInv'
  BY <1>2, GraceQuiet DEF TargetReports, Lose, Remove, DeclareInterface
<1>3. ASSUME NEW t \in Targets, Connect(t) PROVE GraceInv'
  <2>1. /\ hook'[t] # 0 /\ UNCHANGED <<seen, loop>>
        /\ \A u \in Targets \ {t} : hook'[u] = hook[u] /\ age'[u] = age[u]
    BY <1>3 DEF Connect, PeeringTypeOK
  <2>2. QED
    BY <2>1 DEF GraceInv, GraceOwn, EmptyLate
<1>4. CASE Tick
  <2>1. \A u \in Targets : seen'[u] = Older(seen[u]) /\ age'[u] = Older(age[u])
    BY <1>4 DEF Tick
  <2>2. Older(Nil) = Nil /\ Older(Grace) = Grace
    BY DEF Older
  <2>3. \A a, b \in 0..Grace : a <= b => Older(a) <= Older(b)
    BY PeeringAssumption DEF Older
  <2>4. GraceOwn'
    BY <1>4, <2>1, <2>2, <2>3 DEF Tick, GraceInv, GraceOwn, PeeringTypeOK
  <2>5. EmptyLate'
    BY <1>4, <2>1, <2>2 DEF Tick, GraceInv, EmptyLate
  <2>6. QED
    BY <2>4, <2>5 DEF GraceInv
<1>5. ASSUME NEW t \in Targets, Forget(t) PROVE GraceInv'
  <2>1. /\ loop = Nil /\ loop' = Nil /\ age' = age /\ seen'[t] = Nil
        /\ \A u \in Targets \ {t} : hook'[u] = hook[u] /\ seen'[u] = seen[u]
    BY <1>5 DEF Forget, PeeringTypeOK
  <2>2. QED
    BY <2>1 DEF GraceInv, GraceOwn, EmptyLate
<1>6. ASSUME NEW t \in Targets, Visit(t) PROVE GraceInv'
  <2>1. /\ UNCHANGED <<hook, age>> /\ loop # Nil /\ seen'[t] = Seen(t)
        /\ \A u \in Targets \ {t} : seen'[u] = seen[u]
    BY <1>6 DEF Visit, PeeringTypeOK
  <2>2. GraceOwn'
    BY <2>1 DEF GraceInv, GraceOwn, Seen, PeeringTypeOK
  <2>3. loop'.sources = loop.sources /\ loop'.wait \in {Nil, t}
    BY <1>6, <2>1, LoopSteps DEF Visit
  <2>4. ASSUME loop.sources = {}, loop'.wait = t PROVE seen'[t] = Grace
    <3>1. ~Skipped(t)
      BY <1>6, <2>1, <2>4, DoneWait, PeeringAssumption DEF Visit
    <3>2. ~(Seen(t) < Grace)
      BY <2>4, <3>1 DEF Skipped, HeldBack
    <3>3. Seen(t) \in 0..Grace
      BY PeeringAssumption DEF Seen, PeeringTypeOK
    <3>4. QED
      BY <2>1, <3>2, <3>3, PeeringAssumption
  <2>5. EmptyLate'
    BY <2>3, <2>4, PeeringAssumption DEF EmptyLate
  <2>6. QED
    BY <2>2, <2>5 DEF GraceInv
<1>7. ASSUME NEW t \in Targets, Pushed(t) \/ PushFails(t) PROVE GraceInv'
  <2>1. UNCHANGED <<hook, seen, age>> /\ loop # Nil /\ Done(t)
    BY <1>7 DEF Pushed, PushFails, Waits
  <2>2. QED
    BY <2>1, DoneWait, GraceQuiet
<1>8. CASE Reconcile
  <2>1. UNCHANGED <<hook, seen, age>> /\ loop'.wait = Nil
    BY <1>8 DEF Reconcile
  <2>2. QED
    BY <2>1, GraceQuiet
<1>9. CASE Release
  <2>1. /\ UNCHANGED <<hook, age>> /\ loop' = Nil
        /\ \A u \in Targets : seen'[u] \in {seen[u], Nil}
    BY <1>9 DEF Release, PeeringTypeOK
  <2>2. QED
    BY <2>1 DEF GraceInv, GraceOwn, EmptyLate
<1>10. CASE RestartControlPlane
  BY <1>10 DEF RestartControlPlane, GraceInv, GraceOwn, EmptyLate
<1>11. CASE UNCHANGED peerVars
  BY <1>11, GraceQuiet DEF peerVars
<1>12. QED
  BY <1>1, <1>2, <1>3, <1>4, <1>5, <1>6, <1>7, <1>8, <1>9, <1>10, <1>11
  DEF PeeringNext

(* The table of a target is not emptied by a push within the grace of its  *)
(* present connection, once the callback of that connection ran.           *)
THEOREM GraceHoldsCorrect == PeeringSpec => GraceHolds
<1>1. PeeringInit => GraceInv
  BY DEF PeeringInit, GraceInv, GraceOwn, EmptyLate
<1> DEFINE GraceKept == \A t \in Targets :
                      (table'[t] = {} /\ table[t] \notin {Nil, {}}) =>
                        age[t] = Grace \/ hook[t] > 0
<1>2. PeeringTypeOK /\ GraceInv /\ [PeeringNext]_peerVars => [GraceKept]_peerVars
  <2> SUFFICES ASSUME PeeringTypeOK, GraceInv, PeeringNext,
                      NEW t \in Targets, table'[t] = {}, table[t] \notin {Nil, {}}
               PROVE  age[t] = Grace \/ hook[t] > 0
    OBVIOUS
  <2>1. \E u \in Targets : Pushed(u)
    <3>1. ~UNCHANGED table
      OBVIOUS
    <3>2. ASSUME NEW u \in Targets, Lose(u) PROVE FALSE
      BY <3>2, PeeringAssumption, {} \in SUBSET Sources DEF Lose, agentVars, PeeringTypeOK
    <3>3. QED
      BY <3>1, <3>2 DEF PeeringNext, SourceJoins, SourceReports, SourceLost, SourceLeaves,
         TargetReports, Connect, Remove, DeclareInterface, Tick, Forget, Visit,
         PushFails, Reconcile, Release, RestartControlPlane, agentVars, worldVars
  <2>2. PICK u \in Targets : Pushed(u)
    BY <2>1
  <2>3. u = t /\ loop # Nil /\ loop.wait = t /\ loop.sources = {}
    BY <2>2 DEF Pushed, Waits, Taken, PeeringTypeOK
  <2>4. seen[t] = Grace
    BY <2>3 DEF GraceInv, EmptyLate
  <2>5. seen[t] # Nil /\ age[t] \in 0..Grace /\ hook[t] \in Nat
    BY <2>4, PeeringAssumption DEF PeeringTypeOK
  <2>6. QED
    BY <2>4, <2>5, PeeringAssumption DEF GraceInv, GraceOwn
<1>3. QED
  BY PeeringTypeCorrect, GraceStep, <1>1, <1>2, PTL DEF PeeringSpec, GraceHolds
=============================================================================

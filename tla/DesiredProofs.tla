--------------------------- MODULE DesiredProofs ---------------------------
(***************************************************************************)
(* Proofs about DesiredState: type correctness, and the bound on what a    *)
(* restart loses, for any number of stores, contents, changes and faults.  *)
(***************************************************************************)
EXTENDS DesiredState, TLAPS

(* What holds between the file, the hash and the save under way. *)
SaveOK ==
  /\ ~Running => saver = "idle"
  /\ saver = "write" => file = Torn
  /\ saver = "synced" => file = data
  /\ Running /\ ~erred /\ saver \notin {"write", "synced"} => file = hash

(* What holds between the snapshots, the stores and their histories. *)
HistoryOK ==
  /\ \A s \in Stores : fresh[s] \subseteq held[s]
  /\ Running => \A s \in Stores : mem[s] \in fresh[s]
  /\ saver = "snapshot" =>
       \A i \in 1..Len(Order) : i < next => data[Order[i]] \in fresh[Order[i]]
  /\ saver \in {"write", "synced"} => \A s \in Stores : data[s] \in fresh[s]

LossInv == DesiredTypeOK /\ SaveOK /\ HistoryOK /\ LossBounded

(* Every store has a place in the order the snapshots are taken in. *)
LEMMA OrderCovers ==
  /\ Len(Order) \in Nat
  /\ \A s \in Stores : \E i \in 1..Len(Order) : s = Order[i]
  /\ \A i \in 1..Len(Order) : Order[i] \in Stores
BY DesiredAssumption

(* What the contents of the stores and their histories are. *)
LEMMA ContentsFacts ==
  /\ Blank \in Contents /\ NoFile \notin Contents /\ Torn \notin Contents
  /\ \A m \in Contents : Now(m) \in [Stores -> SUBSET Values]
  /\ \A m \in Contents, s \in Stores, v \in Values :
       [m EXCEPT ![s] = v] \in Contents
  /\ \A m \in Contents, s \in Stores : m[s] \in Values
  /\ \A h \in [Stores -> SUBSET Values], s \in Stores, v \in Values :
       [h EXCEPT ![s] = @ \cup {v}] \in [Stores -> SUBSET Values]
<1>1. Empty \in Values /\ NoFile \notin Contents /\ Torn \notin Contents
  BY DesiredAssumption
<1>2. QED
  BY <1>1 DEF Blank, Contents, Now

(* The initial state is well typed. *)
LEMMA DesiredTypeInit == DesiredInit => DesiredTypeOK
<1> SUFFICES ASSUME DesiredInit PROVE DesiredTypeOK
  OBVIOUS
<1>1. mem \in Contents /\ data \in Contents /\ next \in 1..Len(Order) + 1
  BY ContentsFacts, OrderCovers DEF DesiredInit
<1>2. held \in [Stores -> SUBSET Values] /\ fresh \in [Stores -> SUBSET Values]
  BY ContentsFacts DEF DesiredInit
<1>3. QED
  BY <1>1, <1>2 DEF DesiredInit, DesiredTypeOK

(* Every step of the manager, of a request and of a stop keeps the types. *)
LEMMA DesiredTypeStep == DesiredTypeOK /\ [DesiredNext]_desiredVars => DesiredTypeOK'
<1> SUFFICES ASSUME DesiredTypeOK, [DesiredNext]_desiredVars
             PROVE  DesiredTypeOK'
  OBVIOUS
<1> USE DEF DesiredTypeOK, saveVars
<1>1. CASE Load
  <2>1. mem' \in Contents /\ hash' \in Contents \cup {NoFile}
    BY <1>1, ContentsFacts DEF Load
  <2>2. held' \in [Stores -> SUBSET Values] /\ fresh' \in [Stores -> SUBSET Values]
    BY <1>1, <2>1, ContentsFacts DEF Load
  <2>3. QED
    BY <1>1, <2>1, <2>2 DEF Load
<1>2. CASE LoadFails
  BY <1>2 DEF LoadFails
<1>3. CASE SaveStep
  <2>1. CASE SaveBegins
    <3>1. fresh' \in [Stores -> SUBSET Values] /\ next' \in 1..Len(Order) + 1
      BY <2>1, ContentsFacts, OrderCovers DEF SaveBegins
    <3>2. final' \in BOOLEAN
      BY <2>1 DEF SaveBegins
    <3>3. QED
      BY <2>1, <3>1, <3>2 DEF SaveBegins
  <2>2. CASE Snapshot
    <3>1. next \in 1..Len(Order)
      BY <2>2, OrderCovers DEF Snapshot
    <3>2. data' \in Contents
      BY <2>2, <3>1, ContentsFacts, OrderCovers DEF Snapshot
    <3>3. next' \in 1..Len(Order) + 1
      BY <2>2, <3>1, OrderCovers DEF Snapshot
    <3>4. QED
      BY <2>2, <3>2, <3>3 DEF Snapshot
  <2>3. CASE Unchanged
    BY <1>3, <2>3 DEF Unchanged, SaveReturns
  <2>4. CASE Truncate
    BY <1>3, <2>4 DEF Truncate
  <2>5. CASE Write
    BY <1>3, <2>5 DEF Write
  <2>6. CASE WriteError
    BY <1>3, <2>6 DEF WriteError, SaveReturns, Fault
  <2>7. CASE Anchor
    BY <1>3, <2>7 DEF Anchor, SaveReturns
  <2>8. QED
    BY <1>3, <2>1, <2>2, <2>3, <2>4, <2>5, <2>6, <2>7 DEF SaveStep
<1>4. CASE Cancel
  BY <1>4 DEF Cancel, Fault
<1>5. CASE Exit \/ Killed
  <2>1. mem' \in Contents /\ data' \in Contents /\ next' \in 1..Len(Order) + 1
    BY <1>5, ContentsFacts, OrderCovers DEF Exit, Killed, Dies
  <2>2. faults' \in Nat
    BY <1>5 DEF Exit, Killed, Fault
  <2>3. QED
    BY <1>5, <2>1, <2>2 DEF Exit, Killed, Dies
<1>6. ASSUME NEW s \in Stores, NEW v \in Values, Change(s, v)
      PROVE  DesiredTypeOK'
  <2>1. mem' \in Contents
    BY <1>6, ContentsFacts DEF Change
  <2>2. held' \in [Stores -> SUBSET Values] /\ fresh' \in [Stores -> SUBSET Values]
    BY <1>6, ContentsFacts DEF Change
  <2>3. QED
    BY <1>6, <2>1, <2>2 DEF Change
<1>7. CASE UNCHANGED desiredVars
  BY <1>7 DEF desiredVars
<1>8. QED
  BY <1>1, <1>2, <1>3, <1>4, <1>5, <1>6, <1>7 DEF DesiredNext

(* Type correctness of the manager's state. *)
THEOREM DesiredTypeCorrect == DesiredSpec => []DesiredTypeOK
<1>1. QED
  BY DesiredTypeInit, DesiredTypeStep, PTL DEF DesiredSpec

(* The relations hold in the initial state. *)
LEMMA LossInit == DesiredInit => LossInv
BY DesiredTypeInit, DesiredAssumption
DEF DesiredInit, LossInv, SaveOK, HistoryOK, LossBounded, Running, Now, Blank

(* Every step keeps them.  A snapshot takes what a store holds now, which  *)
(* it has held since the save began; a request adds to both histories; the *)
(* file changes only to what was snapshotted.                              *)
LEMMA LossStep == LossInv /\ [DesiredNext]_desiredVars => LossInv'
<1> SUFFICES ASSUME LossInv, [DesiredNext]_desiredVars
             PROVE  LossInv'
  OBVIOUS
<1> DesiredTypeOK'
  BY DesiredTypeStep DEF LossInv
<1> SUFFICES (SaveOK /\ HistoryOK /\ LossBounded)'
  BY DEF LossInv
<1> USE DEF LossInv, saveVars
<1>1. CASE Load
  <2>1. SaveOK'
    BY <1>1, ContentsFacts DEF Load, SaveOK, Running
  <2>2. \A s \in Stores : mem'[s] \in fresh'[s] /\ held'[s] = fresh'[s]
    BY <1>1 DEF Load, Now
  <2>3. saver' = "idle"
    BY <1>1 DEF Load, SaveOK, Running
  <2>4. HistoryOK'
    BY <2>2, <2>3 DEF HistoryOK
  <2>5. LossBounded'
    BY <1>1, <2>2 DEF Load, LossBounded
  <2>6. QED
    BY <2>1, <2>4, <2>5
<1>2. CASE LoadFails
  BY <1>2 DEF LoadFails, SaveOK, HistoryOK, LossBounded, Running
<1>3. CASE SaveStep
  <2>1. CASE SaveBegins
    <3>1. SaveOK' /\ LossBounded'
      BY <2>1 DEF SaveBegins, SaveOK, LossBounded, Running
    <3>2. HistoryOK'
      BY <2>1 DEF SaveBegins, HistoryOK, Running, Now, DesiredTypeOK
    <3>3. QED
      BY <3>1, <3>2
  <2>2. CASE Snapshot
    <3>1. SaveOK' /\ LossBounded'
      BY <2>2 DEF Snapshot, SaveOK, LossBounded, Running
    <3>2. HistoryOK'
      <4>1. ASSUME NEW i \in 1..Len(Order), i < next'
            PROVE  data'[Order[i]] \in fresh[Order[i]]
        BY <2>2, <4>1, OrderCovers
        DEF Snapshot, HistoryOK, DesiredTypeOK, Contents, Running
      <4>2. QED
        BY <2>2, <4>1 DEF Snapshot, HistoryOK, Running
    <3>3. QED
      BY <3>1, <3>2
  <2>3. CASE Unchanged
    <3>1. \A s \in Stores : data[s] \in fresh[s]
      BY <2>3, OrderCovers DEF Unchanged, HistoryOK
    <3>2. ~erred => file = data
      BY <2>3 DEF Unchanged, SaveOK
    <3>3. SaveOK'
      BY <2>3 DEF Unchanged, SaveReturns, SaveOK, Running
    <3>4. HistoryOK' /\ LossBounded'
      BY <2>3, <3>1, <3>2 DEF Unchanged, SaveReturns, HistoryOK, LossBounded, Running
    <3>5. QED
      BY <3>3, <3>4
  <2>4. CASE Truncate
    <3>1. \A s \in Stores : data[s] \in fresh[s]
      BY <2>4, OrderCovers DEF Truncate, Changed, HistoryOK
    <3>2. QED
      BY <2>4, <3>1 DEF Truncate, SaveOK, HistoryOK, LossBounded, Running
  <2>5. CASE Write
    BY <2>5 DEF Write, SaveOK, HistoryOK, LossBounded, Running
  <2>6. CASE WriteError
    BY <2>6 DEF WriteError, SaveReturns, SaveOK, HistoryOK, LossBounded, Running
  <2>7. CASE Anchor
    BY <2>7 DEF Anchor, SaveReturns, SaveOK, HistoryOK, LossBounded, Running
  <2>8. QED
    BY <1>3, <2>1, <2>2, <2>3, <2>4, <2>5, <2>6, <2>7 DEF SaveStep
<1>4. CASE Cancel
  BY <1>4 DEF Cancel, SaveOK, HistoryOK, LossBounded, Running
<1>5. CASE Exit \/ Killed
  BY <1>5 DEF Exit, Killed, Dies, SaveOK, HistoryOK, LossBounded, Running
<1>6. ASSUME NEW s \in Stores, NEW v \in Values, Change(s, v)
      PROVE  (SaveOK /\ HistoryOK /\ LossBounded)'
  <2>1. SaveOK'
    BY <1>6 DEF Change, SaveOK, Running
  <2>2. /\ \A t \in Stores : fresh[t] \subseteq fresh'[t] /\ held[t] \subseteq held'[t]
        /\ \A t \in Stores : fresh'[t] \subseteq held'[t]
        /\ \A t \in Stores : mem'[t] \in fresh'[t]
    BY <1>6 DEF Change, HistoryOK, DesiredTypeOK, Contents
  <2>3. HistoryOK' /\ LossBounded'
    BY <1>6, <2>2, OrderCovers DEF Change, HistoryOK, LossBounded
  <2>4. QED
    BY <2>1, <2>3
<1>7. CASE UNCHANGED desiredVars
  BY <1>7 DEF desiredVars, SaveOK, HistoryOK, LossBounded, Running
<1>8. QED
  BY <1>1, <1>2, <1>3, <1>4, <1>5, <1>6, <1>7 DEF DesiredNext

(* Whatever the file holds when it is whole, each store held it since the  *)
(* last good save began: a restart loses no more than that.                *)
THEOREM LossIsBounded == DesiredSpec => []LossBounded
<1>1. LossInv => LossBounded
  BY DEF LossInv
<1>2. QED
  BY <1>1, LossInit, LossStep, PTL DEF DesiredSpec

(* The hash a save skips on: between saves, unless the last write failed,  *)
(* it is what the file holds, so what equals it is saved.                  *)
HashHonest ==
  (Running /\ saver = "idle") => (hash = mem => file = mem \/ SkippedSave)

(* A save that skips leaves nothing unsaved: what it took of the stores is *)
(* in the file, or the last write of this process failed.                  *)
SkipSound == [][Unchanged => file = data \/ erred]_desiredVars

(* save takes for saved only what is (lastHash), however requests, failed  *)
(* writes, stops and restarts follow each other: what the durability of    *)
(* the stores rests on, apart from the ticks going on.                     *)
THEOREM HashIsHonest == DesiredSpec => []HashHonest /\ SkipSound
<1>1. LossInv => HashHonest
  BY DEF LossInv, SaveOK, HashHonest, SkippedSave
<1>2. LossInv /\ [DesiredNext]_desiredVars => [Unchanged => file = data \/ erred]_desiredVars
  BY DEF LossInv, SaveOK, Unchanged
<1>3. QED
  BY <1>1, <1>2, LossInit, LossStep, PTL DEF DesiredSpec, SkipSound
=============================================================================

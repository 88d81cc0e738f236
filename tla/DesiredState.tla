---------------------------- MODULE DesiredState ----------------------------
(***************************************************************************)
(* Persistence of the declarative stores (src/desiredstate/manager.go).    *)
(* One goroutine snapshots every store on a ticker, one store after the    *)
(* other, and rewrites one encrypted file when the hash of the whole       *)
(* changed; a start of the control plane restores the stores from it.      *)
(* The file is truncated before it is written                              *)
(* (src/ca/storage/util.go), requests go on all the while, and the process *)
(* may die between any two steps.  A hash is modelled by what was hashed.  *)
(***************************************************************************)
EXTENDS Naturals, Sequences

CONSTANTS Stores,      \* the registered stores
          Order,       \* the order of their registration
          Values,      \* what a store may hold
          Empty,       \* what a store holds on first boot
          NoFile,      \* the file, or the hash, does not exist
          Torn,        \* the file is truncated or written in part
          Faults,      \* the failures a run explores: see FaultKinds
          MaxChanges,  \* bound: Apply and Delete requests
          MaxFaults    \* bound: failures and stops

FaultKinds == {"kill",       \* the process dies
               "stop",       \* it is told to stop (SIGTERM)
               "writeError"} \* the file cannot be written (disk full)

Contents == [Stores -> Values]

ASSUME DesiredAssumption ==
  /\ Order \in Seq(Stores) /\ Stores = {Order[i] : i \in DOMAIN Order}
  /\ \A i, j \in DOMAIN Order : Order[i] = Order[j] => i = j
  /\ Empty \in Values
  /\ NoFile \notin Contents /\ Torn \notin Contents /\ NoFile # Torn
  /\ Faults \subseteq FaultKinds
  /\ MaxChanges \in Nat /\ MaxFaults \in Nat

VARIABLES
  run,      \* the control plane: "down", "up", "stopping", "failed" to start
  mem,      \* the stores
  file,     \* desired.dat
  hash,     \* Manager.lastHash
  saver,    \* the save under way: "idle", "snapshot", "write", "synced"; the
            \* goroutine has "ended" after the final save
  final,    \* the save under way is that one
  next,     \* the store to snapshot next
  data,     \* the snapshots taken
  changes, faults,   \* spent
  held,     \* history: what each store has held since the last save began
            \* that left the file as it had found the stores
  fresh,    \* history: the same since the save under way began
  erred     \* history: the last write of this process failed

desiredVars == <<run, mem, file, hash, saver, final, next, data, changes,
                 faults, held, fresh, erred>>
saveVars == <<hash, saver, final, next, data>>

DesiredTypeOK ==
  /\ run \in {"down", "up", "stopping", "failed"}
  /\ mem \in Contents
  /\ file \in Contents \cup {NoFile, Torn}
  /\ hash \in Contents \cup {NoFile}
  /\ saver \in {"idle", "snapshot", "write", "synced", "ended"}
  /\ final \in BOOLEAN
  /\ next \in 1..Len(Order) + 1
  /\ data \in Contents
  /\ changes \in Nat /\ faults \in Nat
  /\ held \in [Stores -> SUBSET Values]
  /\ fresh \in [Stores -> SUBSET Values]
  /\ erred \in BOOLEAN

Blank == [s \in Stores |-> Empty]
Now(m) == [s \in Stores |-> {m[s]}]

DesiredInit ==
  /\ run = "down" /\ mem = Blank /\ file = NoFile
  /\ hash = NoFile /\ saver = "idle" /\ final = FALSE /\ next = 1 /\ data = Blank
  /\ changes = 0 /\ faults = 0
  /\ held = Now(Blank) /\ fresh = Now(Blank) /\ erred = FALSE

Fault(kind) == kind \in Faults /\ faults < MaxFaults /\ faults' = faults + 1
Running == run \in {"up", "stopping"}

-----------------------------------------------------------------------------
(* Faulty variants, named Bad..., each break one property stated below.    *)
BadLoad ==
  /\ run = "down" /\ file # Torn
  /\ run' = "up"
  /\ mem' = IF file = NoFile THEN Blank ELSE file
  /\ hash' = Blank
  /\ held' = Now(mem') /\ fresh' = Now(mem') /\ erred' = FALSE
  /\ UNCHANGED <<file, saver, final, next, data, changes, faults>>

BadLoadMissing ==
  /\ run = "down" /\ file # Torn
  /\ run' = "up"
  /\ mem' = file /\ hash' = file
  /\ held' = Now(Blank) /\ fresh' = Now(Blank) /\ erred' = FALSE
  /\ UNCHANGED <<file, saver, final, next, data, changes, faults>>

(* Load: every store is restored before anything is served.  The hash is   *)
(* anchored to what the stores hold then; on first boot there is none.     *)
Load ==
  /\ run = "down" /\ file # Torn
  /\ run' = "up"
  /\ IF file = NoFile
     THEN mem' = Blank /\ hash' = NoFile
     ELSE mem' = file /\ hash' = file
  /\ held' = Now(mem') /\ fresh' = Now(mem') /\ erred' = FALSE
  /\ UNCHANGED <<file, saver, final, next, data, changes, faults>>

(* A file that cannot be decrypted: the control plane refuses to start. *)
LoadFails ==
  /\ run = "down" /\ file = Torn
  /\ run' = "failed"
  /\ UNCHANGED <<mem, file, saveVars, changes, faults, held, fresh, erred>>

(* Apply or Delete on one store, under that store's own mutex. *)
Change(s, v) ==
  /\ Running /\ changes < MaxChanges
  /\ mem' = [mem EXCEPT ![s] = v]
  /\ changes' = changes + 1
  /\ held' = [held EXCEPT ![s] = @ \cup {v}]
  /\ fresh' = [fresh EXCEPT ![s] = @ \cup {v}]
  /\ UNCHANGED <<run, file, saveVars, faults, erred>>

-----------------------------------------------------------------------------
(* save, called on every tick and, for the last time, once the context is  *)
(* cancelled; when both are due select takes either.                       *)

SaveBegins ==
  /\ Running /\ saver = "idle"
  /\ saver' = "snapshot" /\ next' = 1
  /\ final' \in {FALSE, run = "stopping"}
  /\ fresh' = Now(mem)
  /\ UNCHANGED <<run, mem, file, hash, data, changes, faults, held, erred>>

BadSnapshot ==
  /\ Running /\ saver = "snapshot" /\ next <= Len(Order)
  /\ data' = [data EXCEPT ![Order[next]] = mem[Order[1]]]
  /\ next' = next + 1
  /\ UNCHANGED <<run, mem, file, hash, saver, final, changes, faults, held, fresh, erred>>

(* The snapshot of one store. *)
Snapshot ==
  /\ Running /\ saver = "snapshot" /\ next <= Len(Order)
  /\ data' = [data EXCEPT ![Order[next]] = mem[Order[next]]]
  /\ next' = next + 1
  /\ UNCHANGED <<run, mem, file, hash, saver, final, changes, faults, held, fresh, erred>>

(* Back to the ticker, or, after the final save, out of Run. *)
SaveReturns == saver' = IF final THEN "ended" ELSE "idle"

Changed == saver = "snapshot" /\ next = Len(Order) + 1 /\ data # hash

Unchanged ==
  /\ Running /\ saver = "snapshot" /\ next = Len(Order) + 1
  /\ data = hash
  /\ SaveReturns
  /\ held' = IF erred THEN held ELSE fresh
  /\ UNCHANGED <<run, mem, file, hash, final, next, data, changes, faults, fresh, erred>>

(* The file is opened with O_TRUNC. *)
Truncate ==
  /\ Running /\ Changed
  /\ saver' = "write" /\ file' = Torn
  /\ UNCHANGED <<run, mem, hash, final, next, data, changes, faults, held, fresh, erred>>

Write ==
  /\ Running /\ saver = "write"
  /\ saver' = "synced" /\ file' = data
  /\ UNCHANGED <<run, mem, hash, final, next, data, changes, faults, held, fresh, erred>>

(* Opening, writing or syncing fails: the file stays as it is by then, and *)
(* the hash as it was.                                                     *)
WriteError ==
  /\ Running /\ (Changed \/ saver \in {"write", "synced"})
  /\ Fault("writeError")
  /\ SaveReturns /\ erred' = TRUE
  /\ UNCHANGED <<run, mem, file, hash, final, next, data, changes, held, fresh>>

Anchor ==
  /\ Running /\ saver = "synced"
  /\ hash' = data
  /\ SaveReturns /\ erred' = FALSE
  /\ held' = fresh
  /\ UNCHANGED <<run, mem, file, final, next, data, changes, faults, fresh>>

-----------------------------------------------------------------------------
(* SIGTERM cancels the context.  The goroutine goes on to a final save, but *)
(* main returns from Serve meanwhile and does not wait for it.              *)
Cancel ==
  /\ run = "up" /\ Fault("stop")
  /\ run' = "stopping"
  /\ UNCHANGED <<mem, file, saveVars, changes, held, fresh, erred>>

Dies ==
  /\ run' = "down"
  /\ saver' = "idle" /\ final' = FALSE /\ next' = 1 /\ data' = Blank
  /\ hash' = NoFile
  /\ mem' = Blank
  /\ UNCHANGED <<file, changes, held, fresh, erred>>

Exit == run = "stopping" /\ UNCHANGED faults /\ Dies

Killed == Running /\ Fault("kill") /\ Dies

-----------------------------------------------------------------------------
SaveStep ==
  \/ SaveBegins \/ Snapshot \/ Unchanged \/ Truncate \/ Write \/ WriteError \/ Anchor

DesiredNext ==
  \/ Load \/ LoadFails \/ SaveStep \/ Cancel \/ Exit \/ Killed
  \/ \E s \in Stores, v \in Values : Change(s, v)

DesiredSpec == DesiredInit /\ [][DesiredNext]_desiredVars

(* The ticker ticks, a stopping process exits, and systemd starts it again. *)
DesiredFairness ==
  WF_desiredVars(SaveStep) /\ WF_desiredVars(Exit) /\ WF_desiredVars(Load \/ LoadFails)

FairDesiredSpec == DesiredSpec /\ DesiredFairness

-----------------------------------------------------------------------------
(* What a restart may lose: for every store the file holds something the   *)
(* store held since the last good save began (5s earlier, unless writes    *)
(* fail), however requests interleave with the snapshots of the stores and *)
(* wherever the process died.                                              *)
LossBounded ==
  file \notin {NoFile, Torn} => \A s \in Stores : file[s] \in held[s]

(* A failed write left other data in the file, and the stores have gone    *)
(* back to what was saved before it: save takes that for saved, and skips. *)
SkippedSave == erred /\ hash = mem

(* Once requests and failures come to rest everything declared is in the   *)
(* file, or the control plane has refused to start: but for SkippedSave,   *)
(* no change is taken for saved that is not (lastHash).                    *)
Durable == <>[](run = "failed" \/ (run = "up" /\ (file = mem \/ SkippedSave)))
=============================================================================

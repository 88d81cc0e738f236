# kscale: specifications

TLA+ specifications of kscale's control plane, with the TLC instances that check them and TLAPS
proofs. Everything is translated from the Go source; file and line of every definition are in
`PROJECT.json` (`map`).

## The system

`cmd/controlplane` is the control plane. Dataplane agents (`l4lb`, `popcache`, `router`, `dns`,
`workload`) connect to it over a multiplexed transport, with a certificate whose CommonName names the
node. Operators declare desired state through generated request handlers; reconcile loops push it to
connected nodes through RPCs on the nodes' own connections. Nothing flows the other way but status
batches.

    operator --Apply/Delete--> stores --OnChange--> reconcile loops --RPC--> agents
                                 |                      ^     |                 |
                          desired.dat <-> Manager       |   Status <- Record    | StreamStats
                                                  OnConnect / OnDisconnect      v
                               new connection --> Broker <-- connection done   stat cache -> node_run

### Inventory of components

| component | state | operations | what is hard, and what must be right |
|---|---|---|---|
| **Dataplane broker** `dpbroker/broker.go` | `nodes`, callback lists, a watcher and a Close goroutine per peer | Add (supersede, callbacks, watcher), Remove, Find/List/Resolve | callbacks run outside the lock while a node's next connection is added: one entry per node, no live connection forgotten, dead entries leave |
| **node_run** `reconcile/node_run.go` | per node: generation, attempts, backoff, hold, force mark, time of the last push | Evaluate (tick, OnChange, OnConnect), ForceNext, reset, forget | one mutex over RPCs, decisions on stats up to 2 s old, lost answers: a declared node settles; a hold is deserved |
| **Inventory of expected nodes** `service/expectednode` | run-state, generation, config | Apply, Delete, SetDesiredRun | a generation identifies a declaration only while the entry lives |
| **start/stop service** `service/dataplanenode` | none | `node start/stop [--force]` | force mark and declaration are two steps |
| **Reconcile status** `reconcile/status.go` | last result per resource and node | Record, ClearNode, ErrorsForNodeExcept | results arrive after the node left |
| **Stat cache and collectors** `service/stats`, `cmd/controlplane/main.go` | last batch per node | Set by one goroutine per connection, Delete on disconnect | late Set of an old connection, Find-then-delete |
| **Agent runtime** `dataplane/dataplane.go`, `peer/core.go` | dataplane lifecycle, connection | Start/Stop, reconnect, StreamStats, liveness | the dataplane outlives the connection |
| **Config reconcile loops** `reconcile/*_gen.go` and the hand-written ones | none of their own | push on change and on connect | no lock between pushes: order, partial failure, staleness |
| **Popcache edge runtime** `popcache/edge` | registered modules, routing index | Register, Unregister, lookup | registry and index must agree through replacement and removal |
| **Desired-state persistence** `desiredstate`, `ca/storage/util.go` | one encrypted file, hash of what was saved | Load, periodic save, final save | snapshot store by store, truncating write, exit or death in the middle |
| **Dataplane object sync** `reconcile/dp_object.go`, `dataplane/objects.go` | slots of objects on the agent | pick the most specific object, upload, collect | ties, files still in use |
| **L4 route loop** `reconcile/l4route.go`, `service/l4route` | declared routes, fingerprint of the last push per l4lb | Apply, Delete; tick, change, connect | the cache must not outlive the process it was pushed to; port uniqueness is checked before it is taken |
| **Peering loops** `reconcile/peering_gen.go`, `stat/dest.go` | a manager (last set pushed) and a first-seen time per target | tick, connect | empty and partial sets, grace period; the last push may have gone to another process |
| **Certificate authority** `ca` | index, content files and `ca_state.dat`; entries, counters; bootstrap tokens | issue, renew, revoke, ACME key pairs, gc, migrate | three writes one after the other: killed or failing in between, a start must find them in step |
| **l4lb agent** `l4lb` | driver, maps, staged config, lifecycle | Start, Stop, SetBalancerObject, SetPortRoutes | a staged and a running config, failing reloads, order of map updates |
| others | see `PROJECT.json` | popcache server and cache, router, dns, workload agent, access control, RPC, alerts and ACME, node watch, logs, CLI, eBPF | mostly I/O, pure policy or library code; the reason for each is in its note |

## Modules

| module | models | stands on |
|---|---|---|
| `Inventory` | abstract: for each node, the connection in charge; what users of `Broker.Find` rely on | |
| `Broker` | `broker.go`, every critical section, callback, watcher and Close goroutine a step | |
| `NodeRun` | node_run composed with the expected-node store, status, stat cache, collectors, agents, links | `Broker` |
| `WasmModules` | the `wasm_module` store and loop with the edge runtime of the nodes | `Broker` |
| `DesiredState` | the persistence manager and the file | |
| `CertAuthority` | the authority and its storage, every write to a file a step | |
| `Peering` | the three peering loops, their targets and sources | the connections as in `Inventory` |
| `L4Route` | l4_route: service, loop, and the l4lb controller with its driver | the connections as in `Inventory` |
| `BrokerProofs`, `NodeRunProofs`, `WasmProofs`, `DesiredProofs`, `CAProofs`, `PeeringProofs`, `L4RouteProofs` | theorems and proofs | the module they name |
| `CADurable` | the proofs of `Durable` and `DeletedStays` of `CertAuthority` | `CAProofs` |
| `MCBroker`, `MCNodeRun`, `MCWasmModules`, `MCDesiredState`, `MCCertAuthority`, `MCPeering`, `MCL4Route` | small instances for TLC | |

### How state and actions correspond

**Broker.** `nodes` is the list in the struct (its order matters to nobody but display). A peer
identity is one connection; `phase` is where the goroutines that serve it stand (accepted, in
`Add`'s callbacks, watching `Done`, in `Remove`'s callbacks), `calls` the callbacks still to
run, `closing` the peers whose Close goroutine has not run. `Add` and `Remove` are the two
critical sections; `CallOnConnect` and `CallOnDisconnect` one callback each. An identity that has
gone through everything may be used again for a later connection: it has no state left by then. The callbacks
themselves belong to the modules that compose with the broker; `OnConnect` and `OnDisconnect` name
them in the order `main.go` registers them.

**NodeRun.** `st` is `NodeRunController.nodes`, where the two deadlines are kept as whether they
have passed (`backoff`, `settling`). An evaluation takes the mutex (`holder`), the snapshot
(`snap`) and the nodes to look at (`todo`); each node is one of the outcomes `EvalSkip`,
`EvalConverged`, `EvalWait`, `EvalBlocked`, `EvalPush`; a push is sent, handled by the agent or
not, and answered or not (`rpc`), with `PushOk`/`PushErr` the code after the call. `OnStats`, `OnConfig`,
`OnReset`, `EvalOnConnect` are the four connect callbacks, `OnFind`, `OnClear`, `OnForget` those on disconnect
(the Find and the deletions are separate steps because no lock spans them). `Sample` and `SetStat`
split a status report in two: what the agent saw, and when the collector stores it. All
config loops are one callback with one error flag per node, which is all node_run asks of them.

**WasmModules.** A pusher is a request goroutine or a connection's `Add`. `Begin` is the first
reading of the desired set, `CallRegister` one RPC per module, `Reread` the second reading,
`CallListAttached` and `CallUnregister` the pruning, `Record` the end. `reg` and `index` are the
`RoutingRegistry` of the node's process; a declaration is a model value with the set of index entries it
serves, two of which overlap. `Refused` is a call that did nothing, `AnswerLost` one that did
its work and whose connection died. `Register` compares and enters in one step; the one
effect of the compilation in between, that a module another push registered meanwhile is entered once more,
is a disjunct of its own.

**DesiredState.** `mem` is what the stores hold, `hash` `lastHash` (a hash is what was hashed).
A save is `SaveBegins`, one `Snapshot` per store, then `Unchanged`, or `Truncate`, `Write`,
`Anchor`; `WriteError` may replace any step of the write. `Cancel` and `Exit` are the regular stop: the
final save and the exit of `main` race, as in the code.

**CertAuthority.** `records` and `header` are `index.dat`, `content` the files it names, `state`
`ca_state.dat`; `index`, `count`, `next` and `serial` what the process has of them in memory. An operation
(`IssueCertificate`, `UpdateCertificate`, `SaveOrUpdateKeyPair`, `RevokeCertificate`,
`DeleteExpiredCertificates`) takes `caLock` as `op`, and then goes through its writes one step at a time: create,
append, seal, content for a save; truncate, rewrite, seal, content for an update; revoke, seal, unlink for a
deletion; truncate and write of the state in the end. `WriteFails` is any of them failing and the operation
returning its error, `Crash` the end of the process between two of them, `Boot` what `loadIndex` and
`NewFromCAState` make of the disk. A certificate's serial, or the number a key pair was stored under, stands for the
contents.

**Peering.** One loop for targets of one type, chosen by `kind`. `Reconcile` takes the mutex and reads sources and
targets, `Visit` is a target up to its call, `Pushed` and `PushFails` the call, `Release` the pruning of managers of
targets that left. `mgrs` is the `DestList` of each `DestManager`, `seen` where a target stands in its grace. `link` is the
agent's connection, `listed` the entry in the inventory; they differ between the loss of one and its removal, and `hook` counts the
OnConnect callbacks still to run. A popcache takes a push only when its interface is `bound`.

**L4Route.** `Validate` and `Store` are the two halves of Apply. `Reconcile` compares the fingerprint of what resolves now with
what was pushed last; `SetPortRoutes` and `PushFails` are the ways the call ends, the latter with the agent through or not, or its map
half written (`kernel = Nil`). In the agent, `staged` is the config the controller keeps, `driver` the running instance with the objects it
was built from, and `Builds` the construction that `Start` and `SetBalancerObject` share and that may fail.

Definitions named `Bad...` are faulty variants of an operation, used to confirm that each property
notices the mistake it is there for. No specification uses them.

## What the runs check

Passing runs (`PROJECT.json` `runs`):

| run | properties | instance |
|---|---|---|
| `broker` | `BrokerTypeOK`, `OneEntryPerNode`, `NoOrphan`, `ImplementsInventory` (refinement), `DeadEntriesLeave`, `SupersededEnd` | 3 connections of one node, 1 of another; 70,675 states |
| `node_run_hold` | `HoldEarned`, `HoldStops`, `SettleCovers` | 1 node, 3 declarations, 1 removal, 1 forced start, 3 failures (push, slow, config, dataplane); 200k states |
| `node_run_converge` | `TypeOK`, `SettleCovers`, `Converges`, `ErrorsClear` | 1 node, 2 connections, any single failure of all six kinds at any point, or a broken connection whose `Add` comes late; 284k states |
| `node_run_two` | `Converges` | 2 nodes in one evaluation, 2 declarations of either or both; what fails are starts and stops repeated on a stale stat, which the agent refuses; 318k states |
| `wasm` | `WasmTypeOK`, `InSync`, `IndexSound` | 1 node, 2 connections, 2 modules, 2 overlapping declarations, 1 worker beside the connections, 1 failure; 559k states |
| `desired` | `DesiredTypeOK`, `LossBounded`, `Durable` | 2 stores, 3 changes, 2 kills, stops or failed writes; 130k states |
| `ca` | `CATypeOK`, `SerialsUnique`, `Restartable`, `Durable`, `DeletedStays` | 2 certificates, 1 ACME key pair, 4 operations, 1 failed write, 2 ends of the process at any write; 920k states |
| `peering` | `PeeringTypeOK`, `RecordHonest`, `GraceHolds`, `PeersConverge` | 1 target of each type, 2 sources, 2 connections, a grace of 1 tick, any 2 of: restart of the control plane, connection lost by a running source, refused push; 1.02M states |
| `l4_route` | `RouteTypeOK`, `RoutesHonest`, `OneDestination`, `RoutesConverge` | 2 routes with one port, 2 nodes with 2 addresses, 2 objects, 2 operations, 2 moves, 2 connections, 1 failing build or write; 608k states |

What they say together: the inventory never loses a node's live connection, a declared node settles and is given up only when it
earned it, and then for good, and each kind of pushed configuration (modules, peers, routes) is on the node whenever the control plane believes so, and gets
there; what an operator or an authority was told is stored survives kills and failed writes.

Runs that show where the source and what it says of itself part (each under "findings"):

| run | what happens |
|---|---|
| `wasm_routes` | removing a module drops an index entry another module has taken over; re-pushing that one is a no-op |
| `ca_renew` | a stored key pair is updated, the state is not saved, and a control plane that stops before the next save does not start again |
| `peering_unarmed` | a popcache connected without an interface accepts the fronts and drops them; the loop takes them for pushed |

### Bounds, and why they are enough

- Two connections of a node are the least that overlap; three let a superseded connection be
  superseded in turn. Identities are reused, so any number of reconnects in sequence is covered.
- `MaxAttempts = 2` separates "failed once" from "given up"; three declarations make one overlap a push
  under an older one and another follow it.
- Failures are bounded because liveness is asked of what happens once they stop. One failure at every
  point of every behaviour is what `node_run_converge` explores; the safety runs allow three.
- `SettleCovers` is asked of every declaration and with every failure kind (`node_run_hold` without lost links and processes but with
  more of the others, `node_run_converge` with all, one at a time). The window ends whenever it likes (`SettleEnds`), the reports in or not. What
  the property excepts is a window that was gone before the report of the run was in (`covered`): it ran out, the call outlasted it, the answer
  was lost, or a declaration or a reconnect dropped it. A start may then be repeated: see the known gaps.
- `peering`: one tick for the grace tells "within" from "after", and every clock may run out between any two steps. A source that
  runs on and loses its connection (`SourceLost`), a restart and a refused push draw on one bound; any two of them meet.
- `wasm` treats module ids and connections as interchangeable (symmetry; no liveness is checked there).
- Deadlock is not checked in the `wasm`, `desired`, `ca`, `peering` and `l4_route` runs and their violations: when changes and
  failures are used up the system is at rest, which is not a deadlock. Everywhere else it is checked.
- `ca`: four operations are a store, its deletion or update, a second item next to it and one more; a failed write and two ends of
  the process put every pair of faults around them. Certificates are interchangeable (symmetry; no liveness). In `ca_renew` the
  process ends only between operations (`MidCrash = FALSE`): no write is lost, and the start is refused all the same.
- `peering`: `LateBind` says whether an interface may be declared while its popcache is connected. The passing run assumes that it is
  declared before; `peering_unarmed` does not, and shows what the assumption is needed for.
- `l4_route`: two nodes are the least that give one port two destinations; two operations are the two declarations that race, or one
  and a stop, a reload or a deletion.
- The last connection of a target in `peering` and `l4_route` stays up (`Lose` needs another to follow), since convergence is
  asked of what happens once failures stop; the same goes for a restart of the control plane.
- `node_run_*` runs that start from `Joined` start where the agents of an idle control plane have connected
  and run their callbacks; in `node_run_converge` an earlier, broken connection may also still wait
  for its `Add` (`Late`), which later supersedes the live one.

### Fairness

Goroutines that can run do (weak fairness of the broker's steps and of evaluation), an RPC returns or its connection is
declared dead (`livenessLoop`), timers expire, an agent reconnects and its status stream goes on. A callback that waits for
node_run's mutex gets it although others take it again and again (strong fairness: `sync.Mutex` hands over to a
waiter after a millisecond). Nothing is assumed of operators, failures or the moment a config error is
repaired. `desired` assumes that the ticker ticks, a stopping process exits and is started again. `peering` and `l4_route` assume the same of
agents, calls and ticks as node_run, strong fairness of the OnConnect callback for the same reason, and that declared routes
that were validated get stored and node_run starts a stopped driver again. Time passes (`Tick`),
so a grace ends, reports or not; a source's connection and its status get to the control plane in the end (`SourceReports`).
Nothing is assumed of `Remove`, of sources or of moves. `ca` states no fairness and asks for no liveness.

## What is proved

All with TLAPS, for every value of the constants that satisfies the stated assumptions (callback lists are not
empty, `CN` maps peers to names, bounds are naturals).

- `BrokerProofs`: `BrokerTypeCorrect`, `BrokerOneEntry`, `BrokerNoOrphan` and the refinement
  `BrokerImplementsInventory`. The invariant adds to the three properties that an entry's connection is being served and that
  a peer about to be closed has left the inventory; without the first, `Remove` of an entry nobody watches could not be excluded, and
  `Add` and `Close` could meet in one peer.
- `NodeRunProofs`: `NodeRunTypeCorrect`. Every step of the composition is one of the broker or leaves it alone (a lemma), so that
  `NodeRunOneEntry` and `NodeRunImplementsInventory` (the refinement, and that no live connection is forgotten) follow from the broker's
  theorems.
  - `NodeRunHoldEarned`. `HoldEarned` is not inductive: a push that fails under an older generation counts attempts nobody counts
    against the present one. `HoldInv` says that neither the bookkeeping nor a snapshot runs ahead of the store, that attempts under
    the present generation are at most the failures since its declaration, and that a hold has its attempts.
  - `NodeRunHoldStops`. Attempts stay at most `MaxAttempts` only because the node a call is under way to is not held (`StopsInv`), and
    that rests on the mutex: reconnects and evaluations, which change its bookkeeping, wait for the call.
  - `NodeRunSettleCovers`, from the empty control plane and with every action of the model. `CoverInv` says that a covered node runs, that
    its settle window is open or its run is reported and no older report is on its way (`Reported`), except while the answer of the very call
    that started it is under way, and that no start is under way to it. Nothing but a stop, a failure or a restart makes a report outdated
    (`ReportedStays`); every step that drops a window asks first whether the report is in.
  - `NodeRunJoined`: types, `HoldEarned`, `HoldStops` and `SettleCovers` hold also from `Joined`, where the runs start.
- `WasmProofs`: `WasmTypeCorrect`, `WasmIndexSound`, `WasmOneEntry`, `WasmImplementsInventory`. The invariant says that a pusher in the
  middle of a push knows its peer, and that registry and index of a node agree; two lemmas about `With` and `Without` carry it over a
  registration and a removal, whoever holds the entries.
  - `WasmInSync`. `InSync` speaks of a node at rest, and its invariant `SyncInv` of the push that brings it there: for a
    connection in the inventory, of a clean node, with no push announced (`Covered`), either no push is under way and the node has
    what is declared, or the one push that is (`Lone`) has exactly the rest to do: register what is missing (`Sends`), list what to keep
    (`Keeps`), prune what is not (`Prunes`). A push over an earlier connection (`AttachedOne`: an agent holds one) fails at its first call.
    A change of the store announces a push to every connection, which is what uncovers the node until that push begins.
- `DesiredProofs`: `DesiredTypeCorrect`, `LossIsBounded`, `HashIsHonest`. The invariant relates the file to the save under way (torn while
  it is written, equal to the snapshots once written, equal to the hash when nothing is being saved and no write failed) and every
  snapshot to what its store held since the save began. `HashIsHonest` is the safety half of `Durable`: a save that skips leaves nothing
  unsaved, and between saves stores that equal the hash are in the file, unless the last write failed.
- `CAProofs`: `CATypeCorrect`, `SerialsUniqueCorrect`, `RestartableCorrect`. `CAType` adds to the types which step a kind of
  operation may be at (`OpOK`) and that entries, records and file numbers refer to one another (`BoundsOK`). `SerialInv` says that the
  counter in memory, and the one on the disk unless it is just being written, is ahead of every certificate handed out;
  `HeaderOK` that the header is never ahead of the record counter, carries the size of the file whenever it is level with it, and that
  an answer of success leaves the saved state level with the counter.
- `CADurable`: `DurableCorrect`, `DeletedStaysCorrect`, by `DurableInv`: no two records that count name one file, so that a write for
  one item never reaches another's content (`FilesOK`); an item's live records are its entry's and hold what was answered (`ItemOK`); how far the
  operation under way has come (`WorkOK`); and no serial is the number that stands for a deletion (`NumbersOK`).
- `L4RouteProofs`: `RouteTypeCorrect`, `RoutesHonestCorrect`, `OneDestinationCorrect`. `RoutesHonest` is inductive with the types: every way a call can end leaves the
  record empty or true, and a new connection keeps `hook` positive until the record is dropped. `OneDestination` needs to know of the set on its way that it
  has one destination for a port unless the agent will refuse it (`OneInv`): a set in which no two names share a port has one for each (`DesiredOnce`).
- `PeeringProofs`: `PeeringTypeCorrect`, `RecordHonestCorrect` (assuming `~LateBind`), `GraceHoldsCorrect`. The last rests on
  `GraceInv`: once the callback of a connection ran, a target is never seen longer than it is connected (`GraceOwn`), and a
  call with an empty set is only under way to a target whose grace was over, which stays so until the callback of a
  next connection (`EmptyLate`).

Every invariant and every action property a passing run checks is proved, and so are the refinements; what stays with TLC is liveness under
fairness, which is outside what the prover handles: `DeadEntriesLeave`, `SupersededEnd`, `Converges`, `ErrorsClear`, `Durable` of
`DesiredState`, `PeersConverge`, `RoutesConverge`. The invariants that carry the proofs (`HoldInv`, `StopsInv`, `CoverInv`, `SyncInv`, ...) live in the
proof modules; they hold on the instances of the runs, too.

## Known gaps of the code the models contain

Behaviours that are possible in the models and the code, for which no property asks the contrary:

- A redeclaration or a reconnect drops `pushedAt`, `pushedAt` is the time the evaluation began, and a report may take longer than the window: a
  running node may be started twice. The agent refuses, the refusal counts as a failed attempt, and the report ends it (`Converges`).
- The force mark is lost to an evaluation that finds the node converged, or to a reconnect, between ForceNext and the push.
- A push error may be recorded after `ClearNode`; the error of a node whose entry is removed stays while it is connected.
- Find-then-delete on disconnect may wipe the first batch of a new connection; the next report repairs it.
- A failed `ListAttached` or `Unregister` leaves a removed module running with status ok until the next push.
- After a failed write, stores that return to what was saved before are taken for saved (`SkippedSave` in `Durable`): the file stays torn, or
  keeps the other contents.
- A delayed `Add` of a connection that is already dead replaces, and closes, the node's live one (`broker.go:55`; the comment at 45-49 speaks of
  the newer connection); the agent reconnects.
- Deleting and re-declaring a node brings a generation number back, and an old hold with it (`node_run.go:190`, against `runstate.go:15-17`).
- A tick may start a node whose connect callbacks have not pushed its configuration yet (`node_run.go:203`, against `main.go:749-752`).
- A push of wasm modules that was overtaken prunes, with its older reading, a module declared since (`wasm_module_gen.go:36` and `58`); `InSync` is asked
  of pushes that ran alone.
- A process that is stopped may exit while the final save has truncated `desired.dat`, and the next start refuses the file (`main.go:698`,
  `util.go:126`, against `manager.go:130-131`). `Durable` of `DesiredState` says what survives otherwise.
- Certificate authority: after a record or header write failed the memory is a counter ahead of the header, and a garbage
  collection that saves the state then makes the next start refuse it (`Restartable` excepts it). The record of a save that failed after appending
  it is found by the next start, and survives a later deletion of the item (`DeletedStays` excepts it). The file of an
  expired record is not known after a start, so that the next save of that number fails once. A certificate expires between operations only in the model.
- Peering: after the grace an empty set is pushed also when the sources run and have merely not connected yet, or lost their connections
  (`peering_gen.go:54`, against "all sources really gone" in `peering_support.go:23`). A tick between the `Add` of a reconnecting target and
  its callback still finds the `seen` time of the connection before, and has no grace (`peering_gen.go:48`; `GraceHolds` excepts it).
- Peering: a loop without an entry of its own never pushes an empty set to a target that reconnected (`PeersConverge` excepts it). One mutex is held
  over calls without a deadline: a target that does not answer holds up the others until its connection is declared dead. A push the agent
  refused after it applied part of the set keeps the old record, and is repeated. A source that returns is another member of `Sources` in the model.
- L4 routes: two concurrent declarations of one port may both be stored, and every push is refused until one is declared otherwise
  (`RoutesConverge` excepts it). After a restart of the control plane the set is pushed without the routes whose node has not reported yet,
  as documented (`l4route.go:30-35`). Calls of a dead connection are taken to be handled before the next connection or never.

## Plan

1. Proofs: convergence in safety form, that no state is at rest with a declared node, module, peer or route missing.
2. Generalise the loop of `WasmModules` to the additive loops (vip, secret, interface, mtu, ...: the same push without pruning) and their drift detection.
3. The l4lb map writes against a reader of the maps (`drv.go`: counts before tables, a table without a destination).
4. Bootstrap tokens and the handshake of a node's first certificate; the ring buffer of the log with its subscribers; the address
   allocator of workload nodes.

## Not modelled

Dataplane object sync: the loop pushes to agents that offer slots (`ObjectSlots`), and no agent of the repository implements
them, so its other half has no code.

The transport and its cryptography, access control (pure policy evaluation, generated), certificate orders with an external
service, the packet path (eBPF, DPDK), wasm execution, HTTP/3 serving and caching, container and network configuration
of workload nodes, command line tools and user interfaces. `PROJECT.json` has every component with its reason.

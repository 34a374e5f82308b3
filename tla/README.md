# TLA+ models of the Operune core runtime

Operune runs WebAssembly components under a host that keeps all durable state,
schedules their timers, carries their events, serves their web pages, links them to
each other and replaces them while they run. This directory models the parts of that
host in which concurrency, cancellation, crashes, partial failure and bounds decide
whether it is correct; TLC checks the models on small instances and TLAPS proves the
most important properties for every size.

Paths are relative to `crates/`. `PROJECT.json` maps every definition that models
code to its lines, and lists under "hazards" the places where the code is hard to
test, each with the properties that would show it going wrong.

## 1. The system and its parts

| part | state it keeps | operations | talks to |
|---|---|---|---|
| **Scheduler service** `application/src/scheduler.rs` | per installation: a task table, a `stopped` flag, a cancellation token, a wake channel; a driver task; per driver run a bounded delivery channel and a consumer task | `schedule`, `cancel`, `stop`; the driver fires what is due | callers on any thread share one mutex with the drivers; the consumer calls the guest's handler |
| **Event bus** `application/src/event.rs` | per publisher: a bounded inbound channel and a pump task; per link a bounded delivery channel, a dropped count, a consumer; the subscription policy | `publish`, `stop`, `subscribe`/`unsubscribe` | publishers share a mutex with `stop`; the pump reads the policy without it |
| **Storage executor, state commands** `storage-sqlite/src/executor.rs`, `repository.rs` | SQLite rows of component state, a schema-version row per installation, the one open transaction of the connection | get, put, delete, begin, commit, abort, create and remove installation | one worker thread serves one command at a time; requests can be cancelled while they queue |
| **State service and migration** `application/src/state.rs`, `migration.rs` | the set of installations being migrated | guest get, put, cas, delete, transactions; `migrate` | submits several commands per call; calls of several threads interleave between commands |
| **Artifact store, registration, active version** `storage-sqlite/src/repository.rs`, `artifact.rs`, `recovery.rs`, `ports.rs` | files in `staging/`, `quarantine/`, `artifacts/`; tables `artifacts`, `component_versions`, `installations`, `installation_versions`, `active_version`, `upgrade_transactions` | upload, commit of a candidate, bind, switch, rollback, uninstall, gc, recovery | commands of the executor; recovery runs when the database is opened |
| **Registry, config and secret ports** `storage-sqlite/src/ports.rs`, `application/src/config.rs`, `secret.rs` | none of their own: three tables make one record of an installation, one row makes a config or a secret | insert, update, read, list, remove an installation; put and read back config and secrets, delete a secret | each operation is several commands of the executor, with others' commands between them |
| **Install, upgrade, rollback, uninstall pipeline** `application/src/install.rs`, `upgrade.rs`, `uninstall.rs`, `web-admin/src/facade.rs` | candidate life cycle states, grants, bindings of digests | install, upgrade, rollback, enable, disable, uninstall, replace grants | calls composition, migration, the registry, the active registry and the audit in a fixed order |
| **Composition** `application/src/composition.rs`, `domain/src/graph.rs`, `upgrade.rs` | contract records (durable); a policy and a graph snapshot (memory) | `commit_activation`, `check_upgrade`, `deactivate`, `update_policy` | the pipeline and administrators, several at once |
| **Instance sets and drain** `runtime-wasm/src/instance.rs`, `application/src/runtime.rs` | slots, a queue of waiters on a condition variable, a `closed` flag; a counter of calls in flight | dispatch, try_dispatch, release, close; drain | threads that deliver fires, events, requests |
| **Component web bridge** `web-component/`, `application/src/web.rs`, `web_app.rs` | an asset cache; a gate and a quota per installation | asset, page, route, action | the active registry and the instance set of the version that is active |
| **Lifecycle controller, active registry** `application/src/lifecycle.rs`, `active.rs` | a phase per installation; an `ArcSwap` map of the running components | ready, begin_drain, checkpoint, stop; get, swap, remove | scheduler, bus, instances |
| **Governance** `domain/src/rbac.rs`, `policy.rs`, `quota.rs`, `impact.rs`, `chain.rs` | none (pure) | evaluation, diff, analysis | nothing calls it yet |
| **Schema migration** `storage-sqlite/src/migration.rs` | `schema_migrations` | apply, verify | SQLite, once at a start |
| **Security, admin web, server, observability, platform, WASI** | sessions; otherwise none | login, pages, wiring | all services |

What is hard, part by part, and what correctness means:

* **Scheduler.** Six kinds of threads meet at one mutex; the driver keeps it while it
  fills a channel that a consumer empties; it sleeps on a monotonic clock and decides
  by a wall clock that can jump; it can die of a clock failure and be spawned again.
  Correct means: each fire is emitted once or reported missed once, in order, on the
  task's grid, none after `stop`; due fires happen; what was accepted is handled;
  `stop` ends the tasks.
* **Event bus.** `publish` sends after it has released the mutex that `stop` takes.
  Correct means: order per publisher, at most once, exact reports of what was dropped,
  nobody served who was not subscribed, everything accepted offered, all tasks end.
* **State.** A transaction spans commands of one call while other threads' commands
  are refused; a request cancelled in the queue rolls back; a process can stop
  anywhere; a guest may end the transaction of its own migration. Correct means: the
  version of a store covers its rows, nobody leaves a transaction open or writes into
  another's, an upgrade that says `migrated` committed itself, the window closes.
* **Artifacts.** A command is several renames and commits, each of which can be the
  last. Correct means: committed bytes are never lost, what is active can be run and
  is what was last committed, recovery ends with files and rows in agreement.
* **Ports.** Neither a write nor a read of a record is one transaction. Correct means:
  the tables are, at every moment and wherever an operation stops, a ledger of
  installations; what a read returned was true while it read; a number that was
  answered is not taken back.
* **Instance sets.** A waiter that was woken goes back for the mutex and may be
  overtaken. Correct means: one call per slot, no lost wake-up, nothing granted by a
  closed set, no wait outlives close, and none is endless unless newcomers are; drain
  waits for what runs.
* **Web bridge.** A handler reads the registry several times while versions are swapped.
  Correct means: bytes belong to a digest that was active during the request; each slot
  of each quota comes back on every path.
* **Composition.** Records, policy and snapshot change at different moments and only the
  records survive a restart. Correct means: exactly the illegal graphs are refused, the
  snapshot serves the records, the order can be undone from its end.
* **Pipeline.** Some ten durable and volatile changes per operation, each of which may be
  the last. Correct means: what is served is on record, was checked against the grants,
  the graph and the schema, and can be left again; the rollback target is the version
  served before.

## 2. Modules

| module | models | refines / extends |
|---|---|---|
| `FireLedger` | what a scheduler promises: fire numbers of a task are used up in order, each accepted or missed, accepted ones handled at most once | abstract |
| `Scheduler` | `scheduler.rs`: callers, drivers, channels, consumers, two clocks | implements `FireLedger` |
| `SchedulerProofs` | proofs about `Scheduler`, and that it implements `FireLedger` | |
| `EventBus` | `event.rs`: publish calls, pump, delivery, consumers, policy | |
| `EventBusProofs` | proofs about `EventBus` | |
| `VersionedStore` | what the durable state tables promise: versions never go back, rows carry the version they are left with | abstract |
| `StateStore` | the executor's state commands and the open transaction | implements `VersionedStore` |
| `StateService` | guest calls and migrations, each command by command | extends `StateStore` and composes with it: each of its actions is one command of the store or none |
| `StateServiceProofs` | proofs about `StateStore`, and about `StateService` on top of them | |
| `ArtifactStore` | uploads, candidates, switches, gc and recovery, each rename and commit a step | |
| `ArtifactStoreProofs` | proofs about `ArtifactStore` | |
| `InstallationLedger` | what the registry promises: an installation begins, changes version and digest together, takes no step back in its life cycle, and stays gone | abstract |
| `StoragePorts` | `ports.rs` and `config.rs`, `secret.rs` above it, command by command, several callers | implements `InstallationLedger` |
| `StoragePortsProofs` | proofs about `StoragePorts` | |
| `InstanceSet` | `instance.rs` and the drain of `runtime.rs` | |
| `InstanceSetProofs` | proofs about `InstanceSet` | |
| `WebBridge` | the handlers of `web-component` and the use cases behind them, during upgrades | |
| `WebBridgeProofs` | proofs about `WebBridge` | |
| `ProviderGraph` | `graph.rs` and `upgrade.rs`: resolution, order, cycles, analysis, as operators with reference definitions | pure |
| `Composition` | `composition.rs`: administrators at once, restarts | extends `ProviderGraph` |
| `Pipeline` | `install.rs`, `upgrade.rs`, `uninstall.rs`, `facade.rs`, one operation at a time, each step may fail | extends `ProviderGraph`, takes the composition service as atomic calls |
| `GraphProofs` | proofs about what `ProviderGraph` computes, and about `Composition` and `Pipeline` | |
| `MC*` | constants and symmetry for TLC | |

An operator that a mutant puts in the place of another (`MayAlwaysRegister`,
`UpsertJoining`, `TakeUnchecked`, ...) stands next to the one it varies.

### Scheduler

An action is what a thread does between two points where another can act: taking the
mutex, reading a clock, awaiting, and, inside `fire_due`, each `try_send`, because the
consumer takes from the channel without the mutex (`LockFree` keeps the others out).
`schedule` is `ScheduleValidate` (trigger checked against the clock and an id taken),
`ScheduleInsert` (under the mutex: stopped, limits, table) and `EnsureDriver`; `stop`
is `StopMark` and `StopCancelToken`. A driver is `DriverScan`, `DriverClock`, the three
outcomes of its `select`, `FireReadClock`, `FireLock`, `FireSend`, `FireUnlock`,
`DriverExit`. A channel is named after the call that spawned it, so that a second
driver's channel is another one. `Tick` and `SetClockBack` are the environment's.

Abstracted: payload contents, ids (numbers), the value range of instants. Left out
because they change nothing: a denied grant, `task_status` and the other queries, a
failed clock reading inside `schedule`. Left out as environment: a handler whose panic
ends the consumer task (`try_send` answers `Closed` only then), and overflow of dates.

### Event bus

A publish call is `numbered` (id taken), `holding` (it has a clone of the sender, under
the mutex) and sends in a third step. The pump selects, collects a batch, fans each
event out to the subscribers it reads at that moment, and after `stop` drains. The
order in which one event reaches several subscribers is left free. Publish grants do
not change; diagnostics are left out.

### State store and state service

One action of `StateStore` is the worker serving one command, with its answer as a
parameter; `Misaddressed` is `require_active_tx`. `rows` is what the connection sees,
`durableRows` what is committed. `ServeCancelled` is the worker finding that a queued
request was cancelled, which rolls an open transaction back, whoever owns it.
`StateService` gives each guest and each upgrade a program counter over those commands.
A guest that is called to migrate may end the transaction it was handed
(`MigrationEndsTx`), and another thread may then begin one of its own.

A transaction's public id and its handle are one number here, `take_tx` and the
command after it one step. Not modelled: the failure of a ROLLBACK, SQLite rolling back
by itself on a full disk, uninstall during a call (it is in `StateStore`), audit
failures of operations inside a transaction. `AuditInStore = FALSE`, with which the run
is made, is a collector of its own, as in `tests/integration` (`stateful_e2e.rs`);
`TRUE` is the `StoragePorts` adapter, where audit records are commands of the same
executor (section 4). `server/src/compose.rs` wires neither yet. A guest that begins a
transaction also ends it, except when its call is cut off; `stateful_imports.rs` does
not offer transactions to guests yet, the service does.

### Artifact store

`at` is how far the worker is in its command; an action ends at each commit or rename.
Cancellation and failure are actions of their own at the points where the code checks
(`QuarantineFails`, `CommitFails`, `CancelSwitch`, `AbandonSwitch`, `MarkFails`).
`Restart` may happen in every state, in recovery too, and may undo the last rename:
nothing flushes a directory, so a power loss can take back a rename that a commit
already relies on. Older renames are assumed to have reached the disk. A version `v`
stands for `v.0.0`; `TextRank` is the order of the text, which is how the code compares.
`spoiled` is a history variable: it records that a switch was abandoned with its marker
prepared, or that gc was stopped between removing a row and the file of that digest.
Disk budgets are refusals and are left out; ages are nondeterministic; the columns of
the life cycle belong to `StoragePorts`. A recovery whose audit record fails is a restart.

### Ports

`call[c].at` is the command caller `c` submits next; each command is one transaction
and may instead fail (`CallFails`), which ends the operation where it is. A stop of the
process is the failure of all calls. The record of an installation is derived:
`VersionOf`, `LastKnownGood`, `Composed` are `compose_installation` and
`derive_last_known_good`, with `created_at` in whole seconds of a clock that may stand
still or go back. `advance_lifecycle_to` reads the state once (`ReadState`) and then
applies events from the caller's copy of it (`ApplyEvent`). A put is three commands:
`PutValue`, `ReadBack`, `AppendAudit`. `OtherTransaction` is somebody's state transaction,
of which this module sees only that it is open: config and secret commands are let
through then, everything else is refused (`Served`), and a put fails because it begins a
transaction of its own. Registration precedes insertion and is final, so that a version
stands for its digest (`ArtifactStore`).

### Instance set

`dispatch` queues (`DispatchSleeps`, `LeaveQueue`, begin again), `try_dispatch` does not
wait, a delivery is a `try_dispatch` under an `InFlightGuard`. The counter has a size and
wraps, as an `AtomicUsize` does in a release build. A condition variable may wake a
thread that nobody notified. `drain` closes the set, looks at the counter and gives up at
its deadline.

### Web bridge

One request of a kind per thread, a read of the registry, of a quota or of the instance
set per step. A request that disconnects is dropped only before it enters the gate.
The rates per minute are nondeterministic refusals; the digest of a URL is any digest.

### Composition and pipeline

A face is what one version exports and imports; a requirement is the set of versions its
range admits. `ProviderGraph` translates the algorithms (resolution, Kahn's order
reversed, the search for a cycle in what is left over, the analysis of an upgrade), with
reference definitions next to them (`Legal`, `IsCycle`, `Servers`, `Needs`). A call of
`Composition` reads the records, judges, audits, writes and swaps in separate steps, two
administrators at once; the ghost `overlapped` says that two calls have been in progress
together. In `Pipeline` an operation is a stage that moves on; every audit record and
every call of the component may fail at each. The component that is served runs on and
may write its first state meanwhile (`op.empty` remembers whether the store was empty
when it was looked at). The registry behind it is the in-memory one that
`server/src/compose.rs` wires.

## 3. Runs

| run | asks | bounds |
|---|---|---|
| `scheduler_safety` | does each fire of two tasks get emitted or counted once, on its grid, never after `stop`, and is the service a `FireLedger`? | two calls, a channel of one slot (full after one fire), four instants, one set-back, one failed clock reading: a driver dies, another is spawned while the first consumer still works |
| `scheduler_liveness` | do due fires happen, accepted ones get handled in order, and an idle stopped installation lose its tasks? | two tasks, three instants, fair tasks, no clock failures |
| `eventbus` | order, exact drop counts, revocation, drain, end of tasks | three events against an inbound channel of two and a delivery channel of one |
| `state_store` | is the store a `VersionedStore` under every order of commands, cancelled requests, failed commits and restarts? | two installations, two keys, three versions |
| `state_service` | do guest calls and an upgrade leave no transaction, write only their own, close the window, mean `migrated` when they say it, and return? | one guest, one upgrade, two keys, a cancelled request, a restart, a guest that may end the migration's transaction, fair threads |
| `artifact_store` | are bytes never lost, active releases runnable and last committed, recovery exact and decisive? | two digests and two versions (both digests may claim one version), two uploads of the same bytes, four switches, one installation: installations meet only in the registry and the artifacts, which the two versions already share |
| `storage_ports` | are the tables a ledger of installations, is what a read in pieces returns true, is a number that a put answered kept? | five calls of two callers, three versions and two seconds (the rollback target can be a tie, and can be none of the last served) |
| `instance_set` | one call per slot, no lost wake-up, a closed set grants nothing, no free slot beside sleepers, no endless wait without endless newcomers or an endless call, and none in a closed set | any number of calls of four threads over two slots and a queue of one |
| `instance_set_drain` | *violation*: drain waits for the deliveries it let in | two threads |
| `web_bridge` | are the bytes served those of a digest active during the request, do all slots come back? | three requests in three mixes, an upgrade, the rollback and the removal; every limit is reached |
| `composition` | are exactly the illegal graphs refused, does the snapshot serve the records, can the order be undone, do the two judgements of an upgrade agree? | four calls of two administrators over three installations and four faces, a restart, a policy that binds and excludes |
| `pipeline` | is what is served recorded, checked and leavable, is the rollback target the version before? | four operations on two installations of a library with two releases (and other bytes claiming the second) and its application |

Channels of one slot, two digests, two keys and two threads are the smallest at which
the races appear; every property was seen to be violated when a guard or the order of
the code is changed as a plausible bug would (the mutants in `PROJECT.json`), under the
same bounds.

**Fairness.** Liveness is checked under weak fairness of spawned tasks (tokio runs a
task that is ready), of calls that have begun (a thread that entered a function
leaves it: a mutex is released, a guest's call has a deadline) and of executor commands
already taken. That a thread which asks for a mutex gets it is an assumption: the critical
sections are a few instructions, but std promises no order. No fairness is assumed of the
clock, of callers making calls, of failures, of cancellation, of who gets a slot of the
instance set, or of the order in which waiters are woken. No bound on the calls stands in for
fairness in `instance_set`: its threads call for ever, and a lease may be held for ever.
`WaitsEnd` names what it needs beyond the mutex, that calls end (`CallsEnd`, by the
guest's deadline) and nobody arrives any more; `CloseEndsWaits` needs neither. `CHECK_DEADLOCK` is off where the environment may stop: all calls made
and time at its bound. The artifact store, the state store and the instance set never
stop, so there it is on.

## 4. What the models show of the code

**Finding** (`instance_set_drain`): `InFlightGuard` is made by a struct literal and nothing
increments `in_flight`; its drop takes one from it. Drain therefore finds zero and returns
while the first deliveries run, and after any delivery has ended it finds a wrapped value
and waits for its whole deadline. `runtime.rs` calls the guard the counter drain waits on.

Met while modelling, not stated as runs. Where a property above has an exception, it is
one of these.

*Scheduler and events*

* A stopped driver with a due task never ends: `fire_due` sees `stopped` and returns
  without moving the task, `run_driver` starts over without an await that looks at the
  token; it keeps a thread busy, and its channel and consumer stay (scheduler.rs:367-368
  says it exits). `IdleStopEnds` is for installations that are idle when stopped.
* A driver that dies of a clock failure while its tasks remain is only replaced by the
  next `schedule`; its successor's consumer and its own may then deliver out of order,
  which is why `InOrder` is checked without clock failures.
* After `cancel` fires already in the channel are still delivered; a handler that traps
  is not counted as missed; a batch of the event pump may exceed its capacity by one.
* `publish` sends on a clone of the sender after it released the mutex: an event can be
  accepted after the pump has drained, and is lost although `publish` said ok
  (event.rs:261-262).

*State, config, secrets*

* `cas` is a read and a write with another guest's `cas` possibly between them: both
  answer applied (state.rs:7 and the comment that they cannot interleave). A get or a
  delete that passed the gate may run after a migration (state.rs:491).
* With audit records on the storage executor a begun transaction is never ended: begin
  succeeds, its audit record is refused because a transaction is open, the caller gets
  no id (executor.rs:37-38).
* Overlapping upgrades of one installation share one entry of the gate and close each
  other's window; a migration that writes nothing answers `migrated` and leaves the
  version; a guest that commits its own migration transaction makes `migrate` answer a
  failure with the store changed.
* Put and read-back of config and secrets are two commands, although ports.rs says that
  nothing interleaves: two rotations may be answered the same version, and one whose
  secret is deleted in between is answered "secret disappeared after write (invariant
  violation)". A secret's version begins at 1 again after a deletion. A put whose audit
  record meets a state transaction answers a failure with the row written. `read_secret`
  checks the grant and then reads: a value rotated after the revocation may be handed out.
* SQLite may roll a transaction back by itself when a statement meets a full disk
  (repository.rs:2334); the models do not.

*Artifacts and ports*

* A switch that fails between its two transactions leaves its marker prepared; if the
  process lives on and switches again, the next start refuses to open the database.
  gc stopped between deleting a row and the file of that digest, and the same bytes
  uploaded again, do the same. Both are `spoiled`, the exception of `RecoveryDecides`.
* `rollback_version` compares versions as text (repository.rs:1285): from 10.0.0 it finds
  no target below 2.0.0, from 2.0.0 it goes "back" to 10.0.0.
* gc empties `staging/` under uploads in progress, which then fail and may be repeated.
* Over SQLite the rollback target that the pipeline writes is not stored: it is derived
  as the newest other version that was served, by the second its binding was created.
  After v1, v2, a rollback to v1 and an upgrade to v3 it is v2, not v1.
* A record read between the commands of a first activation and an upgrade can name the
  new version without a digest; an installation that is being inserted, or whose
  insertion ended half way, makes every listing fail as corrupt, and no operation of the
  port repairs it.
* `update_installation` to any state but Active always ends in a life cycle conflict, so
  `disable` cannot work over SQLite; and before it fails it switches to the version it
  read, which undoes an upgrade made meanwhile.

*Composition and pipeline*

* Two administrators at once: `commit_activation` reads, judges, writes and swaps without
  a lock, so that a need may be left without a provider and the snapshot of one call
  without the other's change; `active.rs` swap and remove copy the map and store the copy,
  of two at once one is lost. The properties hold until two calls overlap.
* A restart keeps the records and loses the policy that made them legal; the snapshot
  starts empty.
* The bytes of a candidate belong to no installation: a second installation of the same
  bytes moves the one candidate, and the first one's upgrade is refused at its drain
  after the graph was committed; a second install of served bytes that fails marks the
  candidate of what is served as failed (install.rs:26-27). `ServedCanBeLeft` is for bytes
  that one installation ran.
* An audit failure after the graph was committed leaves graph and contract records ahead
  of the version record; a migration commits before the steps that may still fail, and
  the old version then stays on a store it cannot read (install.rs:861); explicitly given
  grants are saved before a switch that may fail.
* A component that writes its first state while an upgrade has already found its store
  empty ends with a schema the new version does not declare. `ActivationWasChecked` (with
  `SchemaSettled`) says that this is the only way in which a check goes stale, and that the
  schema is then the one of the version that is replaced.
* `facade.disable` never asks composition, so a provider can be disabled under its
  consumers, although uninstall.rs:34-36 has it be asked; an uninstall whose deactivation
  is refused is left with the component stopped.
* `lifecycle.rs` begin_drain moves the phase before the services are stopped; nothing
  outside its tests makes a `LifecycleController` yet.

*Instance set*

* `dispatch` is not free of starvation: `release` wakes a waiter, which gives its place in
  the queue up, lets go of the mutex and begins again, and a newcomer may take the slot first,
  again and again (instance.rs:146-170). TLC shows the loop at once when `WaitsEnd` is
  stated without its condition; the waiter may also be refused as `QueueFull`.

*Web*

* A client that disconnects does not cancel a guest call in progress, although the
  dispatch of routes is documented to (web_app.rs `route_dispatch`).
* `asset` compares the digest with the active one and `read_asset` then reads the registry
  again: bytes of the next version can be served under the old URL's check, but never
  cached under another digest (router.rs:280-281).

## 5. Proofs

Most theorems are of the form `Spec => []P` or `Spec => [][A]_vars` for every value of the
constants; some say that a module implements an abstract one, and two what an operator
computes. They hold under the named assumptions of the modules: finite bounds are
naturals, capacities positive, versions naturals (of `StoragePorts` positive and finitely
many; 0 and the seeded version are versions of a state), the requests of `WebBridge`
finitely many, guests and upgrades different threads, installations of a graph finitely
many naturals, and a face made of finitely many offers and requirements.

* **Scheduler.** `TypeOK` is not inductive: a consumer that holds a payload, a driver in
  the middle of `fire_due` and a channel need facts about each other. `TypeInv`
  strengthens it by `WellFormed` (what a program counter says of the locals and of the
  call). `Inv` adds that a number not yet used is in no payload and that each channel has
  the consumer it was spawned with: fires are accounted for and stay on their grid, and
  nothing happens after `stop`. `LineInv` says that the payloads of a task lie in each
  channel in the order of their numbers and that no number is in two places; from it
  every step is a step of `FireLedger` or changes nothing there. For the order of
  delivery (`InOrder`, without clock failures) `ThreadInv` ties the one driver of an
  installation to the one channel, and `AheadInv` says that what is in flight comes after
  what was handled. `WakeInv` (a driver that is not there has no handle; the driver of a
  scheduled task is on its way to the tables, has a wake to see or sleeps no longer than to
  its fire) is the safety part of `DueFiresAreHandled`: `NoWakeupLost`.
* **Event bus.** `BusInv` is the type, that ids not given out belong to no call, and that a
  pump holds only events that were accepted. `OrderInv` says that what a publisher's
  pump is done with, followed by its batch and its channel, is what was accepted, in that
  order, and that each link was offered an ascending part of what is done with; `ReachInv`
  that whoever an event is about to be offered to was subscribed since. Together they
  give `OfferedInOrder`. `DropInv` is about counts: what a link has dropped, with what its
  deliveries said, covers what it was offered. The sum over a stream is defined by
  recursion, and what it does when the stream grows by one is proved from the least
  counterexample. They give `EveryDropReported`, for any publishers, topics and capacities.
  `KeptInv` says where an accepted event is while the pump runs, and `StoppedFirst` that
  the token and the end of a pump come after `stop`: the safety part of
  `PublishedBeforeStopIsOffered`. A pump turns to its exit when it has begun to offer
  every event accepted so far (`DrainsFirst`); the loss that section 4 tells of needs a
  call that took its sender before `stop` and sends after that.
* **State store.** `StoreInv` is the type, `VersionCoversRows`, `UncommittedIsDirty` and
  that the open transaction is not older than the store's version, which is what makes
  the commit safe. From it, the refinement `DurableStore`: each command is a step of
  `VersionedStore` or changes nothing durable.
* **State service.** Each step of a guest (`GuestMoves`) and of a migration
  (`UpgradeMoves`) is one command or none, which is how they are written, so that all that
  holds of the store holds here. `ServiceInv` adds what each thread knows at each of its
  points, among it the outcome of its own commit (`OutcomeMatchesStore`), and
  `OnlyOwnerWrites` follows. `HeldInv` (the open transaction is the one of a call that is
  running, and an upgrade between its two window calls keeps the window open) gives
  `TransactionIsHeld` where it holds: audit records with a collector of their own, no two
  upgrades of one installation at once (section 4 tells what happens otherwise).
* **Artifact store.** `TypeInv` is the type and `WellFormed`, what a switch under way has
  established (its marker is the last one, prepared, and its own; its target and the
  version a rollback leaves are bound). `FilesInv` is needed for the bytes: besides the
  property it says that the last rename, if undone, does not take the only copy
  (`UndoIsSafe`), what a command knows of its digest between two steps, that gc's rows
  are quarantine rows, that committed bytes are in `artifacts/` whenever recovery is over
  and that recovery has placed each file it visited. `MarkersInv` says that marker
  numbers grow and that each installation's greatest committed marker names the active
  release. `TablesInv` says that bound versions are registered and active ones
  installed, and that a rollback marks another version than it activated. Together they
  give `BytesSurvive`, `RecoveryIsExact`, `BindingFollowsMarker`, `ActiveCanBeServed` and
  `RegistrationIsFinal` (a version never changes its digest, which no run states).
  `RecoverInv` says that while nothing was spoiled no digest is both in quarantine and
  final, a final file without a row is one that gc has still to remove, and a prepared
  marker is that of the pending switch, which is why recovery never refuses
  (`RecoveryDecides`).
* **Instance set.** The slots are a set and the queue a number, so the proof counts:
  `waiting` is the number of threads asleep or woken, each busy slot is the lease of one
  thread, and while a thread sleeps every free slot has a thread on its way to it. From
  these `SlotsHaveOneHolder`, `WakeupsAreNotLost` and `ClosedStaysClosed`, for any number
  of threads, slots and calls.
* **Storage ports.** `RegistryInv` is needed for the refinement `ImplementsInstallations`:
  an installation that was never served is young (at most validated, at most one version,
  a candidate), a young one has a single writer, and the writer's call names that version
  and that state; what is installed was served; without a version there is an insertion
  under way or an interrupted one. From it every command is a step of the ledger or
  changes no record. `ValueInv` (what is visible is what is durable; config is missing at
  a read-back only where its installation is gone, and gone is for good) gives
  `PromisedIsKept`. `ReadInv` follows each reader: what the record shows now is among what
  it has seen, a version it found served was shown, and undisturbed the row it found is
  still there; with `RegistryInv` it gives `AnswersWereTrue`. That `Max` has a value on
  every non-empty set of versions is proved from finiteness, by well-founded induction on
  the sets of greater ones. For any number of installations, callers and calls.
* **Web bridge.** `DigestInv` says where a digest may be: the entry a request holds was
  active during it, the current runtime was seen by every request not yet answered, cached
  bytes are those of the digest they are cached under. `SlotInv` counts: the queue and the
  calls in progress of the quota are the cardinalities of the sets of requests at the
  places that hold such a slot, and so is the gate. They give `ServedWasActive` and
  `SlotsComeBack`, for any finite set of requests, any sequence of runtimes and all limits.

* **Graph.** `Processed` and `FoundCycle` are recursive functions. That the list of their
  steps exists, and keeps an invariant, is proved from the least step at which it would
  not. The order: no installation twice, each after all its consumers, and when it stops
  short everyone left over is waited for by another, from which a loop follows by taking a
  smallest such set (`ProcessedOrdered`, `LeftoverWaits`, `NeededHaveLoop`). The
  search for a cycle: a node is on the path, behind it or not yet seen; what is behind
  leads only to what is behind and holds no loop; and the steps spent (one for each node
  seen, one for each left, one for each edge taken) are fewer than the steps the search is
  given, so that it ends with a cycle when one is left over.
  `CandidateDecides`: for any finite faces and any policy a graph is built exactly when
  the rules (`Legal`) are kept, and a cycle that is reported is one (`IsCycle`).
* **Composition.** `ServiceInv` is the type, with what each call knows of its own copy of
  the records, and `Serial` while no two calls have overlapped: at most one call is
  under way, what it judged is what the records and the policy will be, and the snapshot
  of this process is the candidate of what they are. With `CandidateDecides` it gives
  `VerdictIsRight`, `SnapshotServesTheRecords`, `ReverseOrderDeactivates` and
  `AnalysisAgrees`, for any installations, faces, policies, administrators and calls.
* **Pipeline.** `Inv` is the type, `Steady` (the record names what was served last but in
  the middle of a switch, and the candidate of a served version is active if no other
  installation ran its bytes) and `OpKnows`, what an operation has established at each stage: with it
  `ServedIsRecorded`, `RollbackTargetIsPrevious` and `ServedCanBeLeft`. `Checked` says what
  each check before a switch has established and that nothing undoes it on the way: the
  grants, their approval, the committed graph (a graph that is built gives every need a
  provider, `BuiltServesNeeds`) and the schema, with what a first write of the old version
  does to it (`SchemaSettled`). It gives `ActivationWasChecked`.

Every safety invariant and every action property of a passing run is proved. Only
model-checked are the liveness properties (`DueFiresAreHandled`, `IdleStopEnds`,
`PublishedBeforeStopIsOffered`, `StopEndsTasks`, `CallsReturn`, `WaitsEnd`,
`CloseEndsWaits`): fairness and ENABLED are outside the prover. The violation of
`DrainWaitsForDeliveries` is TLC's.

## 6. Not modelled, and the plan

Listed with reasons in `PROJECT.json` "components". Next, in this order:

1. **Proofs**: the safety part of `StopEndsTasks` (when a pump has ended, no sender of its
   links comes back and their channels only shrink), as an action property of its own.
2. **Two pipelines at once** over `Composition`'s interleaved calls, once the code
   serialises them: today the properties do not hold (section 4).
3. **Sessions** (expiry, revocation), **schema migration** (chain and newer-schema gate),
   the declarations of `domain/src/web.rs`, and **governance** (quota hierarchy, RBAC,
   policy diff, impact) as operators over small inputs, when something calls them.

Left out for good: calls into Wasmtime, SQLite, TLS and password libraries, encodings,
page rendering, command-line parsing and wiring. Much of the source is of that kind, or is
tests, constructors and validation of values; the map covers what moves state.

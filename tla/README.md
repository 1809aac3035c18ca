# A TLA+ development for sqry

sqry builds a graph of a code base and answers structural queries about it.
Most of the repository is sequential: parsers, graph builders, query
evaluation, front ends. Its concurrent heart is the daemon, `sqryd`
(`src/sqry-daemon`), which keeps the graphs of many workspaces in memory under
one byte budget, rebuilds them as files change, and serves queries from them
meanwhile. This development models that heart: the workspace registry and its
memory ledger, the rebuild dispatcher on top of them, the file watchers that
feed it, and the way an index reaches the disk: the persist lock that every
process takes, and the transaction, rollback and recovery under it.

## 1. Inventory

| Part | State it keeps | Operations | Hard because |
|---|---|---|---|
| `WorkspaceManager` (`workspace/manager.rs`) | the map of workspaces (an `RwLock`), the admission ledger (a mutex), the reaper task | load, reload from disk, reserve, publish, evict, unload, reset, serve, reap | evictions land between any two steps of a load or a rebuild; a publication takes several steps on a slot that others read without a lock |
| `LoadedWorkspace` (`workspace/loaded.rs`) | lifecycle state, published generation, byte count, `rebuild_cancelled`, `evicted_mid_iteration`, `rebuild_in_flight`, the lane, the watcher's stop signal | atomic stores, swaps and compare-and-exchange | separate atomics with rules that relate them |
| `AdmissionState` (`workspace/admission.rs`) | `loaded_bytes`, `reserved_bytes`, retained old graphs | charge, refund, retain, reap | every exit of every build must give back exactly what it took |
| `RebuildDispatcher` (`rebuild.rs`) | the lane of each slot, the runner's current entry | accept, merge, park, drain, run one iteration, cancel, answer | a request may park as the runner leaves; an iteration has a dozen exits; evictions, loads, resets and cancellations arrive in the middle |
| `PendingRebuild` (`loaded.rs`, `rebuild.rs`) | changed files, git class, macro options, waiters, requester | `coalesce_with`, `merges_with` | merging is order dependent |
| Watchers (`rebuild.rs`, `watch/source_tree.rs`) | one pair of tasks per watched slot, registered by generation, a bounded channel, a stop signal in the slot | `start_watching`, `ensure_watching`, `reap_watcher`, `shutdown`, the two loops | nothing joins a pair: it may outlive its slot or its registration |
| Persist lock and gate (`persistence/write_guard.rs`, `rebuild.rs`) | an `flock` on a file of the index directory, a commit count on it, one helper thread per lock file, tickets of persists in flight | acquire, wait unless cancelled, re-enter, record a commit, enter and close the gate | the user may remove the directory at any time; waits are cancelled and share helpers; the daemon exits |
| Index pair (`build/entrypoint.rs`, `write_guard.rs`, `persistence/mod.rs`) | manifest, snapshot, rollback sets with their markers | transaction, rollback, recovery, readers, `holds_committed_index` | a crash or a failure between any two file operations |
| Acquirer (`workspace/acquirer.rs`) | none | find or rehydrate a workspace for a query | the slot may change under it |
| Builder, roster, persisted state | files on disk | build, read back | large data, little concurrency |
| Revision artifacts (`workspace/revision`) | artifacts and their registry | load, prune, recover | a crash between two writes |
| IPC, lifecycle, MCP host, configuration | connections, pid file, settings | handlers | they are the environment of the parts above |
| Graph engine, caches, sessions (`sqry-core`), query database (`sqry-db`) | immutable graphs, caches | build, query | large data, little concurrency |
| CLI, LSP, MCP server, rules, classpath, plugins, grammars, editor extension | front ends and parsers | | sequential, generated or third party |

How they interact. A handler (`daemon/load`, `daemon/rebuild`,
`daemon/unload`, `daemon/reset`, `daemon/cancel_rebuild`, a tool call) calls
the registry or the dispatcher directly. A load reserves bytes, which may evict
other workspaces, builds, re-checks under `workspaces.read()`, and publishes. A
rebuild request takes the lane of its slot and either becomes the runner or
parks; the runner reserves and publishes through the same registry functions. A
watcher's change set is a request nobody waits for. A query holds the graph it
was served for as long as it runs, whatever happens to the slot; such graphs
stay charged as retained entries until the reaper sees nobody holds them.

What makes each part correct:

- *Registry*: a `Loaded` slot has a generation; a tombstone or a removed slot
  holds nothing; a slot in `Loading` has a loader that will end it; every load
  ends.
- *Ledger*: `reserved_bytes` is the sum of the live reservations,
  `loaded_bytes` that of the slots' bytes; a graph a query holds is charged;
  retained bytes come back.
- *Watchers*: the pair that runs is the one the map names; a tombstone is
  unwatched, a resident workspace watched; shutdown reaches every pair; a
  stopped pair ends; a change that was seen is dispatched.
- *Index pair*: a manifest always describes the snapshot beside it; recovery
  leaves what was committed last; no reader is told of no index while there is
  one.
- *Persist lock*: transactions exclude each other; no lock is held for nobody;
  a removed index is not written back; every wait ends and so does the daemon,
  never in the middle of a transaction.
- *Dispatcher*: one runner per workspace; no request stranded; every caller
  answered once, and only for options it asked for; no workspace left
  `Rebuilding`; a reset workspace is not brought back by a rebuild.

## 2. Modules

| Module | Models |
|---|---|
| `WorkspaceManager` | `manager.rs`, `loaded.rs`, `admission.rs`: the registry, its slots and the ledger |
| `PendingRebuild` | the entry of a lane: who waits on it, with which options, and how two entries merge |
| `RebuildLane` | the abstract specification of the dispatcher: what callers are promised, without the registry |
| `RebuildDispatcher` | `rebuild.rs` over `WorkspaceManager`; instantiates `RebuildLane` with a refinement mapping (`ImplementsLane`) |
| `WatcherBridge` | the watcher pairs of one key, the slots they serve as far as arming tells their states apart, and the dispatcher's shutdown |
| `PersistTransaction` | the manifest and snapshot pair under the persist lock, one step per file operation |
| `IndexWriteLock` | who may run a transaction: the lock file, its waits and helpers, the gate, removal of the index; a transaction is its begin and its end |
| `WorkspaceManager_proofs`, `RebuildLane_proofs`, `RebuildDispatcher_proofs`, `WatcherBridge_proofs`, `IndexWriteLock_proofs`, `PersistTransaction_proofs` | theorems about the module of the name |
| `WorkspaceLedger_proofs` | theorems about the counters of the ledger, over those about the registry |
| `PersistProbe_proofs` | theorems about the lock-free check, over those about the pair on disk |
| `MCManager`, `MCLane`, `MCDispatcher`, `MCWatcher`, `MCPersist`, `MCLock` | instances and symmetries for TLC |

### WorkspaceManager

A *slot* is a `LoadedWorkspace` object; the map sends a key to its slot. A
*task* is a loader (a caller of `load_published` or
`reload_from_disk_read_only`) or a runner (a task of the dispatcher), with a
program counter and the locals the code keeps across its steps.

| Actions | Code |
|---|---|
| `GetOrInsert`, `EnterLoading`, `ObserveCancel`, `HonorConsumes`, `HonorFails` | the load gate: `get_or_insert_workspace_tracked`, `enter_loading_state`, `prepare_load_gate`, `honor_preexisting_cancel` |
| `Prepare`, `Build`, `LoadRecheck`, `StoreLoaded`, `AbandonLoad`, `FailLoad` | the rest of `load_published`, `abandon_load`, `LoadingGuard` |
| `ReservePlan`, `ReserveEvict`, `ReserveReap`, `ReserveAdmit` | the phases of `reserve_rebuild` |
| `PublishSwap`, `PublishMemory`, `PublishCommit`, `PublishUnwind` | `publish_and_retain` after its oversize gate, and `RollbackGuard` |
| `EvictLruPick`, `EvictLruExecute`, `Unload`, `ResetCancels`, `ResetEmpties` | `evict_lru`, `unload`, `reset`, each up to the release of the graph |
| `TombstoneSamples`, `TombstoneCancels`, `TombstoneStores`, `ResetReleases`, `ResetClears`, `ResetStores` | the stores of `evict_to_tombstone_locked` on the slot's flags and state, and `reset`'s own |
| `RetentionReaper` | `reap_once` on the reaper's tick |
| `ServeGraph`, `ReleaseReader` | a query that `classify_for_serve` answered, and its end |

One action is one critical section of `workspaces` or of `admission`, or one
atomic operation on a slot. The read lock a publisher holds from its re-check
to its store is the predicate `WriteLockFree`, a guard of every action that
takes `workspaces.write()`.

The write lock of an eviction, unload or reset does not keep out what reads or
writes a slot's atomics without `workspaces`: the gate of a load, the entry of an
iteration and its exits. So a tombstone is written in steps: the variable
`tombstone` names the slot, the caller and the next store, `ReadLockFree` says
that nobody holds the write lock this way, and the sample of `Rebuilding` for
`evicted_mid_iteration` (`manager.rs:1726`), the flag (1730) and the state (1737)
are three actions, with the check of `Loading` (1815), the call (1854), the
cleared flag (1861) and `Unloaded` (1862) of a reset around them.

### RebuildDispatcher

| Actions | Code |
|---|---|
| `Lookup`, `RefuseRequest`, `Acquire`, `Park` | `acquire_or_park_unless_stopped` |
| `Gate`, `CancelDrain`, `Release`, `DeliverOutcome`, `TakeNext` | `take_cancellation`, `drain` |
| `EnterRebuilding`, `RefuseReset`, `ResolveInputs`, `ExecuteRebuild` | `execute_one_rebuild`, `execute_rebuild` |
| `RecheckCancelled`, `RecheckUnregistered`, `RecheckOversize`, `RecheckPublishes`, `StoreRebuilt` | the re-check and publication of an iteration |
| `RecordRefusal`, `RecordCancelled`, `RecordFailed` | `record_refusal`, `record_and_transition_on_err` |
| `SentinelDrop`, `SentinelLeaves` | `DrainLoopSentinel`: the role and the parked entry, then the state |
| `CancelRebuild`, `Reset` | `cancel_rebuild`, `reset` |
| `LoadMeetsRunner` | the first arm of `honor_preexisting_cancel` (`HonorRefuses`), which needs a runner in flight |
| `LoadAnswered`, `StartWatching` | a load handler's late call of `start_watching`, `arm_watcher_stop` |

A caller that lost the exchange on `rebuild_in_flight` holds the lane until it
has parked; every other lane section is one action guarded by `LaneFree`.
The reservation and publication steps are those of `WorkspaceManager`.

### RebuildLane

Callers, workspaces, one lane and one role per workspace. Why an iteration
ends as it does is left open. The refinement mapping reads `phase` off the
runner's program counter, `role` off `rebuild_in_flight`, `where` off the slot
it works on; lane, entries and answers are the dispatcher's own. A load, an
eviction or any step inside an iteration is a stutter.

### WatcherBridge

| Actions | Code |
|---|---|
| `Lookup`, `Refuse`, `Keep`, `Subscribe`, `Arm`, `Insert` | `start_watching`, `ensure_watching`, `arm_watcher_stop`; the map's lock is held from the check to the insertion (`MapFree`) |
| `Collect`, `ObserveStop`, `Send`, `SendFails`, `Disconnect` | `watch_loop_blocking` over `wait_for_changes_cancellable` |
| `Recv`, `ChannelClosed`, `DispatchRefused`, `Dispatch`, `DispatchReturns`, `Leave`, `Reap` | `dispatch_loop_async`, the end of its task, `reap_watcher` |
| `LoadBegins`, `LoadPublishes`, `LoadAbandoned`, `Evict`, `Unload` | the registry's moves of a slot, `stop_watcher_and_store_state` |
| `RebuildMoves` | a rebuild that enters from `Unloaded`, and a cancelled one that goes back to it |
| `Shutdown`, `CollectStops`, `SetStops`, `StopWorkspaces` | `RebuildDispatcher::shutdown` |

A pair counts the changes it has seen, collected and dispatched; a change set
is the last number in it. A workspace state is one of six *phases*:
`Tombstone` is what a tombstone writer stored, `PutBack` what an abandoned load
restored or a cancelled rebuild left `Unloaded`; both refuse to be armed.
`Resident` has `Loaded`, `Rebuilding` and `Failed`, so a load may gate it. What becomes of a dispatched change is the matter of
`RebuildDispatcher`, whose `RebuildingEnds` is the fairness assumed of it here.

### PersistTransaction

| Actions | Code |
|---|---|
| `Begin`, `WriteMarker`, `MarkerFails`, `SetManifestAside`, `LinkSnapshot`, `CopySnapshot`, `RenameCopy` | `PersistRollback::begin` |
| `SaveSnapshot`, `WriteManifest` | `persist_durable_graph_transaction`; the manifest is the commit point |
| `MarkCommitted`, `Clean` | `PersistRollback::commit` |
| `StepFails`, `UndoSnapshot`, `UndoManifest`, `UndoMarker`, `UndoFails` | `Drop` of the guard |
| `Take`, `TakeForReader`, `RecoverNext`, `PutSnapshot`, `PutManifest`, `RecoverFails`, `Discard`, `RecoverEnd` | a fresh hold and `recover_interrupted_persist` |
| `Look`, `LookForNames`, `LookAgain` | `GraphStorage::exists` and the manifest loads, through `recover_for_reader` |
| `ProbeStart`, `ProbeRead`, `ProbeList`, `ProbeAnswer` | `holds_committed_index` |

A version stands for the contents of a pair; a snapshot file is its version and
who copied it, so that two names of one file are told from a file and its copy
(a rename onto the same file does nothing). `Crash` may come between any two
steps. `Faults` names what else may go wrong in an instance.

### IndexWriteLock

| Actions | Code |
|---|---|
| `Start`, `OpenCreating`, `OpenExisting`, `CreateExisting`, `LookForContent`, `ReadGeneration`, `ReadCommitted`, `Try`, `Attach`, `TakeAnswer`, `WaitAgain`, `GiveUp`, `Arrived` | `wait_unless_cancelled`, `open_lock_file_in_index`, `SharedLockWait::attach` |
| `HelperLock`, `HelperFails`, `HelperExit` | the helper thread, `HelperExit::drop` |
| `Check`, `CheckAgain`, `Enter`, `Begin`, `Commit`, `Fail` | `persist_rebuild_output_blocking` and the transaction's own checks |
| `OpenOther`, `FlockOther`, `NamedOther`, `Die` | `IndexWriteLock::acquire` in another process |
| `Remove`, `RemoveContent`, `RemoveLockFile`, `RemoveDir` | a removal of the index directory, which takes no lock |
| `Cancel`, `Close`, `Exit` | a cancelled iteration, `PersistGate::close_and_wait`, `finish_runtime` |

A lock file is its inode number. An unlinked file stays locked while it is
open; with `Reuse` the number of a file nobody has open may be given to a new
one.

### Abstractions

- A key is the identity a lookup resolves to. A graph is its identity; its size
  is chosen when it is built. `last_accessed` is left out, so an eviction plan
  follows *some* LRU order: what holds for all of them holds for the real one.
- A build succeeds with any fresh graph and size, is refused, fails, or is
  cancelled at a pass boundary when the flag is set.
- Change sets, git baselines and the requester's refusal policy are left out of
  an entry: they choose what is built, not who waits or runs.
- `rebuild.rs`'s second reservation (`top_up`, under the persist lock) is left
  out; so are diagnostics, high-water marks and the post-publish hook.
- A caller's 600 s bound is not an action: a caller that gives up changes
  nothing in the lane, and its retry is another caller.
- In `IndexWriteLock` the content of an index is none, a leftover of a
  transaction with no pair before it, or an index; making the directory and
  opening the lock file in it are one step, and so are the commit, its record
  on the lock file and the release. `record_commit` does not fail, and every
  platform has file identities. The work between the two checks of a rebuild
  under the lock may fail and is otherwise one step.
- In `PersistTransaction` the writes of a temporary file before its rename are
  part of the rename; a crash is the death of a process, and what it wrote
  stays written. Tags are in time order. An observer looks once.
- Merged steps: a tombstone's swap of the generation, of the byte count and the
  move of its bytes in the ledger are one step (only a publication, which the
  lock excludes, writes the first two besides); the exit of a
  cancelled drain stores the role and exchanges the state in one step, under the
  lane it holds; `HonorFails` stores the flag and the state together;
  `abandon_load` is one section; `honor_preexisting_cancel`'s reads
  of four atomics are one read; the flag store and the transition of an
  iteration that finds its slot unregistered are one step; the read of the
  prior graph is merged with the transition to `Rebuilding`. A drain loop
  unwinds only from a commit in the detailed model, and at any point in the
  abstract one.

## 3. Runs

`tlc -config <run>.cfg <module>`:

| Run (module) | Instance | Shows |
|---|---|---|
| `ManagerLedger` (`MCManager`) | two keys, one slot and loader each, a limit of 2 with graphs of 1 or 2, one reader, three graphs | under memory pressure, with unloads and resets, the ledger stays exact (`LedgerExact`), a graph a query holds stays charged (`HeldGraphsAreCharged`), tombstones are bare, and the inductive invariant of the proofs holds |
| `ManagerReload` (`MCManager`) | one key, two slot objects, one loader, one reader, a commit that may unwind | publications reach registered slots only (`ResidencyInv`), the ledger is put back exactly; under fairness every load ends (`LoadingEnds`) and retained bytes drain (`RetainedDrains`) |
| `LaneSafety` (`MCLane`) | three callers, two workspaces, two options, unwinding | the abstract lane's safety |
| `DispatcherSafety` (`MCDispatcher`) | one slot, a loader, two requests, reset, watch | the dispatcher implements the lane (`ImplementsLane`); a rebuild does not undo a reset (`ResetStaysReset`) |
| `DispatcherEviction` (`MCDispatcher`) | one slot, a loader, a request, LRU evictions and unloads | when the slot is evicted or removed under the runner, store by store, `Rebuilding` has a runner, no gate is left shut, and `Loaded` has a generation |
| `DispatcherReload` (`MCDispatcher`) | two slot objects of a key, a loader, a request, unloads, unwinding | a runner whose slot was removed, its key loaded again, publishes into neither (`UnregisteredIsBare`); an unwound one leaves no slot `Rebuilding` |
| `DispatcherAnswers` (`MCDispatcher`) | one slot, a loader, two requests, cancel and reset | every explicit caller is answered and every workspace leaves `Rebuilding` |
| `PersistRecovery` (`MCPersist`) | two transactions over an index or over none; crashes, failing steps, failing put-backs of the guard and of recovery's snapshot, a committed marker that is not removed; one observer | the pair is never torn (`NeverTorn`), a recovery leaves what was committed last (`RecoveryRestores`), a window always has a rollback name and is waited out (`WindowIsMarked`, `WindowIsWaitedOut`), and a sure answer of the lock-free check is right (`ProbeIsRight`) |
| `LockSafety` (`MCLock`) | two rebuilds and a persist of another process, two inodes whose numbers may be used again, one removal of the index, cancellation, exit | one helper per file, no lock kept for nobody, transactions exclude each other, an index removed while the lock file the wait opened stays is not written back (`RemovalIsSeen`), the exit cuts no transaction |
| `LockEnds` (`MCLock`) | the same with a fault of a helper and no removal | every wait ends (`WaitsEnd`), and a daemon that closed its gate exits (`ExitEnds`) |
| `WatcherPairs` (`MCWatcher`) | two slot objects, two callers, two generations, an edit, breaking event sources, shutdown | registration, tombstones, residents and shutdown, as above |
| `WatcherEnds` (`MCWatcher`) | one slot, one pair, three edits, a channel of one place, breaking event sources | a stopped pair ends with both tasks (`StoppedPairsEnd`), and a change that was seen is dispatched unless its pair was stopped (`ChangesAreDispatched`) |

Bounds. Two tasks on one slot are what the code's races need (a runner and a
loader, two requests, a loader and an eviction); a third request adds merging
into an entry already merged, which `LaneSafety` has. Two keys are needed only
for one workspace to evict another. `Graph` has one identity for each place
that can hold one at the same time, plus one to build. `Limit` and `Sizes` of
`ManagerLedger` make the budget hold one workspace and refuse the second, so
plans, oversize gates and refusals all happen; `DispatcherReload` has builds
larger than its limit; elsewhere the limit is out of the way. `Calls` chooses
which control operations an instance has, since together they are too many for
one. Two transactions are what a leftover of one needs to meet another, with
an initial pair below both; two attempts of the lock-free check include one
that is repeated. Two rebuilds share a helper, the other process holds the lock
meanwhile, and two inodes are a lock file and the one made after its removal;
an instance with `Reuse` has every behaviour of one without it.
Unwinding commits are in `ManagerReload` and `DispatcherReload`, where they are
not against the properties (below); larger instances than the runs pass as well:
`RebuildingHasRunner` with two requests, unloads and unwinding, and
`ImplementsLane` with two requests and unwinding.
Two generations of watchers are a pair and its successor (three, with no edit,
pass as well); a channel of one place is full after one change. Symmetry
permutes requests, graphs, callers, options and slot objects, which no
definition tells apart, and is not used with liveness. The type invariants of
`RebuildDispatcher`, `PersistTransaction` and `IndexWriteLock` hold on the
instances of their runs as well.

Deadlock is not checked for the lock and the watchers: their processes end,
and a daemon that has shut down does nothing more.

Fairness. A load and an iteration run on the runtime's threads to their end:
weak fairness of each one's steps. The lane is a `tokio::sync::Mutex`, which is
FIFO: strong fairness of the steps that wait for it. An eviction call and a
query return, and the reaper ticks every 25 ms: weak fairness. A persist and a
helper thread run, and a lock that stays free is given to one that waits: weak
fairness of each writer and helper. Both tasks of a watcher pair run, and the
map's lock, held for moments only, is had in the end: strong fairness of the
reap and of shutdown. Nothing obliges anyone to ask for a load, a rebuild, an
eviction, a reset or a cancellation, to edit, to remove an index or to stop
the daemon.

### Where the code departs from its documentation

These configurations end in a counterexample, each of a sentence in the
repository. They are kept for whoever changes that code:
`tlc -config <name>.cfg <module>`.

| Configuration (module, property) | The sentence | What happens |
|---|---|---|
| `ManagerDrift` (`MCManager`, `LedgerExact`) | `loaded_bytes` is the "Sum of `memory_bytes` across every workspace" (`admission.rs:100`); the prior bytes "are already counted in `loaded_bytes`" (`manager.rs:2665`) | an eviction between two loads' gates lets both publish into one slot; the one that updates `memory_bytes` last commits first, subtracts bytes that are not in `loaded_bytes` yet (`saturating_sub`), and the ledger stays too high |
| `ManagerPinned` (`MCManager`, `PinnedIsExempt`) | "`pinned = true` keeps the workspace in memory indefinitely (LRU exempt)." (`config.rs:593`) | every slot is created unpinned (`manager.rs:1584`), the pinned preload's too |
| `DispatcherEvicted` (`MCDispatcher`, `EvictionStopsIteration`) | "A runner's iteration that has not published yet must still see this eviction's cancellation after a load gate has run"; "it is mid-iteration exactly when the slot is `Rebuilding` here" (`manager.rs:1721`) | the eviction samples the state (`manager.rs:1726`), the runner enters `Rebuilding` (`rebuild.rs:2073`, without `workspaces`), the eviction stores flag and tombstone with `evicted_mid_iteration` false; one load gates the tombstone and consumes the flag (`manager.rs:1159`), and the runner publishes into that load's slot. A second eviction, in the load gate, does the same by clearing the mark. With `evict_lru`, `ResetStaysReset` and `UnregisteredIsBare` fail for these reasons, which is why their runs have resets or unloads only |
| `DispatcherUnwound` (`MCDispatcher`, `LoadedHasGeneration`) | a `Loaded` workspace is served `Fresh` (`manager.rs:2297`); the sentinel "leav[es] Rebuilding" (`rebuild.rs:4544`) | a rebuild of a workspace whose first load failed unwinds; its sentinel gives up the role (`rebuild.rs:4554`) before the state (4558); the next runner enters from `Rebuilding` over the placeholder, is refused, and `refused_state` makes it `Loaded`. An eviction under the unwound runner does it with one runner. `ResetStaysReset` fails too: the late exchange takes `Rebuilding` from the runner that has entered since, and a load its slot |
| `DispatcherServe` (`MCDispatcher`, `ServingHasGeneration`) | "`Loaded` or `Rebuilding`" is served `Fresh` (`manager.rs:2297`) | a rebuild of a workspace whose first load failed is `Rebuilding` over the placeholder |
| `PersistTorn` (`MCPersist`, `NeverTorn`) | "the manifest never reappears beside a snapshot it does not describe" (`write_guard.rs:1266`); "the index is absent, never torn" (`entrypoint.rs:2125`) | recovery puts a snapshot back and fails to rename the manifest, which is only logged (`write_guard.rs:644`); the hold goes on to a second transaction, which crashes after its snapshot; the next recovery takes the older set first, which has a manifest and no snapshot any more, and puts that manifest beside the second transaction's snapshot |
| `LockReused` (`MCLock`, `RemovalIsAlwaysSeen`) | the check is armed by an index "committed while it waited" (`rebuild.rs:3892`); a wait ends when "The path no longer names the lock file the wait opened" (`write_guard.rs:154`) | a contended wait closes its lock file (`write_guard.rs:439`) and keeps only its device and inode number; the index is committed, removed, and the number is given to the next lock file, whose commit count starts again: the rebuild writes the removed index back. A note of the tests has ext4 giving the number again in 20 of 20 rounds (`write_guard.rs:2577`), so this is the ordinary case; `RemovalIsSeen` is what holds of it |

`LaneAnswers.cfg` (`MCLane`) is the liveness of the abstract lane alone; the
runs have it of the dispatcher itself.

Without a configuration; the model has the steps of these schedules too:

- "a load that raced the eviction must still see it at its publish recheck"
  (`rebuild.rs:1930`): an eviction between `enter_loading_state` and the swap of
  the flag, for a load that entered from a tombstone, is consumed by that load,
  which then stores `Loaded` over the new tombstone.
- "a reset leaves no cancellation behind" (`manager.rs:1859`): a load between
  its swap of the flag and its store (`manager.rs:1159`, `1163`), with an
  eviction and a reset between the two, sets the flag again on an `Unloaded`
  slot nobody runs.
- A slot may be left `Rebuilding` with no runner: `RebuildingHasRunner` fails
  with two loaders of one slot. A load stalls between entering the gate and the swap of
  the flag (`manager.rs:1159`); an eviction and a second load make the slot
  `Loaded`; a rebuild enters it and, at its publish re-check, meets a
  `daemon/cancel_rebuild`, whose transition it leaves to the gate; the first
  load swaps the flag away; the gate sees no cancellation and the runner
  releases the role with the slot still `Rebuilding`. The runs have one loader
  per slot.
- A load that is abandoned "Put[s] a gated slot back as the gate found it" and
  "an entry this load inserted is removed" (`manager.rs:1085`, `1092`). With two
  loaders of a key the entry may not be the load's own any more: one inserts the
  slot and waits at its gate; the other loads it; a rebuild of it is cancelled
  and leaves it `Unloaded` over its generation; the first gates it from
  `Unloaded`, is refused, and removes it (`manager.rs:1112`) with its graph
  published and charged, where nobody can evict it. `UnregisteredIsBare` fails.
- A cancellation "is consumed by the runner it was aimed at and never outlives
  it" (`rebuild.rs:1777`): one that takes the lane between the gate and the
  release of a cancelled drain (`rebuild.rs:1832`) is left for the next runner.
- "no watcher is left running with a clear signal on a tombstone"
  (`loaded.rs:688`): a watcher armed while a load holds the gate stays armed
  when that load is abandoned and the tombstone put back. `TombstoneIsUnwatched`
  says it of tombstones that a writer stored, and leaves out the phase
  `PutBack`.
- "so its set-aside window never reads as no index" (`persistence/mod.rs:229`):
  `exists` looks twice, and a transaction that begins between the two looks, or
  between the wait and the second look, is missed. `WindowIsWaitedOut` says it
  of the window a reader came into.
- A best-effort removal that fails (`write_guard.rs:1515`, `entrypoint.rs:2272`)
  leaves a set that a later interrupted persist takes for its own.
  `PersistRecovery` has it for the committed marker, which does no harm.
- "re-observes the divergence and retries" (`dispatch_loop_async`'s doc): a
  change whose rebuild failed or was cancelled is not dispatched again until
  another file event comes.
- "the IPC server returns only once no watcher thread is left"
  (`rebuild.rs:3474`): the map is empty as soon as the async task has reaped
  its entry, while its blocking thread may not have polled its signal yet; and
  a replaced pair is not in the map at all.
- A `start_watching` between the end of a thread whose event source broke and
  the clearing of `live` keeps that pair, and the workspace stays unwatched.

## 4. Proofs

### The registry

For any sets of keys, slots, loaders, runners, readers, graphs, any limit and
any sizes (the named `ASSUME`s of `WorkspaceManager`):

- `TypeCorrect`: `Spec => []TypeOK`. Inductive with `TaskHasSlot` (a task
  between its gate and its end has a slot).
- `ResidencyInvariance`: `Spec => []ResidencyInv` when no commit unwinds. The
  invariant is needed because neither "a tombstone is bare" nor "Loaded has a
  generation" is inductive: a load stores `Loaded` unconditionally, so its
  publication must be known to be visible (`SwapIsVisible`), hence no eviction
  since the swap (`WriteLockFree`), hence into a registered slot
  (`PublishesIntoMap`); and an abandoned load removes a slot, which must be bare
  because nothing but `Loaded` or a publication stands over a generation
  (`OnlyLoadedHolds`). It holds with any number of loaders in the gate at once.
- `LoadedServes`, `TombstonesAreBare`, `RemovedSlotsAreBare` follow from it.
- `HeldGraphsStayCharged`: `Spec /\ []SinglePublisher => []HeldGraphsAreCharged`,
  when no commit unwinds: the premise is on the schedule, not on the constants,
  and any number of loaders may be in the gate. The invariant (`ChargeInv`) says
  where `memory_bytes` may lag behind the graph: a slot with a generation is
  charged except between a swap and its memory update
  (`GenerationIsCharged`), and what a publication replaced was charged
  (`ReplacedIsCharged`). `HeldGraphsAreChargedAlone` discharges the premise when
  each key has one loader, as in the run `ManagerLedger`. The premise is needed:
  with two loaders of one slot a failing load leaves the slot `Failed` in
  the middle of the other's publication, where a query is served the new graph
  that the slot is not charged for yet; the next load replaces that graph before
  the first updates `memory_bytes`, and retains it at 0 bytes
  (`manager.rs:2645`).

The ledger (`WorkspaceLedger_proofs`), with commits that unwind:

- `ReservationsAreExact`: `Spec => []ReservedExact` on every schedule.
  `reserved_bytes` is the sum of the live reservations, so no `saturating_sub`
  on it ever saturates: each task gives back once, at whichever of its exits,
  what it added.
- `LedgerIsExact`: `Spec /\ []SinglePublisher => []LedgerExact`. `loaded_bytes`
  is the sum of the slots' bytes, less what publications have stored and not
  committed yet. The subtraction of a commit is exact because the bytes it found
  were charged (`LoadedInv`), and that takes `RollbackExact`, what a publication
  remembers of the slot it would roll back to. The premise is that of
  `HeldGraphsStayCharged`; `ManagerDrift` is the counterexample without it.
- `ResidencyWithUnwinding`: `ResidencyInv` under the same premise, in place of
  `~MayUnwind`. `LedgerIsExactAlone` discharges the premise for one loader per
  key. `HeldGraphsStayCharged` keeps `~MayUnwind`: a reader may hold the new
  graph that an unwinding commit takes back.

Sums are folds in an order that `CHOOSE` picks. That they are sums in any order
needs induction over finite sets, done as the existence of a least
counterexample (`WFMin`, `NatLessThanWellFounded`) with the property given as a
set; it is what `FiniteAssumption` (finitely many slots and tasks) is for.

### The lane

For any callers, workspaces and options:

- `LaneInvariance`: `Spec => []LaneInv`, the conjunction of the lane's types, one
  runner per role, the lane as a mutex, what is parked merging with what is
  about to park, entries only with runners, callers in one place, and options
  shared. Each conjunct has its step lemma.
- `OneRunnerAlways`, `WaitersAgree`, `CallersAreOwned` follow from it.
- `NoStrandedRequest`: with no unwinding drain loop, a parked entry has a
  runner; the role is given up only with the lane free and empty.

### The dispatcher implements the lane

For any keys, slots, loaders, requests, limits, sizes, options and control
operations, commits that unwind included:

- `DispatcherRefinesLane`: `DispatcherSpec => ImplementsLane`. Every visit of a
  request to the lane is one step of `RebuildLane`, or none: a runner that finds
  only a cancellation goes round, one that finds nothing parked takes nothing.
  Three shapes of step are stutters: a runner inside its drain loop
  (`InnerStep`), a load (`LoadMoves`), and whatever moves no task
  (`OutsideStep`). The one that needs an invariant is a load that registers a
  slot object anew and clears its `rebuild_in_flight`: by `RoleIsHeld` the flag
  is set only while a runner drains the slot, and a fresh object has nobody. What
  `RebuildLane_proofs` proves of the lane is thereby true of the dispatcher.
- `DispatcherInvariance` is the invariant: types, places (`TaskIsPlaced`,
  `HandIsEmpty`, `UnwoundMay`), the role (`RoleIsHeld`, `OneDrains`) and
  `LoadingHasOwner`.
- `DispatcherHasOneRunner`: `Lane!OneRunner`, of the registry's own flag.
- `GatesAreOwned`: `LoadingHasOwner`. It needs that no gate and no iteration
  remembers `Loading` as the state to go back to.

### The dispatcher and the loads

What a rebuild leaves of its workspace, for the same constants, with evictions,
unloads, resets and cancellations landing between any two steps, store by store.
Neither property holds on every schedule (section 3). The premise is on the
schedule: `OneLoadPerSlot`, no two loads are past the gate of one slot. The gate
is an exchange, so a second load gets in only when an eviction took the gate of
the first while it runs on.

| Theorem | Premises | Property | Why it holds |
|---|---|---|---|
| `RebuildingIsRun` | `OneLoadPerSlot` | `RebuildingHasRunner` | a runner whose slot says `Rebuilding` between two iterations has a cancellation ahead of it (`IterationOpen`), which nobody consumes but its gate: a load past a gate works on a slot no runner can enter (`LoadHolds`); an unwound runner between its two stores is `LeftBehind` |
| `LoadedIsServed` | `OneLoadPerSlot`, `~MayUnwind` | `LoadedHasGeneration` | whoever publishes carries a graph (`HasGraph`) and holds the lock a tombstone needs; an iteration that would go back to `Loaded` when refused is over a generation or under a tombstone that will overwrite it (`RunStands`, `Stands`) |

`RoleInvariance` and `GenerationInvariance` are the inductive invariants, the
second resting on the first and both on `DispatcherInvariance`. Neither needs an
eviction to stop the iteration it caught, which the code does not achieve.
When each key has one loader, as in the runs, the premise on loads holds: a slot
is found only under its own key (`OwnKeys`), and `RebuildingIsRunAlone` and
`LoadedIsServedAlone` state the properties with no premise on the schedule.

### Watchers

For any slots, callers, generations, edits and channel sizes:
`WatcherInvariance` has the invariant `WatcherInv`, and `TypeCorrect`,
`RunningIsRegistered`, `TombstonesAreUnwatched`, `ResidentsAreWatched` and
`ShutdownReachesAll` follow. "A running pair is the registered one" is not
inductive: it takes that a pair and its two tasks agree (`PairsAgree`), that a
generation is used once (`FreshPairs`), that a caller in the map's lock holds
what it looked up (`CallersAgree`), and that the signal in a slot is the one of
the last pair armed on it (`SignalsAreArmed`, `SignalIsHeld`), so that stopping
the slot stops that pair. `ShutdownReaches` follows a shutdown through its three
steps.

### The persist lock

For any writers, inodes, removals and faults: `LockInvariance` has `LockInv`,
a place invariant of each writer and helper, and from it follow `TypeCorrect`,
`HelpersDoNotPileUp` (`OneHelperPerFile`), `LockHasWaiter` (`LockIsWanted`),
`Exclusion` (`TransactionsExclude`) and `ExitCutsNothing` (`NeverCut`, an action
property). Exclusion needs that whoever is past its check holds the lock of a
file the path named at the check, that the path names a file in use, and what
the gate counts. `RemovalsAreSeen` (`RemovalIsSeen`, an action property) holds
whether or not inode numbers are used again. Its scope is in the property: the
lock file has not been unlinked since the wait opened it. It rests on `CurrentOK`
(such a file is the one the path names, so nobody gets its number) and `ReadOK`
(the commits on it since the count was read are still counted). Past an unlink
the sentence is false (`LockReused`).

### The pair on disk

For any number of transactions, observers and attempts, over an index or over
none: `PersistInvariance` has `PersistInv`, and `TypeCorrect`, `PairIsNeverTorn`,
`RecoveryIsRight`, `WindowsAreMarked` and `WindowsAreWaitedOut` follow. The
invariant says at each step of a transaction, of its undoing and of a recovery
where the two files of the last committed pair are: in place, aside under the
names of the one open rollback set, or on their way back, the snapshot always
first. "Never torn" alone says nothing of a recovery that will put a manifest
back; "at most one set is open, and it holds the last pair" does.

These theorems assume `Bearable`: `Faults` has none of the five failures after
which the code goes on and leaves a set that is no longer the last pair's. One
is recovery's rename of the manifest, which only logs its failure: with it
`NeverTorn` is false (`PersistTorn`). The others are removals that are best
effort (the new snapshot's, a set's manifest's, snapshot's and begun marker's).
A crash between any two steps, a failing step of a transaction, a failing
undo, a failing put-back of the snapshot and a committed marker that stays are
all inside the assumption, and in the run `PersistRecovery`.

`ProbeAnswersAreRight` (`PersistProbe_proofs`): under `Bearable` a sure answer of
`holds_committed_index`, which reads and lists without the lock, was right at
some moment of its reads. `ProbeInvariance` has the invariant. `SnapshotInv`
relates the snapshot to the markers: once an index is committed there always is
a snapshot, and before that one in place belongs to a transaction whose marker
says there was none. `ProbesInv` relates what a check has read to what is on
disk now: one that began over a committed index and found no manifest sees no
set that would remove the snapshot (`SawCommitted`); while nothing is
committed it sees nothing to put back (`SawNothing`), and the marker of a
snapshot it opened, if that is still there (`SawMarker`). What
`leaves_an_index` computes over the sets it listed is a recursive function,
taken through its `CHOOSE` with the same induction by a least counterexample.

### Only model-checked

Liveness (`LoadingEnds`, `RetainedDrains`, `CallersAreAnswered`,
`RebuildingEnds`, `WaitsEnd`, `ExitEnds`, `StoppedPairsEnd`,
`ChangesAreDispatched`) needs fairness, which is out of the prover's reach.
`ResetStaysReset`, and `UnregisteredIsBare` with runners at work (it is proved of
loads alone), are invariants of their runs only: an iteration that an eviction
caught may go on (`DispatcherEvicted`), so what they say depends on which calls
an instance has. `ServingHasGeneration`, `PinnedIsExempt` and, without their
premises, the properties of section 3's counterexamples are false. That the
premises `SinglePublisher` and `OneLoadPerSlot` hold whenever each key has one
loader is proved.

## 5. What is not modelled, and the plan

In order:

1. *Proofs*: the ledger with runners (the sums are proved of loads), the
   dispatcher's full type invariant, and `ResetStaysReset` where nothing evicts.
2. *Coalescing*: changed files, git class (`merge_git_class`), baseline and
   requester precedence in `PendingRebuild`, checked against a reference of what
   a sequence of requests should amount to, with the order-dependent cases.
3. *Second reservation* of a persist (`top_up`), in the dispatcher.
4. *Serving*: `classify_for_serve`'s age cap, the acquirer's rehydration and its
   retries.
5. *Revision artifacts and core caches*.

Left out for good: parsers, grammars and plugins (generated or per-language
extraction), query evaluation and rules (pure evaluation over an immutable
graph), front ends, pid file, signals and log rotation (operating-system
behaviour), framing and validation of messages. By line count the repository is
mostly C, some 1.5 million lines of generated tree-sitter parser tables under
`src/crates/*/grammar-src`: tables without control flow of their own, which no
model of sqry's logic covers. The modelled code is Rust.

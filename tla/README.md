# GlifiStore in TLA+

TLA+ models of GlifiStore: its persistence, the concurrent runtime above it, the server and the client,
background maintenance and the tools that copy a Store. They are checked with TLC on small instances
and, where section 4 says so, proved with TLAPS for every value of the constants. Paths are relative to
the repository root; `PROJECT.json` maps every definition to the lines it models.

1. [The system](#1-the-system)
2. [Modules and how they correspond to the code](#2-modules-and-how-they-correspond-to-the-code)
3. [Runs](#3-runs)
4. [Proofs](#4-proofs)
5. [Where code and documents disagree](#5-where-code-and-documents-disagree)
6. [Limits of the models](#6-limits-of-the-models)
7. [Not modelled](#7-not-modelled)
8. [Plan](#8-plan)

## 1. The system

GlifiStore is a key-value store. Keys are routed to Workers; a Worker owns an Index and a log of
append-only Segments, one of them active. A volatile Store keeps Segments in memory. A durable Store
keeps each in a file and lists the files in a Manifest; its modes differ in when a mutation is
answered: after its own commit (`durable_sync`), after the commit of its batch (`durable_group`), or
before a periodic commit (`durable_periodic`). In the paired runtime one executor at a time mutates a
shard and publishes immutable read generations that Readers adopt without locks. `glifistored` serves
it over TCP, TLS and Unix sockets with one reactor per Worker.

| part | state | operations | what makes it hard | what it must guarantee |
| --- | --- | --- | --- | --- |
| Segment file (`persistence/segment_file*.cpp`) | Record area, two commit slots, selected and persisted commit, page cache | append, flush, seal, sync, open | power loss or kill between any two system calls, torn slots, failed writes that landed | acknowledged Records survive, rejected ones never return, the file always opens |
| Manifest (`manifest.cpp`, `compaction/`) | entries, revision, next id | initial, rotation and compaction successors, validation | identities across compactions | one active Segment per Worker, a transition changes one Worker |
| Data directory (`filesystem_directory.cpp`) | names, pending name changes | publish, create, promote, retire, sync, audit | name changes reach the disk in any subset until the directory is synchronised | what a surviving Manifest lists is there |
| Runtime catalog (`bootstrap.cpp`, `runtime_catalog*.cpp`, `recovery/`) | Manifest, Index, publication lease, health | open, recover, rotate, compact, fail closed | crashes inside recovery itself, stale snapshots, lease waiters | the Store opens again and shows exactly the committed mutations |
| Group commit (`runtime_catalog_mutate_ops.cpp`, `_batch.cpp`, `_rotate_ops.cpp`, `durable_flush_coordinator.cpp`, `store_access.cpp`) | Worker mutex, I/O reservation, batch, waiters, coordinator | put, erase, flush, Writer batch, rotate, close | the mutex is given up around I/O; condition variables; partial batches | every call returns, with the truth |
| Read generations (`store/paired/read_generation*`, `generation_slot_pool.cpp`, `lane_publication.cpp`) | base, delta, merge, slots, leases | publish, retire, reclaim, merge | Readers hold old generations; publication after commit can fail | every generation is a point of the history; held ones stay |
| Combining lane (`shard_pair_runtime_sync_lane.cpp`, `volatile_sync_chunk.cpp`) | node stack, execution token, chunk | put, erase, batches, fail closed, drain | flat combining, one thread executes for others | acknowledged is visible, refused is not applied |
| Store lifecycle (`store_impl.hpp`, `store.cpp`) | admission, fence, lifecycle | operation guard, backup fence, close | everybody waits for everybody | close ends; admitted operations complete |
| Dedicated Writer and asynchronous lane (`shard_pair_runtime_writer_*.cpp`, `mutation_*`) | payload slots, queues, batches | submit, coalesce, expire, deliver | completion order, queue bounds, drain deadline | one completion per admission |
| Server (`server/reactor*.cpp`, `connection_handoff.cpp`, `server_lifecycle.cpp`) | connection slots, buffers, windows, leases | accept, bind, dispatch, complete, time out, stop | slot reuse, half-close, edge-triggered readiness, handoff against stop | responses in order, decided responses not lost, a GET sees acknowledged PUTs |
| Disk read executor (`server/disk_read_executor.cpp`) | slots, rings, cancellation epochs | submit, read, complete, stop | stop against sleep, slots that come back after the completion | one completion per accepted read |
| Maintenance (`store/maintenance*.cpp`) | pressure, gate, guard, backoff | evaluate, compact, stop | early returns of a long evaluation; stop in the middle | the emergency gate is never left armed for nothing |
| Backup, migrate, repair, verify (`store_backup.cpp`, ...) | source and destination directories | copy, verify, swap | crash between copies | the destination is complete or not a Store |
| Client (`client/*.cpp`) | connection per Worker, health | call, pipeline, batch, reconnect | retry, timeouts, partial sends | committed, rejected or indeterminate, truthfully |
| Reads and hot cache (`runtime_catalog_read_ops.cpp`, `hot_record_table.hpp`) | hot records, file pins | get, cold read | compaction retires files under a reader | a value that was current |
| Index (`index/*.cpp`) | control bytes, slots, key arena | find, insert, erase, grow, rebuild | deleted slots and probe order | it is a map |
| Volatile Worker and vacuum (`worker/`, `segment/`, `vacuum/`) | Segments in memory | put, erase, vacuum | liveness accounting | vacuum keeps what the Index refers to |

The remaining parts (codecs, TLS and socket wrappers, configuration, statistics, logging, policy
lookups, C ABI, command line, the experimental prototype) have no protocol of their own;
`PROJECT.json` lists them with the reason they are left out. The hazards found while reading, at the
line where each bites, are listed there as well.

## 2. Modules and how they correspond to the code

```
SegmentFile ── MCSegmentFile, SegmentFileProofs      WorkerCommit ── MCWorkerCommit
Manifest ── DataDirectory ── Catalog ── MCCatalog
                                └─ CatalogNames ── CatalogProofs
ReadGeneration ── PairLane ── MCPairLane
                     └─ PairLaneHistory ── PairLaneWork ── PairLaneProofs
MutationLifecycle ── WriterLane ── MCWriterLane      (WriterLane implements MutationPromise)
Wire ─┬─ Reactor ─┐                     SwissTable ── IndexPartition ── MCIndexPartition
      └─ Client ──┴─ Service ── MCService            VolatileWorker ── MCVolatileWorker, VolatileProofs
Maintenance ── MCMaintenance, MaintenanceProofs      StoreTools ── MCStoreTools
```

Each part is modelled once in detail, and once more by its promise where another part uses it. The
durable path has three levels: `SegmentFile` (system calls on one file), `WorkerCommit` (threads around
appends and commits of a Worker) and `Catalog` (names, Manifests and recovery around whole appends).
`WriterLane` details the Writer whose promise `Reactor` relies on; `IndexPartition` details the map that
`VolatileWorker` and `Catalog` use; `StoreTools` and `Maintenance` take what `Catalog` does as one step.

**`SegmentFile`** is `DurableSegmentFile`. `cells`/`slots` are what the process reads, `dcells`/
`dslots` what is on stable storage, `fcells`/`fslots` the writes in flight; `PowerLoss` keeps any of
them for each cell and slot and may tear a slot, `Kill` keeps the page cache. `selected`, `persisted`
and `pending` are the handle's members. `append_record`, `flush_pending_commit`, `publish_commit`,
`seal` and `sync_file` are split at their system calls (`pc`), each with its refusal before and its
failure after the effect; `Open` is `select_newest_segment_commit` with the scan. A Record is its
sequence number.

**`Manifest`** has the pure Manifest operations: `InitialManifest`, `RotationManifest`,
`CompactionManifest`, `ValidManifest` and `ValidCompactionTransition`.

**`DataDirectory`** has the namespace: `dir` is what the process sees and `may` every namespace a
power loss could leave. Operators such as `PutManifest` are single renames or unlinks,
`SafeForRecovery` and `SafeForCompactionRecovery` the audits, `ScanAccepts` and `Latest` the recovery
scan of `recovery/`.

**`Catalog`** is `DurableRuntimeCatalog` from bootstrap to close. A `task` is the program that now
changes names (bootstrap, recovery, completion of a rotation or of a compaction, rotation,
compaction), one action per system call; `lease` is the publication lease, `mut` the clients that met
a full Segment, `job` a compaction before it takes the gate. A failure at a step is clean or poisons
the directory, as in the code. `hist` remembers the mutations that were committed.

**`WorkerCommit`** has the threads: clients, the flush coordinator and the owner that closes. `pc`
stands at the points where the code locks, unlocks or waits; `mutex`, `io`
(`mutation_io_active`), `closing`, `queue` (the staged batch), `target` (the adaptive batch size),
`lease` and `sleep` (condition variables) are the code's. `Reserve` to `Relock*` are `mutate`,
`FlushIO` and `Publish*` are `flush_worker_batch`, `Rotate*` is `rotate_active`, `Wake` the
coordinator's loop. With `env.writer` a client submits the paired Writer's batches
(`store_access.cpp`).

**`ReadGeneration`** has the pure operations on a pool of generations: `Commit`, `Reclaim`,
`PublishIncremental`, `PublishBesideMerge`, `PublishSnapshot`, `StartMerge`, `Advance`,
`FinishMerge`, `EndMerge`, and the admission test `Admitted`. A view is a base and a delta, functions
from keys to positions of the log; the delta's arenas are their counters.

**`PairLane`** runs them: callers push nodes, take the token and execute for the others
(`combine_sync_lane`, `process_sync_lane`), volatile nodes in chunks (`volatile_sync_chunk.cpp`: `Apply`
is one node of a chunk, which is then published as a whole), durable ones singly with execution, capture and publication as separate steps and the answer after a
failed publication decided by whether the Store had committed. Readers lease, adopt and drop; the owner
fences for a backup or closes. Generations live in the slot pool, a configuration that has to be asked for
(`generation_slot_pool`, false in `store/config.hpp:197`).

**`MutationLifecycle`** has the class of that name (`mutation_state.cpp`): each method is an operator
from a lifecycle to the lifecycles a successful call leaves, none where it refuses. **`MutationPromise`**
is the abstract specification: each mutation moves along legal calls only, whatever the others do.

**`WriterLane`** is one lane of the paired runtime with its dedicated Writer: the Reactor submits into
the bounded queue (`queue`, `pool` of payload slots), synchronous callers push `sync`, the Writer takes
batches (`carried`, `carriedSync`), executes them as the durability mode asks, publishes and delivers
`completions`; the drain deadline expires what is queued, the owner stops the lane, a failed lane
abandons. `pc` and `work` are the Writer's place and batch. `LifecycleHolds` is the refinement: the state
of the queues, results and answers mapped to one lifecycle for each mutation implements
`MutationPromise`. A publication counts as the Writer recorded it: `missed` holds the mutations that a
second drain shows to Readers after the first one failed, which their callers are told are unavailable.

**`Wire`** has the values that travel (frames of requests and responses), sockets with their bounded
buffers, and the environment. **`Reactor`** is the server: `conn` are the connection slots with their
generations, `at` where each Reactor thread is (loop, decoding, flushing), `lane` and `reads` the
asynchronous mutation lane and the disk-read lane with its pinned epochs and its thread (`pc`, `task`,
`awake`: two looks at the queue, a sleep on the signal, the slot returned after the completion), `mesh`
the handoffs of BIND, whose check and push are two steps, `life` and `server` the shutdown. **`Client`** is the C++ client: `job` is a call's part on one Worker
(`connect`, INIT, BIND, send, receive, retry once), `cc` the connections behind their mutexes, `results`
what calls returned. **`Service`** puts them together with a network that may cut connections.

**`SwissTable`** has the open-addressing table as a record and its operations as functions (`Find`,
`InsertOrAssign`, `Erase`, growth, rebuild in place, key arena and its compaction). **`IndexPartition`**
uses it as its owners do: directly, by prepare and publish, and by group, with allocation failures.

**`VolatileWorker`** is a Worker of a volatile Store with the Segment manager and the vacuum, under the
Worker mutex or, for the exclusive Writer of a paired Store, under the quiesce gate (`writer`,
`holders`, `gate`).

**`Maintenance`** is the background controller: `ctl` its published state (pressure, gate, guard,
backoff, cursor), `pc` its place in `evaluate_once` with each early return, beside the mutations that
need Segments, manual compactions, other users of the filesystem and `close`.

**`StoreTools`** has `store_backup.cpp`, `Store::backup_to`, `store_repair.cpp` and `store_migrate.cpp`:
a directory maps names to contents, `safe` holds the names whose entry is synchronised, `job` is a tool's
place; processes die and power fails between any two steps.

## 3. Runs

Bounds are constants of the configurations. A behaviour of most models lives in one *environment*
(`env`, `scenario`): what callers ask, how the machine may fail and how often. One run checks all its
environments, so that each stays small while together they cover the combinations that matter.

| run | instance | distinct states | result |
| --- | --- | --- | --- |
| `segment_pass` | 2 cells, 4 Records, 2 crashes; immediate commits with seals and power loss; deferred commits with kills | 100,853 | pass |
| `catalog_one` | 1 Worker, 2 keys, Segments of 1 Record, 4 Records, 4 Segments; 5 environments with 2 power losses, or kills and up to 2 I/O errors | 652,093 | pass |
| `catalog_workers` | 2 Workers, 2 clients; power loss or poisoned directory; fairness | 63,576 | pass |
| `commit_pass` | 2 clients and the coordinator, 3 or 4 calls; 6 environments, single faults; fairness | 134,697 | pass |
| `lane_pass` | 2 callers, a Reader, 3 calls, 3 slots (64 + 1 in the code); 7 environments, up to 2 faults; fairness | 567,736 | pass |
| `writer_pass` | up to 4 mutations through 2 cells and the synchronous list; 13 environments, three durability modes, up to 2 faults; fairness | 335,976 | pass |
| `service_pass` | 2 client threads, 2 Reactors, 3 sockets; 14 scenarios, up to 2 faults; fairness | 447,822 | pass |
| `index_pass` | 5 colliding keys of four sizes, groups of 2 slots; 4 environments with failing allocations | 21,451 | pass |
| `volatile_pass` | 3 keys, Segments of 2 Records, 6 Segments; the mutex with 2 control threads, the exclusive Writer with 1 | 1,531,024 | pass |
| `tools_pass` | 2 tools, 2 keys, 2 changes of the source, 2 or 3 invocations; 5 environments with kills and power loss; fairness | 378,562 | pass |
| `maintenance_pass` | 2 Workers, Segments of 2 units, 7 Segments; 4 environments, up to 4 changes and 2 faults; fairness | 268,880 | pass |
| `commit_boundary` | 3 producers at the end of a Segment | | violation, section 5 |

What they show:

- `segment_pass`: two crashes between any two system calls lose no acknowledged Record
  (`AcknowledgedSurvive`), bring back none that was reported as not committed
  (`RejectedNeverRecovered`) and leave a file that opens (`AlwaysRecoverable`); `SlotsAreSound`: a slot
  never authorises a Record that is not on disk, the last durable slot is never overwritten, and the
  inductive invariant of the proofs holds; a seal is final (`SealIsFinal`). Two cells give the extents
  none, one and full; two crashes give a recovery from the result of a recovery; four Records let a
  rolled-back Record be overwritten and the Segment fill again.
- `catalog_one`: whatever crashes or errors happened in creation, rotation, compaction and recovery,
  the Store opens (`AlwaysOpens`) and shows exactly the committed mutations, erasures and expiries
  included (`RecoveredState`); the Index never refers to a missing file (`IndexResolves`); a Manifest
  that may survive is complete and agrees with the compaction intent (`AuthorityIsComplete`). Segments of
  one Record make each second mutation rotate; four Segments reach the Segment limit.
- `catalog_workers`: the same (`StoreIsSound`) with rotations of two Workers and a compaction competing
  for the lease; every waiter gets an answer and the lease is released (`MutationsEnd`), a stopped Store
  opens again (`Reopens`).
- `commit_pass`: with the Worker mutex given up at every I/O, acknowledged mutations are committed in a
  form recovery accepts and a successful flush covers what was staged before it (`PromisesKept`), refused
  ones are not (`RefusedStayOut`), the Index is exactly what is committed and one thread at a time has
  the active Segment (`WorkerIsConsistent`), every call returns and close ends (`EverybodyReturns`).
- `lane_pass`: every generation a Reader can see is one point of the shard's history
  (`GenerationsAreHistory`); success means visible, refused means never applied, the order of calls is
  kept (`AnswersAreTrue`); held generations and merge cuts are not reused and an admitted mutation finds
  a slot after it is committed (`SlotsAreKept`); the merge keeps pace and the runtime does not fail closed
  by itself (`MergeKeepsPace`); close ends (`StoreCloses`).
- `writer_pass`: every mutation follows the lifecycle of `mutation_state.cpp`, whatever the batches,
  expiries and faults (`LifecycleHolds`, a refinement); an answer agrees with what is read, completions
  fit their queue and payload slots come back in order (`AnswersAreTrue`); everybody is answered and a
  lane told to stop stops (`EveryMutationAnswered`). Two cells make the queue, the pool and the
  completion queue full; three mutations more than fill a batch.
- `service_pass`: what a call reports is so, through lost connections, retries, timeouts, refusals and
  shutdown, and a connection no call holds carries nothing (`ClientsAreTold`); a GET returns nothing older
  than what was committed before it was called (`ReadsAreCurrent`); pinned epochs are not released
  (`PinsHold`); each socket has one owner, and a Reactor that has ended leaves only handoffs that overtook
  the stop (`SocketsAreOwned`); every call and every shutdown ends, the disk-read threads' included
  (`Quiesces`). A slot is reused while completions of its last connection are under way, buffers of two
  responses fill, and both Reactors hand connections over.
- `index_pass`: the table is the map of what was last stored and every probe ends (`TableIsSound`); what
  was prepared for absent keys needs no memory when it is published (`PreparedInsertsFit`). The keys share
  group, fingerprint and tag, so lookups pass full groups and tombstones.
- `volatile_pass`: reads return the last acknowledged put, and Writer and vacuum never own the Index
  together (`IndexIsLatest`); live counts are exact (`LivenessIsExact`).
- `tools_pass`: a copy that verifies is the source at one moment (`CopyIsSnapshot`); a reported
  backup still verifies after a power loss, and a reported repair verifies and keeps what it sets aside
  (`ReportedCopyLasts`); a finished migration shows what the source showed, if the source changed or
  Records expired meanwhile, not both (`MigrationComplete`); every invocation returns and
  admission reopens (`ToolsReturn`).
- `maintenance_pass`: the gate opens for good at stop and close frees nothing in use (`StopIsFinal`);
  while anything can be reclaimed and automatic compaction is on, refused mutations are admitted again
  (`NotWedged`); a Worker worth
  compacting is compacted (`ReclaimHappens`).

Every property has a mutant of the code's translation that violates it under the same configuration
(`PROJECT.json`, "mutants").

**Fairness.** Nobody has to call anything, and nothing has to fail: only threads inside the system are
fair. `Catalog`: weak fairness of the program that runs, of each client inside a mutation, of recovery
and of the operator who restarts; strong fairness of a client that re-takes a mutex others keep
releasing. `WorkerCommit`: strong fairness of each client's and the coordinator's steps, since each needs
the Worker mutex, which others take and release for ever and which a thread contending for it obtains in
the end; weak fairness of timers and of close. `PairLane`: weak fairness of the executor, each caller,
each Reader inside a read and the owner, which are running threads without locks. `WriterLane`: the
Writer, callers in a call, the Reactor that polls its completions and an owner that has begun to stop.
`Service`: each thread; the poller and the completion wakeups report what is ready; stop requests, drain
deadlines and faults need not come. `StoreTools`: the tool's and the daemon's threads. `Maintenance`: the
controller's thread, close once begun, admitted operations and the passing of time.

**Deadlock** is checked in `commit_pass`, where `Terminated` is the only allowed end. The others may
stop: a budget of crashes, calls or changes is used up, a Store or server has closed, or an Index has
failed closed.

## 4. Proofs

| theorem | module | statement |
| --- | --- | --- |
| `CrashSafety` | `SegmentFileProofs` | `ASSUME SealsAreImmediate PROVE Spec => []CrashSafe` |
| `AcknowledgedSurvival` | | `... []AcknowledgedSurvive` |
| `RejectionIsFinal` | | `... []RejectedNeverRecovered` |
| `Recoverability` | | `... [](AlwaysRecoverable /\ KnownValidSlot)` |
| `SlotSafety` | | `... [](SlotsAuthoriseOnlySyncedRecords /\ KnownValidSlot)` |
| `TypeCorrect` | | `... []TypeOK` |
| `SealFinality` | | `ASSUME ImmediateOnly PROVE Spec => SealIsFinal`, which relates every later state to the one the seal returned in |
| `QuiesceExcludes` | `VolatileProofs` | `ASSUME OneControl PROVE Spec => []IndexHasOneOwner` |
| `GetsAreLatest` | | `... []IndexIsLatest` |
| `LiveCountsAreExact` | | `... []LivenessIsExact` |
| `GenerationsAreKept` | `PairLaneHistory` | `Spec => []SlotsAreKept` |
| `ReadersSeeHistory` | `PairLaneProofs` | `ASSUME NoVolatileThrow PROVE Spec => []GenerationsAreHistory` |
| `CallersAreToldTheTruth` | | `... []AnswersAreTrue` |
| `StopSafety` | `MaintenanceProofs` | `Spec => []StopIsFinal` |
| `InitialIsSound`, `RotationIsSound`, `CompactionIsSound` | `CatalogNames` | the Manifest transitions keep `SoundManifest` and introduce only unused identities |
| `CompactionIsAccepted` | | recovery accepts the intent of every compaction and reads from it the planned number of outputs |
| `AuthorityHolds` | `CatalogProofs` | `ASSUME TameOnly PROVE Spec => []AuthorityIsComplete` |
| `DirectoryIsExact` | | `... []ExactDirectory` |

All hold for every value of the constants, under the named assumptions on constants of the module they
are about (`SegmentFileAssumption`, `VolatileAssumption`, `ReadGenerationAssumption`,
`PairLaneAssumption`, `MaintenanceAssumption`, `ManifestAssumption`).

**Segment file.** `ImmediateOnly` says that commits are synchronised at once (`durable_sync`) and that a
crash loses the page cache; `SealsAreImmediate` asks it of owners that seal the file, while an owner that
does not may defer commits (`durable_periodic`), be killed and lose power in any mixture. It cannot be
dropped: with kills or deferred commits *and* seals the properties are false (section 5), so in
`durable_periodic` the theorems are about a Segment up to its seal. None of the properties is inductive: whether an acknowledged Record survives depends on what a crash can make of the
writes in flight. `CrashSafe` says that the file is in one of three conditions: *Closed* (no handle, the
file is what the last crash left), *Running* (the persisted commit is sound and the newest, on disk or
not, and the pending Records follow it) and *Poisoned* (nothing is written any more). In each, some slot
`b` is a `Boundary`: durable, untouched, covering every acknowledged and no rejected Record, while the
other slot has at most one write in flight, of nothing better or of the next sound commit. A deferred
commit leaves that write in flight across later calls, a kill and a reopening; what keeps the boundary is
that every commit synchronises the file before it writes the next slot, so at `write_slot` nothing is in
flight. A seal with nothing pending skips that call, and finds the slots synchronised only because of
`SyncedBetweenCommits`, an invariant under `ImmediateOnly`. The proof goes action by action: lemmas on
extents and boundaries, then appends, entries and failures, then slot writes, crashes and open.
`SlotsAreSound`, which TLC checks in `segment_pass`, is `TypeOK`, the two formulas of `SlotSafety`,
`CrashSafe` and, where commits are immediate, `SyncedBetweenCommits`.

A seal that has returned is final for a reason of its own: `Latched(n)` says that the sealed commit of
`n` Records is on disk and the newest, that no slot write is in flight, and that the handle, if there is
one, shows it. `SealLatches` derives it from `CrashSafe` and `SyncedBetweenCommits` when the seal returns;
`LatchedStep` shows that no later step ends it, since a sealed Segment refuses appends and seals and has
nothing pending to flush (`SealedIsFlushed`), and a power loss finds nothing to undo.

**Volatile Worker.** `OneControl` says that no two threads compact or verify a Worker with an exclusive
Writer at the same time; with two the properties are false (section 5). `GateInv` ties the count, the flag
and the thread's place together: the flag is set from `CloseGate` to `OpenGate`, and `Drain` finds the
Writer outside. `WorkInv` says that the Worker's state is `Sound`: each Index entry refers to a Record
that holds the last acknowledged put of its key, a missing entry means none or an expired one, the live
count of a Segment is the number of entries into it, and a sealed Segment has a live Record. The
mutation path retires Segments in the middle of a put, so `Sound` has a parameter for the one Segment
that may be empty for the moment. What makes it inductive across the vacuum is its last conjunct: between
the plan and the installation the state that *would* be installed is sound, because the gate or the mutex
keeps mutations out. That the copies packed `SegmentRecords` to a Segment land where the new Index says is
arithmetic on quotients and remainders (`Unique`, `Slice`, `SlicePlace`), that the new live counts are
right a bijection between entries and places (`CopyCount`).

**Read generations and the lane.** `LaneInv` is `SlotInv /\ CallerInv /\ WorkInv`.

- `PairLaneHistory` first proves that each operator of `ReadGeneration` keeps `PoolOK` (which slots are free,
  published, retired or pinned by a merge) and that `SlotInv` is inductive: a Reader's lease counts before
  it loads the published slot, so the epoch below which the executor sweeps is not above that of any slot
  held (`SweepOK`). `SlotsAreKept` follows without any assumption on faults.
- It then relates pool and log. A view is history if each key's value is the last one the log
  has up to the view's position (`ViewOK`); during a merge the writer's view is the cut overlaid by the post
  delta (`MergedOK`). `Written` puts a batch over a view key by key, so no induction over the batch is
  needed.
- `WorkInv` is the executor's state: nodes not yet taken are newer than all that were applied and sorted
  as a stack (`QueueInv`), what may be staged, published or committed at each place (`FlowInv`,
  `FreshInv`, `CommitInv`), where the writer's view is the whole log and where the staged mutations are
  the part it lacks (`StepInv`), and that a node answered with success is in the writer's view
  (`SuccessInv`). `PairLaneWork` has pushing, taking, admission and the replies, `PairLaneProofs` the
  Store's calls and the publications.
- `NoVolatileThrow` says that a volatile Store's calls do not throw. It cannot be dropped: the handler of
  an exception answers every undecided node of the chunk as refused, those the Store has already applied
  included (section 5).

**Maintenance.** `StopIsFinal` says three things: a stopped controller's gate is open, close has passed
its drain only when no mutation and no compaction is left, and close has ended only after the thread. It
is not inductive: that nothing takes the lock after the drain rests on admission having been closed
before. `StopInv` adds that, and that a thread about to report a compaction holds one of its verdicts.
Capacity arithmetic plays no part, so the lemmas only say which fields an operator writes (`Final`,
`Leaves`).

**Manifest.** `Reading` and `Writing` exchange the cardinality in `ValidManifest` for a unique active
entry; the transitions are then arguments about sets of entries. `SoundManifest` adds to `ValidManifest`
that a Manifest is finite and of natural numbers. `CompactionIsAccepted` counts: the rank of an entry
among the sources is a bijection onto `0..n-1` (`EarliestCount`), so the n earliest are n.

**Names on disk.** `AuthorityIsComplete` is about every namespace a crash may leave (`Survivors`), so its
invariant `AuthorityInv` is as well:

- `Disk` says that each survivor is `Complete` (its Manifest is sound and its Segments are there, an
  intent goes with one of its two Manifests, a bootstrap marker with the initial one or none) and differs
  from the directory the process sees only in the name whose change waits for a sync (`Pending`). At most
  one change of name is pending at any step: each program synchronises the directory before the next.
- `Control` says which program may be at which step and who holds the publication lease.
- `Places` says, program by program, what the directory and the Manifest in memory hold at each step:
  which Segments a rotation or a compaction has added and which of the retired ones are still there.
- `Shapes` has the fields of the records, and that nothing fails where no I/O error can occur.

After an I/O error a rotation or a compaction stops wherever it was and leaves its names behind. `Places`
says what they may be: while the directory is marked failed no later program changes a name before the
next open, and a rotation that failed cleanly after it made its file has taken the name of the next
Segment, so that each later rotation fails at that name until recovery removes it.

A step that only adds names, or removes names no Manifest lists, keeps `Complete` for every mixture of
old and new; the two renames of the Manifest keep it because the new Segments were synchronised before,
and the removals of the old ones come after the Manifest's own sync. The argument never mentions
Records, so it holds for every content of the Segments and every durability mode. `CatalogNames` has the
file-system steps, `CatalogProofs` the other ones: opening, scanning, the lease, mutations and crashes.
`TameOnly` says of each environment that it has crashes of one kind and no I/O errors, or I/O errors, any
number of them and at every step, and no power losses; and that an environment with compactions leaves
out their two clean failures after the intent. With both kinds of crash a power loss can undo names that
a later process found and relied on, and a clean failure after the intent leaves a third Manifest beside
it (section 5). `ExactDirectory` follows from `IdleAt`, the conjunct of `Places` for an open Store whose
lease is free: without I/O errors the Store stays healthy, and a healthy Store and its directory agree.

Only model-checked:

- every liveness property (`MutationsEnd`, `Reopens`, `EverybodyReturns`, `StoreCloses`,
  `EveryMutationAnswered`, `Quiesces`, `ToolsReturn`, `NotWedged`, `ReclaimHappens`), which is out of the
  prover's reach;
- `IndexPartition`: the probe is a recursive operator, and what it finds needs induction over data;
- `MergeKeepsPace`: without a fault the runtime stays healthy and never lacks space in a delta or an
  arena. Its invariant would have to relate the entries a merge has left to copy, the shares, rounded up,
  that later writes pay, and the cardinalities of the deltas, for behaviours without a fault only;
- chunks that throw in `PairLane` (the passing environments throw in chunks of one node);
- what `Catalog` recovers (`RecoveredState`, `IndexResolves`, `AlwaysOpens`), which depends on the Records
  in each Segment and their order across rotations and compactions;
- `WorkerCommit`, `WriterLane` with its refinement `LifecycleHolds`, `Service` and
  `StoreTools`: their programs have many places, and an inductive invariant would have to say for each
  what the file system, the queues or the sockets may hold.

## 5. Where code and documents disagree

`commit_boundary` is a run; `PROJECT.json` quotes what it contradicts. The other instances differ from
the passing configuration of their module only in the value of `Environments`, the specification where
one is named, and the property; TLC ends each with a counterexample that follows the code. Where a
configuration file is named, it is the instance.

| instance | property | what the code does | what is said |
| --- | --- | --- | --- |
| `commit_boundary` | `AcknowledgedSurvive` | `rotate_active` sets `mutation_io_active` without waiting until it is clear, after waits that released the mutex | `PROJECT.json` |
| `MCSegmentFile_restart_seal.cfg` | `AcknowledgedSurvive` | `open` trusts a slot a killed process wrote but did not synchronise; a seal then overwrites the older, durable slot and a power loss can tear both. Both slots lie in one 512-byte sector: hardware with atomic sectors hides it | `docs/architecture/durability-recovery.md:138` |
| `MCCatalog_third_authority.cfg` | `NoThirdAuthority` | a compaction that fails cleanly after its intent releases the lease with the intent on disk; `rotate_active` does not test health when it takes a free lease and publishes a third Manifest | `docs/spec/concurrency-memory-model.md:91` |
| `MCCatalog_periodic_compaction.cfg` | `RecoveredState` | `compact_worker` does not flush the active Segment, so a flushed version superseded only by an unflushed Record is dropped | `docs/adr/0010-durable-periodic-policy.md:41` |
| `MCWorkerCommit_other_worker.cfg` | `CallsReturn` | a failed flush wakes the waiters of its own Worker only | `docs/architecture/durability-recovery.md:186` |
| `MCPairLane_wakeup.cfg` | `CallsReturn` | the combiner looks for pending nodes before it releases the token and not after | `docs/adr/0037-shard-execution-token-flat-combining.md:78` |
| `CloseEnvironments` of `MCPairLane` | `AdmittedComplete` | `operational()` is false as soon as close starts, so the lane fails closed after the durable mutation in flight | `docs/architecture/public-api-contract.md:107` |
| `DrainEnvironments` of `MCWriterLane` | `DrainedWhenStopped` | the Writer looks at the queue before the stop flag: a submission between the two stays queued (`shard_pair_runtime_writer_loop.cpp:331`). The server joins its Reactors first | `shard_pair_runtime.hpp:194` |
| `MCService_alloc.cfg` (`AllocSpec`) | `RejectedWasNotApplied` | an allocation failure after the request was sent is reported as rejected (`client.cpp:963`) | `docs/spec/client-semantics-v1.md:159` |
| `LateEnvironments` of `MCService` | `NoHandoffIsLeft` | `try_handoff` looks at `accepting_` and then pushes; a stop and the destination's last look at its mesh may fall between, and the socket with its BIND answer stays in the mesh of a Reactor whose thread has ended, until the mesh is destroyed (`connection_handoff.cpp:25-29`) | `server_lifecycle.cpp:41-42`, `:166-167` |
| `MCOverwriteEnvironments` of `MCIndexPartition` | `PublicationNeverAllocates` | overwriting an existing key is not prepared, and `insert_or_assign` may rehash (`swiss_table.cpp:149`) | `docs/spec/index-v1.md:138` |
| `MCVolatileWorker_quiesce.cfg` (`BufferedSpec`) | `IndexHasOneOwner` | the count and the flag of the gate are two steps, so a second thread may find the count raised and the gate open; the flag's release store is not ordered before the load of the depth (`worker.hpp:140`) | `worker.hpp:60-61` |
| `SerialEnvironments` of `MCVolatileWorker` | `VerifyAccepts` | a Segment is retired with its tombstones while older puts survive elsewhere, so `verify_index` refuses a sound Store (`worker.cpp:77`) | `docs/glossary.md:30` |
| `ExpiryEnvironments` of `MCStoreTools` | `MigrationComplete` | a resumed migration passes over a key before the checkpoint that the source no longer finds, whatever the destination has: a copied key whose replacement in the source has expired keeps its older value there (`store_migrate.cpp:327-331`, `:336-341`) | `docs/architecture/store-migration.md:36-37` |
| `AuditEnvironments` of `MCStoreTools` | `ReportedCopyLasts` | repair writes `audit.txt` over a file of that name it had set aside (`store_repair.cpp:160`, `:319`) | the evidence repair is to keep |
| `MCMaintenance_latency.cfg` | `ReclaimHappens` | a threshold skip of one Worker resets the latency guard's deferral clock of another (`maintenance_evaluate.cpp:166-168`) | `docs/architecture/maintenance-controller.md`: skips "cannot pin evaluation to one Worker and starve reclaimable peers" |
| `TwoExpiring` of `MCMaintenance` | `ReclaimHappens` | the observation moves the cursor before the probe, which reads the next Worker (`store.cpp:190-205`) | `docs/architecture/maintenance-controller.md:97-99` |
| `Brisk` of `MCMaintenance` | `ReclaimHappens` | with evaluations less than a second apart a Worker without gain uses up each window | |

Read in the code and reached by no passing environment: a seal after a deferred commit (the same slot);
name changes of a killed process that a later power loss undoes after the next open has relied on them
(journaling file systems hide it); `flush` reporting success after `healthy_` became false; a volatile
chunk whose later sibling throws answering its earlier siblings as refused; a backup's fence between a
durable commit and the capture of its read; an aborted merge leaving a second arena; two producers of the
single-producer completion queue when queued mutations are abandoned;
an automatic compaction turned off before the emergency gate arms, which then nobody opens; OVERLOADED answers that overtake
the mutation window although `docs/spec/wire-protocol-v2.md:186` orders responses; a migration killed
before its first checkpoint whose destination every later invocation refuses
(`docs/operations/worker-resharding.md:24`); the entries of repair's workspace and quarantine, never
synchronised, so that a power loss may take a reported repair back; the
erase of an expired volatile key, which succeeds (`cpp-api.md:91-92`); a compaction fault outside an
emergency, which turns automatic compaction off for good, as documented.

## 6. Limits of the models

- `SegmentFile`: creation and staging of a file are steps of `Catalog`; passing scenarios do not mix
  kills and power losses where seals are allowed, nor seals and deferred commits, because of section 5.
- `Catalog`: an append with its commit is one step; `WorkerCommit` has its interleavings. Byte budgets,
  reader pins (a cause of the modelled abort), the hot cache and file locks are left out. The passing
  environments leave out the two clean failures after the intent and compaction in periodic mode.
- `WorkerCommit`: conditional writes, resource limits, expiry and compaction gates are left out. The
  passing environments have one producer for each Worker where Segments fill up in group mode, and no
  fault in group mode with two Workers; that a flush covers what was staged is checked without faults. A
  slot write is atomic; `SegmentFile` has its parts.
- `PairLane`: `Close` is the change of lifecycle together with the lanes' admission close; the health
  check and the push of a node are one step, as are the `done` flags of a chunk; `MaxSpins` stands for
  the 4096 rounds of admission; the slot state "building" and the paths without slot pool or with a
  Reader epoch lease are left out. In passing environments only a chunk of one node throws, that the
  runtime stays healthy excludes backups and closing durable Stores, and liveness is claimed for a single
  caller.
- `WriterLane`: the asynchronous lane is enabled, so callers do not combine and the token is uncontended;
  the admission of a generation is an outcome; a volatile mutation throws before the Store is changed;
  `MaxTurn` stands for 32; the push of a completion is one step. The passing environments stop the lane
  once the Reactor has its answers, as `Server::join` does.
- `Service`: sockets carry whole frames; `put` stands for PUT and ERASE; the Writer keeps the promise of
  `WriterLane`; clients start without connections; allocation failures are those of `AllocSpec`. The disk-read
  executor's `admission_state_` is left out: it guards submissions beside `stop`, and `Server::join` ends
  the Reactors, which submit, before it stops the lanes.
- `SwissTable`: groups have 2 slots and a load limit of a half, instead of 8 and 7/8; the defensive check
  of occupancy and the statistics are left out; vectors grow to exactly what is asked.
- `VolatileWorker`: Records have one size and headers none; an allocation failure after an append, and a
  read by `get_owned` of an expired key in exclusive mode, which answers `sequence_conflict`, are left
  out. Atomics are sequentially consistent except in `BufferedSpec`. The gate of the durable catalog
  (`runtime_catalog_detail.hpp:359-370`) is the same code.
- `StoreTools`: a commit, rotation or compaction of the daemon is one durable step; one operation is in
  flight; admission has one shard; a name that two destinations share survives a
  power loss in both or in neither; a compaction's live Records fit one Segment; repairs meet no power
  loss; close is left out. Validating a resumed migration is one step: a key whose expiry passes between
  the reads is read again, so the outcome is that of the time before or of the time after.
- `Maintenance`: the background mode after `start`; callbacks stay bound until stop; intervals and
  `request_evaluate` only choose when an evaluation begins; nothing is reserved, a rotation needs one
  Segment, and bytes of Manifests and intents and the other limits are ignored; pacing and telemetry are
  left out, and so is `close_drain_deadline_ms` (unset by default), after which close goes on beside operations; the no-gain count is capped; lock sections of one decision are merged.
  `ReclaimHappens` is claimed where section 5 leaves it true: one Worker with sealed Segments under slow
  foreground mutations or unread expiries, and windows that elapse between evaluations otherwise.
- Memory is sequentially consistent in every model but `BufferedSpec`; reorderings that weaker atomic
  accesses allow are outside them.

## 7. Not modelled

- Reads and the hot record cache (`runtime_catalog_read_ops.cpp`, `hot_record_table.hpp`): what a read
  returns is judged over the Index and over generations in the other modules. The cache publishes records
  with relaxed and acquire accesses, whose hazards are weak-memory ones that interleavings do not show.
- Record, Segment, Manifest and wire codecs and checksums: pure encodings; a slot or file is whole, torn or
  absent in the models, and frames are values of `Wire`.
- TLS, sockets, pollers, fault injection: wrappers of system calls; what they may answer is a choice in
  `Reactor` and `Client`.
- Authorisation, abuse limits, audit and sandbox: policy lookups; the refusals they cause are answers in
  `Reactor`.
- Configuration, logging, statistics, C ABI and command line: no protocol of their own.
- The experimental prototype: not part of the served system.

## 8. Plan

1. A model of the hot record table with its atomics, if a treatment of release and acquire order as
   explicit as `BufferedSpec`'s becomes practical for it.
2. Refinements: `WorkerCommit` and `PairLane` each implement an abstract Store in which a mutation is one
   step, as `WriterLane` implements `MutationPromise`.
3. Theorems: `Catalog` (`AlwaysOpens`, over the invariant of the names), `WorkerCommit`
   (`RefusedStayOut` for one Worker), `Service` (`SocketsAreOwned`).

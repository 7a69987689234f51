# fscache in TLA+

fscache mounts a FUSE file system over a (slow) backing directory and copies
files that are being watched, or are about to be, to a fast cache directory.
Reads are served from the cached copy when there is one. These modules model
the parts of the daemon in which a wrong order of steps would serve wrong
bytes, lose work or wedge the mount; TLC checks them on small instances and
TLAPS proves the central results for all instances.

Paths of source files are relative to `src/` (the crate is `src/src`).

## 1. Inventory

| Component | State | Operations | Talks to |
|---|---|---|---|
| **CacheIO pipeline** (`cache/io.rs`) | `queue`, `known` (one mutex), copy semaphore, `deferred_events` table | `submit_cache`, `submit_validation`, `submit_maintenance_validation`, `submit_replace`, `mark_abort`; dispatcher: `expire_stale`, `pop_next_job`, permit, spawn; `finish_known` | called by the engine, the watcher, maintenance and its own validations; one database shared by all mounts |
| **Copy and validation workers** (`cache/io.rs`, `cache/manager.rs`) | `.partial` file, cached file, `cache_files` row, abort flag | `populate_worker`, `perform_copy`, `validate_worker`, `is_stale`, `drop_stale`, `backfill_fingerprint` | backing store, cache directory, database; run concurrently, up to `max_concurrent_copies` copies and any number of validations |
| **Eviction** (`manager.rs`, `ipc/server.rs`) | rows with sizes and hit times, one budget for all mounts, `evict_lock` per mount | `evict_if_needed` on its own thread, `evict_to_fit` in a worker, `EvictFiles` and `RefreshLease` from a client | the same files and rows, no common lock with copies |
| **Backing watcher** (`backing_watch.rs`) | inotify watches (LRU with a cap), debounce windows | `touch`, event, timer, `dispatch` | FUSE lookups; `is_cached`, `mark_abort`, `submit_validation`, kernel invalidation |
| **Inode table** (`fuse/inode.rs`) and **namespace handlers** (`fuse/{read,write,fusefs}.rs`) | `by_ino`, `by_path`, `next_ino` under a mutex | lookup, readdir, create and its kin, unlink, rmdir, rename, forget | the kernel's dentry cache, the backing directory |
| **FUSE handles** (`fuse/fusefs.rs`, `read.rs`) | descriptors, overlay decision at open, write paths | open, read, write, release | event channel to the action engine |
| **Action engine** (`engine/action.rs`) | pending accesses, pull budget, event channel | access, miss, close, tick | `submit_cache`, `submit_validation`, presets |
| **Scheduler** (`engine/scheduler.rs`) | start and end of the window | `is_caching_allowed` | dispatcher |
| **Presets and prediction** (`preset.rs`, `presets/*`, `prediction_utils.rs`) | none (pure), regular expressions | candidates of a hit or miss, process filter | action engine |
| **Discovery** (`discovery.rs`) | `enabled`, `session`, counters per session, `process_access` table | `start`, `stop`, `log_touch`, `log_open`, drain task, pruning | FUSE handlers, IPC commands |
| **Daemon** (`main.rs`, `utils.rs`) | instance and target locks, mounts, socket, one set of tasks | start, shutdown, clean-up after a crash | every other part; other daemons |
| **IPC and telemetry** (`ipc/*`, `tui/state.rs`) | broadcast channel, ring of recent log lines, one handler per client, the client's counters | accept, replay, forward, commands, Goodbye | everything that logs; the TUI |
| **Configuration, TUI** | none that the cache depends on | | |

What is hard in this code:

* *Interleaving.* The mutex of `PipelineState` is dropped between the removal
  of a `known` entry and the deletion of its database row; files and rows are
  changed in two steps by four independent actors (copy, validation, sweep,
  client eviction) with no common lock; two copies of one path (`Populate` and
  `Replace` are different keys) share the name of their partial file.
* *Stale reads.* The caching window is read before an unbounded wait; the
  source is stat-ed before and after a copy that takes minutes; the watcher
  asks `is_cached` before a copy has been published.
* *Crash and restart.* Between rename and `mark_cached`, between `known` and
  `deferred_events`, with partial files on disk.
* *Liveness.* Dropped submissions, copies queued before validations, one
  dispatcher that itself waits for permits.
* *Several processes.* Daemons of one instance or of two start, fail, stop and
  crash with targets in common; what a dead one leaves (mounts, sockets) is
  cleaned up by the next.
* *Lossy channels.* inotify drops and merges events, the broadcast channel
  drops what a slow client has not read; tasks of an old session outlive it.
* *Long call sequences.* The inode table mirrors the kernel's dentry cache
  through renames, removals, negative lookups and late forgets, while the
  backing directory changes underneath.

`PROJECT.json` lists each of these at its line under `hazards`, with the
properties that cover it.

## 2. Modules

| Module | Models | Extends |
|---|---|---|
| `JobLifecycle` | the promise of the pipeline: a job is idle, queued or running, and moves only along submit, start, finish, expire, restart | |
| `Pipeline` | the pipeline of one mount: callers, dispatcher, worker life cycle, deferred rows, restart | refines `JobLifecycle` |
| `CacheIO` | the pipeline at work on the cache directory, the `cache_files` rows and the backing store: copy, validation, eviction, watcher dispatch, restart with reconciliation | `Pipeline` |
| `InodeTable` | the inode table, the handlers that change it, and the kernel as its client | |
| `Access` | handles of the FUSE session, the event channel, the action engine: pending filter, tick, candidates and pull budget | |
| `Discovery` | the controller, the FUSE threads that count, the drain task of each session, the table | |
| `Telemetry` | channel, ring, handlers and dashboards, fed by the life of jobs | |
| `Daemon` | `run_daemon` of several daemons over the kernel's locks, mounts and sockets | |
| `BackingWatch` | the watcher's loop over inotify | |
| `Eviction` | sweeps, `evict_to_fit` and client commands on one database | |
| `Presets` | prediction, prefetch, process filter and window as operators, with their inputs as the state | |
| `CollectionFacts` | lemmas that several proofs use: sequences, induction, recursive functions, sums, sorted sequences | |
| `PipelineProofs` | proofs about `Pipeline`, and that it refines `JobLifecycle` | `Pipeline` |
| `CacheIOProofs` | proofs about `CacheIO`, and that it implements `Pipeline` | `CacheIO`, `PipelineProofs` |
| `InodeTableProofs`, `AccessProofs`, `DaemonProofs` | proofs about the module of that name | that module |
| `ServicesProofs` | proofs about discovery, telemetry and the three services side by side | `MCServices`, `DaemonProofs` |
| `HousekeepingProofs` | proofs about the watcher, eviction and the policies of `Presets` | `MCHousekeeping` |
| `MCCacheIO`, `MCInodeTable`, `MCAccess` | instances for TLC | |
| `MCServices` | `Discovery`, `Telemetry` and `Daemon` side by side: they share no state as modelled, so `part` names the one that moves | the three |
| `MCHousekeeping` | `BackingWatch`, `Eviction` and `Presets`, likewise | the three |

### Pipeline

`queue`, `known` and `deferred` are the fields and the table of the same
names. A `known` entry is `absent`, `queued` (`None`), `flight`
(`Some(control)`) or `aborted` (`Some(control)`, flag raised). The dispatcher
is the counter `dpc` with its locals `allowed` (its last reading of the
window), `expired` (rows `expire_stale` has yet to delete) and `held` (the job
it awaits a permit for). A worker task occupies a slot (`tjob`, `stage`).
Every action is one critical section of the mutex, one database call or one
await point; in particular the two halves of `finish_known` and of
`expire_stale` are separate steps. `Restart` keeps only `deferred`, and
rehydrates what `load_deferred` returns, in any order.

Time is abstract. The window may open and close at any moment (`WindowFlips`);
with `DeferredTtl = "elapses"` any prefix of the queue may be past its TTL
(jobs are stamped when they are queued, so a prefix is what can be). With
`"zero"` the dispatcher never expires and `load_deferred` may drop any row.

### CacheIO

Extends `Pipeline`; its steps on the pipeline's variables are those of
`Pipeline`, so what is proved there carries over. Added state: `backing`
(existence and version of each file), `disk` and `partial` (the cached and the
partial file as inodes: content, who has it open for writing, which versions
were read into it), `rows` (fingerprint per path), the place `at` of each
worker in `populate_worker` or `validate_worker`, the stat it took (`snap`),
the row each evictor still has to delete (`evict`), calls of `submit_*` and
`mark_abort` under way (`callers`) and coalesced backing events (`dirty`).

A worker step is one system call or database call that another actor could
observe. The read/write loop is one step whose result is nondeterministic
if the source or the inode was disturbed meanwhile: the written file may be a
whole version, an older one, or torn. A version identifies its fingerprint
(`mtime` and size of distinct writes are taken to differ; two writes within
one timestamp granule that keep the size are outside the model). The zero
fingerprint of reconciled rows is a value of its own. `is_stale` is two steps,
the read of the row and the stat of the backing file. With `Failures` an open, a
copy, the commit (metadata or rename) and the unlink of a stale file may fail
though nothing is missing.

### InodeTable

`byPath`, `inoPath`/`refs` and `nextIno` are the three fields; `tree` is the
backing directory; `kernel` holds, per inode, the lookups the kernel has
counted and the path at which its dentry cache has the inode. fuser serves a
session from one thread (no thread count is configured), so a handler is one
step. The kernel names a file by a parent inode and a name, the server resolves
the parent through the table: `ServerPath` and `KernelPath` differ exactly when
the two views have come apart. `Cached` are files that `cached_regular_attr`
answers for although the backing store no longer has them. `External` lets the
backing store change behind the mount. `RemovePaths` stands for `remove_path`
and `remove_subtree`. A directory handle is taken to be of the directory that its
inode names when it is read.

### Access

`openPaths`, `openBytes` and `writePaths` are the session's maps by descriptor
number, `appendHandles` those opened for appending, `fds` the descriptors the
process really has open; numbers are reused. `do_create` is one request: its
handle is in the maps at once, or is taken back and the file removed if its
attributes cannot be read.
`events` is the channel, `pending`, `todo` (`to_process`), `cands` (`next`),
`total` (`running_total`) and `first` (`first_candidate`) are the locals of
`ActionEngine::run`. The candidate loop is one step per candidate, because
copies finish and files are evicted between its awaits; the receipt of an event
and the tick are one step each, as the engine is one task. The age of a pending
entry counts clock steps up to `min_access_secs`. The preset is a constant
function from a path to its candidates; the pipeline is the set of its known
jobs. Byte counts saturate at the file's size, the only value they are compared
with.

### Discovery

`enabled` and `session` are two variables that `start`, `stop` and the end of a
drain task write in separate steps; only the first two hold `start_stop`
(`lock` says where its holder is). A FUSE thread reads the flag, then the
session, then counts: three steps. `flush_bucket` is two: the swap of the
counters and the write to the table, which goes row by row and may end early
with an error that nobody looks at (`discovery.rs:314`). `bumped`, `due`,
`pruned` and `lost` are history variables for what was recorded in all, what was
recorded before a session was cancelled, what the pruning deleted and what a
failed write has lost. Operations of all processes are
counted together: a counter per process and kind would multiply the states and
not the orders.

### Telemetry

`chan` is everything ever sent; a receiver that is more than `ChanCap` behind
is moved to the oldest message kept and told so (`lagged`). The ring's task and
each client's handler are receivers. A handler's record holds the state of the
client's dashboard too, since the socket is a reliable stream. The events come
from jobs that are enqueued, start, progress and end as `cache/io.rs` reports
them: `CopyQueued` is sent after the mutex is released, validations and expired
jobs end silently, the progress ticker may send once after the end. Jobs that
`CacheIO::spawn` reads back from `deferred_events` enter without a `CopyQueued`
but report their end like any other (`Spawn`); `restored` counts them.

### Daemon

A daemon is at a `stage` of `run_daemon`; `next` is the target it is at.
Mounts over a directory are a stack; a crash leaves them dead or lets
AutoUnmount remove them. `find_fscache_mount_holder` returns the first line of
`/proc/mounts`, the lowest of the stack, while `fusermount -uz` removes the
uppermost; either use of `fusermount` may fail. A failed start drops its locals
in reverse order, target locks first.

The IPC server is a task of its own (`server`) that connects, binds, stops and
removes the socket while its daemon goes on; when the set of tasks is aborted or
dropped it is only told to end. `busy` says that a blocking call (a copy, a
sweep) is under way. The locks are locals of `run_daemon` and end with it, step
by step (`drop`, `returned`, `released`); the process ends after that
(`exiting`, `ProcessEnds`), when the runtime of `#[tokio::main]` has been
dropped, which waits for blocking calls.

### BackingWatch

`lru` and `wdMap` are the watcher's maps, `watch` is the kernel's. Directories
are removed, created and moved under their watches; adding a watch to a
directory that has one returns the old descriptor. The `select!` is biased
(shutdown, timer, touches, events), which the guards keep. A window has a
severity and a flag for its deadline. What `dispatch` does to the pipeline is in
`CacheIO`.

### Eviction

Each evictor is a task with the list it has read, the bytes still to be freed
and the row it has yet to delete. The total and the list are two queries, the
file and the row two removals, each a step of its own. `fresh` and `disturbed`
record, for the properties, what was cached during a sweep and which workers'
totals somebody without the lock has made wrong. The budget comes from
`EvictionConfig::resolve` and the fallback of `CacheManager::new`.

### Presets

Pure operators; the state is an input (a library, a directory tree, a process
forest, a command line or a window), and every input of a bounded size is an
initial state. Lists are not part of the input: for each forest the property
ranges over the named processes, the allowlists and the blocklists, and for each
tree over an empty directory, no filter, a whitelist and a blacklist. Names are reduced to what the patterns find in them. Each
property compares the code's computation with a reference definition that does
not share its structure. Sorting is `Sorted`, which puts each element at its
rank; TLC's own sort has no definition that a prover could use.

## 3. Runs

| Run | Result | What it shows |
|---|---|---|
| `cacheio_serial` | pass | one permit (the default), check-on-hit, maintenance, watcher, evicting clients and workers, failures, expiry: `FreshIsIntact`, `PublishedIsClosed`, `NoOrphanRow` |
| `cacheio_crash` | pass | crashes at any step, expiry: `DedupAirtight`, `HandleMatchesCopy`, `TornOnlyIfOverwritten`, `NoPartialLeft`, and the refinement of `JobLifecycle` with real workers |
| `cacheio_liveness` | pass | under `FairSpec`: `StaleRowsResolved`, `EveryJobLeaves`, `ValidationNotBlocked` |
| `cacheio_parallel` | violation | `PublishedIsClosed` with two permits: `Populate` and `Replace` of one path share a partial file |
| `cacheio_stale` | violation | `StaleFilesResolved`: a stale file that no row and no event points to any more |
| `inode_table` | pass | `PathsResolve`, `RefsCoverKernel` under every handler, all rename flags and external changes |
| `inode_rename` | violation | `KernelViewAgrees`: a rename over a directory with stale children and a late forget |
| `access` | pass | `PendingIsOpen`, `MapsMatchDescriptors`, and under `FairSpec` `PendingResolved` |
| `services` | pass | discovery: `CountsConserved`, `LastBucketFlushed`; telemetry: `NoLineMissed`, `RingKeepsLogs`, `NoPhantomCopy`, `NeverUndercounts`, `EveryClientLeaves`; daemons: `OneServerPerTarget`, `UnmountsOnlyOwn`, `ServerUndisturbed`, `ShutdownEnds` |
| `discovery_restart` | violation | `RecordsUntilStopped`: the drain task of a stopped session disarms its successor |
| `daemon_restart` | violation | `RestartRecovers`: a dead mount fails the validation that precedes its clean-up |
| `housekeeping` | pass | watcher: `NoLeakedWatch`, `EventsDispatched`; eviction: `SweepReclaims`, `NoOverEviction`; policies: `PredictsFollowing`, `PrefetchReach`, `FilterIsExact`, `WindowIsStretch` |

Each module's type invariant is checked along with these. Each passing property
is also checked to fail on a plausible bug (the operators `NotQueuedOnly`,
`HasEntry`, `ErrorAsEof`, `KeepName`, ... that precede the definitions they
replace; `PROJECT.json`, `mutants`).

The five violations are behaviours of the code that contradict a sentence of
the repository; `findings` quotes both sides. In short: the partial file is not
private to a copy once `max_concurrent_copies > 1`; `drop_stale` and a commit can
interleave so that a cached file has no row (and a change during a first copy
aborts nothing); `rename_path` leaves the target's descendants in the table;
the drain task of a stopped discovery session clears whatever session is armed
when it ends; a daemon whose crash left a dead mount cannot be started again
until somebody unmounts it.

More disagreements are known and have no run of their own: rows of
`deferred_events` can be deleted under a queued job (`io.rs:490`), the backfill
of a reconciled row trusts a file of unknown origin (`manager.rs:228`, visible
as a violation of `FreshIsIntact` with `Crashes = TRUE`), the pull cap holds
per event and not per session (`action.rs:253`), a restart makes the in-flight
counter of a client too low by up to the jobs it restored (`io.rs:112`,
`NeverUndercounts`), a process may outlive the 15 s of its shutdown for as long
as a blocking call hangs (`main.rs:557`, `ShutdownEnds`), and as it has given up
the instance lock by then, its listener can still answer a successor, which then
runs without IPC (`server.rs:31`, `ServerUndisturbed`). Each of the three
properties in brackets says what does hold. They are under `hazards`.

### Bounds

* `CacheIO` uses one path: its files, rows and workers interact only per path.
  Its four kinds of job on that path contend for the queue and the permits;
  contention between paths is covered by the proofs of `Pipeline`, which hold
  for every set of paths and slots.
* Two versions (`MaxVersion = 2`): every file can be overwritten during and
  after a copy, and copied again.
* `MaxCallers = 1`: one call of `submit_*` or `mark_abort` under way beside
  the workers' own. Dropped submissions need only one caller and a running job.
* `cacheio_serial` has the evicting client beside the evicting worker and not
  the sweep, which removes a file and a row in the same two steps, of fewer
  files: a client may name any. The proofs have all three.
* The inode table has two directories, a file name they share, four inodes (five
  in `inode_rename`) and two references per inode: enough for a rename over a
  populated directory, for reuse of a path under a new inode, and for a partial
  forget.
* `access` has one file of two bytes, two descriptors and two events in the
  channel: overlapping handles, a file read to its end through two handles, and
  events that wait while the next handle comes and goes.
* `services`: two sessions and two operations (a session that ends beside one
  that begins), one FUSE thread, a clock of two seconds with a window of zero
  days, so that pruning happens; a channel of two messages and three sent, so
  that receivers lag; three daemons, of which two move at a time: rivals of two
  instances, one with two targets and the other with the first of these, and
  heirs of one instance, with the second target in common; one crash. Blocking
  calls hang in one of the heirs, since a process that outlives its locks
  matters to its own instance only.
* `housekeeping`: two directories and the root with room for two watches; three
  files on two mounts with a budget for two, a sweep, two workers of one mount,
  two events of copies, clients or the clock; libraries of three seasons with two
  episodes in both layouts, trees of three levels, five processes of which
  one sees two levels of ancestors, so that chains are cut, command lines of five tokens, a day of six minutes.
* Slots, paths and the two directories are symmetric; no symmetry is used in
  the liveness runs.

Deadlock is checked except where a bound ends the behaviour (the inode table by
the number of inodes; services and housekeeping by messages, sessions and
events) or an input has no next state.

### Fairness

`FairSpec` assumes what the runtime gives: tokio polls every ready task
(weak fairness of the dispatcher, of each worker, of calls under way and
event dispatch). The maintenance task submits every cached row at each
interval for as long as the daemon lives, which is strong fairness of
`RequestValidation`. Nothing is assumed of users, of the backing store or of
the window; `EveryJobLeaves` and `StaleRowsResolved` assume that the window
eventually stays open, and `ValidationNotBlocked` assumes nothing of it. The
liveness run has `DeferredTtl = "never"`, so that no job leaves by expiry.
`FairSpec` of `Access` assumes that the engine task is polled, that time passes,
and that a tick which is due again and again is served: `select!` picks among
its ready branches at random, so a steady stream of events cannot keep the tick
out for ever (strong fairness of `Tick`).

In `services` the accept loop, each client's handler and a daemon that is
stopping are polled (weak fairness); nothing is assumed of a daemon's tasks and
of its blocking calls, so that `ShutdownEnds` rests on the timeout alone. `daemon_restart`
adds what `fscache.service` and a working host give: a failed daemon is started
again, its start goes on, and a mount that is possible again and again succeeds
at last. In `housekeeping` the watcher's loop is polled, its timer fires and
deadlines pass.

## 4. Proofs

TLAPS checks the theorems below for every value of the constants that satisfies
the modules' `ASSUME`s. Those say no more than what kind of thing a constant is
(sets are finite, capacities are numbers, the markers for "nothing" are not
values, sweepers and workers are different actors); where a theorem needs more, it is a hypothesis of the theorem and is
justified here. The bounds that keep TLC finite (`MaxVersion`, `MaxCallers`,
`MaxSent`, `MaxIno`, ...) are arbitrary numbers in the proofs.

Each theorem about all states rests on an inductive invariant: the property,
the types, and what else a step needs to know. There is one lemma per action or
group of actions that preserve it for the same reason, and a last temporal step.

| Theorem | Property | For |
|---|---|---|
| `PipelineTypeCorrect`, `CacheTypeCorrect`, `AccessTypeCorrect`, `InodeTypeCorrect`, `DaemonTypeCorrect`, `TelemetryTypeCorrect`, `DiscoveryTypeCorrect`, `WatchTypeCorrect`, `EvictionTypeCorrect` | the type invariants | all constants |
| `ServicesTypeCorrect`, `HousekeepingTypeCorrect` | `ServicesTypeOK`, `HousekeepingTypeOK` | all constants, components side by side |
| `DedupIsAirtight` | `DedupAirtight` | any paths, slots, permits, TTL, crashes |
| `HandlesMatchCopies` | `HandleMatchesCopy` | the same |
| `PipelineImplementsLifecycle` | `LifecycleSpec` | the same |
| `RowsHaveOwners` | `NoOrphanRow` | `~Crashes \/ DeferredTtl = "never"` |
| `CacheImplementsPipeline` | `PipelineSpec` | any paths, slots, permits, versions, evictors |
| `PartialsHaveCopies` | `NoPartialLeft` | the same |
| `PublishedFilesAreClosed` | `PublishedIsClosed` | `MaxConcurrentCopies = 1` |
| `TornFilesAreOverwritten` | `TornOnlyIfOverwritten` | `MaxConcurrentCopies = 1` |
| `FreshFilesAreIntact` | `FreshIsIntact` | `MaxConcurrentCopies = 1`, `Crashes = FALSE` |
| `TablePathsResolve`, `TableCoversKernel` | `PathsResolve`, `RefsCoverKernel` | any tree, inodes, lookups |
| `MapsFollowDescriptors`, `PendingHandlesAreOpen` | `MapsMatchDescriptors`, `PendingIsOpen` | any files, descriptors, presets, budgets |
| `LastBucketsAreFlushed`, `CountsAreConserved` | `LastBucketFlushed`, `CountsConserved` | any threads, sessions, operations |
| `LinesAreNotMissed`, `RingHoldsLastLogs` | `NoLineMissed`, `RingKeepsLogs` | any clients, capacities |
| `DashboardsShowRunningCopies`, `CountersNeverUndercount` | `NoPhantomCopy`, `NeverUndercounts` | any clients, files, capacities |
| `TargetsHaveOneServer` | `OneServerPerTarget` | any daemons, instances, targets, crashes |
| `OnlyLeaversDisturb` | `ServerUndisturbed` (an action property) | the same |
| `SessionsEndByOwnSteps` | `UnmountsOnlyOwn` (an action property) | the same |
| `WatchesAreNotLeaked` | `NoLeakedWatch` | any directories, cap on the watches |
| `WorkersDoNotOverEvict`, `SweepsReclaim` | `NoOverEviction`, `SweepReclaims` (action properties) | any files, sizes, mounts, evictors, budgets |
| `PredictionFollows` | `PredictsFollowing` | any seasons, episodes, lookahead |
| `PrefetchReaches` | `PrefetchReach` | the trees of the run; by its lemma `RecursiveReach`, any tree, directory, filter and depth |
| `FiltersAreExact` | `FilterIsExact` | any process forest, names, lists and depth; by its lemma `PlaybackIsStreaming`, command lines of any length |
| `WindowsAreStretches` | `WindowIsStretch` | any length of the day |

The hypotheses. One permit is the default of `max_concurrent_copies`
(`config.rs:312`, `config.toml:67`), and `cacheio_parallel` shows that
`PublishedIsClosed` fails with two. `FreshIsIntact` fails after a restart, which
gives a file without a row a fingerprint that `backfill_fingerprint` later fills
in without looking at the file (`manager.rs:228`). `NoOrphanRow` fails where a
restart and an expiry meet: `load_deferred` skips a row that it takes for
expired, and nobody is left to delete it.

**Pipeline.** `PipelineInv` adds to types, `DedupAirtight` and
`HandleMatchesCopy` that the dispatcher holds a job exactly at the permit wait
(`HandMatchesPc`) and that a task that is not free has a job (`TasksHaveJobs`).
They are needed because `DedupAirtight` alone does not say that a held job has
left the queue for good, nor that a worker in its last stage no longer owns its
key. `RowsHaveOwners` adds that the rows `expire_stale` has yet to delete are
deleted before the dispatcher goes on (`ExpiryBeforeCheck`). The refinement
maps a job that is queued or held to `queued`, one with a live worker to
`running`, any other to `idle`, and shows that every step is a step of
`JobLifecycle` or leaves the phases alone. Lemmas on sequences (`RemoveAt` of
an injective queue, `Append` of a new element, a suffix, `SetToSeqs`) carry the
bookkeeping of the queue; those of use elsewhere are in `CollectionFacts`.

**CacheIO.** First, its steps are steps of the pipeline
(`CacheImplementsPipeline`), so that the theorems above hold of it. `CacheInv`
is `PipelineInv` with the types, `NoPartialLeft` and `TasksMatchStages`: where
a task is in `populate_worker` or `validate_worker` agrees with its stage in
the pipeline, without which nothing is known of the job whose file a step
changes. Then one permit. `SerialInv` says that at most one copy is under way,
since the permit is returned only when the task is over (`AtMostOneCopy`), and
hence that this copy is the only writer of its partial file until it closes it,
and that what the closed file holds is the version that was stat-ed unless the
source has been overwritten (`CopyOwnsPartial`). The rename then publishes a
closed file. For `FreshIsIntact`, `FreshInv` adds the argument about order that
the code leaves implicit: a row is a version that its file has had
(`RowsAreVersions`), the copy under way has read a version at least as new as
the row (`CopyNewerThanRow`), so that the window between rename and
`mark_cached`, in which the row is that of the file before, cannot make an old
row look fresh. Without restarts no validation meets a zero fingerprint
(`NoBackfill`), also not one read in an earlier step.

**InodeTable.** The two maps agree, and a number from `next_ino` on is unused,
in the table (`TableInv`) and in the kernel (`KernelInv`). Without this the
inode that `get_or_create` hands out might have been referred to before. A
rename of a directory rewrites the paths below it: the new maps agree because
the target's own entry is removed, distinct paths are moved to distinct ones,
and an entry that a moved one lands on keeps its path but is no longer reached
by it. `KernelViewAgrees`, which `inode_rename` refutes, is not a theorem.

**Access.** `PendingIsOpen` relates the handles that the engine counts, the
events in the channel and the handles that are open, three counters with a FIFO
between them. It is inductive with `SeenInRange`: at every position of the
channel, the open handles, less the opens after it, plus the closes after it,
are a possible number of descriptors. `MapsMatchDescriptors` is needed for a
release to report the path that its open has reported.

**Discovery.** `FlushInv` bounds what a session still owes to the table at each
stage of its drain task; `TasksAfterArm` says that the task of a session that
is not armed yet has not begun. `AccountInv` is about sums: what was recorded
equals what the atomics, the swapped-out buckets and the table hold and what was
pruned or lost in a failed write (`CountsConserved`), and all sessions together recorded at most `MaxBumps`.
Each step moves an amount from one summand to another. That every counter stays
below `MaxBumps`, as the type invariant says, follows from the two.

**Telemetry.** `TelemetryInv` adds to types and `NoLineMissed` that receivers
are within the channel, that a start in the channel which no end follows is of
a copy that runs (`OpenStartsRun`), that what a dashboard shows has such a
start before the client's position (`ActiveHaveStarted`), and that a mount whose
pipeline has not been created has no jobs (`JobsAreSpawned`). `NoPhantomCopy`
follows at the end of the channel. For `NeverUndercounts` the messages are
counted: announcements, those still to be sent and restored jobs are at least as
many as ends and copies under way (`AnnouncedCoverEnds`), and a counter is at
least the announcements less the ends that were read (`CountersCover`).

**Daemon.** `LockInv` says that the instance lock is held from the start until
`run_daemon` has returned (`InstanceHeld`), that a listener is the server of a
process of that instance which is not gone (`ListenerRuns`; it may have given up
the lock), and where a daemon is in its list of targets (`NextIsTarget`). So
whoever disturbs the server of a lock's holder is a process on its way out
(`OnlyLeaversDisturb`). `StackInv` ties the stacks of
mounts to the target locks: who serves a target and has not failed holds its
lock, has one session there, and lies on top. The last is what makes an
unmount, which removes the uppermost mount whoever owns it, meet its own.
`UnmountsOnlyOwn` has an exception that the proof attempt has brought out: a
failed start drops its target locks before its mounts (`main.rs:327`), so
another daemon may mount over it; if the first then crashes, its instance's
next start finds its own name at the bottom of the stack (`main.rs:331`) and
removes what lies on top, which the other daemon serves. A mount over a dead
one is therefore left out of the property, and `OneServerPerTarget` leaves out
a start that has failed.

**BackingWatch.** `WatchInv` says that no two directories share a descriptor,
that every watch has an entry in `wd_map` and every entry there one in the LRU,
and that events which are still queued name a key that the debounce map may
hold, also after their directory was moved. The cap follows by counting:
distinct watches have distinct descriptors, and those are all in an LRU of at
most `WatchCap` entries. The descriptor of a new watch is one that is not in
use, which exists by the pigeonhole principle.

**Eviction.** `EvictInv` says, besides types, that a worker which evicts holds
the lock of its mount (`WorkersLock`) and that a row about to be deleted is not
listed for another try (`RowsOnce`). The properties then come from two bounds
on the excess, the bytes a task believes it has still to free, which neither
the code nor the properties mention. For a worker it is no more than what is
true: the rows that it leaves exceed its target by the excess, unless an actor
without the lock interfered (`ExcessIsReal`). For a sweep it is no less: the
rows that it leaves, with the listed ones that others have deleted meanwhile,
exceed the budget by at most the excess and what was cached since the total was
read (`ExcessIsEnough`). `FilesAreTried` covers a sweep whose list ends first.

**Presets.** The recursive functions of the model are first shown to have a
solution (`RecursionExists`), which gives the equation by which each of them
was meant. Then, by induction: the chain of ancestors is the set of processes
one descends from in so many steps; the levels that the recursive prefetch
visits are the directories whose path extends the parent's by so many names;
and the scan of a command line sees every option it should. The prediction
concatenates a sorted rest of a season and sorted later seasons and cuts the
result; its proof shows that sorted lists whose elements are ordered as wholes
concatenate to a sorted list, that a prefix of a sorted list holds the least
elements, and that a sorted list of a set is unique.

**Induction.** The library's induction theorems have an operator as a
parameter, which the provers do not instantiate. `CollectionFacts` states
induction with the property given as a set of numbers (`NumberInduction`) or of
subsets (`SubsetInduction`), proved from the existence of a least number; the
facts on sums and recursion rest on these.

Only model-checked:

* all liveness (`StaleRowsResolved`, `EveryJobLeaves`, `ValidationNotBlocked`,
  `PendingResolved`, `EveryClientLeaves`, `ShutdownEnds`, `EventsDispatched`):
  fairness and ENABLED are beyond the prover.

Every other property of the passing runs is a theorem. The properties of the
runs that end in a violation are of course not.

## 5. Not modelled

Owner, mode and time metadata; the bytes of a read; `setattr`, `write` and
`fsync`, which go to the backing store and change no state of the daemon;
error wording, log text, rendering and key handling of the TUI; parsing of the
configuration file; the maintenance subcommands, which read the database; schema
migrations; regular expressions over file names, the order among equal names;
`passthrough_mode`, in which no cache is consulted.

A panic of a blocking task, which tokio reports to the worker as an error
(`io.rs:477`); a bind of the socket that fails; a runtime all of whose threads
are blocked. The drop of a mount's session is taken to unmount it, as fuser
does. A hung copy of a process that has given up its locks writes on beside the
next daemon of the instance; `CacheIO` restarts a mount only when its old
process is gone.

One mount only in `CacheIO`: `deferred_events` is in fact shared by all mounts
of an instance (`hazards`). The cache is a constant of `InodeTable`, so that an
unlink or rename through the mount, after which the old name is answered from
the cache until a validation drops it (`write.rs:230`), is not related to
`CacheIO`.

Known behaviour for which no property is stated, as no document says what is
meant: the caching window is read before an unbounded wait for a permit
(`io.rs:316`); the references of negative lookups and of `readdir` are never
forgotten (`read.rs:110`); `deferred_ttl_minutes = 0` means never to one
function and at once to another (`db.rs:459`); a lease refreshed after a sweep
listed the file does not save it (`server.rs:180`); `max_size_gb = 0` with a
failing `statvfs` is a budget of zero (`manager.rs:74`); the thread-local cache
of the last process outlives a discovery session (`discovery.rs:97`); the TUI's
highlighted file is an index into a list that polling replaces (`app.rs:312`).

## 6. Plan

1. Done: `Pipeline`, `JobLifecycle`, `CacheIO`, `InodeTable`, `Access`,
   `Discovery`, `Telemetry`, `Daemon`, `BackingWatch`, `Eviction`, `Presets`.
2. Done: every safety property that the passing runs check is proved
   (section 4).
3. Next: two mounts that share `deferred_events`; the cache and the inode table
   composed.

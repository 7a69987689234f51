------------------------------ MODULE Eviction ------------------------------
(***************************************************************************)
(* What is evicted and when (src/src/cache/manager.rs, the queries of      *)
(* src/src/cache/db.rs): the periodic sweep of every mount, the eviction   *)
(* by copy workers that found no space (src/src/cache/io.rs), and the      *)
(* EvictFiles and RefreshLease commands of clients (src/src/ipc/server.rs).*)
(* All mounts share one database and one budget.                           *)
(*                                                                         *)
(* The copies are reduced to their last two steps, the rename of the file  *)
(* and mark_cached; module CacheIO has the rest.  remove_file fails for a  *)
(* file that is not there, and never else.                                 *)
(***************************************************************************)
EXTENDS Integers, FiniteSetsExt, Functions

CONSTANTS
  Entries,      \* keys of cache_files
  MountOf,      \* mount of each entry
  SizeOf,       \* its size in bytes
  Sweepers,     \* mounts whose eviction worker runs
  Workers,      \* copy workers that may find the disk full
  WorkerMount,  \* mount of each worker
  Pending,      \* size of the file each worker is about to copy
  Eviction,     \* [eviction] as configured: max size and expiry
  Legacy,       \* deprecated fields of [cache], a function on those given
  DiskTotal,    \* capacity of the drive in bytes, -1 if statvfs fails
  FirstHits,    \* last_hit_at of the rows at the start
  StartTime,    \* the clock at the start
  MaxTurns      \* bounds what copies, clients, hits and the clock do

ASSUME EvictionAssumption ==
  /\ IsFiniteSet(Entries) /\ IsFiniteSet(Workers)
  /\ Sweepers \cap Workers = {} /\ "ipc" \notin Sweepers \cup Workers
  /\ "none" \notin Entries \cup Workers
  /\ SizeOf \in [Entries -> Nat] /\ Pending \in [Workers -> Nat]
  /\ Eviction \in [max_size : Nat, expiry : Nat]
  /\ DOMAIN Legacy \subseteq {"max_size", "expiry"} /\ Range(Legacy) \subseteq Nat
  /\ DiskTotal \in Nat \cup {-1} /\ MaxTurns \in Nat
  /\ StartTime \in Nat /\ FirstHits \in [Entries -> 0..StartTime]

\* EvictionConfig::resolve: a deprecated field that is given wins.
Resolve == [f \in DOMAIN Eviction |-> IF f \in DOMAIN Legacy THEN Legacy[f] ELSE Eviction[f]]

\* CacheManager::new: a budget of zero, or one the drive cannot hold, becomes
\* half of the drive, if its capacity is known.
MaxSizeBytes ==
  LET configured == Resolve.max_size IN
  IF DiskTotal >= 0 /\ (configured = 0 \/ configured > DiskTotal) THEN DiskTotal \div 2 ELSE configured
ExpirySecs == Resolve.expiry

MaxTime == StartTime + MaxTurns
Evictors == Sweepers \cup Workers \cup {"ipc"}
EvictingMount(x) == IF x \in Workers THEN WorkerMount[x] ELSE x

VARIABLES
  lastHit,     \* cache_files: last_hit_at of every row
  onDisk,      \* entries whose file is in the cache directory
  renamed,     \* entries whose copy has renamed its file and has to mark it
  time,        \* the clock
  turns,       \* number of events of the surroundings
  task,        \* what each evictor is doing
  evictLock,   \* holder of evict_lock of each worker's mount
  fresh,       \* history: how often each entry was marked since a sweep read the total
  disturbed    \* history: workers whose total was changed by someone else's removal

evictionVars == <<lastHit, onDisk, renamed, time, turns, task, evictLock, fresh, disturbed>>
cacheVars == <<lastHit, onDisk, renamed, time, turns>>

NoRow == "none"
Steps == {"idle", "expire", "total", "list", "reclaim"}
\* listed: the rows still to be tried, with the last_hit_at they were listed
\* with; excess: bytes still to be freed; row: the entry whose file is gone
\* and whose row is to be removed.
NoneMarked == [e \in Entries |-> 0]
NoTask == [at |-> "idle", listed |-> [e \in {} |-> 0], excess |-> 0, row |-> NoRow]

EvictionTypeOK ==
  /\ DOMAIN lastHit \subseteq Entries /\ Range(lastHit) \subseteq 0..time
  /\ onDisk \subseteq Entries /\ renamed \subseteq Entries /\ time \in 0..MaxTime /\ turns \in 0..MaxTurns
  /\ DOMAIN task = Evictors
  /\ \A x \in Evictors : /\ task[x].at \in Steps /\ task[x].row \in Entries \cup {NoRow}
                         /\ DOMAIN task[x].listed \subseteq Entries /\ task[x].excess \in Int
  /\ \A m \in DOMAIN evictLock : evictLock[m] \in Workers \cup {NoRow}
  /\ fresh \in [Sweepers -> [Entries -> 0..MaxTurns]]
  /\ disturbed \subseteq Workers

EvictionInit ==
  /\ lastHit = FirstHits /\ onDisk = Entries /\ renamed = {} /\ time = StartTime /\ turns = 0
  /\ task = [x \in Evictors |-> NoTask]
  /\ evictLock = [m \in {WorkerMount[w] : w \in Workers} |-> NoRow]
  /\ fresh = [x \in Sweepers |-> NoneMarked] /\ disturbed = {}

-----------------------------------------------------------------------------
(* The database.                                                           *)

Rows == DOMAIN lastHit
Without(f, S) == Restrict(f, DOMAIN f \ S)
SizeOfAll(S) == SumFunctionOnSet(SizeOf, S)

\* total_cached_bytes_global.
TotalCached == SizeOfAll(Rows)

\* eviction_candidates and expired_files of a mount.
RowsOf(m) == {e \in Rows : MountOf[e] = m}
EvictionCandidates(m) == Restrict(lastHit, RowsOf(m))
ExpiredFiles(m) == Restrict(lastHit, {e \in RowsOf(m) : lastHit[e] < Max({time - ExpirySecs, 0})})

\* mark_cached inserts or replaces a row, mark_hit updates one if it is there.
MarkCached(e) == lastHit' = [f \in Rows \cup {e} |-> IF f = e THEN time ELSE lastHit[f]]
MarkHit(e) == e \in Rows /\ lastHit[e] < time /\ lastHit' = [lastHit EXCEPT ![e] = time]

-----------------------------------------------------------------------------
(* The steps the evictors share: the next of the listed rows, its file and *)
(* then its row.                                                           *)

Set(x, t) == task' = [task EXCEPT ![x] = t]
Stays == UNCHANGED <<cacheVars, fresh, disturbed>>

\* In the order of the query: for the size, the least recently hit first.
Victims(x) ==
  LET l == task[x].listed IN
  IF task[x].at = "expire" THEN DOMAIN l ELSE {e \in DOMAIN l : \A f \in DOMAIN l : l[e] <= l[f]}

\* A removal counts only if it succeeded.
Freed(t, e) == [t EXCEPT !.excess = @ - SizeOf[e]]
NotFreed(t, e) == t

\* The workers who do not exclude x by their lock, and whose total a removal
\* by x makes wrong.
DisturbedBy(x) ==
  {w \in Workers : /\ x \in Workers => WorkerMount[x] # WorkerMount[w]
                   /\ task[w].at \in {"list", "reclaim"}}

DeleteFile(x) ==
  \E e \in Victims(x) :
    LET t == [task[x] EXCEPT !.listed = Without(@, {e})] IN
    /\ task[x].at = "expire" \/ (task[x].at = "reclaim" /\ task[x].excess > 0)
    /\ task[x].row = NoRow
    /\ IF e \in onDisk
       THEN /\ onDisk' = onDisk \ {e}
            /\ Set(x, [Freed(t, e) EXCEPT !.row = e])
       ELSE Set(x, NotFreed(t, e)) /\ UNCHANGED onDisk
    /\ UNCHANGED <<lastHit, renamed, time, turns, evictLock, fresh, disturbed>>

RemoveRow(x) ==
  /\ task[x].row # NoRow
  /\ lastHit' = Without(lastHit, {task[x].row})
  /\ Set(x, [task[x] EXCEPT !.row = NoRow])
  /\ disturbed' = disturbed \cup DisturbedBy(x)
  /\ UNCHANGED <<onDisk, renamed, time, turns, evictLock, fresh>>

\* The total, and then the list: two queries.
ReadTotal(x, target) ==
  /\ task[x].at = "total"
  /\ TotalCached > target
  /\ Set(x, [NoTask EXCEPT !.at = "list", !.excess = TotalCached - target])

ReadCandidates(x) ==
  /\ task[x].at = "list"
  /\ Set(x, [task[x] EXCEPT !.at = "reclaim", !.listed = EvictionCandidates(EvictingMount(x))])
  /\ UNCHANGED evictLock /\ Stays

\* Enough is freed, or nothing is left to be tried.
Reclaimed(x) == task[x].at = "reclaim" /\ task[x].row = NoRow
                /\ (task[x].excess <= 0 \/ task[x].listed = NoTask.listed)

-----------------------------------------------------------------------------
(* evict_if_needed, on the tick of a mount's eviction worker.              *)

SweepStarts(m) ==
  /\ task[m].at = "idle"
  /\ Set(m, IF ExpirySecs = 0 THEN [NoTask EXCEPT !.at = "total"]
            ELSE [NoTask EXCEPT !.at = "expire", !.listed = ExpiredFiles(m)])
  /\ UNCHANGED evictLock /\ Stays

SweepExpired(m) ==
  /\ task[m].at = "expire" /\ task[m].row = NoRow /\ task[m].listed = NoTask.listed
  /\ Set(m, [NoTask EXCEPT !.at = "total"])
  /\ UNCHANGED evictLock /\ Stays

SweepReads(m) ==
  /\ \/ ReadTotal(m, MaxSizeBytes)
     \/ task[m].at = "total" /\ TotalCached <= MaxSizeBytes /\ Set(m, NoTask)
  /\ fresh' = [fresh EXCEPT ![m] = NoneMarked]
  /\ UNCHANGED <<cacheVars, evictLock, disturbed>>

SweepEnds(m) ==
  /\ Reclaimed(m)
  /\ Set(m, NoTask) /\ fresh' = [fresh EXCEPT ![m] = NoneMarked]
  /\ UNCHANGED <<cacheVars, evictLock, disturbed>>

-----------------------------------------------------------------------------
(* evict_to_fit, of a worker that has found the disk full, before and      *)
(* after it got the lock.                                                  *)

\* A worker for which has_free_space says no before it waits for the lock and
\* again once it has it.  The first answer and the wait change nothing here, and
\* a worker whose second answer is yes gives the lock back as it found it: both
\* answers depend on the file system, so that the lock is all that decides.
LockTaken(w) == TRUE
LockIsFree(w) == evictLock[WorkerMount[w]] = NoRow
DiskFull(w) ==
  /\ task[w].at = "idle" /\ LockIsFree(w)
  /\ evictLock' = [evictLock EXCEPT ![WorkerMount[w]] = w]
  /\ Set(w, [NoTask EXCEPT !.at = "total"])
  /\ Stays

\* What must go: the budget less the pending file, at least zero.
FitTarget(w) == Max({MaxSizeBytes - Pending[w], 0})
Unlock(w) == evictLock' = [evictLock EXCEPT ![WorkerMount[w]] = NoRow]

FitReads(w) ==
  /\ \/ ReadTotal(w, FitTarget(w)) /\ UNCHANGED evictLock
     \/ task[w].at = "total" /\ TotalCached <= FitTarget(w) /\ Set(w, NoTask) /\ Unlock(w)
  /\ disturbed' = disturbed \ {w}
  /\ UNCHANGED <<cacheVars, fresh>>

FitEnds(w) ==
  /\ Reclaimed(w)
  /\ Set(w, NoTask) /\ Unlock(w) /\ disturbed' = disturbed \ {w}
  /\ UNCHANGED <<cacheVars, fresh>>

-----------------------------------------------------------------------------
(* Clients, copies, hits and the clock.                                    *)

Turn == turns < MaxTurns /\ turns' = turns + 1

\* One file of an EvictFiles command.
IpcEvict(e) ==
  /\ Turn /\ task["ipc"].row = NoRow /\ e \in onDisk
  /\ onDisk' = onDisk \ {e}
  /\ Set("ipc", [NoTask EXCEPT !.row = e])
  /\ UNCHANGED <<lastHit, renamed, time, evictLock, fresh, disturbed>>

\* RefreshLease, and a hit of an open.
Hit(e) ==
  /\ Turn /\ MarkHit(e)
  /\ UNCHANGED <<onDisk, renamed, time, task, evictLock, fresh, disturbed>>

CopyRenames(e) ==
  /\ Turn /\ e \notin onDisk /\ e \notin renamed
  /\ onDisk' = onDisk \cup {e} /\ renamed' = renamed \cup {e}
  /\ UNCHANGED <<lastHit, time, task, evictLock, fresh, disturbed>>

CopyMarks(e) ==
  /\ e \in renamed
  /\ renamed' = renamed \ {e}
  /\ MarkCached(e)
  /\ fresh' = [x \in Sweepers |-> IF task[x].at \in {"list", "reclaim"} THEN [fresh[x] EXCEPT ![e] = @ + 1] ELSE NoneMarked]
  /\ UNCHANGED <<onDisk, time, turns, task, evictLock, disturbed>>

TimePasses ==
  /\ Turn
  /\ time' = time + 1
  /\ UNCHANGED <<lastHit, onDisk, renamed, task, evictLock, fresh, disturbed>>

EvictionNext ==
  \/ \E x \in Evictors : DeleteFile(x) \/ RemoveRow(x) \/ ReadCandidates(x)
  \/ \E m \in Sweepers : SweepStarts(m) \/ SweepExpired(m) \/ SweepReads(m) \/ SweepEnds(m)
  \/ \E w \in Workers : DiskFull(w) \/ FitReads(w) \/ FitEnds(w)
  \/ \E e \in Entries : IpcEvict(e) \/ Hit(e) \/ CopyRenames(e) \/ CopyMarks(e)
  \/ TimePasses

EvictionSpec == EvictionInit /\ [][EvictionNext]_evictionVars

-----------------------------------------------------------------------------
(* What must hold.                                                         *)

\* What was cached since a sweep read the total, each time it was marked.
FreshBytes(m) == SumFunction([e \in Entries |-> fresh[m][e] * SizeOf[e]])

\* A sweep brings the cache back into its budget (evict_if_needed), although
\* copies, clients and the other evictors go on meanwhile: when it ends, the
\* rows exceed the budget by no more than what was cached since it read the
\* total, or it has tried in vain: no file of its mount is left, but those
\* cached meanwhile.  Rows whose file is gone may hold it to that.
SweepReclaims ==
  [][\A m \in Sweepers : task[m].at = "reclaim" /\ task'[m].at = "idle" =>
       \/ TotalCached <= MaxSizeBytes + FreshBytes(m)
       \/ \A e \in RowsOf(m) \cap onDisk : fresh[m][e] > 0 \/ e \in renamed]_evictionVars

\* "The evict_lock serialises concurrent workers so they don't compute the
\* same deletion set and over-evict" (io.rs:379): a worker deletes a file only
\* while the rows exceed what it has to fit into, unless somebody who does not
\* take the lock (a sweep, a client, another mount) has removed rows since it
\* read the total.
NoOverEviction ==
  [][\A w \in Workers : onDisk' # onDisk /\ task'[w] # task[w] /\ w \notin disturbed
                         => TotalCached > FitTarget(w)]_evictionVars
=============================================================================

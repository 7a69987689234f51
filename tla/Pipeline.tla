------------------------------ MODULE Pipeline ------------------------------
(***************************************************************************)
(* The job pipeline of CacheIO (src/src/cache/io.rs): the FIFO `queue`,    *)
(* the dedup table `known`, the `deferred_events` rows that let Populate   *)
(* jobs survive a restart, the dispatcher task, and the life of a worker   *)
(* task from its spawn to its last database write.                         *)
(*                                                                         *)
(* What a worker does between its start and `finish_known` (the copy, the  *)
(* validation) is the subject of module CacheIO, whose steps are steps of  *)
(* this module too.  Every step here is one critical section of the state  *)
(* mutex, one database call or one await point of the code.                *)
(***************************************************************************)
EXTENDS Naturals, FiniteSets, SequencesExt

CONSTANTS
  Paths,                \* the relative paths jobs are about
  Slots,                \* identities of worker tasks; bounds the tasks alive at once
  MaxConcurrentCopies,  \* permits of the copy semaphore
  DeferredTtl,          \* deferred_ttl_minutes: "zero", "elapses" or "never" elapses
  Crashes,              \* whether the daemon may stop and be restarted
  NoJob                 \* the dispatcher holds no job

Kinds == {"Populate", "Validate", "Replace"}
CopyKinds == {"Populate", "Replace"}
Jobs == Paths \X Kinds

ASSUME PipelineAssumption ==
  /\ IsFiniteSet(Paths)
  /\ MaxConcurrentCopies \in Nat \ {0}
  /\ DeferredTtl \in {"zero", "elapses", "never"}
  /\ Crashes \in BOOLEAN
  /\ NoJob \notin Jobs

VARIABLES
  queue,     \* PipelineState.queue
  known,     \* PipelineState.known: no entry, None, or Some(control) with its abort flag
  deferred,  \* the deferred_events table, by key
  window,    \* Scheduler::is_caching_allowed at this moment
  dpc,       \* where the dispatcher stands
  allowed,   \* the dispatcher's last reading of the window
  expired,   \* rows expire_stale has still to delete
  held,      \* the job the dispatcher popped and awaits a permit for
  tjob,      \* the job of each worker task
  stage      \* how far each worker task is

pipelineVars == <<queue, known, deferred, window, dpc, allowed, expired, held, tjob, stage>>
dispVars == <<dpc, allowed, expired, held>>
taskVars == <<tjob, stage>>

KnownStates == {"absent", "queued", "flight", "aborted"}
Stages == {"free", "start", "flight", "forget"}

PipelineTypeOK ==
  /\ queue \in Seq(Jobs)
  /\ known \in [Jobs -> KnownStates]
  /\ deferred \subseteq Paths
  /\ window \in BOOLEAN
  /\ dpc \in {"idle", "check", "pop", "permit"}
  /\ allowed \in BOOLEAN
  /\ expired \subseteq Paths
  /\ held \in (Paths \X CopyKinds) \cup {NoJob}
  /\ tjob \in [Slots -> Jobs \cup {NoJob}]
  /\ stage \in [Slots -> Stages]

-----------------------------------------------------------------------------
(* Start and restart.                                                      *)

\* CacheIO::spawn over the rows `load_deferred` returned, in the order the
\* query returned them (it has no ORDER BY).
Spawn(rows) ==
  /\ queue' = [i \in DOMAIN rows |-> <<rows[i], "Populate">>]
  /\ known' = [j \in Jobs |->
                 IF j[2] = "Populate" /\ j[1] \in Range(rows) THEN "queued" ELSE "absent"]

\* load_deferred: rows older than the TTL are not returned (and stay in the
\* table); a TTL of 0 puts the cutoff at the present second.
LoadDeferred ==
  IF DeferredTtl = "never" THEN SetToSeqs(deferred) ELSE SetToAllKPermutations(deferred)

PipelineInit ==
  /\ queue = <<>>
  /\ known = [j \in Jobs |-> "absent"]
  /\ deferred = {}
  /\ window \in BOOLEAN
  /\ dpc = "idle" /\ allowed = FALSE /\ expired = {} /\ held = NoJob
  /\ tjob = [s \in Slots |-> NoJob]
  /\ stage = [s \in Slots |-> "free"]

\* The process ends (crash, kill, or the shutdown that aborts detached workers)
\* and is started again: only the table survives.
Restart ==
  /\ Crashes
  /\ \E rows \in LoadDeferred : Spawn(rows)
  /\ dpc' = "idle" /\ allowed' = FALSE /\ expired' = {} /\ held' = NoJob
  /\ tjob' = [s \in Slots |-> NoJob]
  /\ stage' = [s \in Slots |-> "free"]
  /\ UNCHANGED <<deferred, window>>

-----------------------------------------------------------------------------
(* Callers: the engine, the maintenance task, the watcher, a validation.   *)

\* known.contains_key: queued and running jobs alike are known.
NotQueuedOnly(p, k) == known[<<p, k>>] # "queued"
NotKnown(p, k) == known[<<p, k>>] = "absent"

\* The locked part of submit_job.  A job already known is dropped.
Submit(p, k) ==
  /\ NotKnown(p, k)
  /\ known' = [known EXCEPT ![<<p, k>>] = "queued"]
  /\ queue' = Append(queue, <<p, k>>)
  /\ deferred' = IF k = "Populate" THEN deferred \cup {p} ELSE deferred
  /\ UNCHANGED <<window, dispVars, taskVars>>

\* The entry is Some(Some(control)), not Some(None).
HasEntry(j) == known[j] # "absent"
HasHandle(j) == known[j] \in {"flight", "aborted"}

\* mark_abort: raises the flag of the copies of p that are in flight.
MarkAbort(p) ==
  /\ known' = [j \in Jobs |->
                 IF j[1] = p /\ j[2] \in CopyKinds /\ HasHandle(j) THEN "aborted" ELSE known[j]]
  /\ UNCHANGED <<queue, deferred, window, dispVars, taskVars>>

\* The clock enters or leaves the caching window.
WindowFlips ==
  /\ window' = ~window
  /\ UNCHANGED <<queue, known, deferred, dispVars, taskVars>>

-----------------------------------------------------------------------------
(* The dispatcher.                                                         *)

\* Of the jobs popped, expire_stale keeps the paths of the Populates.
ExpiredPaths(gone) == {p \in Paths : <<p, "Populate">> \in gone}

\* The select! wakes (the 10 s tick alone makes that possible at any time) and
\* expire_stale pops the jobs past the TTL from the front, under the lock.
ExpireStale ==
  /\ dpc = "idle"
  /\ \E n \in 0..Len(queue) :
       /\ n > 0 => DeferredTtl = "elapses"
       /\ LET gone == Range(SubSeq(queue, 1, n)) IN
            /\ known' = [j \in Jobs |-> IF j \in gone THEN "absent" ELSE known[j]]
            /\ expired' = ExpiredPaths(gone)
       /\ queue' = SubSeq(queue, n + 1, Len(queue))
  /\ dpc' = "check"
  /\ UNCHANGED <<deferred, window, allowed, held, taskVars>>

\* CacheDb::remove_deferred.
KeepDeferred(p) == deferred
RemoveDeferred(p) == deferred \ {p}

\* expire_stale, after the lock is released: one remove_deferred per path.
ForgetExpired(p) ==
  /\ p \in expired
  /\ expired' = expired \ {p}
  /\ deferred' = RemoveDeferred(p)
  /\ UNCHANGED <<queue, known, window, dpc, allowed, held, taskVars>>

\* The inner loop reads the window before it takes the lock.
CheckWindow ==
  /\ dpc = "check" /\ expired = {}
  /\ allowed' = window
  /\ dpc' = "pop"
  /\ UNCHANGED <<queue, known, deferred, window, expired, held, taskVars>>

\* pop_next_job: the front while copies are allowed, else the first Validate job.
IsFront(i) == i = 1 /\ (allowed \/ queue[i][2] = "Validate")
IsNext(i) ==
  IF allowed THEN i = 1
  ELSE /\ queue[i][2] = "Validate"
       /\ \A k \in 1..(i - 1) : queue[k][2] # "Validate"

\* pop_front and remove(idx) take the job out.
Popped(i) == RemoveAt(queue, i)

Free(s) == stage[s] = "free"
Copying(s) == ~Free(s) /\ tjob[s][2] \in CopyKinds
PermitOrOneMore == Cardinality({s \in Slots : Copying(s)}) <= MaxConcurrentCopies
PermitFree == Cardinality({s \in Slots : Copying(s)}) < MaxConcurrentCopies

\* tokio::spawn(job_worker(..)): the task will run from its first line.
SpawnTask(s, j) ==
  /\ Free(s)
  /\ tjob' = [tjob EXCEPT ![s] = j]
  /\ stage' = [stage EXCEPT ![s] = "start"]

PopNone ==
  /\ dpc = "pop"
  /\ \A i \in 1..Len(queue) : ~IsNext(i)
  /\ dpc' = "idle" /\ allowed' = FALSE
  /\ UNCHANGED <<queue, known, deferred, window, expired, held, taskVars>>

PopValidate(s) ==
  /\ dpc = "pop"
  /\ \E i \in 1..Len(queue) :
       /\ IsNext(i) /\ queue[i][2] = "Validate"
       /\ SpawnTask(s, queue[i])
       /\ queue' = Popped(i)
  /\ dpc' = "check" /\ allowed' = FALSE
  /\ UNCHANGED <<known, deferred, window, expired, held>>

PopAnyJob ==
  /\ dpc = "pop"
  /\ \E i \in 1..Len(queue) :
       /\ IsNext(i)
       /\ held' = queue[i]
       /\ queue' = Popped(i)
  /\ dpc' = "permit" /\ allowed' = FALSE
  /\ UNCHANGED <<known, deferred, window, expired, taskVars>>

\* A Populate or a Replace waits for a permit in the dispatcher's hand.
PopCopy ==
  /\ dpc = "pop"
  /\ \E i \in 1..Len(queue) :
       /\ IsNext(i) /\ queue[i][2] \in CopyKinds
       /\ held' = queue[i]
       /\ queue' = Popped(i)
  /\ dpc' = "permit" /\ allowed' = FALSE
  /\ UNCHANGED <<known, deferred, window, expired, taskVars>>

\* semaphore.acquire_owned() returns, and the worker is spawned with the permit.
StartCopy(s) ==
  /\ dpc = "permit" /\ PermitFree
  /\ SpawnTask(s, held)
  /\ held' = NoJob
  /\ dpc' = "check"
  /\ UNCHANGED <<queue, known, deferred, window, allowed, expired>>

Dispatcher ==
  \/ ExpireStale
  \/ \E p \in Paths : ForgetExpired(p)
  \/ CheckWindow
  \/ PopNone
  \/ \E s \in Slots : PopValidate(s)
  \/ PopCopy
  \/ \E s \in Slots : StartCopy(s)

-----------------------------------------------------------------------------
(* Worker tasks.                                                           *)

\* populate_worker replaces None by Some(CopyControl) with the flag down.
Promote(s) ==
  /\ stage[s] = "start" /\ tjob[s][2] \in CopyKinds
  /\ known' = [known EXCEPT ![tjob[s]] = "flight"]
  /\ stage' = [stage EXCEPT ![s] = "flight"]
  /\ UNCHANGED <<queue, deferred, window, dispVars, tjob>>

\* The entry finish_known removes; a populate_worker that finds the file cached
\* before its promotion has one too.
LeaveIfPromoted(s) == IF stage[s] = "flight" THEN [known EXCEPT ![tjob[s]] = "absent"] ELSE known
Leave(s) == [known EXCEPT ![tjob[s]] = "absent"]

\* finish_known, the locked part.  Called by a copy after its promotion, by a
\* Populate that found the file cached before it, and by a validation.  A job
\* that is not a Populate ends here, and its permit is dropped.
FinishKnown(s) ==
  /\ \/ stage[s] = "flight"
     \/ stage[s] = "start" /\ tjob[s][2] # "Replace"
  /\ known' = Leave(s)
  /\ IF tjob[s][2] = "Populate"
     THEN /\ stage' = [stage EXCEPT ![s] = "forget"]
          /\ UNCHANGED tjob
     ELSE /\ stage' = [stage EXCEPT ![s] = "free"]
          /\ tjob' = [tjob EXCEPT ![s] = NoJob]
  /\ UNCHANGED <<queue, deferred, window, dispVars>>

\* finish_known, after the lock is released: remove_deferred, and the task ends.
ForgetDeferred(s) ==
  /\ stage[s] = "forget"
  /\ deferred' = RemoveDeferred(tjob[s][1])
  /\ stage' = [stage EXCEPT ![s] = "free"]
  /\ tjob' = [tjob EXCEPT ![s] = NoJob]
  /\ UNCHANGED <<queue, known, window, dispVars>>

Worker(s) == Promote(s) \/ FinishKnown(s) \/ ForgetDeferred(s)

-----------------------------------------------------------------------------
PipelineNext ==
  \/ \E p \in Paths, k \in Kinds : Submit(p, k)
  \/ \E p \in Paths : MarkAbort(p)
  \/ WindowFlips
  \/ Dispatcher
  \/ \E s \in Slots : Worker(s)
  \/ Restart

PipelineSpec == PipelineInit /\ [][PipelineNext]_pipelineVars

-----------------------------------------------------------------------------
(* What must hold.                                                         *)

Queued(j) == j \in Range(queue)
Live(s) == stage[s] \in {"start", "flight"}
Running(j) == \E s \in Slots : Live(s) /\ tjob[s] = j

\* Dedup is airtight (PipelineState, io.rs 52-58): a job that `known` has is in
\* exactly one place, the queue (once), the dispatcher's hand or one worker,
\* and a job that is in any of these places is in `known`.  Submissions, pops,
\* the wait for a permit, promotion, expiry and restart all move jobs.
DedupAirtight ==
  /\ IsInjective(queue)
  /\ \A j \in Jobs : ~(Queued(j) /\ (held = j \/ Running(j)))
  /\ \A j \in Jobs : ~(held = j /\ Running(j))
  /\ \A s, t \in Slots : Live(s) /\ Live(t) /\ tjob[s] = tjob[t] => s = t
  /\ \A j \in Jobs : known[j] # "absent" <=> Queued(j) \/ held = j \/ Running(j)

\* An abort handle is in the table exactly while the copy it belongs to runs:
\* mark_abort can neither reach a finished copy's entry nor a queued one's.
HandleMatchesCopy ==
  \A j \in Jobs : known[j] \in {"flight", "aborted"}
                    <=> \E s \in Slots : stage[s] = "flight" /\ tjob[s] = j

\* The deferred row of a path outlives its job only until the deletion that
\* finish_known or expire_stale still owes: a finished job is not rehydrated
\* by every later restart (tests/cache_io_e2e.rs, 3 and 4).
NoOrphanRow ==
  \A p \in deferred : \/ known[<<p, "Populate">>] # "absent"
                      \/ p \in expired
                      \/ \E s \in Slots : stage[s] = "forget" /\ tjob[s][1] = p

\* No job is stuck (tests/cache_io_e2e.rs, 5: "permanently stuck in `known`"):
\* if the window stays open from some time on, each job leaves the table.
EveryJobLeaves ==
  <>[]window => \A j \in Jobs : known[j] # "absent" ~> known[j] = "absent"

\* A validation finishes even if the window never opens and copies are queued
\* before it: pop_next_job looks past them.
ValidationNotBlocked ==
  \A p \in Paths : known[<<p, "Validate">>] # "absent" ~> known[<<p, "Validate">>] = "absent"

\* The phase of a job, from the places it can be in.
Phase(j) == IF Queued(j) \/ held = j THEN "queued" ELSE IF Running(j) THEN "running" ELSE "idle"

Lifecycle == INSTANCE JobLifecycle WITH phase <- [j \in Jobs |-> Phase(j)]

\* The pipeline implements the life cycle: a job is never handed to a second
\* worker, never taken from a worker by expiry, and a submission starts a job
\* only when it is in no queue and with no worker.
LifecycleSpec == Lifecycle!Spec
=============================================================================

------------------------------- MODULE CacheIO -------------------------------
(***************************************************************************)
(* The cache of one mount: the job pipeline (module Pipeline) at work on   *)
(* the cache directory, the cache_files table and the backing store.       *)
(*                                                                         *)
(*   populate_worker, perform_copy, validate_worker   src/src/cache/io.rs  *)
(*   is_cached, is_stale, drop_stale, eviction        .../cache/manager.rs *)
(*   mark_cached, remove, reconcile_with_disk         .../cache/db.rs      *)
(*   dispatch of a coalesced backing event            backing_watch.rs     *)
(*   EvictFiles                                       ipc/server.rs        *)
(*                                                                         *)
(* The content of a backing file is its version; every write gives it a    *)
(* new one, and the fingerprint (mtime, size) of a version identifies it.  *)
(***************************************************************************)
EXTENDS Pipeline

CONSTANTS
  MaxVersion,    \* bounds how often a backing file is written
  MaxCallers,    \* bounds the calls of submit_* and mark_abort under way at once
  CheckOnHit,    \* invalidation.check_on_hit
  Maintenance,   \* invalidation.check_on_maintenance, with a poll interval
  Watch,         \* the backing watcher runs and watches every directory
  Evictors,      \* who evicts beside the workers: of "sweep" and "ipc"
  Failures,      \* whether copies may fail for want of space or an I/O error
  NoFile, NoRow, NoPath

Versions == 1..MaxVersion
Torn == 0              \* bytes that are no version of the file: empty, short or mixed
ZeroFp == 0            \* the fingerprint of a row that reconcile_with_disk inserted

\* A file: its content, the tasks that hold it open for writing, and the
\* versions those who ever did were copying.
FileStates == [c : 0..MaxVersion, w : SUBSET Slots, v : SUBSET Versions]

ASSUME CacheIOAssumption ==
  /\ MaxVersion \in Nat \ {0} /\ MaxCallers \in Nat
  /\ {CheckOnHit, Maintenance, Watch, Failures} \subseteq BOOLEAN
  /\ Evictors \subseteq {"sweep", "ipc"} /\ Evictors \cap Slots = {}
  /\ NoRow \notin 0..MaxVersion /\ NoPath \notin Paths /\ NoFile \notin FileStates

VARIABLES
  backing,   \* the backing file of each path: its last version, and whether it exists
  disk,      \* the cached file of each path
  partial,   \* the `.partial` file of each path, one for every copy of the path
  rows,      \* cache_files: the fingerprint stored for each path
  at,        \* where each worker task stands in its function
  snap,      \* the version each worker task read: source fstat, stored row, or live stat
  evict,     \* per evicting thread, the path it unlinked and whose row it has to remove
  callers,   \* calls that have read the cache and not yet taken the state lock
  dirty      \* backing events the watcher has not dispatched

storeVars == <<backing, disk, partial, rows>>
localVars == <<at, snap, evict>>
eventVars == <<callers, dirty>>
vars == <<pipelineVars, storeVars, localVars, eventVars>>

Files == FileStates \cup {NoFile}
Places == {"-", "begin", "space", "open", "copy", "verify", "commit", "mark", "done",
           "stat", "backfill", "unlink", "unrow", "replace"}
EvictThreads == Evictors \cup Slots

TypeOK ==
  /\ PipelineTypeOK
  /\ backing \in [Paths -> [ver : Versions, live : BOOLEAN]]
  /\ disk \in [Paths -> Files] /\ partial \in [Paths -> Files]
  /\ rows \in [Paths -> 0..MaxVersion \cup {NoRow}]
  /\ at \in [Slots -> Places]
  /\ snap \in [Slots -> 0..MaxVersion]
  /\ evict \in [EvictThreads -> Paths \cup {NoPath}]
  /\ callers \subseteq Paths \X {"Populate", "Validate", "Abort"}
  /\ dirty \subseteq Paths

Init ==
  /\ PipelineInit
  /\ backing = [p \in Paths |-> [ver |-> 1, live |-> TRUE]]
  /\ disk = [p \in Paths |-> NoFile] /\ partial = [p \in Paths |-> NoFile]
  /\ rows = [p \in Paths |-> NoRow]
  /\ at = [s \in Slots |-> "-"] /\ snap = [s \in Slots |-> 0]
  /\ evict = [e \in EvictThreads |-> NoPath]
  /\ callers = {} /\ dirty = {}

\* CacheManager::is_cached looks at the directory, not at the table.
IsCached(p) == disk[p] # NoFile
Path(s) == tjob[s][1]
Kind(s) == tjob[s][2]
Goto(s, place) == at' = [at EXCEPT ![s] = place]

-----------------------------------------------------------------------------
(* The backing store and what notices its changes.                         *)

\* A file is overwritten in place, replaced by a rename, or created again.
BackingWrite(p) ==
  /\ backing[p].ver < MaxVersion
  /\ backing' = [backing EXCEPT ![p] = [ver |-> @.ver + 1, live |-> TRUE]]
  /\ dirty' = IF Watch THEN dirty \cup {p} ELSE dirty
  /\ UNCHANGED <<pipelineVars, disk, partial, rows, localVars, callers>>

BackingDelete(p) ==
  /\ backing[p].live
  /\ backing' = [backing EXCEPT ![p].live = FALSE]
  /\ dirty' = IF Watch THEN dirty \cup {p} ELSE dirty
  /\ UNCHANGED <<pipelineVars, disk, partial, rows, localVars, callers>>

Calling(p, what) ==
  /\ Cardinality(callers) < MaxCallers
  /\ callers' = callers \cup {<<p, what>>}

\* submit_job(Populate) as far as the is_cached check before the lock.
RequestCache(p) ==
  /\ ~IsCached(p)
  /\ Calling(p, "Populate")
  /\ UNCHANGED <<pipelineVars, storeVars, localVars, dirty>>

\* The engine on a Hit event, or the maintenance task on a row it listed.
RequestValidation(p) ==
  /\ (CheckOnHit /\ IsCached(p)) \/ (Maintenance /\ rows[p] # NoRow)
  /\ Calling(p, "Validate")
  /\ UNCHANGED <<pipelineVars, storeVars, localVars, dirty>>

\* dispatch: a path that is not in the cache directory is left alone.
WatchDispatch(p) ==
  /\ p \in dirty
  /\ dirty' = dirty \ {p}
  /\ IF IsCached(p) THEN Calling(p, "Abort") ELSE UNCHANGED callers
  /\ UNCHANGED <<pipelineVars, storeVars, localVars>>

\* dispatch goes on: mark_abort under the lock, then submit_validation.
CallAbort(p) ==
  /\ <<p, "Abort">> \in callers
  /\ MarkAbort(p)
  /\ callers' = (callers \ {<<p, "Abort">>}) \cup {<<p, "Validate">>}
  /\ UNCHANGED <<storeVars, localVars, dirty>>

SubmitOrDrop(p, k) ==
  \/ Submit(p, k)
  \/ known[<<p, k>>] # "absent" /\ UNCHANGED pipelineVars

CallSubmit(p, k) ==
  /\ <<p, k>> \in callers
  /\ SubmitOrDrop(p, k)
  /\ callers' = callers \ {<<p, k>>}
  /\ UNCHANGED <<storeVars, localVars, dirty>>

-----------------------------------------------------------------------------
(* Dispatcher steps, and the start and end of a task.                      *)

SpawnOn(s) == Goto(s, "begin") /\ UNCHANGED <<snap, evict>>

Dispatch ==
  /\ \/ (ExpireStale \/ CheckWindow \/ PopNone \/ PopCopy) /\ UNCHANGED localVars
     \/ \E p \in Paths : ForgetExpired(p) /\ UNCHANGED localVars
     \/ \E s \in Slots : (PopValidate(s) \/ StartCopy(s)) /\ SpawnOn(s)
  /\ UNCHANGED <<storeVars, eventVars>>

Flip == WindowFlips /\ UNCHANGED <<storeVars, localVars, eventVars>>

\* finish_known of a task that has nothing else to do.
Finish(s) ==
  /\ at[s] = "done"
  /\ FinishKnown(s)
  /\ Goto(s, "-")
  /\ snap' = [snap EXCEPT ![s] = 0]
  /\ UNCHANGED <<evict, storeVars, eventVars>>

Forget(s) == ForgetDeferred(s) /\ UNCHANGED <<storeVars, localVars, eventVars>>

-----------------------------------------------------------------------------
(* populate_worker and perform_copy.                                       *)

\* A Populate whose file has appeared meanwhile goes straight to finish_known.
SkipCached(s) ==
  /\ at[s] = "begin" /\ Kind(s) = "Populate" /\ IsCached(Path(s))
  /\ Goto(s, "done")
  /\ UNCHANGED <<pipelineVars, storeVars, snap, evict, eventVars>>

BeginCopy(s) ==
  /\ at[s] = "begin"
  /\ Kind(s) = "Populate" => ~IsCached(Path(s))
  /\ Promote(s)
  /\ Goto(s, "space")
  /\ UNCHANGED <<snap, evict, storeVars, eventVars>>

\* has_free_space answers yes, at once or after evict_to_fit.
HasSpace(s) ==
  /\ at[s] = "space" /\ evict[s] = NoPath
  /\ Goto(s, "open")
  /\ UNCHANGED <<pipelineVars, storeVars, snap, evict, eventVars>>

\* It still answers no: the job is given up.
NoSpace(s) ==
  /\ Failures
  /\ at[s] = "space" /\ evict[s] = NoPath
  /\ Goto(s, "done")
  /\ UNCHANGED <<pipelineVars, storeVars, snap, evict, eventVars>>

LeavePartial(s) == Goto(s, "done") /\ UNCHANGED storeVars

\* perform_copy returns Err: the partial file is removed by name, whoever
\* created it, and a descriptor the task had open is closed.
FailCopy(s) ==
  LET p == Path(s) IN
  /\ partial' = [partial EXCEPT ![p] = NoFile]
  /\ disk' = IF IsCached(p) THEN [disk EXCEPT ![p].w = @ \ {s}] ELSE disk
  /\ Goto(s, "done")
  /\ UNCHANGED <<backing, rows>>

\* open_file, fstat, and the partial file opened with create and truncate: if
\* another copy of the path has it open, both write to the same inode.
OpenPartial(s) ==
  LET p == Path(s)
      f == partial[p]
      ver == backing[p].ver IN
  /\ at[s] = "open" /\ backing[p].live
  /\ partial' = [partial EXCEPT ![p] =
       IF f = NoFile THEN [c |-> Torn, w |-> {s}, v |-> {ver}]
                     ELSE [c |-> Torn, w |-> f.w \cup {s}, v |-> f.v \cup {ver}]]
  /\ snap' = [snap EXCEPT ![s] = ver]
  /\ Goto(s, "copy")
  /\ UNCHANGED <<pipelineVars, backing, disk, rows, evict, eventVars>>

\* The source is gone, or it or the partial file cannot be opened.
OpenFails(s) ==
  /\ at[s] = "open" /\ (Failures \/ ~backing[Path(s)].live)
  /\ FailCopy(s)
  /\ UNCHANGED <<pipelineVars, snap, evict, eventVars>>

\* What the inode holds once the task reached end of file.  A source written
\* meanwhile may have been read in part or whole in a later version; another
\* open writer of the inode may have truncated it, or its bytes show through.
Written(s, f) ==
  LET ver == backing[Path(s)].ver IN
  IF ver = snap[s] /\ f.w = {s} /\ f.v = {snap[s]}
  THEN {snap[s]}
  ELSE {Torn} \cup f.v \cup snap[s]..ver

\* The read/write loop, sync_all, and the descriptor is closed.  The inode may
\* have been renamed to the cached file or unlinked by another copy since.
CopyBytes(s) ==
  LET p == Path(s)
      Closed(f, c) == [c |-> c, w |-> f.w \ {s}, v |-> f.v] IN
  /\ at[s] = "copy"
  /\ \/ /\ partial[p] # NoFile /\ s \in partial[p].w
        /\ \E c \in Written(s, partial[p]) :
             partial' = [partial EXCEPT ![p] = Closed(partial[p], c)]
        /\ UNCHANGED disk
     \/ /\ disk[p] # NoFile /\ s \in disk[p].w
        /\ \E c \in Written(s, disk[p]) :
             disk' = [disk EXCEPT ![p] = Closed(disk[p], c)]
        /\ UNCHANGED partial
     \/ /\ partial[p] # NoFile => s \notin partial[p].w
        /\ disk[p] # NoFile => s \notin disk[p].w
        /\ UNCHANGED <<disk, partial>>
  /\ Goto(s, "verify")
  /\ UNCHANGED <<pipelineVars, backing, rows, snap, evict, eventVars>>

\* A read, write or sync that fails ends the copy.
ErrorAsEof(s) ==
  /\ Failures /\ at[s] = "copy"
  /\ Goto(s, "verify")
  /\ UNCHANGED <<pipelineVars, storeVars, snap, evict, eventVars>>

CopyError(s) ==
  /\ Failures
  /\ at[s] = "copy"
  /\ FailCopy(s)
  /\ UNCHANGED <<pipelineVars, snap, evict, eventVars>>

\* The abort flag and the final stat; a stat that fails is not taken for a change.
Aborted(s) == known[tjob[s]] = "aborted"
Changed(s) ==
  \/ known[tjob[s]] = "aborted"
  \/ backing[Path(s)].live /\ backing[Path(s)].ver # snap[s]

\* source_snapshot is the final stat, or the first one if there is none.
Verify(s) ==
  /\ at[s] = "verify"
  /\ IF Changed(s)
     THEN FailCopy(s) /\ UNCHANGED snap
     ELSE /\ Goto(s, "commit")
          /\ snap' = [snap EXCEPT ![s] = IF backing[Path(s)].live THEN backing[Path(s)].ver ELSE @]
          /\ UNCHANGED storeVars
  /\ UNCHANGED <<pipelineVars, evict, eventVars>>

\* apply_source_metadata or rename fails: the partial file is gone, or another
\* error of chmod, utimensat or rename.
CommitFails(s) ==
  /\ at[s] = "commit"
  /\ Failures \/ partial[Path(s)] = NoFile
  /\ FailCopy(s)
  /\ UNCHANGED <<pipelineVars, snap, evict, eventVars>>

Commit(s) ==
  LET p == Path(s) IN
  /\ at[s] = "commit" /\ partial[p] # NoFile
  /\ disk' = [disk EXCEPT ![p] = partial[p]]
  /\ partial' = [partial EXCEPT ![p] = NoFile]
  /\ Goto(s, "mark")
  /\ UNCHANGED <<backing, rows>>
  /\ UNCHANGED <<pipelineVars, snap, evict, eventVars>>

MarkCached(s) ==
  /\ at[s] = "mark"
  /\ rows' = [rows EXCEPT ![Path(s)] = snap[s]]
  /\ Goto(s, "done")
  /\ UNCHANGED <<pipelineVars, backing, disk, partial, snap, evict, eventVars>>

CopyStep(s) ==
  \/ SkipCached(s) \/ BeginCopy(s) \/ HasSpace(s) \/ NoSpace(s) \/ OpenFails(s)
  \/ OpenPartial(s) \/ CopyBytes(s) \/ CopyError(s) \/ Verify(s) \/ CommitFails(s)
  \/ Commit(s) \/ MarkCached(s)

-----------------------------------------------------------------------------
(* validate_worker.                                                        *)

\* is_stale reads the row of the path.  A path without one is NotTracked.
ReadFingerprint(s) ==
  /\ at[s] = "begin" /\ Kind(s) = "Validate"
  /\ IF rows[Path(s)] = NoRow
     THEN Goto(s, "done") /\ UNCHANGED snap
     ELSE Goto(s, "stat") /\ snap' = [snap EXCEPT ![s] = rows[Path(s)]]
  /\ UNCHANGED <<pipelineVars, storeVars, evict, eventVars>>

\* is_stale_with_fingerprint: where the task goes from each verdict on the
\* fingerprint fp.  Fresh leaves content and fingerprint alone.
Verdict(p, fp) ==
  IF ~backing[p].live THEN "unlink"
  ELSE IF fp = ZeroFp THEN "backfill"
  ELSE IF fp = backing[p].ver THEN "done"
  ELSE "replace"

\* It stats the backing file, after the row was read.
CheckStale(s) ==
  LET verdict == Verdict(Path(s), snap[s]) IN
  /\ at[s] = "stat"
  /\ Goto(s, verdict)
  /\ snap' = [snap EXCEPT ![s] = IF verdict = "backfill" THEN backing[Path(s)].ver ELSE 0]
  /\ UNCHANGED <<pipelineVars, storeVars, evict, eventVars>>

\* backfill_fingerprint stores the stat is_stale took.
Backfill(s) ==
  /\ at[s] = "backfill"
  /\ rows' = [rows EXCEPT ![Path(s)] = snap[s]]
  /\ Goto(s, "done")
  /\ UNCHANGED <<pipelineVars, backing, disk, partial, snap, evict, eventVars>>

\* drop_stale: the file, then the row, whether there was a file or not, and
\* whether it could be removed or not.
DropFile(s) ==
  /\ at[s] = "unlink"
  /\ \/ disk' = [disk EXCEPT ![Path(s)] = NoFile]
     \/ Failures /\ UNCHANGED disk
  /\ Goto(s, "unrow")
  /\ UNCHANGED <<pipelineVars, backing, partial, rows, snap, evict, eventVars>>

DropRow(s) ==
  /\ at[s] = "unrow"
  /\ rows' = [rows EXCEPT ![Path(s)] = NoRow]
  /\ Goto(s, "done")
  /\ UNCHANGED <<pipelineVars, backing, disk, partial, snap, evict, eventVars>>

OnlyLogStale(s) ==
  /\ at[s] = "replace"
  /\ Goto(s, "done")
  /\ UNCHANGED <<pipelineVars, storeVars, snap, evict, eventVars>>

SubmitReplace(s) ==
  /\ at[s] = "replace"
  /\ SubmitOrDrop(Path(s), "Replace")
  /\ Goto(s, "done")
  /\ UNCHANGED <<storeVars, snap, evict, eventVars>>

ValidateStep(s) ==
  ReadFingerprint(s) \/ CheckStale(s) \/ Backfill(s) \/ DropFile(s) \/ DropRow(s) \/ SubmitReplace(s)

-----------------------------------------------------------------------------
(* Eviction: evict_if_needed on its thread, evict_to_fit in a worker that  *)
(* found no space (one worker at a time, under evict_lock), EvictFiles.    *)
(* Which rows are chosen is left open here.                                *)

MayEvict(e, p) ==
  \/ e = "sweep" /\ rows[p] # NoRow
  \/ e = "ipc"
  \/ /\ e \in Slots /\ Failures /\ at[e] = "space" /\ rows[p] # NoRow
     /\ \A t \in Slots \ {e} : evict[t] = NoPath

\* A file that cannot be removed, ENOENT included, keeps its row.
EvictFile(e, p) ==
  /\ evict[e] = NoPath /\ MayEvict(e, p)
  /\ IsCached(p)
  /\ disk' = [disk EXCEPT ![p] = NoFile]
  /\ evict' = [evict EXCEPT ![e] = p]
  /\ UNCHANGED <<pipelineVars, backing, partial, rows, at, snap, eventVars>>

EvictRow(e) ==
  /\ evict[e] # NoPath
  /\ rows' = [rows EXCEPT ![evict[e]] = NoRow]
  /\ evict' = [evict EXCEPT ![e] = NoPath]
  /\ UNCHANGED <<pipelineVars, backing, disk, partial, at, snap, eventVars>>

-----------------------------------------------------------------------------
\* Restart with startup_cleanup: partial files are removed, rows without a file
\* are deleted, files without a row get one with a zero fingerprint.
RestartMount ==
  /\ Restart
  /\ partial' = [p \in Paths |-> NoFile]
  /\ disk' = [p \in Paths |-> IF IsCached(p) THEN [disk[p] EXCEPT !.w = {}] ELSE NoFile]
  /\ rows' = [p \in Paths |-> IF ~IsCached(p) THEN NoRow
                              ELSE IF rows[p] = NoRow THEN ZeroFp ELSE rows[p]]
  /\ at' = [s \in Slots |-> "-"] /\ snap' = [s \in Slots |-> 0]
  /\ evict' = [e \in EvictThreads |-> NoPath]
  /\ callers' = {} /\ dirty' = {}
  /\ UNCHANGED backing

Next ==
  \/ \E p \in Paths : BackingWrite(p) \/ BackingDelete(p)
  \/ \E p \in Paths : RequestCache(p) \/ RequestValidation(p) \/ WatchDispatch(p) \/ CallAbort(p)
  \/ \E p \in Paths, k \in {"Populate", "Validate"} : CallSubmit(p, k)
  \/ Flip
  \/ Dispatch
  \/ \E s \in Slots : CopyStep(s) \/ ValidateStep(s) \/ Finish(s) \/ Forget(s)
  \/ \E e \in EvictThreads, p \in Paths : EvictFile(e, p)
  \/ \E e \in EvictThreads : EvictRow(e)
  \/ RestartMount

Spec == Init /\ [][Next]_vars

\* The runtime polls every task; an event received is dispatched, a call under
\* way returns, and the maintenance interval elapses again and again.
Fairness ==
  /\ WF_vars(Dispatch)
  /\ \A s \in Slots : WF_vars(CopyStep(s) \/ ValidateStep(s) \/ Finish(s) \/ Forget(s))
  /\ \A e \in EvictThreads : WF_vars(EvictRow(e))
  /\ \A p \in Paths :
       /\ WF_vars(WatchDispatch(p)) /\ WF_vars(CallAbort(p))
       /\ \A k \in {"Populate", "Validate"} : WF_vars(CallSubmit(p, k))
       /\ SF_vars(RequestValidation(p))

FairSpec == Spec /\ Fairness

-----------------------------------------------------------------------------
(* What must hold.                                                         *)

\* A validation that answers Fresh is right: if the fingerprint stored for a
\* path is that of its backing file, the cached file has the content of that
\* version.  Row, file and backing change in separate steps of workers,
\* validations, evictors and the outside world.
FreshIsIntact ==
  \A p \in Paths :
    backing[p].live /\ rows[p] = backing[p].ver /\ IsCached(p) => disk[p].c = rows[p]

\* A file that readers can open is no longer written to: the rename publishes
\* a finished copy (perform_copy; tests/cache_io_e2e.rs, 6 and 7).
PublishedIsClosed ==
  \A p \in Paths : IsCached(p) => disk[p].w = {}

\* A `.partial` file exists only while a copy of its path is between its open
\* and its rename: no failure or abort leaves one (tests/cache_io_e2e.rs, 9),
\* and a restart removes what a crash left.
NoPartialLeft ==
  \A p \in Paths : partial[p] # NoFile =>
    \E s \in Slots : at[s] \in {"copy", "verify", "commit"} /\ Path(s) = p

\* A cached file that is no whole version of its source was read from a source
\* that has been overwritten: no crash, failure, eviction or retry publishes a
\* torn copy of a file that did not change.
TornOnlyIfOverwritten ==
  \A p \in Paths : IsCached(p) /\ disk[p].c = Torn => \A x \in disk[p].v : x < backing[p].ver

\* With maintenance on, a row whose fingerprint is not that of the existing
\* backing file does not stay: it is validated, replaced or dropped, although
\* a submission is dropped whenever its job is known, even by a worker that
\* has already decided (submit_job, validate_worker).
RowStale(p) == rows[p] # NoRow /\ backing[p].live /\ rows[p] # backing[p].ver
StaleRowsResolved ==
  <>[]window => \A p \in Paths : RowStale(p) ~> ~RowStale(p)

\* A cached file that differs from its backing file, or has lost it, is replaced
\* or removed in the end (README.md:223, backing_watch.rs:68).
Stale(p) == IsCached(p) /\ (backing[p].live => disk[p].c # backing[p].ver)
StaleFilesResolved ==
  <>[]window => \A p \in Paths : Stale(p) ~> ~Stale(p)
=============================================================================

------------------------------- MODULE Access -------------------------------
(***************************************************************************)
(* From the open of a file to the submission of the files to cache: the    *)
(* handle maps of the FUSE session (src/src/fuse/fusefs.rs, read.rs,       *)
(* write.rs), the event channel, and the action engine with its access     *)
(* filter and pull budget (src/src/engine/action.rs).                      *)
(*                                                                         *)
(* The session serves one request at a time; the engine is one task; the   *)
(* channel between them is a FIFO.  The pipeline the engine submits to is  *)
(* here the set of its known jobs (see modules Pipeline and JobLifecycle). *)
(* Time appears as the age of the pending entries, up to min_access_secs.  *)
(***************************************************************************)
EXTENDS Integers, FiniteSetsExt, SequencesExt

CONSTANTS
  Paths,
  Fds,           \* descriptor numbers; the lowest free ones are reused
  Size,          \* size of a file that exists, for every path
  Floor,         \* min_file_size_mb, in the unit of Size
  MinAccess,     \* min_access_secs, in steps of the clock
  CheckOnHit,    \* invalidation.check_on_hit
  OnHit,         \* whether the preset predicts on a hit (prefetch, rolling_buffer)
  Upcoming,      \* the candidates the preset returns for each path, in order
  Cap,           \* max_cache_pull_bytes, 0 for none
  External,      \* whether files of the backing store come and go
  MaxEvents,     \* bounds the events in the channel
  NoPath, NoEntry

Events == [path : Paths, kind : {"Miss", "Hit", "Close"}, bytes : 0..Size]
Entries == [kind : {"Miss", "Hit"}, age : 0..MinAccess, handles : 1..Cardinality(Fds), bytes : 0..Size]

ASSUME AccessAssumption ==
  /\ IsFiniteSet(Paths) /\ IsFiniteSet(Fds)
  /\ Size \in Nat \ {0} /\ Floor \in Nat /\ Cap \in Nat /\ MaxEvents \in Nat \ {0}
  /\ MinAccess \in Nat /\ CheckOnHit \in BOOLEAN /\ OnHit \in BOOLEAN
  /\ External \in BOOLEAN
  /\ Upcoming \in [Paths -> Seq(Paths)]
  /\ NoPath \notin Paths /\ NoEntry \notin Entries

VARIABLES
  live,        \* paths that exist in the backing store
  cached,      \* paths in the cache
  jobs,        \* jobs the pipeline knows: queued or running
  fds,         \* descriptors that are open
  openPaths,   \* FsCache.open_paths
  openBytes,   \* FsCache.open_bytes, -1 for no entry
  writePaths,  \* FsCache.write_paths
  appendHandles, \* FsCache.append_handles
  events,      \* the channel
  pending,     \* the engine's pending accesses
  todo,        \* events the engine has still to process (to_process)
  cands,       \* candidates of the event being processed (next)
  total,       \* running_total
  first        \* first_candidate

sessionVars == <<fds, openPaths, openBytes, writePaths, appendHandles>>
storeVars == <<live, cached, jobs>>
engineVars == <<pending, todo, cands, total, first>>
vars == <<storeVars, sessionVars, events, engineVars>>

TypeOK ==
  /\ live \subseteq Paths /\ cached \subseteq Paths
  /\ jobs \subseteq Paths \X {"Populate", "Validate"}
  /\ fds \subseteq Fds
  /\ openPaths \in [Fds -> Paths \cup {NoPath}]
  /\ openBytes \in [Fds -> -1..Size]
  /\ writePaths \in [Fds -> Paths \cup {NoPath}] /\ appendHandles \subseteq Fds
  /\ events \in Seq(Events) /\ Len(events) <= MaxEvents
  /\ pending \in [Paths -> Entries \cup {NoEntry}]
  /\ todo \in Seq(Events) /\ cands \in Seq(Paths)
  /\ total \in Nat /\ first \in BOOLEAN

Init ==
  /\ live = Paths
  /\ cached \in SUBSET Paths
  /\ jobs = {}
  /\ fds = {}
  /\ openPaths = [f \in Fds |-> NoPath]
  /\ openBytes = [f \in Fds |-> -1]
  /\ writePaths = [f \in Fds |-> NoPath] /\ appendHandles = {}
  /\ events = <<>>
  /\ pending = [p \in Paths |-> NoEntry]
  /\ todo = <<>> /\ cands = <<>> /\ total = 0 /\ first = TRUE

FileSize(p) == IF p \in live THEN Size ELSE 0
UpTo(n) == Min({n, Size})

-----------------------------------------------------------------------------
(* The FUSE session.                                                       *)

Send(e) == Len(events) < MaxEvents /\ events' = Append(events, e)

\* open_write_handle: a descriptor opened with O_APPEND is noted, for the offset
\* of its writes is not used (do_write).
OpenWriteHandle(f, p, append) ==
  /\ f \notin fds
  /\ fds' = fds \cup {f}
  /\ writePaths' = [writePaths EXCEPT ![f] = p]
  /\ appendHandles' = IF append THEN appendHandles \cup {f} ELSE appendHandles

\* open with write intent.
OpenWrite(f, p, append) ==
  /\ p \in live
  /\ OpenWriteHandle(f, p, append)
  /\ UNCHANGED <<storeVars, openPaths, openBytes, events, engineVars>>

\* do_create of a file that does not exist.
Create(f, p, append) ==
  /\ p \notin live
  /\ OpenWriteHandle(f, p, append)
  /\ live' = live \cup {p}
  /\ UNCHANGED <<cached, jobs, openPaths, openBytes, events, engineVars>>

\* The attributes of the new file cannot be read: the handle is taken back and
\* the file removed, if it can be.
CreateFails(f, p) ==
  /\ f \notin fds /\ p \notin live
  /\ live' \in {live, live \cup {p}}
  /\ writePaths' = [writePaths EXCEPT ![f] = NoPath]
  /\ appendHandles' = appendHandles \ {f}
  /\ UNCHANGED <<cached, jobs, fds, openPaths, openBytes, events, engineVars>>

\* try_open: the cached file if there is one, whoever opens it.
Outcome(p, filtered) ==
  IF p \in cached THEN "Hit" ELSE IF filtered THEN "Filtered" ELSE "Miss"

\* open for reading.  A filtered open is not reported, and neither is its close.
Open(f, p, filtered) ==
  /\ f \notin fds /\ (p \in cached \/ p \in live)
  /\ fds' = fds \cup {f}
  /\ openBytes' = [openBytes EXCEPT ![f] = 0]
  /\ IF filtered
     THEN UNCHANGED <<openPaths, events>>
     ELSE /\ Send([path |-> p, kind |-> Outcome(p, filtered), bytes |-> 0])
          /\ openPaths' = [openPaths EXCEPT ![f] = p]
  /\ UNCHANGED <<storeVars, writePaths, appendHandles, engineVars>>

\* do_read counts the bytes returned; beyond Size the count tells nothing more.
Read(f) ==
  /\ f \in fds /\ openBytes[f] \in 0..(Size - 1)
  /\ openBytes' = [openBytes EXCEPT ![f] = @ + 1]
  /\ UNCHANGED <<storeVars, fds, openPaths, writePaths, appendHandles, events, engineVars>>

\* Whether the release of a read handle is reported.
ReportedIfRead(f) == openPaths[f] # NoPath /\ openBytes[f] > 0
Reported(f) == openPaths[f] # NoPath

\* What is left of the maps for a descriptor that is closed.
BytesOfTracked(f) == IF openPaths[f] = NoPath THEN openBytes ELSE [openBytes EXCEPT ![f] = -1]
BytesDropped(f) == [openBytes EXCEPT ![f] = -1]

Release(f) ==
  /\ f \in fds
  /\ fds' = fds \ {f}
  /\ IF writePaths[f] # NoPath
     THEN /\ writePaths' = [writePaths EXCEPT ![f] = NoPath]
          /\ appendHandles' = appendHandles \ {f}
          /\ UNCHANGED <<openPaths, openBytes, events>>
     ELSE /\ IF Reported(f)
             THEN Send([path |-> openPaths[f], kind |-> "Close", bytes |-> openBytes[f]])
             ELSE UNCHANGED events
          /\ openPaths' = [openPaths EXCEPT ![f] = NoPath]
          /\ openBytes' = BytesDropped(f)
          /\ UNCHANGED <<writePaths, appendHandles>>
  /\ UNCHANGED <<storeVars, engineVars>>

-----------------------------------------------------------------------------
(* The action engine.                                                      *)

EngineIdle == todo = <<>> /\ cands = <<>>
Event(p, kind) == [path |-> p, kind |-> kind, bytes |-> 0]

\* Handles of a pending path remain after one is closed.
HandlesCounted(entry) == entry.handles > 0
HandlesLeft(entry) == entry.handles > 1

\* A close is counted against the pending entry of its path.  The last one
\* promotes the access if as many bytes were read as the file has, else cancels it.
ReceiveClose(e) ==
  LET p == e.path
      entry == pending[p]
      bytes == UpTo(entry.bytes + e.bytes) IN
  IF entry = NoEntry
  THEN todo' = <<e>> /\ UNCHANGED pending
  ELSE IF HandlesLeft(entry)
  THEN /\ pending' = [pending EXCEPT ![p] = [entry EXCEPT !.handles = @ - 1, !.bytes = bytes]]
       /\ UNCHANGED todo
  ELSE /\ pending' = [pending EXCEPT ![p] = NoEntry]
       /\ todo' = IF FileSize(p) > 0 /\ bytes >= FileSize(p) THEN <<Event(p, entry.kind)>> ELSE <<>>

PassesFloor(p) == FileSize(p) >= Floor

\* A further handle of a pending path: inserted_at stays what it was.
Restarted(entry) == [entry EXCEPT !.handles = @ + 1, !.age = 0]
OneMoreHandle(entry) == [entry EXCEPT !.handles = @ + 1]

ReceiveOpen(e) ==
  LET p == e.path IN
  IF ~PassesFloor(p) THEN UNCHANGED <<pending, todo>>
  ELSE IF MinAccess = 0 THEN todo' = <<e>> /\ UNCHANGED pending
  ELSE /\ pending' = [pending EXCEPT ![p] =
            IF @ = NoEntry THEN [kind |-> e.kind, age |-> 0, handles |-> 1, bytes |-> 0]
                           ELSE OneMoreHandle(@)]
       /\ UNCHANGED todo

Receive ==
  /\ EngineIdle /\ events # <<>>
  /\ events' = Tail(events)
  /\ LET e == Head(events) IN
       IF e.kind = "Close" THEN ReceiveClose(e) ELSE ReceiveOpen(e)
  /\ UNCHANGED <<storeVars, sessionVars, cands, total, first>>

\* Time passes for the pending entries.
Young == {p \in Paths : pending[p] # NoEntry /\ pending[p].age < MinAccess}
Clock ==
  /\ Young # {}
  /\ pending' = [p \in Paths |-> IF p \in Young THEN [pending[p] EXCEPT !.age = @ + 1] ELSE pending[p]]
  /\ UNCHANGED <<storeVars, sessionVars, events, todo, cands, total, first>>

\* The 5 s tick promotes all entries that are old enough, in any order.
Ripe == {p \in Paths : pending[p] # NoEntry /\ pending[p].age = MinAccess}
Tick ==
  /\ MinAccess > 0 /\ EngineIdle /\ Ripe # {}
  /\ pending' = [p \in Paths |-> IF p \in Ripe THEN NoEntry ELSE pending[p]]
  /\ \E order \in SetToSeqs(Ripe) :
       todo' = [i \in DOMAIN order |-> Event(order[i], pending[order[i]].kind)]
  /\ UNCHANGED <<storeVars, sessionVars, events, cands, total, first>>

\* submit_cache and submit_validation drop a job that is known.
SubmitJob(p, k) == jobs' = jobs \cup {<<p, k>>}

TotalCachedBytes == Size * Cardinality(cached)

\* The next event: validation of a hit, the preset's candidates, the budget's start.
BeginEvent ==
  /\ cands = <<>> /\ todo # <<>>
  /\ todo' = Tail(todo)
  /\ LET e == Head(todo) IN
       /\ IF e.kind = "Hit" /\ CheckOnHit THEN SubmitJob(e.path, "Validate") ELSE UNCHANGED jobs
       /\ cands' = IF e.kind = "Miss" \/ (e.kind = "Hit" /\ OnHit) THEN Upcoming[e.path] ELSE <<>>
  /\ total' = IF Cap > 0 /\ cands' # <<>> THEN TotalCachedBytes ELSE 0
  /\ first' = TRUE
  /\ UNCHANGED <<live, cached, sessionVars, events, pending>>

\* One candidate: skipped if cached, the end of the list if over the budget.
\* running_total and first_candidate are locals of the event: they end with it.
OverCap(p) == Cap > 0 /\ ~first /\ total + FileSize(p) > Cap
Consider ==
  LET p == Head(cands)
      over == p \notin cached /\ OverCap(p)
      submit == p \notin cached /\ ~over IN
  /\ cands # <<>>
  /\ cands' = IF over THEN <<>> ELSE Tail(cands)
  /\ IF submit THEN SubmitJob(p, "Populate") ELSE UNCHANGED jobs
  /\ IF cands' = <<>>
     THEN total' = 0 /\ first' = TRUE
     ELSE /\ total' = IF submit /\ Cap > 0 THEN total + FileSize(p) ELSE total
          /\ first' = (first /\ ~submit)
  /\ UNCHANGED <<live, cached, sessionVars, events, pending, todo>>

-----------------------------------------------------------------------------
(* The pipeline and the outside.                                           *)

\* A job ends: a Populate with the file in the cache or without, a Validate
\* with the cached file kept or dropped.
JobEnds(j) ==
  /\ j \in jobs
  /\ jobs' = jobs \ {j}
  /\ \/ UNCHANGED cached
     \/ j[2] = "Populate" /\ j[1] \in live /\ cached' = cached \cup {j[1]}
     \/ j[2] = "Validate" /\ j[1] \notin live /\ cached' = cached \ {j[1]}
  /\ UNCHANGED <<live, sessionVars, events, engineVars>>

Evicted(p) ==
  /\ p \in cached
  /\ cached' = cached \ {p}
  /\ UNCHANGED <<live, jobs, sessionVars, events, engineVars>>

\* A file is deleted from the backing store, or put (back) there.
BackingChanges(p) ==
  /\ External
  /\ live' = IF p \in live THEN live \ {p} ELSE live \cup {p}
  /\ UNCHANGED <<cached, jobs, sessionVars, events, engineVars>>

Session(f) ==
  \/ \E p \in Paths, append \in BOOLEAN : OpenWrite(f, p, append) \/ Create(f, p, append)
  \/ \E p \in Paths : CreateFails(f, p)
  \/ \E p \in Paths, filtered \in BOOLEAN : Open(f, p, filtered)
  \/ Read(f)
  \/ Release(f)

Engine == Receive \/ BeginEvent \/ Consider

Next ==
  \/ \E f \in Fds : Session(f)
  \/ Engine \/ Tick \/ Clock
  \/ \E p \in Paths : Evicted(p) \/ BackingChanges(p)
  \/ \E j \in jobs : JobEnds(j)

Spec == Init /\ [][Next]_vars

\* The engine task is polled; select! picks among its ready branches at random,
\* so a tick that is due again and again is taken; time passes.
Fairness ==
  /\ WF_vars(Engine) /\ SF_vars(Tick) /\ WF_vars(Clock)

FairSpec == Spec /\ Fairness

-----------------------------------------------------------------------------
(* What must hold.                                                         *)

OpensSent(p) == Cardinality({i \in DOMAIN events : events[i].path = p /\ events[i].kind # "Close"})
ClosesSent(p) == Cardinality({i \in DOMAIN events : events[i].path = p /\ events[i].kind = "Close"})
HandlesSeen(p) == Cardinality({f \in Fds : openPaths[f] = p}) - OpensSent(p) + ClosesSent(p)

\* The filter never counts a handle that is not there: of the handles of a
\* pending path the engine has heard of, each pending one is still open as far
\* as the events delivered tell.  So the count never saturates, and when all
\* handles are closed and the channel is drained nothing is pending: an access
\* that is over is not promoted by a later tick.
PendingIsOpen ==
  \A p \in Paths : pending[p] # NoEntry => pending[p].handles <= HandlesSeen(p)

\* The session's maps follow the descriptors, whose numbers are reused: an open
\* one is a read handle or a write handle and not both, a closed one has left
\* every map.  Else a release would report a close for another open's path or
\* take a read handle for a write handle, and a write through a reused number
\* would append (do_write).
MapsMatchDescriptors ==
  \A f \in Fds : /\ f \in fds <=> writePaths[f] # NoPath \/ openBytes[f] # -1
                 /\ writePaths[f] # NoPath => openBytes[f] = -1
                 /\ openPaths[f] # NoPath => openBytes[f] # -1
                 /\ f \in appendHandles => writePaths[f] # NoPath

\* A pending access is decided, however many short handles come and go
\* meanwhile (PendingEntry, action.rs:59): further opens do not restart its time.
PendingResolved ==
  \A p \in Paths : pending[p] # NoEntry ~> pending[p] = NoEntry
=============================================================================

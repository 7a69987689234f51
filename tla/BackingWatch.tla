---------------------------- MODULE BackingWatch ----------------------------
(***************************************************************************)
(* The backing watcher of one mount (src/src/backing_watch.rs): a task     *)
(* that keeps inotify watches on the directories that were looked up, at   *)
(* most MaxDirs of them in LRU order, collects events for the time of a    *)
(* debounce window and dispatches what is left of them.                    *)
(*                                                                         *)
(* External are the kernel's inotify instance, with a queue of limited     *)
(* length that merges an event with an equal last one, and the others who  *)
(* change the backing directories.  Events without a name are left out, as *)
(* the watcher skips them.  The FUSE inode of a directory stands for its   *)
(* path.                                                                   *)
(***************************************************************************)
EXTENDS Integers, FiniteSetsExt, SequencesExt, Functions

CONSTANTS
  Root,         \* the backing directory itself
  SubDirs,      \* paths of directories in it
  Child,        \* name of a file in each directory
  BusyDirs,     \* directories where that file changes
  Changes,      \* severities of what may happen to that file
  MaxDirs,      \* backing_watch.max_dirs
  WatchesRefused, \* inotify_add_watch may fail (max_user_watches)
  MayMove,      \* directories may be renamed
  QueueCap,     \* bounds the kernel's queue (max_queued_events)
  MaxTouches,   \* bounds the requests in the channel
  MaxOpen       \* bounds the events and windows under way

ASSUME BackingWatchAssumption ==
  /\ IsFiniteSet(SubDirs) /\ Root \notin SubDirs
  /\ BusyDirs \subseteq SubDirs \cup {Root} /\ Changes \subseteq 0..3 /\ MaxDirs \in Nat
  /\ WatchesRefused \in BOOLEAN /\ MayMove \in BOOLEAN
  /\ QueueCap \in Nat /\ MaxTouches \in Nat /\ MaxOpen \in Nat

\* Severity: CreateOrMovedIn, Attr, Modify, Delete.
Create == 0
Delete == 3
AllDirs == SubDirs \cup {Root}
Keys == ((SubDirs \cup BusyDirs) \X {Child}) \cup ({Root} \X SubDirs)
WatchCap == Max({MaxDirs, 1})
Descriptors == 1..(2 * Cardinality(AllDirs) + QueueCap + 1)

VARIABLES
  present,     \* the subdirectories there are
  watch,       \* the kernel's watch of each directory, 0 for none
  queue,       \* the kernel's event queue
  touches,     \* the channel of WatchRequests
  lru,         \* the LRU of watched paths, the oldest first
  wdMap,       \* wd_map: the path of each descriptor
  debounce,    \* the open windows: severity, and whether the deadline has passed
  tick,        \* the interval timer has fired
  batch,       \* expired windows taken from the map and not yet dispatched
  dispatching, \* the one that dispatch is working on
  watching     \* the loop runs

backingVars == <<present, watch, queue, touches, lru, wdMap, debounce, tick, batch, dispatching, watching>>
loopVars == <<lru, wdMap, debounce, batch, dispatching, watching>>

Windows == [key : Keys, severity : 0..3]
Nothing == [key |-> <<>>, severity |-> -1]

BackingWatchTypeOK ==
  /\ present \subseteq SubDirs /\ watch \in [AllDirs -> Descriptors \cup {0}]
  /\ queue \in Seq([wd : Descriptors, name : SubDirs \cup {Child}, severity : 0..3])
  /\ touches \in Seq(SubDirs)
  /\ lru \in Seq([path : AllDirs, wd : Descriptors]) /\ IsInjective([i \in DOMAIN lru |-> lru[i].path])
  /\ DOMAIN wdMap \subseteq Descriptors /\ Range(wdMap) \subseteq AllDirs
  /\ DOMAIN debounce \subseteq Keys
  /\ \A k \in DOMAIN debounce : debounce[k] \in [severity : 0..3, ripe : BOOLEAN]
  /\ tick \in BOOLEAN /\ watching \in BOOLEAN
  /\ batch \subseteq Windows /\ dispatching \in Windows \cup {Nothing}

\* The root is watched before the loop begins.
BackingWatchInit ==
  /\ present = SubDirs /\ queue = <<>> /\ touches = <<>>
  /\ watch = [d \in AllDirs |-> IF d = Root THEN 1 ELSE 0]
  /\ lru = <<[path |-> Root, wd |-> 1]>>
  /\ wdMap = [w \in {1} |-> Root]
  /\ debounce = [k \in {} |-> Nothing] /\ tick = FALSE
  /\ batch = {} /\ dispatching = Nothing /\ watching = TRUE

-----------------------------------------------------------------------------
(* The kernel and the others.                                              *)

\* The queue after an event in directory d; a full queue drops it.
Queued(q, d, name, severity) ==
  LET ev == [wd |-> watch[d], name |-> name, severity |-> severity] IN
  IF watch[d] = 0 \/ Len(q) >= QueueCap THEN q
  ELSE IF q # <<>> THEN (IF Last(q) = ev THEN q ELSE Append(q, ev)) ELSE <<ev>>

MayChange == watching /\ Len(queue) + Cardinality(DOMAIN debounce) + Cardinality(batch) < MaxOpen

FileChanges(d, severity) ==
  /\ MayChange /\ d \in present \cup {Root}
  /\ queue' = Queued(queue, d, Child, severity)
  /\ UNCHANGED <<present, watch, touches, tick, loopVars>>

\* The watch of a directory goes with it.
DirRemoved(d) ==
  /\ MayChange /\ d \in present
  /\ present' = present \ {d}
  /\ watch' = [watch EXCEPT ![d] = 0]
  /\ queue' = Queued(queue, Root, d, Delete)
  /\ UNCHANGED <<touches, tick, loopVars>>

DirCreated(d) ==
  /\ MayChange /\ d \in SubDirs \ present
  /\ present' = present \cup {d}
  /\ queue' = Queued(queue, Root, d, Create)
  /\ UNCHANGED <<watch, touches, tick, loopVars>>

\* A directory that is moved keeps its watch.
DirMoved(d, e) ==
  /\ MayChange /\ MayMove /\ d \in present /\ e \in SubDirs \ present
  /\ present' = (present \ {d}) \cup {e}
  /\ watch' = [watch EXCEPT ![d] = 0, ![e] = watch[d]]
  /\ queue' = Queued(Queued(queue, Root, d, Delete), Root, e, Create)
  /\ UNCHANGED <<touches, tick, loopVars>>

\* lookup finds a directory and sends a touch.
LookedUp(d) ==
  /\ watching /\ d \in present /\ Len(touches) < MaxTouches
  /\ touches' = Append(touches, d)
  /\ UNCHANGED <<present, watch, queue, tick, loopVars>>

-----------------------------------------------------------------------------
(* The loop.  Its select is biased: shutdown, the timer, touches, events.  *)

Idle == watching /\ batch = {} /\ dispatching = Nothing

AppendedAgain(i) == Append(lru, lru[i])
Refreshed(i) == Append(RemoveAt(lru, i), lru[i])

\* A descriptor the kernel has not given to anybody; it never returns an old
\* one while something still refers to it.
FreshWd == CHOOSE w \in Descriptors : /\ \A d \in AllDirs : watch[d] # w
                                      /\ \A i \in DOMAIN lru : lru[i].wd # w
                                      /\ \A i \in DOMAIN queue : queue[i].wd # w

Less(f, S) == Restrict(f, DOMAIN f \ S)

\* A full LRU gives up its oldest entry, with the descriptor's entry and the
\* kernel's watch.
Evicted == IF Len(lru) >= WatchCap THEN {lru[1].wd} ELSE {}
KeptLru == IF Len(lru) >= WatchCap THEN Tail(lru) ELSE lru
WatchForgotten(W) == watch
WatchRemoved(W) == [d \in AllDirs |-> IF watch[d] \in W THEN 0 ELSE watch[d]]

\* touch_or_add.  Adding a watch to a directory that has one returns its
\* descriptor.
Watched(p) ==
  LET kernel == WatchRemoved(Evicted)
      wd == IF kernel[p] # 0 THEN kernel[p] ELSE FreshWd IN
  /\ lru' = Append(KeptLru, [path |-> p, wd |-> wd])
  /\ wdMap' = [w \in (DOMAIN wdMap \ Evicted) \cup {wd} |-> IF w = wd THEN p ELSE wdMap[w]]
  /\ watch' = [kernel EXCEPT ![p] = wd]

\* The directory cannot be opened or watched: what was evicted stays so.
NotWatched ==
  /\ lru' = KeptLru
  /\ wdMap' = Less(wdMap, Evicted)
  /\ watch' = WatchRemoved(Evicted)

TakeTouch ==
  /\ Idle /\ ~tick /\ touches # <<>>
  /\ touches' = Tail(touches)
  /\ LET p == Head(touches) IN
     \/ \E i \in DOMAIN lru : lru[i].path = p /\ lru' = Refreshed(i) /\ UNCHANGED <<wdMap, watch>>
     \/ /\ \A i \in DOMAIN lru : lru[i].path # p
        /\ \/ p \in present /\ Watched(p)
           \/ (p \in present => WatchesRefused) /\ NotWatched
  /\ UNCHANGED <<present, queue, debounce, tick, batch, dispatching, watching>>

\* handle_event: a window that is open takes the highest severity and keeps
\* its deadline.
MergedSliding(window, severity) == [severity |-> Max({window.severity, severity}), ripe |-> FALSE]
Merged(window, severity) == [window EXCEPT !.severity = Max({@, severity})]
Coalesced(k, severity) ==
  [j \in DOMAIN debounce \cup {k} |->
     IF j # k THEN debounce[j]
     ELSE IF k \in DOMAIN debounce THEN Merged(debounce[k], severity)
     ELSE [severity |-> severity, ripe |-> FALSE]]

TakeEvent ==
  /\ Idle /\ ~tick /\ touches = <<>> /\ queue # <<>>
  /\ queue' = Tail(queue)
  /\ LET ev == Head(queue) IN
     debounce' = IF ev.wd \in DOMAIN wdMap THEN Coalesced(<<wdMap[ev.wd], ev.name>>, ev.severity) ELSE debounce
  /\ UNCHANGED <<present, watch, touches, lru, wdMap, tick, batch, dispatching, watching>>

\* The timer's turn: the windows whose deadline has passed.
Ripe == {k \in DOMAIN debounce : debounce[k].ripe}
TakeTick ==
  /\ Idle /\ tick
  /\ tick' = FALSE
  /\ batch' = {[key |-> k, severity |-> debounce[k].severity] : k \in Ripe}
  /\ debounce' = Less(debounce, Ripe)
  /\ UNCHANGED <<present, watch, queue, touches, lru, wdMap, dispatching, watching>>

\* dispatch notifies the kernel and, for a cached file, aborts its copy and
\* submits its validation, which waits for the pipeline's lock.
DispatchBegins ==
  /\ watching /\ dispatching = Nothing
  /\ \E w \in batch : dispatching' = w /\ batch' = batch \ {w}
  /\ UNCHANGED <<present, watch, queue, touches, lru, wdMap, debounce, tick, watching>>
DispatchEnds ==
  /\ watching /\ dispatching # Nothing
  /\ dispatching' = Nothing
  /\ UNCHANGED <<present, watch, queue, touches, lru, wdMap, debounce, tick, batch, watching>>

\* Shutdown ends the loop, also between two dispatches; its locals and the
\* inotify instance go with it.
WatcherStops ==
  /\ watching /\ dispatching = Nothing
  /\ watching' = FALSE
  /\ watch' = [d \in AllDirs |-> 0] /\ queue' = <<>> /\ touches' = <<>>
  /\ lru' = <<>> /\ wdMap' = Less(wdMap, DOMAIN wdMap)
  /\ debounce' = Less(debounce, DOMAIN debounce) /\ tick' = FALSE /\ batch' = {}
  /\ UNCHANGED <<present, dispatching>>

\* Time.
DeadlinePasses(k) ==
  /\ watching /\ k \in DOMAIN debounce /\ ~debounce[k].ripe
  /\ debounce' = [debounce EXCEPT ![k].ripe = TRUE]
  /\ UNCHANGED <<present, watch, queue, touches, lru, wdMap, tick, batch, dispatching, watching>>
TimerFires ==
  /\ watching /\ ~tick
  /\ tick' = TRUE
  /\ UNCHANGED <<present, watch, queue, touches, loopVars>>

Loop == TakeTouch \/ TakeEvent \/ TakeTick \/ DispatchBegins \/ DispatchEnds

BackingWatchNext ==
  \/ \E d \in BusyDirs, s \in Changes : FileChanges(d, s)
  \/ \E d \in SubDirs : DirRemoved(d) \/ DirCreated(d) \/ LookedUp(d)
  \/ \E d, e \in SubDirs : DirMoved(d, e)
  \/ Loop \/ WatcherStops
  \/ \E k \in Keys : DeadlinePasses(k)
  \/ TimerFires

\* The runtime polls the watcher, and time passes.
BackingWatchFairness ==
  /\ WF_backingVars(Loop) /\ WF_backingVars(TimerFires)
  /\ \A k \in Keys : WF_backingVars(DeadlinePasses(k))
BackingWatchSpec == BackingWatchInit /\ [][BackingWatchNext]_backingVars /\ BackingWatchFairness

-----------------------------------------------------------------------------
(* What must hold.                                                         *)

\* The cap on the watches is hard ("Hard cap on simultaneous inotify watches",
\* config.rs:363), and none is leaked when a directory is removed, replaced or
\* moved under a watch: every watch of the kernel belongs to a descriptor the
\* watcher knows, and that one to an entry of the LRU.
NoLeakedWatch ==
  /\ \A d \in AllDirs : watch[d] # 0 => watch[d] \in DOMAIN wdMap
  /\ \A w \in DOMAIN wdMap : \E i \in DOMAIN lru : lru[i].wd = w
  /\ Cardinality({d \in AllDirs : watch[d] # 0}) <= WatchCap

\* An event is dispatched at last with its severity or a higher one, however
\* many more arrive for the same name (handle_event, "leading-edge fixed
\* window", backing_watch.rs:310), unless the watcher stops.
EventsDispatched ==
  \A k \in Keys, s \in Changes :
    k \in DOMAIN debounce /\ debounce[k].severity >= s
      ~> (dispatching.key = k /\ dispatching.severity >= s) \/ ~watching
=============================================================================

------------------------- MODULE HousekeepingProofs -------------------------
(***************************************************************************)
(* Proofs about the backing watcher, eviction and the policies, for any    *)
(* number of directories, files, mounts and workers, any cap and budget,   *)
(* any library, tree and processes, and any length of the day.             *)
(***************************************************************************)
EXTENDS MCHousekeeping, CollectionFacts, FunctionTheorems

-----------------------------------------------------------------------------
(* The backing watcher.                                                    *)

QueuedEvents == [wd : Descriptors, name : SubDirs \cup {Child}, severity : 0..3]
LruEntries == [path : AllDirs, wd : Descriptors]

WatchTypes ==
  /\ present \subseteq SubDirs /\ watch \in [AllDirs -> Descriptors \cup {0}]
  /\ queue \in Seq(QueuedEvents) /\ Len(queue) <= QueueCap
  /\ touches \in Seq(SubDirs)
  /\ lru \in Seq(LruEntries) /\ Len(lru) <= WatchCap
  /\ \A i, j \in DOMAIN lru : lru[i].path = lru[j].path => i = j
  /\ DOMAIN wdMap \subseteq Descriptors /\ \A w \in DOMAIN wdMap : wdMap[w] \in AllDirs

WindowTypes ==
  /\ DOMAIN debounce \subseteq Keys
  /\ \A k \in DOMAIN debounce : debounce[k] \in [severity : 0..3, ripe : BOOLEAN]
  /\ tick \in BOOLEAN /\ watching \in BOOLEAN
  /\ batch \subseteq Windows /\ dispatching \in Windows \cup {Nothing}

\* A watch is on a directory that is there, no two directories share one, and
\* its descriptor is in wd_map, with the root's path exactly if it is the
\* root's.  (The path is otherwise an old one, after a move.)
WatchesKnown ==
  /\ \A d \in AllDirs : watch[d] # 0 =>
       /\ d \in present \cup {Root} /\ watch[d] \in DOMAIN wdMap
       /\ wdMap[watch[d]] = Root <=> d = Root
  /\ \A d, e \in AllDirs : watch[d] # 0 /\ watch[d] = watch[e] => d = e

DescriptorsListed == \A w \in DOMAIN wdMap : \E i \in DOMAIN lru : lru[i].wd = w

\* An event makes a key that the debounce map may hold, now and after its
\* directory was moved and looked up under another path.
EventFits(ev) ==
  /\ ev.wd \in DOMAIN wdMap => <<wdMap[ev.wd], ev.name>> \in Keys
  /\ \A d \in SubDirs : ev.wd = watch[d] => ev.name = Child
EventsFit == \A i \in DOMAIN queue : EventFits(queue[i])

WatchInv == WatchTypes /\ WindowTypes /\ WatchesKnown /\ DescriptorsListed /\ EventsFit

LEMMA WatchCapType == WatchCap \in Nat \ {0}
<1>1. CASE MaxDirs >= 1
  <2>1. MaxDirs \in {MaxDirs, 1} /\ \A y \in {MaxDirs, 1} : MaxDirs >= y
    BY <1>1, BackingWatchAssumption
  <2>. QED  BY <2>1, BackingWatchAssumption DEF WatchCap, Max
<1>2. CASE ~(MaxDirs >= 1)
  <2>1. 1 \in {MaxDirs, 1} /\ \A y \in {MaxDirs, 1} : 1 >= y
    BY <1>2, BackingWatchAssumption
  <2>2. \E x \in {MaxDirs, 1} : \A y \in {MaxDirs, 1} : x >= y
    BY <2>1
  <2>3. WatchCap \in {MaxDirs, 1} /\ WatchCap >= 1
    BY <2>2 DEF WatchCap, Max
  <2>. QED  BY <2>3, BackingWatchAssumption
<1>. QED  BY <1>1, <1>2

\* The image of a finite set is no larger.
LEMMA ImageSize ==
  ASSUME NEW S, NEW T, IsFiniteSet(S), NEW f \in [S -> T],
         NEW R, \A r \in R : \E x \in S : f[x] = r, \A x \in S : f[x] \in R
  PROVE  IsFiniteSet(R) /\ Cardinality(R) <= Cardinality(S)
<1>1. f \in Surjection(S, R)
  BY DEF Surjection
<1>. QED  BY <1>1, FS_Surjection

\* There is a descriptor that nothing refers to: there are more than the
\* directories, the entries of the LRU, one for each path at most, and the
\* queued events can hold.
LEMMA FreshDescriptor ==
  ASSUME WatchTypes
  PROVE  /\ FreshWd \in Descriptors
         /\ \A d \in AllDirs : watch[d] # FreshWd
         /\ \A i \in DOMAIN lru : lru[i].wd # FreshWd
         /\ \A i \in DOMAIN queue : queue[i].wd # FreshWd
<1> DEFINE W == {watch[d] : d \in AllDirs}
           lwd == [i \in 1..Len(lru) |-> lru[i].wd]
           lpath == [i \in 1..Len(lru) |-> lru[i].path]
           qwd == [i \in 1..Len(queue) |-> queue[i].wd]
           L == {lwd[i] : i \in 1..Len(lru)}
           Q == {qwd[i] : i \in 1..Len(queue)}
           N == Cardinality(AllDirs)
<1>0. /\ IsFiniteSet(AllDirs) /\ N \in Nat /\ QueueCap \in Nat
      /\ Len(lru) \in Nat /\ DOMAIN lru = 1..Len(lru)
      /\ Len(queue) \in Nat /\ DOMAIN queue = 1..Len(queue) /\ Len(queue) <= QueueCap
  <2>1. IsFiniteSet(SubDirs) /\ QueueCap \in Nat
    BY BackingWatchAssumption
  <2>2. IsFiniteSet(AllDirs)
    BY <2>1, FS_AddElement DEF AllDirs
  <2>3. lru \in Seq(LruEntries) /\ queue \in Seq(QueuedEvents) /\ Len(queue) <= QueueCap
    BY DEF WatchTypes
  <2>. QED  BY <2>1, <2>2, <2>3, FS_CardinalityType, LenProperties
<1>1. IsFiniteSet(W) /\ Cardinality(W) <= N
  <2>1. watch \in [AllDirs -> Descriptors \cup {0}]
    BY DEF WatchTypes
  <2>2. (\A r \in W : \E d \in AllDirs : watch[d] = r) /\ \A d \in AllDirs : watch[d] \in W
    OBVIOUS
  <2>. HIDE DEF W
  <2>. QED  BY <1>0, <2>1, <2>2, ImageSize
<1>2. \A n \in Nat : IsFiniteSet(1..n) /\ Cardinality(1..n) = n
  <2>. TAKE n \in Nat
  <2>1. IsFiniteSet(1..n) /\ Cardinality(1..n) = IF 1 > n THEN 0 ELSE n - 1 + 1
    BY FS_Interval
  <2>. QED  BY <2>1
<1>3. lwd \in [1..Len(lru) -> Descriptors] /\ lpath \in [1..Len(lru) -> AllDirs]
  <2>1. lru \in [1..Len(lru) -> LruEntries]
    BY <1>0, ElementOfSeq DEF WatchTypes
  <2>. QED  BY <2>1 DEF LruEntries
<1>4. qwd \in [1..Len(queue) -> Descriptors]
  <2>1. queue \in [1..Len(queue) -> QueuedEvents]
    BY <1>0, ElementOfSeq DEF WatchTypes
  <2>. QED  BY <2>1 DEF QueuedEvents
<1>5. Len(lru) <= N
  <2>1. \A i, j \in 1..Len(lru) : lpath[i] = lpath[j] => i = j
    BY <1>0 DEF WatchTypes
  <2>. HIDE DEF lpath
  <2>2. lpath \in Injection(1..Len(lru), AllDirs)
    BY <1>3, <2>1 DEF Injection, IsInjective
  <2>3. Cardinality(1..Len(lru)) <= N
    BY <1>0, <2>2, FS_Injection
  <2>. QED  BY <2>3, <1>0, <1>2
<1>. HIDE DEF lwd, qwd, lpath
<1>6. IsFiniteSet(L) /\ Cardinality(L) <= Len(lru)
  <2>1. (\A r \in L : \E i \in 1..Len(lru) : lwd[i] = r) /\ \A i \in 1..Len(lru) : lwd[i] \in L
    OBVIOUS
  <2>. HIDE DEF L
  <2>2. IsFiniteSet(1..Len(lru)) /\ Cardinality(1..Len(lru)) = Len(lru)
    BY <1>0, <1>2
  <2>3. IsFiniteSet(L) /\ Cardinality(L) <= Cardinality(1..Len(lru))
    BY <1>3, <2>1, <2>2, ImageSize
  <2>. QED  BY <2>2, <2>3
<1>7. IsFiniteSet(Q) /\ Cardinality(Q) <= Len(queue)
  <2>1. (\A r \in Q : \E i \in 1..Len(queue) : qwd[i] = r) /\ \A i \in 1..Len(queue) : qwd[i] \in Q
    OBVIOUS
  <2>. HIDE DEF Q
  <2>2. IsFiniteSet(1..Len(queue)) /\ Cardinality(1..Len(queue)) = Len(queue)
    BY <1>0, <1>2
  <2>3. IsFiniteSet(Q) /\ Cardinality(Q) <= Cardinality(1..Len(queue))
    BY <1>4, <2>1, <2>2, ImageSize
  <2>. QED  BY <2>2, <2>3
<1>. HIDE DEF W, L, Q
<1>8. /\ IsFiniteSet((W \cup L) \cup Q)
      /\ Cardinality((W \cup L) \cup Q) <= 2 * N + QueueCap
  <2>1. /\ Cardinality(W) \in Nat /\ Cardinality(L) \in Nat /\ Cardinality(Q) \in Nat
    BY <1>1, <1>6, <1>7, FS_CardinalityType
  <2>2. /\ IsFiniteSet(W \cup L)
        /\ Cardinality(W \cup L) = Cardinality(W) + Cardinality(L) - Cardinality(W \cap L)
        /\ Cardinality(W \cap L) \in Nat
    BY <1>1, <1>6, FS_Union, FS_Intersection, FS_CardinalityType
  <2>. PICK wl : wl = W \cup L
    OBVIOUS
  <2>3. /\ IsFiniteSet(wl \cup Q)
        /\ Cardinality(wl \cup Q) = Cardinality(wl) + Cardinality(Q) - Cardinality(wl \cap Q)
        /\ Cardinality(wl \cap Q) \in Nat
    BY <2>2, <1>7, FS_Union, FS_Intersection, FS_CardinalityType
  <2>. QED  BY <2>1, <2>2, <2>3, <1>0, <1>1, <1>5, <1>6, <1>7
<1>9. ~(Descriptors \subseteq (W \cup L) \cup Q)
  <2>1. Cardinality(Descriptors) = 2 * N + QueueCap + 1
    BY <1>0, <1>2 DEF Descriptors
  <2>2. SUFFICES ASSUME Descriptors \subseteq (W \cup L) \cup Q PROVE FALSE
    OBVIOUS
  <2>3. Cardinality(Descriptors) <= Cardinality((W \cup L) \cup Q)
    BY <1>8, <2>2, FS_Subset
  <2>4. Cardinality((W \cup L) \cup Q) \in Nat
    BY <1>8, FS_CardinalityType
  <2>. QED  BY <1>0, <1>8, <2>1, <2>3, <2>4
<1>10. PICK w \in Descriptors : w \notin W /\ w \notin L /\ w \notin Q
  BY <1>9
<1>11. /\ \A d \in AllDirs : watch[d] # w
       /\ \A i \in DOMAIN lru : lru[i].wd # w
       /\ \A i \in DOMAIN queue : queue[i].wd # w
  BY <1>0, <1>10 DEF W, L, Q, lwd, qwd
<1>. QED  BY <1>11 DEF FreshWd


LEMMA WatchInitInv == BackingWatchInit => WatchInv
<1> SUFFICES ASSUME BackingWatchInit PROVE WatchInv
  OBVIOUS
<1>1. 1 \in Descriptors /\ Root \in AllDirs /\ WatchCap \in Nat \ {0} /\ QueueCap \in Nat
  <2>1. IsFiniteSet(AllDirs) /\ QueueCap \in Nat
    BY BackingWatchAssumption, FS_AddElement DEF AllDirs
  <2>2. Cardinality(AllDirs) \in Nat
    BY <2>1, FS_CardinalityType
  <2>. QED  BY <2>1, <2>2, WatchCapType DEF Descriptors, AllDirs
<1>2. /\ lru \in Seq(LruEntries) /\ Len(lru) = 1 /\ DOMAIN lru = {1}
      /\ lru[1] = [path |-> Root, wd |-> 1]
  BY <1>1 DEF BackingWatchInit, LruEntries
<1>3. queue \in Seq(QueuedEvents) /\ Len(queue) = 0 /\ DOMAIN queue = {} /\ touches \in Seq(SubDirs)
  BY DEF BackingWatchInit
<1>4. WatchTypes
  <2>1. present \subseteq SubDirs /\ watch \in [AllDirs -> Descriptors \cup {0}]
    BY <1>1 DEF BackingWatchInit
  <2>2. DOMAIN wdMap = {1} /\ wdMap[1] = Root
    BY DEF BackingWatchInit
  <2>3. Len(lru) <= WatchCap /\ Len(queue) <= QueueCap
    BY <1>1, <1>2, <1>3
  <2>4. \A i, j \in DOMAIN lru : lru[i].path = lru[j].path => i = j
    BY <1>2
  <2>. QED  BY <1>1, <1>2, <1>3, <2>1, <2>2, <2>3, <2>4 DEF WatchTypes
<1>5. WindowTypes
  BY DEF BackingWatchInit, WindowTypes
<1>6. WatchesKnown /\ DescriptorsListed /\ EventsFit
  BY <1>2, <1>3, BackingWatchAssumption
     DEF BackingWatchInit, WatchesKnown, DescriptorsListed, EventsFit, AllDirs
<1>. QED  BY <1>4, <1>5, <1>6 DEF WatchInv

\* What an event does to the queue: it is appended, or the queue is as it was.
LEMMA QueuedEffect ==
  ASSUME WatchTypes, NEW q \in Seq(QueuedEvents), Len(q) <= QueueCap,
         NEW d \in AllDirs, NEW name \in SubDirs \cup {Child}, NEW severity \in 0..3
  PROVE  LET r == Queued(q, d, name, severity) IN
         /\ r \in Seq(QueuedEvents) /\ Len(r) <= QueueCap
         /\ \A i \in DOMAIN r :
              \/ \E j \in DOMAIN q : r[i] = q[j]
              \/ watch[d] # 0 /\ r[i] = [wd |-> watch[d], name |-> name, severity |-> severity]
<1> DEFINE ev == [wd |-> watch[d], name |-> name, severity |-> severity]
           r == Queued(q, d, name, severity)
<1>0. Len(q) \in Nat /\ DOMAIN q = 1..Len(q) /\ QueueCap \in Nat
  BY LenProperties, BackingWatchAssumption
<1>1. CASE r = q
  BY <1>1
<1>2. CASE r # q
  <2>1. watch[d] # 0 /\ ~(Len(q) >= QueueCap) /\ (r = Append(q, ev) \/ (q = <<>> /\ r = <<ev>>))
    BY <1>2 DEF Queued
  <2>2. ev \in QueuedEvents
    BY <2>1 DEF WatchTypes, QueuedEvents
  <2>. HIDE DEF r, ev
  <2>3. r \in Seq(QueuedEvents) /\ Len(r) = Len(q) + 1
    <3>1. Append(q, ev) \in Seq(QueuedEvents) /\ Len(Append(q, ev)) = Len(q) + 1
      BY <2>2, AppendProperties
    <3>2. q = <<>> => Len(q) = 0 /\ <<ev>> \in Seq(QueuedEvents) /\ Len(<<ev>>) = 1
      BY <2>2
    <3>3. CASE r = Append(q, ev)
      BY <3>1, <3>3
    <3>4. CASE q = <<>> /\ r = <<ev>>
      BY <3>2, <3>4
    <3>. QED  BY <2>1, <3>3, <3>4
  <2>4. \A i \in 1..(Len(q) + 1) : r[i] = ev \/ (i \in 1..Len(q) /\ r[i] = q[i])
    <3>1. CASE r = Append(q, ev)
      <4>1. /\ \A i \in 1..Len(q) : Append(q, ev)[i] = q[i]
            /\ Append(q, ev)[Len(q) + 1] = ev
        BY <2>2, AppendProperties
      <4>. QED  BY <3>1, <4>1, <1>0
    <3>2. CASE q = <<>> /\ r = <<ev>>
      BY <3>2
    <3>. QED  BY <2>1, <3>1, <3>2
  <2>5. DOMAIN r = 1..(Len(q) + 1) /\ Len(r) <= QueueCap
    BY <1>0, <2>1, <2>3, LenProperties
  <2>. QED  BY <1>0, <2>1, <2>3, <2>4, <2>5 DEF r, ev
<1>. QED  BY <1>1, <1>2

\* The events there can be fit: a file's in a directory where it changes, and
\* a directory's in the root.
LEMMA NewEventFits ==
  ASSUME WatchInv, NEW d \in AllDirs, NEW name, NEW severity, watch[d] # 0,
         (name = Child /\ d \in BusyDirs) \/ (d = Root /\ name \in SubDirs)
  PROVE  EventFits([wd |-> watch[d], name |-> name, severity |-> severity])
<1>1. watch[d] \in DOMAIN wdMap /\ (wdMap[watch[d]] = Root <=> d = Root) /\ wdMap[watch[d]] \in AllDirs
  BY DEF WatchInv, WatchTypes, WatchesKnown
<1>2. <<wdMap[watch[d]], name>> \in Keys
  BY <1>1 DEF Keys, AllDirs
<1>3. \A e \in SubDirs : watch[d] = watch[e] => name = Child
  BY BackingWatchAssumption DEF WatchInv, WatchesKnown, AllDirs
<1>. QED  BY <1>2, <1>3 DEF EventFits

LEMMA QueuedFits ==
  ASSUME WatchInv, NEW q \in Seq(QueuedEvents), Len(q) <= QueueCap,
         \A i \in DOMAIN q : EventFits(q[i]),
         NEW d \in AllDirs, NEW name, NEW severity \in 0..3,
         (name = Child /\ d \in BusyDirs) \/ (d = Root /\ name \in SubDirs)
  PROVE  LET r == Queued(q, d, name, severity) IN
         r \in Seq(QueuedEvents) /\ Len(r) <= QueueCap /\ \A i \in DOMAIN r : EventFits(r[i])
<1>. PICK r : r = Queued(q, d, name, severity)
  OBVIOUS
<1>. PICK ev : ev = [wd |-> watch[d], name |-> name, severity |-> severity]
  OBVIOUS
<1>1. /\ r \in Seq(QueuedEvents) /\ Len(r) <= QueueCap
      /\ \A i \in DOMAIN r : (\E j \in DOMAIN q : r[i] = q[j]) \/ (watch[d] # 0 /\ r[i] = ev)
  <2>1. name \in SubDirs \cup {Child} /\ WatchTypes
    BY DEF WatchInv
  <2>2. LET x == Queued(q, d, name, severity) IN
         /\ x \in Seq(QueuedEvents) /\ Len(x) <= QueueCap
         /\ \A i \in DOMAIN x :
              \/ \E j \in DOMAIN q : x[i] = q[j]
              \/ watch[d] # 0 /\ x[i] = [wd |-> watch[d], name |-> name, severity |-> severity]
    BY <2>1, QueuedEffect
  <2>. QED  BY <2>2
<1>2. watch[d] # 0 => EventFits(ev)
  BY NewEventFits
<1>. QED  BY <1>1, <1>2

\* A change by others: watches go or move between subdirectories, and events
\* that fit are queued.
LEMMA OthersInv ==
  ASSUME WatchInv, UNCHANGED <<touches, tick, loopVars>>,
         present' \subseteq SubDirs, watch' \in [AllDirs -> Descriptors \cup {0}], WatchesKnown',
         \A e \in SubDirs : watch'[e] = 0 \/ \E d \in SubDirs : watch'[e] = watch[d],
         queue' \in Seq(QueuedEvents), Len(queue') <= QueueCap,
         \A i \in DOMAIN queue' : EventFits(queue'[i])
  PROVE  WatchInv'
<1>1. UNCHANGED <<touches, tick, lru, wdMap, debounce, batch, dispatching, watching>>
  BY DEF loopVars
<1>2. WatchTypes'
  BY <1>1 DEF WatchInv, WatchTypes
<1>3. WindowTypes' /\ DescriptorsListed'
  BY <1>1 DEF WatchInv, WindowTypes, DescriptorsListed
<1>4. EventsFit'
  <2>1. SUFFICES ASSUME NEW i \in DOMAIN queue' PROVE EventFits(queue[i])'
    BY DEF EventsFit
  <2>2. queue'[i].wd \in Descriptors /\ 0 \notin Descriptors
    <3>1. queue'[i] \in QueuedEvents
      BY <2>1, ElementOfSeq, LenProperties
    <3>. QED  BY <3>1 DEF QueuedEvents, Descriptors
  <2>3. EventFits(queue'[i])
    BY <2>1
  <2>. QED  BY <1>1, <2>2, <2>3 DEF EventFits
<1>. QED  BY <1>2, <1>3, <1>4 DEF WatchInv

LEMMA ChangesInv ==
  ASSUME WatchInv, \/ \E d \in BusyDirs, s \in Changes : FileChanges(d, s)
                   \/ \E d \in SubDirs : DirRemoved(d) \/ DirCreated(d) \/ LookedUp(d)
                   \/ \E d, e \in SubDirs : DirMoved(d, e)
  PROVE  WatchInv'
<1>0. /\ Root \in AllDirs /\ Root \notin SubDirs /\ SubDirs \subseteq AllDirs /\ BusyDirs \subseteq AllDirs
      /\ Changes \subseteq 0..3 /\ Delete \in 0..3 /\ Create \in 0..3
  BY BackingWatchAssumption DEF AllDirs, Delete, Create
<1>1. /\ queue \in Seq(QueuedEvents) /\ Len(queue) <= QueueCap /\ \A i \in DOMAIN queue : EventFits(queue[i])
      /\ present \subseteq SubDirs /\ watch \in [AllDirs -> Descriptors \cup {0}]
      /\ touches \in Seq(SubDirs)
  BY DEF WatchInv, WatchTypes, EventsFit
<1>2. ASSUME NEW d \in SubDirs, NEW severity \in 0..3
      PROVE  LET r == Queued(queue, Root, d, severity) IN
             r \in Seq(QueuedEvents) /\ Len(r) <= QueueCap /\ \A i \in DOMAIN r : EventFits(r[i])
  BY <1>0, <1>1, QueuedFits
<1>3. ASSUME NEW d \in BusyDirs, NEW s \in Changes, FileChanges(d, s) PROVE WatchInv'
  <2>1. LET r == Queued(queue, d, Child, s) IN
        r \in Seq(QueuedEvents) /\ Len(r) <= QueueCap /\ \A i \in DOMAIN r : EventFits(r[i])
    BY <1>0, <1>1, QueuedFits
  <2>2. /\ queue' \in Seq(QueuedEvents) /\ Len(queue') <= QueueCap
        /\ \A i \in DOMAIN queue' : EventFits(queue'[i])
    BY <1>3, <2>1 DEF FileChanges
  <2>3. UNCHANGED <<touches, tick, loopVars>> /\ present' = present /\ watch' = watch /\ wdMap' = wdMap
    BY <1>3 DEF FileChanges, loopVars
  <2>4. WatchesKnown'
    BY <2>3 DEF WatchInv, WatchesKnown
  <2>. QED  BY <1>0, <1>1, <2>2, <2>3, <2>4, OthersInv
<1>4. ASSUME NEW d \in SubDirs, DirRemoved(d) PROVE WatchInv'
  <2>2. /\ queue' \in Seq(QueuedEvents) /\ Len(queue') <= QueueCap
        /\ \A i \in DOMAIN queue' : EventFits(queue'[i])
    BY <1>0, <1>2, <1>4 DEF DirRemoved
  <2>3. /\ UNCHANGED <<touches, tick, loopVars>> /\ wdMap' = wdMap
        /\ present' = present \ {d} /\ watch' = [watch EXCEPT ![d] = 0]
    BY <1>4 DEF DirRemoved, loopVars
  <2>4. \A e \in AllDirs : watch'[e] = IF e = d THEN 0 ELSE watch[e]
    BY <1>0, <1>1, <2>3
  <2>5. WatchesKnown'
    BY <2>3, <2>4 DEF WatchInv, WatchesKnown
  <2>6. watch' \in [AllDirs -> Descriptors \cup {0}]
    BY <1>1, <2>3
  <2>. QED  BY <1>0, <1>1, <2>2, <2>3, <2>4, <2>5, <2>6, OthersInv
<1>5. ASSUME NEW d \in SubDirs, DirCreated(d) PROVE WatchInv'
  <2>2. /\ queue' \in Seq(QueuedEvents) /\ Len(queue') <= QueueCap
        /\ \A i \in DOMAIN queue' : EventFits(queue'[i])
    BY <1>0, <1>2, <1>5 DEF DirCreated
  <2>3. /\ UNCHANGED <<touches, tick, loopVars>> /\ wdMap' = wdMap
        /\ present' = present \cup {d} /\ watch' = watch
    BY <1>5 DEF DirCreated, loopVars
  <2>5. WatchesKnown'
    BY <2>3 DEF WatchInv, WatchesKnown
  <2>. QED  BY <1>0, <1>1, <2>2, <2>3, <2>5, OthersInv
<1>6. ASSUME NEW d \in SubDirs, LookedUp(d) PROVE WatchInv'
  <2>1. touches' \in Seq(SubDirs)
    BY <1>1, <1>6, AppendProperties DEF LookedUp
  <2>. QED  BY <1>6, <2>1 DEF LookedUp, loopVars, WatchInv, WatchTypes, WindowTypes, WatchesKnown,
              DescriptorsListed, EventsFit, EventFits
<1>7. ASSUME NEW d \in SubDirs, NEW e \in SubDirs, DirMoved(d, e) PROVE WatchInv'
  <2>. PICK r : r = Queued(queue, Root, d, Delete)
    OBVIOUS
  <2>1. r \in Seq(QueuedEvents) /\ Len(r) <= QueueCap /\ \A i \in DOMAIN r : EventFits(r[i])
    BY <1>0, <1>2
  <2>2. /\ queue' \in Seq(QueuedEvents) /\ Len(queue') <= QueueCap
        /\ \A i \in DOMAIN queue' : EventFits(queue'[i])
    <3>1. queue' = Queued(r, Root, e, Create)
      BY <1>7 DEF DirMoved
    <3>2. LET x == Queued(r, Root, e, Create) IN
          x \in Seq(QueuedEvents) /\ Len(x) <= QueueCap /\ \A i \in DOMAIN x : EventFits(x[i])
      BY <1>0, <2>1, QueuedFits
    <3>. QED  BY <3>1, <3>2
  <2>3. /\ UNCHANGED <<touches, tick, loopVars>> /\ wdMap' = wdMap
        /\ present' = (present \ {d}) \cup {e} /\ watch' = [watch EXCEPT ![d] = 0, ![e] = watch[d]]
        /\ d \in present /\ e \notin present
    BY <1>7 DEF DirMoved, loopVars
  <2>4. \A c \in AllDirs : watch'[c] = IF c = e THEN watch[d] ELSE IF c = d THEN 0 ELSE watch[c]
    BY <1>0, <1>1, <2>3
  <2>5. WatchesKnown'
    <3>1. e # d /\ e # Root /\ d # Root /\ watch[e] = 0
      BY <1>0, <2>3 DEF WatchInv, WatchesKnown
    <3>2. ASSUME NEW c \in AllDirs, watch'[c] # 0
          PROVE  /\ c \in present' \cup {Root} /\ watch'[c] \in DOMAIN wdMap
                 /\ wdMap[watch'[c]] = Root <=> c = Root
      BY <1>0, <2>3, <2>4, <3>1, <3>2 DEF WatchInv, WatchesKnown
    <3>3. \A b, c \in AllDirs : watch'[b] # 0 /\ watch'[b] = watch'[c] => b = c
      BY <1>0, <2>4, <3>1 DEF WatchInv, WatchesKnown
    <3>. QED  BY <2>3, <3>2, <3>3 DEF WatchesKnown
  <2>6. watch' \in [AllDirs -> Descriptors \cup {0}]
    BY <1>0, <1>1, <2>3
  <2>. QED  BY <1>0, <1>1, <2>2, <2>3, <2>4, <2>5, <2>6, OthersInv
<1>. QED  BY <1>3, <1>4, <1>5, <1>6, <1>7

\* A touch of a path in the LRU changes its place and nothing else.
LEMMA RefreshInv ==
  ASSUME WatchInv, NEW i \in DOMAIN lru, lru' = Refreshed(i), touches' \in Seq(SubDirs),
         UNCHANGED <<present, watch, queue, wdMap, debounce, tick, batch, dispatching, watching>>
  PROVE  WatchInv'
<1>. PICK n \in Nat : n = Len(lru)
  BY LenProperties DEF WatchInv, WatchTypes
<1>1. lru \in Seq(LruEntries) /\ DOMAIN lru = 1..n /\ i \in 1..n /\ lru[i] \in LruEntries
  BY LenProperties, ElementOfSeq DEF WatchInv, WatchTypes
<1>. PICK r : r = RemoveAt(lru, i)
  OBVIOUS
<1>2. /\ r \in Seq(LruEntries) /\ Len(r) = n - 1
      /\ \A k \in 1..(n - 1) : r[k] = IF k < i THEN lru[k] ELSE lru[k + 1]
  BY <1>1, RemoveAtElements
<1>3. /\ lru' \in Seq(LruEntries) /\ Len(lru') = Len(r) + 1
      /\ \A k \in 1..Len(r) : lru'[k] = r[k]
      /\ lru'[Len(r) + 1] = lru[i]
  BY <1>1, <1>2, AppendProperties DEF Refreshed
<1>4. /\ Len(lru') = n /\ DOMAIN lru' = 1..n
      /\ \A k \in 1..n : lru'[k] = IF k < i THEN lru[k] ELSE IF k < n THEN lru[k + 1] ELSE lru[i]
  BY <1>1, <1>2, <1>3, LenProperties
<1>5. ASSUME NEW k \in DOMAIN lru', NEW m \in DOMAIN lru', lru'[k].path = lru'[m].path PROVE k = m
  <2>1. \A a, b \in 1..n : lru[a].path = lru[b].path => a = b
    BY <1>1 DEF WatchInv, WatchTypes
  <2>2. \A a \in 1..n : a < n => a + 1 \in 1..n
    OBVIOUS
  <2>. QED  BY <1>1, <1>4, <1>5, <2>1, <2>2
<1>6. \A w \in DOMAIN wdMap : \E k \in DOMAIN lru' : lru'[k].wd = w
  <2>1. ASSUME NEW j \in 1..n PROVE \E k \in 1..n : lru'[k] = lru[j]
    <3>1. CASE j < i
      BY <1>4, <3>1
    <3>2. CASE j = i
      BY <1>1, <1>4, <3>2
    <3>3. CASE j > i
      <4>1. j - 1 \in 1..n /\ ~(j - 1 < i) /\ j - 1 < n /\ (j - 1) + 1 = j
        BY <1>1, <3>3
      <4>. QED  BY <1>4, <4>1
    <3>. QED  BY <1>1, <3>1, <3>2, <3>3
  <2>2. SUFFICES ASSUME NEW w \in DOMAIN wdMap PROVE \E k \in DOMAIN lru' : lru'[k].wd = w
    OBVIOUS
  <2>3. PICK j \in 1..n : lru[j].wd = w
    BY <1>1, <2>2 DEF WatchInv, DescriptorsListed
  <2>. QED  BY <1>4, <2>1, <2>3
<1>7. WatchTypes'
  BY <1>3, <1>4, <1>5 DEF WatchInv, WatchTypes
<1>. QED  BY <1>6, <1>7 DEF WatchInv, WindowTypes, WatchesKnown, DescriptorsListed, EventsFit, EventFits

\* What room is made by the eviction: an entry less than the cap, the others
\* as they were.
LEMMA KeptEffect ==
  ASSUME WatchInv
  PROVE  /\ KeptLru \in Seq(LruEntries) /\ Len(KeptLru) < WatchCap
         /\ \A j, k \in DOMAIN KeptLru : KeptLru[j].path = KeptLru[k].path => j = k
         /\ \A k \in DOMAIN KeptLru : \E j \in DOMAIN lru : KeptLru[k] = lru[j]
         /\ \A j \in DOMAIN lru : lru[j].wd \notin Evicted => \E k \in DOMAIN KeptLru : KeptLru[k] = lru[j]
<1>. PICK n \in Nat : n = Len(lru)
  BY LenProperties DEF WatchInv, WatchTypes
<1>1. /\ lru \in Seq(LruEntries) /\ DOMAIN lru = 1..n /\ n <= WatchCap /\ WatchCap \in Nat \ {0}
      /\ \A i, j \in DOMAIN lru : lru[i].path = lru[j].path => i = j
  BY LenProperties, WatchCapType DEF WatchInv, WatchTypes
<1>2. CASE ~(n >= WatchCap)
  BY <1>1, <1>2 DEF KeptLru
<1>3. CASE n >= WatchCap
  <2>. PICK t : t = Tail(lru)
    OBVIOUS
  <2>1. t \in Seq(LruEntries) /\ Len(t) = n - 1 /\ \A k \in 1..(n - 1) : t[k] = lru[k + 1]
    <3>1. lru # <<>>
      BY <1>1, <1>3
    <3>2. /\ Tail(lru) \in Seq(LruEntries) /\ Len(Tail(lru)) = Len(lru) - 1
          /\ \A k \in 1..(Len(lru) - 1) : Tail(lru)[k] = lru[k + 1]
      BY <1>1, <3>1, HeadTailProperties
    <3>. QED  BY <3>2
  <2>2. DOMAIN t = 1..(n - 1) /\ n - 1 < WatchCap /\ KeptLru = t /\ Evicted = {lru[1].wd}
    BY <1>1, <1>3, <2>1, LenProperties DEF KeptLru, Evicted
  <2>3. \A k \in 1..(n - 1) : k + 1 \in 1..n
    OBVIOUS
  <2>4. \A j \in 1..n : j # 1 => j - 1 \in 1..(n - 1) /\ (j - 1) + 1 = j
    OBVIOUS
  <2>5. \A j, k \in DOMAIN t : t[j].path = t[k].path => j = k
    BY <1>1, <2>1, <2>2, <2>3
  <2>6. \A k \in DOMAIN t : \E j \in DOMAIN lru : t[k] = lru[j]
    BY <1>1, <2>1, <2>2, <2>3
  <2>7. \A j \in DOMAIN lru : lru[j].wd \notin Evicted => \E k \in DOMAIN t : t[k] = lru[j]
    <3>. SUFFICES ASSUME NEW j \in 1..n, lru[j].wd \notin Evicted PROVE \E k \in DOMAIN t : t[k] = lru[j]
      BY <1>1
    <3>1. j # 1
      BY <2>2
    <3>. QED  BY <2>1, <2>2, <2>4, <3>1
  <2>. QED  BY <2>1, <2>2, <2>5, <2>6, <2>7
<1>. QED  BY <1>2, <1>3

\* What the eviction leaves of the kernel's watches and of wd_map: both still
\* known, and the events still fit.
LEMMA EvictedWatches ==
  ASSUME WatchInv
  PROVE  LET kernel == WatchRemoved(Evicted) IN
         /\ kernel \in [AllDirs -> Descriptors \cup {0}]
         /\ \A d \in AllDirs : kernel[d] # 0 =>
              /\ kernel[d] = watch[d]
              /\ d \in present \cup {Root} /\ kernel[d] \in DOMAIN wdMap \ Evicted
              /\ wdMap[kernel[d]] = Root <=> d = Root
         /\ \A d, e \in AllDirs : kernel[d] # 0 /\ kernel[d] = kernel[e] => d = e
<1>. PICK kernel : kernel = WatchRemoved(Evicted)
  OBVIOUS
<1>1. kernel \in [AllDirs -> Descriptors \cup {0}]
  BY DEF WatchRemoved, WatchInv, WatchTypes
<1>2. \A d \in AllDirs : kernel[d] # 0 => kernel[d] = watch[d] /\ watch[d] \notin Evicted
  BY DEF WatchRemoved
<1>. QED  BY <1>1, <1>2 DEF WatchInv, WatchesKnown

LEMMA NotWatchedInv ==
  ASSUME WatchInv, NotWatched, touches' \in Seq(SubDirs),
         UNCHANGED <<present, queue, debounce, tick, batch, dispatching, watching>>
  PROVE  WatchInv'
<1>1. /\ lru' = KeptLru /\ watch' = WatchRemoved(Evicted)
      /\ DOMAIN wdMap' = DOMAIN wdMap \ Evicted /\ \A w \in DOMAIN wdMap' : wdMap'[w] = wdMap[w]
  BY DEF NotWatched, Less, Restrict
<1>2. WatchTypes'
  <2>1. lru' \in Seq(LruEntries) /\ Len(lru') <= WatchCap
    <3>1. lru' \in Seq(LruEntries) /\ Len(lru') < WatchCap
      BY <1>1, KeptEffect
    <3>2. Len(lru') \in Nat
      BY <3>1, LenProperties
    <3>. QED  BY <3>1, <3>2, WatchCapType
  <2>2. \A i, j \in DOMAIN lru' : lru'[i].path = lru'[j].path => i = j
    BY <1>1, KeptEffect
  <2>3. watch' \in [AllDirs -> Descriptors \cup {0}]
    BY <1>1, EvictedWatches
  <2>. QED  BY <1>1, <2>1, <2>2, <2>3 DEF WatchInv, WatchTypes
<1>3. WatchesKnown'
  BY <1>1, EvictedWatches DEF WatchesKnown
<1>4. DescriptorsListed'
  BY <1>1, KeptEffect DEF WatchInv, DescriptorsListed
<1>5. EventsFit'
  <2>1. SUFFICES ASSUME NEW i \in DOMAIN queue' PROVE EventFits(queue[i])'
    BY DEF EventsFit
  <2>2. queue'[i] = queue[i] /\ EventFits(queue[i]) /\ queue[i].wd # 0
    <3>1. queue[i] \in QueuedEvents /\ EventFits(queue[i])
      BY <2>1, ElementOfSeq, LenProperties DEF WatchInv, WatchTypes, EventsFit
    <3>. QED  BY <3>1 DEF QueuedEvents, Descriptors
  <2>3. \A d \in AllDirs : watch'[d] = 0 \/ watch'[d] = watch[d]
    BY <1>1, EvictedWatches
  <2>. QED  BY <1>1, <2>2, <2>3 DEF EventFits, AllDirs
<1>. QED  BY <1>2, <1>3, <1>4, <1>5 DEF WatchInv, WindowTypes

LEMMA WatchedInv ==
  ASSUME WatchInv, NEW p \in SubDirs, p \in present, \A i \in DOMAIN lru : lru[i].path # p,
         Watched(p), touches' \in Seq(SubDirs),
         UNCHANGED <<present, queue, debounce, tick, batch, dispatching, watching>>
  PROVE  WatchInv'
<1>. PICK kernel : kernel = WatchRemoved(Evicted)
  OBVIOUS
<1>. PICK wd : wd = IF kernel[p] # 0 THEN kernel[p] ELSE FreshWd
  OBVIOUS
<1>0. p \in AllDirs /\ p # Root /\ WatchTypes
  BY BackingWatchAssumption DEF AllDirs, WatchInv
<1>1. /\ kernel \in [AllDirs -> Descriptors \cup {0}]
      /\ \A d \in AllDirs : kernel[d] # 0 =>
           /\ kernel[d] = watch[d]
           /\ d \in present \cup {Root} /\ kernel[d] \in DOMAIN wdMap \ Evicted
           /\ wdMap[kernel[d]] = Root <=> d = Root
      /\ \A d, e \in AllDirs : kernel[d] # 0 /\ kernel[d] = kernel[e] => d = e
  BY EvictedWatches
<1>2. /\ lru' = Append(KeptLru, [path |-> p, wd |-> wd])
      /\ DOMAIN wdMap' = (DOMAIN wdMap \ Evicted) \cup {wd}
      /\ \A w \in DOMAIN wdMap' : wdMap'[w] = IF w = wd THEN p ELSE wdMap[w]
      /\ watch' = [kernel EXCEPT ![p] = wd]
  BY DEF Watched
<1>3. wd \in Descriptors /\ wd # 0 /\ \A d \in AllDirs : d # p => kernel[d] # wd
  <2>1. CASE kernel[p] # 0
    BY <1>0, <1>1, <2>1 DEF Descriptors
  <2>2. CASE kernel[p] = 0
    <3>1. wd = FreshWd
      BY <2>2
    <3>2. wd \in Descriptors /\ \A d \in AllDirs : watch[d] # wd
      BY <1>0, <3>1, FreshDescriptor
    <3>. QED  BY <1>1, <3>2 DEF Descriptors
  <2>. QED  BY <2>1, <2>2
<1>4. \A d \in AllDirs : watch'[d] = IF d = p THEN wd ELSE kernel[d]
  BY <1>0, <1>1, <1>2
<1>5. /\ lru' \in Seq(LruEntries) /\ Len(lru') = Len(KeptLru) + 1
      /\ \A k \in 1..Len(KeptLru) : lru'[k] = KeptLru[k]
      /\ lru'[Len(KeptLru) + 1] = [path |-> p, wd |-> wd]
      /\ Len(KeptLru) \in Nat /\ DOMAIN KeptLru = 1..Len(KeptLru)
      /\ DOMAIN lru' = 1..(Len(KeptLru) + 1) /\ Len(lru') <= WatchCap
  <2>1. KeptLru \in Seq(LruEntries) /\ Len(KeptLru) < WatchCap /\ WatchCap \in Nat
    BY KeptEffect, WatchCapType
  <2>2. [path |-> p, wd |-> wd] \in LruEntries
    BY <1>0, <1>3 DEF LruEntries
  <2>3. /\ lru' \in Seq(LruEntries) /\ Len(lru') = Len(KeptLru) + 1
        /\ \A k \in 1..Len(KeptLru) : lru'[k] = KeptLru[k]
        /\ lru'[Len(KeptLru) + 1] = [path |-> p, wd |-> wd]
    BY <1>2, <2>1, <2>2, AppendProperties
  <2>4. Len(KeptLru) \in Nat /\ DOMAIN KeptLru = 1..Len(KeptLru) /\ DOMAIN lru' = 1..Len(lru')
    BY <2>1, <2>3, LenProperties
  <2>. QED  BY <2>1, <2>3, <2>4
<1>6. WatchTypes'
  <2>1. \A i \in DOMAIN KeptLru : KeptLru[i].path # p
    BY KeptEffect
  <2>2. ASSUME NEW i \in DOMAIN lru', NEW j \in DOMAIN lru', lru'[i].path = lru'[j].path PROVE i = j
    <3>. PICK m \in Nat : m = Len(KeptLru)
      BY <1>5
    <3>1. \A k \in 1..m, l \in 1..m : KeptLru[k].path = KeptLru[l].path => k = l
      BY <1>5, KeptEffect
    <3>2. i \in 1..m \/ i = m + 1
      BY <1>5
    <3>3. j \in 1..m \/ j = m + 1
      BY <1>5
    <3>. QED  BY <1>5, <2>1, <2>2, <3>1, <3>2, <3>3
  <2>3. watch' \in [AllDirs -> Descriptors \cup {0}]
    BY <1>1, <1>2, <1>3
  <2>4. DOMAIN wdMap' \subseteq Descriptors /\ \A w \in DOMAIN wdMap' : wdMap'[w] \in AllDirs
    BY <1>0, <1>2, <1>3 DEF WatchTypes
  <2>. QED  BY <1>0, <1>5, <2>2, <2>3, <2>4 DEF WatchTypes
<1>7. WatchesKnown'
  <2>1. ASSUME NEW d \in AllDirs, watch'[d] # 0
        PROVE  /\ d \in present \cup {Root} /\ watch'[d] \in DOMAIN wdMap'
               /\ wdMap'[watch'[d]] = Root <=> d = Root
    BY <1>0, <1>1, <1>2, <1>3, <1>4, <2>1
  <2>2. \A d, e \in AllDirs : watch'[d] # 0 /\ watch'[d] = watch'[e] => d = e
    BY <1>1, <1>3, <1>4
  <2>. QED  BY <2>1, <2>2 DEF WatchesKnown
<1>8. DescriptorsListed'
  <2>1. SUFFICES ASSUME NEW w \in DOMAIN wdMap' PROVE \E k \in DOMAIN lru' : lru'[k].wd = w
    BY DEF DescriptorsListed
  <2>2. CASE w = wd
    <3>1. Len(KeptLru) + 1 \in DOMAIN lru'
      BY <1>5
    <3>. QED  BY <1>5, <2>2, <3>1
  <2>3. CASE w # wd
    <3>1. w \in DOMAIN wdMap \ Evicted
      BY <1>2, <2>1, <2>3
    <3>2. PICK j \in DOMAIN lru : lru[j].wd = w
      BY <3>1 DEF WatchInv, DescriptorsListed
    <3>3. PICK k \in DOMAIN KeptLru : KeptLru[k] = lru[j]
      BY <3>1, <3>2, KeptEffect
    <3>4. k \in DOMAIN lru' /\ lru'[k] = KeptLru[k]
      BY <1>5, <3>3
    <3>. QED  BY <3>2, <3>3, <3>4
  <2>. QED  BY <2>2, <2>3
<1>9. EventsFit'
  <2>1. SUFFICES ASSUME NEW i \in DOMAIN queue' PROVE EventFits(queue[i])'
    BY DEF EventsFit
  <2>. PICK ev \in QueuedEvents : ev = queue[i] /\ i \in DOMAIN queue
    BY <1>0, <2>1, ElementOfSeq, LenProperties DEF WatchTypes
  <2>2. queue'[i] = ev /\ EventFits(ev) /\ ev.wd # 0
    BY DEF WatchInv, EventsFit, QueuedEvents, Descriptors
  <2>3. ev.wd = wd => ev.name = Child
    <3>1. CASE kernel[p] # 0
      BY <1>0, <1>1, <2>2, <3>1 DEF EventFits
    <3>2. CASE kernel[p] = 0
      BY <1>0, <3>2, FreshDescriptor
    <3>. QED  BY <3>1, <3>2
  <2>4. ev.wd \in DOMAIN wdMap' => <<wdMap'[ev.wd], ev.name>> \in Keys
    BY <1>2, <2>2, <2>3 DEF EventFits, Keys
  <2>5. ASSUME NEW d \in SubDirs, ev.wd = watch'[d] PROVE ev.name = Child
    BY <1>1, <1>4, <2>2, <2>3, <2>5 DEF EventFits, AllDirs
  <2>. QED  BY <2>2, <2>4, <2>5 DEF EventFits
<1>. QED  BY <1>6, <1>7, <1>8, <1>9 DEF WatchInv, WindowTypes

LEMMA TouchInv ==
  ASSUME WatchInv, TakeTouch
  PROVE  WatchInv'
<1>. PICK p : p = Head(touches)
  OBVIOUS
<1>1. p \in SubDirs /\ touches' \in Seq(SubDirs)
  <2>1. touches \in Seq(SubDirs) /\ touches # <<>> /\ touches' = Tail(touches)
    BY DEF TakeTouch, WatchInv, WatchTypes
  <2>. QED  BY <2>1, HeadTailProperties
<1>2. UNCHANGED <<present, queue, debounce, tick, batch, dispatching, watching>>
  BY DEF TakeTouch
<1>3. \/ \E i \in DOMAIN lru : lru' = Refreshed(i) /\ UNCHANGED <<wdMap, watch>>
      \/ /\ \A i \in DOMAIN lru : lru[i].path # p
         /\ (p \in present /\ Watched(p)) \/ NotWatched
  BY DEF TakeTouch
<1>4. CASE \E i \in DOMAIN lru : lru' = Refreshed(i) /\ UNCHANGED <<wdMap, watch>>
  BY <1>1, <1>2, <1>4, RefreshInv
<1>5. CASE (\A i \in DOMAIN lru : lru[i].path # p) /\ p \in present /\ Watched(p)
  BY <1>1, <1>2, <1>5, WatchedInv
<1>6. CASE NotWatched
  BY <1>1, <1>2, <1>6, NotWatchedInv
<1>. QED  BY <1>3, <1>4, <1>5, <1>6

\* A queued event goes into the window of its key.
LEMMA EventInv ==
  ASSUME WatchInv, TakeEvent
  PROVE  WatchInv'
<1>. PICK ev : ev = Head(queue)
  OBVIOUS
<1>0. UNCHANGED <<present, watch, touches, lru, wdMap, tick, batch, dispatching, watching>>
  BY DEF TakeEvent
<1>1. /\ ev \in QueuedEvents /\ ev = queue[1] /\ 1 \in DOMAIN queue
      /\ queue' \in Seq(QueuedEvents) /\ Len(queue') = Len(queue) - 1 /\ Len(queue) \in Nat
      /\ \A i \in DOMAIN queue' : i + 1 \in DOMAIN queue /\ queue'[i] = queue[i + 1]
  <2>1. queue \in Seq(QueuedEvents) /\ queue # <<>> /\ queue' = Tail(queue)
    BY DEF TakeEvent, WatchInv, WatchTypes
  <2>2. /\ Head(queue) \in QueuedEvents /\ Head(queue) = queue[1] /\ Tail(queue) \in Seq(QueuedEvents)
        /\ Len(Tail(queue)) = Len(queue) - 1
        /\ \A i \in 1..Len(Tail(queue)) : Tail(queue)[i] = queue[i + 1]
    BY <2>1, HeadTailProperties
  <2>3. Len(queue) \in Nat /\ DOMAIN queue = 1..Len(queue) /\ DOMAIN queue' = 1..(Len(queue) - 1)
    BY <2>1, <2>2, LenProperties
  <2>4. Len(queue) # 0
    BY <2>1, EmptySeq
  <2>. QED  BY <2>1, <2>2, <2>3, <2>4
<1>2. WatchTypes'
  <2>1. Len(queue') <= QueueCap
    BY <1>1, BackingWatchAssumption DEF WatchInv, WatchTypes
  <2>. QED  BY <1>0, <1>1, <2>1 DEF WatchInv, WatchTypes
<1>3. /\ DOMAIN debounce' \subseteq Keys
      /\ \A k \in DOMAIN debounce' : debounce'[k] \in [severity : 0..3, ripe : BOOLEAN]
  <2>0. /\ DOMAIN debounce \subseteq Keys
        /\ \A k \in DOMAIN debounce : debounce[k] \in [severity : 0..3, ripe : BOOLEAN]
    BY DEF WatchInv, WindowTypes
  <2>1. CASE ev.wd \notin DOMAIN wdMap
    BY <2>0, <2>1 DEF TakeEvent
  <2>2. CASE ev.wd \in DOMAIN wdMap
    <3>. PICK k : k = <<wdMap[ev.wd], ev.name>>
      OBVIOUS
    <3>. PICK s \in 0..3 : s = ev.severity
      BY <1>1 DEF QueuedEvents
    <3>1. k \in Keys
      BY <1>1, <2>2 DEF WatchInv, EventsFit, EventFits
    <3>2. debounce' = Coalesced(k, s)
      BY <2>2 DEF TakeEvent
    <3>3. \A window \in [severity : 0..3, ripe : BOOLEAN] :
            Merged(window, s) \in [severity : 0..3, ripe : BOOLEAN]
      <4>. TAKE window \in [severity : 0..3, ripe : BOOLEAN]
      <4>. PICK a \in 0..3 : a = window.severity
        OBVIOUS
      <4>1. \E x \in {a, s} : \A y \in {a, s} : x >= y
        <5>1. CASE a >= s
          BY <5>1
        <5>2. CASE ~(a >= s)
          BY <5>2
        <5>. QED  BY <5>1, <5>2
      <4>2. Max({a, s}) \in 0..3
        BY <4>1 DEF Max
      <4>. QED  BY <4>2 DEF Merged
    <3>4. /\ DOMAIN debounce' = DOMAIN debounce \cup {k}
          /\ \A j \in DOMAIN debounce' : debounce'[j] =
               IF j # k THEN debounce[j]
               ELSE IF k \in DOMAIN debounce THEN Merged(debounce[k], s)
               ELSE [severity |-> s, ripe |-> FALSE]
      BY <3>2 DEF Coalesced
    <3>5. ASSUME NEW j \in DOMAIN debounce' PROVE debounce'[j] \in [severity : 0..3, ripe : BOOLEAN]
      <4>1. CASE j # k
        BY <2>0, <3>4, <3>5, <4>1
      <4>2. CASE j = k /\ k \in DOMAIN debounce
        <5>1. debounce'[j] = Merged(debounce[k], s)
          BY <3>4, <3>5, <4>2
        <5>. QED  BY <2>0, <3>3, <4>2, <5>1
      <4>3. CASE j = k /\ k \notin DOMAIN debounce
        <5>1. debounce'[j] = [severity |-> s, ripe |-> FALSE]
          BY <3>4, <3>5, <4>3
        <5>2. [severity |-> s, ripe |-> FALSE] \in [severity : 0..3, ripe : BOOLEAN]
          OBVIOUS
        <5>. QED  BY <5>1, <5>2
      <4>. QED  BY <4>1, <4>2, <4>3
    <3>. QED  BY <2>0, <3>1, <3>4, <3>5
  <2>. QED  BY <2>1, <2>2
<1>4. WindowTypes'
  BY <1>0, <1>3 DEF WatchInv, WindowTypes
<1>5. WatchesKnown' /\ DescriptorsListed'
  BY <1>0 DEF WatchInv, WatchesKnown, DescriptorsListed
<1>6. EventsFit'
  BY <1>0, <1>1 DEF WatchInv, EventsFit, EventFits
<1>. QED  BY <1>2, <1>4, <1>5, <1>6 DEF WatchInv

\* The timer, the dispatches and time change no more than the windows.
LEMMA WindowInv ==
  ASSUME WatchInv, \/ TakeTick \/ DispatchBegins \/ DispatchEnds \/ TimerFires
                   \/ \E k \in Keys : DeadlinePasses(k)
  PROVE  WatchInv'
<1>1. UNCHANGED <<present, watch, queue, touches, lru, wdMap>>
  BY DEF TakeTick, DispatchBegins, DispatchEnds, TimerFires, DeadlinePasses, loopVars
<1>2. WatchTypes' /\ WatchesKnown' /\ DescriptorsListed' /\ EventsFit'
  BY <1>1 DEF WatchInv, WatchTypes, WatchesKnown, DescriptorsListed, EventsFit, EventFits
<1>3. WindowTypes'
  <2>0. /\ DOMAIN debounce \subseteq Keys
        /\ \A k \in DOMAIN debounce : debounce[k] \in [severity : 0..3, ripe : BOOLEAN]
    BY DEF WatchInv, WindowTypes
  <2>1. CASE TakeTick
    <3>1. batch' \subseteq Windows
      <4>1. batch' = {[key |-> k, severity |-> debounce[k].severity] : k \in Ripe}
        BY <2>1 DEF TakeTick
      <4>2. \A k \in Ripe : k \in Keys /\ debounce[k].severity \in 0..3
        BY <2>0 DEF Ripe
      <4>. QED  BY <4>1, <4>2 DEF Windows
    <3>2. DOMAIN debounce' \subseteq DOMAIN debounce /\ \A k \in DOMAIN debounce' : debounce'[k] = debounce[k]
      BY <2>1 DEF TakeTick, Less, Restrict
    <3>. QED  BY <2>0, <2>1, <3>1, <3>2 DEF TakeTick, WatchInv, WindowTypes
  <2>2. CASE DispatchBegins \/ DispatchEnds \/ TimerFires
    BY <2>2 DEF DispatchBegins, DispatchEnds, TimerFires, loopVars, WatchInv, WindowTypes
  <2>3. ASSUME NEW k \in Keys, DeadlinePasses(k) PROVE WindowTypes'
    <3>1. /\ DOMAIN debounce' = DOMAIN debounce
          /\ \A j \in DOMAIN debounce : debounce'[j] = IF j = k THEN [debounce[k] EXCEPT !.ripe = TRUE]
                                                       ELSE debounce[j]
      BY <2>3 DEF DeadlinePasses
    <3>2. \A w \in [severity : 0..3, ripe : BOOLEAN] :
            [w EXCEPT !.ripe = TRUE] \in [severity : 0..3, ripe : BOOLEAN]
      OBVIOUS
    <3>3. \A j \in DOMAIN debounce' : debounce'[j] \in [severity : 0..3, ripe : BOOLEAN]
      BY <2>0, <3>1, <3>2
    <3>. QED  BY <2>0, <2>3, <3>1, <3>3 DEF DeadlinePasses, WatchInv, WindowTypes
  <2>. QED  BY <2>1, <2>2, <2>3
<1>. QED  BY <1>2, <1>3 DEF WatchInv

LEMMA StopInv ==
  ASSUME WatchInv, WatcherStops
  PROVE  WatchInv'
<1>1. /\ queue' = <<>> /\ touches' = <<>> /\ lru' = <<>> /\ watch' = [d \in AllDirs |-> 0]
      /\ present' = present
  BY DEF WatcherStops
<1>2. DOMAIN wdMap' = {} /\ DOMAIN debounce' = {}
  BY DEF WatcherStops, Less, Restrict
<1>3. WatchTypes'
  <2>1. /\ queue' \in Seq(QueuedEvents) /\ Len(queue') = 0 /\ touches' \in Seq(SubDirs)
        /\ lru' \in Seq(LruEntries) /\ Len(lru') = 0 /\ DOMAIN lru' = {}
    BY <1>1
  <2>2. Len(queue') <= QueueCap /\ Len(lru') <= WatchCap
    BY <2>1, WatchCapType, BackingWatchAssumption
  <2>. QED  BY <1>1, <1>2, <2>1, <2>2 DEF WatchInv, WatchTypes
<1>4. WindowTypes'
  BY <1>2 DEF WatcherStops, WatchInv, WindowTypes
<1>5. WatchesKnown' /\ DescriptorsListed' /\ EventsFit'
  BY <1>1, <1>2 DEF WatchesKnown, DescriptorsListed, EventsFit
<1>. QED  BY <1>3, <1>4, <1>5 DEF WatchInv

LEMMA WatchStepInv == WatchInv /\ [BackingWatchNext]_backingVars => WatchInv'
<1> SUFFICES ASSUME WatchInv, [BackingWatchNext]_backingVars PROVE WatchInv'
  OBVIOUS
<1>1. CASE \/ \E d \in BusyDirs, s \in Changes : FileChanges(d, s)
           \/ \E d \in SubDirs : DirRemoved(d) \/ DirCreated(d) \/ LookedUp(d)
           \/ \E d, e \in SubDirs : DirMoved(d, e)
  BY <1>1, ChangesInv
<1>2. CASE TakeTouch
  BY <1>2, TouchInv
<1>3. CASE TakeEvent
  BY <1>3, EventInv
<1>4. CASE \/ TakeTick \/ DispatchBegins \/ DispatchEnds \/ TimerFires
           \/ \E k \in Keys : DeadlinePasses(k)
  BY <1>4, WindowInv
<1>5. CASE WatcherStops
  BY <1>5, StopInv
<1>6. CASE UNCHANGED backingVars
  BY <1>6 DEF backingVars, WatchInv, WatchTypes, WindowTypes, WatchesKnown, DescriptorsListed,
     EventsFit, EventFits
<1>. QED  BY <1>1, <1>2, <1>3, <1>4, <1>5, <1>6 DEF BackingWatchNext, Loop

\* WatchInv holds of every state of the backing watcher.
THEOREM WatchInvariance == BackingWatchSpec => []WatchInv
  BY WatchInitInv, WatchStepInv, PTL DEF BackingWatchSpec

LEMMA WatchIsTyped == WatchInv => BackingWatchTypeOK
<1> SUFFICES ASSUME WatchInv PROVE BackingWatchTypeOK
  OBVIOUS
<1>1. IsInjective([i \in DOMAIN lru |-> lru[i].path])
  BY DEF WatchInv, WatchTypes, IsInjective
<1>2. Range(wdMap) \subseteq AllDirs
  BY DEF WatchInv, WatchTypes, Range
<1>. QED  BY <1>1, <1>2 DEF WatchInv, WatchTypes, WindowTypes, QueuedEvents, LruEntries, BackingWatchTypeOK

\* The state of the backing watcher has its types: one entry of the LRU for
\* each path (touch_or_add), and no key in the debounce map but of a file
\* where one changes or of a directory in the root (handle_event), also after
\* a watched directory was moved.
THEOREM WatchTypeCorrect == BackingWatchSpec => []BackingWatchTypeOK
  BY WatchIsTyped, WatchInvariance, PTL

\* The backing watcher leaks no watch and exceeds no cap, whatever the others
\* do to the directories: every watch of the kernel has an entry in wd_map,
\* every descriptor there an entry of the LRU, and the watches are no more
\* than max_dirs (touch_or_add).
THEOREM WatchesAreNotLeaked == BackingWatchSpec => []NoLeakedWatch
<1>1. WatchInv => NoLeakedWatch
  <2> SUFFICES ASSUME WatchInv PROVE NoLeakedWatch
    OBVIOUS
  <2> DEFINE D == {d \in AllDirs : watch[d] # 0}
             f == [d \in D |-> CHOOSE i \in DOMAIN lru : lru[i].wd = watch[d]]
  <2>1. \A d \in D : \E i \in DOMAIN lru : lru[i].wd = watch[d]
    BY DEF WatchInv, WatchesKnown, DescriptorsListed
  <2>2. \A d \in D : f[d] \in DOMAIN lru /\ lru[f[d]].wd = watch[d]
    BY <2>1
  <2>3. \A d, e \in D : watch[d] = watch[e] => d = e
    BY DEF WatchInv, WatchesKnown
  <2>4. f \in [D -> DOMAIN lru]
    BY <2>2
  <2>5. DOMAIN f = D
    OBVIOUS
  <2>. HIDE DEF f, D
  <2>6. f \in Injection(D, DOMAIN lru)
    BY <2>2, <2>3, <2>4, <2>5 DEF Injection, IsInjective
  <2>7. /\ Len(lru) \in Nat /\ DOMAIN lru = 1..Len(lru) /\ Len(lru) <= WatchCap
    BY LenProperties DEF WatchInv, WatchTypes
  <2>8. IsFiniteSet(1..Len(lru)) /\ Cardinality(1..Len(lru)) = IF 1 > Len(lru) THEN 0 ELSE Len(lru) - 1 + 1
    BY <2>7, FS_Interval
  <2>9. IsFiniteSet(D) /\ Cardinality(D) <= Cardinality(1..Len(lru))
    BY <2>6, <2>7, <2>8, FS_Injection
  <2>10. Cardinality(D) \in Nat
    BY <2>9, FS_CardinalityType
  <2>11. Cardinality(D) <= WatchCap
    BY <2>7, <2>8, <2>9, <2>10, WatchCapType
  <2>12. Cardinality({d \in AllDirs : watch[d] # 0}) <= WatchCap
    BY <2>11 DEF D
  <2>. QED  BY <2>12 DEF NoLeakedWatch, WatchInv, WatchesKnown, DescriptorsListed
<1>. QED  BY <1>1, WatchInvariance, PTL

-----------------------------------------------------------------------------
(* Eviction: the inductive invariant.                                      *)

Lists == UNION {[S -> 0..MaxTime] : S \in SUBSET Entries}
Tasks == [at : Steps, listed : Lists, excess : Int, row : Entries \cup {NoRow}]
WorkerMounts == {WorkerMount[w] : w \in Workers}

EvictTypes ==
  /\ Rows \subseteq Entries /\ lastHit \in [Rows -> 0..time]
  /\ onDisk \subseteq Entries /\ renamed \subseteq Entries
  /\ time \in Nat /\ turns \in 0..MaxTurns /\ time <= StartTime + turns
  /\ task \in [Evictors -> Tasks]
  /\ evictLock \in [WorkerMounts -> Workers \cup {NoRow}]
  /\ fresh \in [Sweepers -> [Entries -> Nat]] /\ disturbed \subseteq Workers

\* Every mark of an entry took a turn, its rename; one not yet marked did too.
MarksTookTurns ==
  \A m \in Sweepers, e \in Entries : fresh[m][e] + (IF e \in renamed THEN 1 ELSE 0) <= turns

\* A worker that evicts holds the lock of its mount, and never expires rows.
WorkersLock ==
  \A w \in Workers :
    /\ task[w].at # "idle" => evictLock[WorkerMount[w]] = w
    /\ task[w].at # "expire" /\ (task[w].at = "idle" => task[w].row = NoRow)

\* The row to be removed is not to be tried again.
RowsOnce ==
  \A x \in Evictors : /\ task[x].row \notin DOMAIN task[x].listed
                      /\ task[x].at = "list" => task[x].row = NoRow

Counting(x) == task[x].at \in {"list", "reclaim"}

\* A worker's excess is real: the rows that it leaves exceed its target by it,
\* unless others have removed some.
ExcessIsReal ==
  \A w \in Workers : Counting(w) /\ w \notin disturbed =>
    SizeOfAll(Rows \ {task[w].row}) >= FitTarget(w) + task[w].excess

\* A sweep's excess is enough: the rows that it leaves, and those listed that
\* others have removed, exceed the budget by no more than the excess and what
\* was cached meanwhile.
ExcessIsEnough ==
  \A m \in Sweepers : Counting(m) =>
    SizeOfAll((Rows \cup DOMAIN task[m].listed) \ {task[m].row})
      <= MaxSizeBytes + task[m].excess + FreshBytes(m)

\* A file of the mount that the sweep will not try was cached meanwhile.
FilesAreTried ==
  \A m \in Sweepers : task[m].at = "reclaim" =>
    \A e \in RowsOf(m) \cap onDisk :
      fresh[m][e] > 0 \/ e \in renamed \/ e \in DOMAIN task[m].listed

EvictInv == /\ EvictTypes /\ MarksTookTurns /\ WorkersLock /\ RowsOnce
            /\ ExcessIsReal /\ ExcessIsEnough /\ FilesAreTried

-----------------------------------------------------------------------------
(* Sizes.                                                                  *)

LEMMA SizeFacts ==
  ASSUME NEW S \in SUBSET Entries
  PROVE  /\ SizeOfAll(S) \in Nat
         /\ \A T \in SUBSET S : SizeOfAll(T) \in Nat /\ SizeOfAll(T) <= SizeOfAll(S)
         /\ \A e \in S : SizeOfAll(S) = SizeOf[e] + SizeOfAll(S \ {e})
         /\ \A e \in Entries \ S : SizeOfAll(S \cup {e}) = SizeOf[e] + SizeOfAll(S)
<1>1. IsFiniteSet(S) /\ \A e \in Entries : SizeOf[e] \in Nat /\ SizeOf[e] \in Int
  BY EvictionAssumption, FS_Subset
<1>2. \A e \in S : SizeOf[e] \in Nat /\ SizeOf[e] \in Int
  BY <1>1
<1>3. SizeOfAll(S) \in Nat
  BY <1>1, <1>2, SumNat DEF SizeOfAll
<1>4. \A T \in SUBSET S : SizeOfAll(T) \in Nat /\ SizeOfAll(T) <= SizeOfAll(S)
  BY <1>1, <1>2, SumOfPart DEF SizeOfAll
<1>5. \A e \in S : SizeOfAll(S) = SizeOf[e] + SizeOfAll(S \ {e})
  BY <1>1, <1>2, SumRemove DEF SizeOfAll
<1>6. ASSUME NEW e \in Entries \ S PROVE SizeOfAll(S \cup {e}) = SizeOf[e] + SizeOfAll(S)
  <2>1. \A y \in S \cup {e} : SizeOf[y] \in Int
    BY <1>1
  <2>. QED  BY <2>1, <1>1, SumAdd DEF SizeOfAll
<1>. QED  BY <1>3, <1>4, <1>5, <1>6

\* Without one entry a set is smaller by its size, or by nothing.
LEMMA SizeWithout ==
  ASSUME NEW S \in SUBSET Entries, NEW e \in Entries
  PROVE  /\ SizeOf[e] \in Nat /\ SizeOfAll(S) \in Nat /\ SizeOfAll(S \ {e}) \in Nat
         /\ SizeOfAll(S) <= SizeOf[e] + SizeOfAll(S \ {e})
<1>1. SizeOf[e] \in Nat /\ SizeOfAll(S) \in Nat /\ SizeOfAll(S \ {e}) \in Nat
  BY SizeFacts, EvictionAssumption
<1>2. CASE e \in S
  BY <1>1, <1>2, SizeFacts
<1>3. CASE e \notin S
  <2>1. S \ {e} = S
    BY <1>3
  <2>2. \A i, j \in Nat : i <= j + i
    OBVIOUS
  <2>3. SizeOfAll(S) <= SizeOf[e] + SizeOfAll(S)
    BY <1>1, <2>2
  <2>. QED  BY <1>1, <2>1, <2>3
<1>. QED  BY <1>1, <1>2, <1>3

LEMMA BudgetType ==
  /\ MaxSizeBytes \in Nat /\ ExpirySecs \in Nat
  /\ \A w \in Workers : FitTarget(w) \in Nat
<1>1. Resolve.max_size \in Nat /\ Resolve.expiry \in Nat
  BY EvictionAssumption DEF Resolve, Range
<1>2. MaxSizeBytes \in Nat
  BY <1>1, EvictionAssumption DEF MaxSizeBytes
<1>3. ASSUME NEW w \in Workers PROVE FitTarget(w) \in Nat
  <2>. PICK n \in Int : n = MaxSizeBytes - Pending[w]
    BY <1>2, EvictionAssumption
  <2>1. \E x \in {n, 0} : \A y \in {n, 0} : x >= y
    <3>1. n >= 0 \/ 0 >= n
      OBVIOUS
    <3>. QED  BY <3>1
  <2>2. Max({n, 0}) \in {n, 0} /\ \A y \in {n, 0} : Max({n, 0}) >= y
    BY <2>1 DEF Max
  <2>3. Max({n, 0}) \in Nat
    BY <2>2
  <2>. QED  BY <2>3 DEF FitTarget
<1>. QED  BY <1>1, <1>2, <1>3 DEF ExpirySecs

\* One more mark of an entry adds its size.
LEMMA FreshFacts ==
  ASSUME NEW h \in [Entries -> Nat]
  PROVE  /\ SumFunction([e \in Entries |-> h[e] * SizeOf[e]]) \in Nat
         /\ (\A e \in Entries : h[e] = 0) => SumFunction([e \in Entries |-> h[e] * SizeOf[e]]) = 0
         /\ \A e \in Entries : SumFunction([f \in Entries |-> [h EXCEPT ![e] = h[e] + 1][f] * SizeOf[f]])
                                 = SumFunction([f \in Entries |-> h[f] * SizeOf[f]]) + SizeOf[e]
<1> DEFINE b == [e \in Entries |-> h[e] * SizeOf[e]]
<1>1. IsFiniteSet(Entries) /\ \A e \in Entries : SizeOf[e] \in Nat /\ h[e] \in Nat
  BY EvictionAssumption
<1>2. \A i, j \in Nat : i * j \in Nat /\ 0 * j = 0 /\ (i + 1) * j = i * j + j
  OBVIOUS
<1>3. DOMAIN b = Entries /\ \A e \in Entries : b[e] \in Nat
  BY <1>1, <1>2
<1>4. SumFunction(b) \in Nat
  <2> HIDE DEF b
  <2>. QED  BY <1>1, <1>3, SumNat DEF SumFunction
<1>5. ASSUME \A e \in Entries : h[e] = 0 PROVE SumFunction(b) = 0
  <2>1. \A e \in Entries : b[e] = 0
    BY <1>1, <1>2, <1>5
  <2> HIDE DEF b
  <2>. QED  BY <2>1, <1>1, <1>3, SumZero DEF SumFunction
<1>6. ASSUME NEW e \in Entries
      PROVE  SumFunction([f \in Entries |-> [h EXCEPT ![e] = h[e] + 1][f] * SizeOf[f]])
               = SumFunction(b) + SizeOf[e]
  <2> DEFINE v == (h[e] + 1) * SizeOf[e]
             a == [f \in Entries |-> [h EXCEPT ![e] = h[e] + 1][f] * SizeOf[f]]
  <2>1. v \in Int /\ v = b[e] + SizeOf[e]
    BY <1>1, <1>2
  <2>2. a = [b EXCEPT ![e] = v]
    BY <1>1
  <2>3. b \in [Entries -> Int]
    BY <1>3
  <2>4. b[e] \in Nat /\ SizeOf[e] \in Nat
    BY <1>1, <1>3
  <2> HIDE DEF b, a, v
  <2>5. SumFunction([b EXCEPT ![e] = v]) = SumFunction(b) + (v - b[e])
    BY <1>1, <2>1, <2>3, SumUpdate
  <2>6. \A i, j, k \in Nat : i + ((j + k) - j) = i + k
    OBVIOUS
  <2>7. SumFunction(a) = SumFunction(b) + SizeOf[e]
    BY <1>4, <2>1, <2>2, <2>4, <2>5, <2>6
  <2>. QED  BY <2>7 DEF a
<1>. QED  BY <1>4, <1>5, <1>6
-----------------------------------------------------------------------------
(* Eviction: the initial state, and what a step leaves alone.              *)

LEMMA NoTaskType ==
  /\ NoTask \in Tasks /\ NoTask.at = "idle" /\ DOMAIN NoTask.listed = {} /\ NoTask.excess = 0
  /\ NoTask.row = NoRow /\ NoRow \notin Entries /\ NoRow \notin Workers
<1>1. [e \in {} |-> 0] \in Lists
  <2>1. [e \in {} |-> 0] \in [{} -> 0..MaxTime] /\ {} \in SUBSET Entries
    OBVIOUS
  <2>. QED  BY <2>1 DEF Lists
<1>. QED  BY <1>1, EvictionAssumption DEF NoTask, Tasks, Steps, NoRow

\* A list is a function on entries, and Without takes some of them away.
LEMMA ListFacts ==
  ASSUME NEW l \in Lists
  PROVE  /\ DOMAIN l \subseteq Entries
         /\ \A e : Without(l, {e}) \in Lists /\ DOMAIN Without(l, {e}) = DOMAIN l \ {e}
<1>1. PICK S \in SUBSET Entries : l \in [S -> 0..MaxTime]
  BY DEF Lists
<1>2. ASSUME NEW e PROVE Without(l, {e}) \in Lists /\ DOMAIN Without(l, {e}) = DOMAIN l \ {e}
  <2>1. Without(l, {e}) \in [S \ {e} -> 0..MaxTime] /\ S \ {e} \in SUBSET Entries
    BY <1>1 DEF Without, Restrict
  <2>. QED  BY <2>1, <1>1 DEF Lists
<1>. QED  BY <1>1, <1>2

LEMMA EvictInitInv == EvictionInit => EvictInv
<1> SUFFICES ASSUME EvictionInit PROVE EvictInv
  OBVIOUS
<1>1. Rows = Entries /\ \A x \in Evictors : task[x] = NoTask
  BY EvictionAssumption DEF EvictionInit, Rows
<1>2. EvictTypes
  <2>1. task \in [Evictors -> Tasks]
    BY NoTaskType DEF EvictionInit
  <2>2. lastHit \in [Rows -> 0..time] /\ time \in Nat /\ turns \in 0..MaxTurns /\ time <= StartTime + turns
    BY <1>1, EvictionAssumption DEF EvictionInit
  <2>3. fresh \in [Sweepers -> [Entries -> Nat]]
    BY DEF EvictionInit, NoneMarked
  <2>. QED  BY <1>1, <2>1, <2>2, <2>3 DEF EvictionInit, EvictTypes, WorkerMounts
<1>3. MarksTookTurns
  BY DEF EvictionInit, MarksTookTurns, NoneMarked
<1>4. WorkersLock /\ RowsOnce /\ ExcessIsReal /\ ExcessIsEnough /\ FilesAreTried
  <2>1. Workers \subseteq Evictors /\ Sweepers \subseteq Evictors
    BY DEF Evictors
  <2>. QED  BY <1>1, <2>1, NoTaskType DEF WorkersLock, RowsOnce, ExcessIsReal, ExcessIsEnough, FilesAreTried, Counting
<1>. QED  BY <1>2, <1>3, <1>4 DEF EvictInv

\* The task of one evictor changes.
LEMMA SetEffect ==
  ASSUME EvictInv, NEW x \in Evictors, NEW t \in Tasks, Set(x, t)
  PROVE  /\ task' \in [Evictors -> Tasks]
         /\ \A y \in Evictors : task'[y] = IF y = x THEN t ELSE task[y]
  BY DEF Set, EvictInv, EvictTypes

LEMMA EvictorSets ==
  /\ Workers \subseteq Evictors /\ Sweepers \subseteq Evictors /\ "ipc" \in Evictors
  /\ \A m \in Sweepers : m \notin Workers /\ EvictingMount(m) = m
  /\ "ipc" \notin Workers /\ "ipc" \notin Sweepers
  BY EvictionAssumption DEF Evictors, EvictingMount

\* What the invariant says of one task.
LEMMA TaskFacts ==
  ASSUME EvictInv, NEW x \in Evictors
  PROVE  /\ task[x] \in Tasks /\ task[x].at \in Steps /\ task[x].excess \in Int
         /\ task[x].row \in Entries \cup {NoRow}
         /\ task[x].listed \in Lists /\ DOMAIN task[x].listed \subseteq Entries
<1>1. task[x] \in Tasks
  BY DEF EvictInv, EvictTypes
<1>. QED  BY <1>1, ListFacts DEF Tasks

-----------------------------------------------------------------------------
(* Eviction: deletions.                                                    *)

DeletesFrom(x, e, t) ==
  /\ t \in Tasks /\ t.at = task[x].at /\ DOMAIN t.listed = DOMAIN task[x].listed \ {e}
  /\ \/ /\ e \in onDisk /\ onDisk' = onDisk \ {e}
        /\ t.excess = task[x].excess - SizeOf[e] /\ t.row = e
     \/ /\ e \notin onDisk /\ onDisk' = onDisk
        /\ t.excess = task[x].excess /\ t.row = NoRow

LEMMA DeleteEffect ==
  ASSUME EvictInv, NEW x \in Evictors, DeleteFile(x)
  PROVE  \E e \in DOMAIN task[x].listed, t \in Tasks :
           /\ DeletesFrom(x, e, t) /\ Set(x, t) /\ e \in Entries
           /\ task[x].at = "expire" \/ (task[x].at = "reclaim" /\ task[x].excess > 0)
           /\ task[x].row = NoRow
           /\ UNCHANGED <<lastHit, renamed, time, turns, evictLock, fresh, disturbed>>
<1>1. PICK e \in Victims(x) :
        LET t == [task[x] EXCEPT !.listed = Without(@, {e})] IN
        /\ task[x].at = "expire" \/ (task[x].at = "reclaim" /\ task[x].excess > 0)
        /\ task[x].row = NoRow
        /\ IF e \in onDisk
           THEN /\ onDisk' = onDisk \ {e}
                /\ Set(x, [Freed(t, e) EXCEPT !.row = e])
           ELSE Set(x, NotFreed(t, e)) /\ UNCHANGED onDisk
        /\ UNCHANGED <<lastHit, renamed, time, turns, evictLock, fresh, disturbed>>
  BY DEF DeleteFile
<1>2. e \in DOMAIN task[x].listed /\ e \in Entries
  BY TaskFacts DEF Victims
<1>3. PICK l : l = Without(task[x].listed, {e})
  OBVIOUS
<1>4. l \in Lists /\ DOMAIN l = DOMAIN task[x].listed \ {e}
  BY <1>3, TaskFacts, ListFacts
<1> DEFINE t0 == [task[x] EXCEPT !.listed = l]
           t1 == [at |-> task[x].at, listed |-> l, excess |-> task[x].excess - SizeOf[e], row |-> e]
           t2 == [at |-> task[x].at, listed |-> l, excess |-> task[x].excess, row |-> NoRow]
<1>5. SizeOf[e] \in Nat
  BY <1>2, EvictionAssumption
<1>6. t1 \in Tasks /\ t2 \in Tasks
  BY <1>2, <1>4, <1>5, TaskFacts DEF Tasks
<1>7. t0 = [at |-> task[x].at, listed |-> l, excess |-> task[x].excess, row |-> task[x].row]
  BY TaskFacts DEF Tasks
<1>8. [Freed(t0, e) EXCEPT !.row = e] = t1
  <2>1. PICK a, i, r : a = task[x].at /\ i = task[x].excess /\ r = task[x].row
    OBVIOUS
  <2>2. t0 = [at |-> a, listed |-> l, excess |-> i, row |-> r]
    BY <1>7, <2>1
  <2> HIDE DEF t0
  <2>3. Freed(t0, e) = [at |-> a, listed |-> l, excess |-> i - SizeOf[e], row |-> r]
    BY <2>2 DEF Freed
  <2>4. [Freed(t0, e) EXCEPT !.row = e] = [at |-> a, listed |-> l, excess |-> i - SizeOf[e], row |-> e]
    BY <2>3
  <2>. QED  BY <2>1, <2>4
<1>9. NotFreed(t0, e) = t2
  BY <1>1, <1>7 DEF NotFreed
<1>10. [task[x] EXCEPT !.listed = Without(@, {e})] = t0
  BY <1>3
<1>11. CASE e \in onDisk
  <2>1. DeletesFrom(x, e, t1) /\ Set(x, t1)
    <3>1. Set(x, t1) /\ onDisk' = onDisk \ {e}
      BY <1>1, <1>8, <1>10, <1>11
    <3>. QED  BY <3>1, <1>4, <1>6, <1>11 DEF DeletesFrom
  <2> HIDE DEF t1
  <2>. QED  BY <2>1, <1>1, <1>2, <1>6
<1>12. CASE e \notin onDisk
  <2>1. DeletesFrom(x, e, t2) /\ Set(x, t2)
    <3>1. Set(x, t2) /\ onDisk' = onDisk
      BY <1>1, <1>9, <1>10, <1>12
    <3>. QED  BY <3>1, <1>4, <1>6, <1>12 DEF DeletesFrom
  <2> HIDE DEF t2
  <2>. QED  BY <2>1, <1>1, <1>2, <1>6
<1>. QED  BY <1>11, <1>12
LEMMA DeleteInv ==
  ASSUME EvictInv, NEW x \in Evictors, DeleteFile(x)
  PROVE  EvictInv'
<1>1. PICK e \in DOMAIN task[x].listed, t \in Tasks :
        /\ DeletesFrom(x, e, t) /\ Set(x, t) /\ e \in Entries
        /\ task[x].at = "expire" \/ (task[x].at = "reclaim" /\ task[x].excess > 0)
        /\ task[x].row = NoRow
        /\ UNCHANGED <<lastHit, renamed, time, turns, evictLock, fresh, disturbed>>
  BY DeleteEffect
<1>2. /\ task' \in [Evictors -> Tasks]
      /\ \A y \in Evictors : task'[y] = IF y = x THEN t ELSE task[y]
  BY <1>1, SetEffect
<1>3. /\ t.at = task[x].at /\ DOMAIN t.listed = DOMAIN task[x].listed \ {e} /\ onDisk' \subseteq onDisk
      /\ t.row \in {e, NoRow} /\ (e \in onDisk' => FALSE)
      /\ \/ t.row = e /\ t.excess = task[x].excess - SizeOf[e]
         \/ t.row = NoRow /\ t.excess = task[x].excess
  BY <1>1 DEF DeletesFrom
<1>4. Rows' = Rows /\ \A m : RowsOf(m)' = RowsOf(m) /\ FreshBytes(m)' = FreshBytes(m)
  BY <1>1 DEF Rows, RowsOf, FreshBytes
<1>5. EvictTypes'
  BY <1>1, <1>2, <1>3, <1>4 DEF EvictInv, EvictTypes
<1>6. MarksTookTurns'
  BY <1>1 DEF EvictInv, MarksTookTurns
<1>7. WorkersLock'
  BY <1>1, <1>2, <1>3, EvictorSets DEF EvictInv, WorkersLock
<1>8. RowsOnce'
  BY <1>1, <1>2, <1>3, NoTaskType, TaskFacts DEF EvictInv, RowsOnce
<1>9. ExcessIsReal'
  <2> SUFFICES ASSUME NEW w \in Workers, Counting(w)', w \notin disturbed'
               PROVE  SizeOfAll(Rows' \ {task'[w].row}) >= FitTarget(w) + task'[w].excess
    BY DEF ExcessIsReal
  <2>1. Counting(w) /\ w \notin disturbed
    BY <1>1, <1>2, <1>3, EvictorSets DEF Counting
  <2>2. SizeOfAll(Rows \ {task[w].row}) >= FitTarget(w) + task[w].excess
    BY <2>1 DEF EvictInv, ExcessIsReal
  <2>3. CASE w # x
    BY <2>2, <2>3, <1>2, <1>4, EvictorSets
  <2>4. CASE w = x /\ t.row = NoRow
    BY <2>2, <2>4, <1>1, <1>2, <1>3, <1>4, EvictorSets, NoTaskType
  <2>5. CASE w = x /\ t.row = e
    <3>1. Rows \in SUBSET Entries /\ Rows \ {NoRow} = Rows
      BY NoTaskType DEF EvictInv, EvictTypes
    <3>2. task'[w].row = e /\ task'[w].excess = task[w].excess - SizeOf[e]
      BY <2>5, <1>1, <1>2, <1>3, NoTaskType
    <3>3. SizeOfAll(Rows) >= FitTarget(w) + task[w].excess
      BY <2>2, <2>5, <1>1, <3>1
    <3>4. /\ SizeOf[e] \in Nat /\ SizeOfAll(Rows) \in Nat /\ SizeOfAll(Rows \ {e}) \in Nat
          /\ SizeOfAll(Rows) <= SizeOf[e] + SizeOfAll(Rows \ {e})
      BY <1>1, <3>1, SizeWithout
    <3>5. task[w].excess \in Int /\ FitTarget(w) \in Nat
      BY TaskFacts, BudgetType, EvictorSets
    <3>6. \A a, b, z, f \in Nat, i \in Int : a >= f + i /\ a <= z + b => b >= f + (i - z)
      OBVIOUS
    <3>7. SizeOfAll(Rows \ {e}) >= FitTarget(w) + (task[w].excess - SizeOf[e])
      BY <3>3, <3>4, <3>5, <3>6
    <3>. QED  BY <3>2, <3>7, <1>4
  <2>. QED  BY <2>3, <2>4, <2>5, <1>3
<1>10. ExcessIsEnough'
  <2> SUFFICES ASSUME NEW m \in Sweepers, Counting(m)'
               PROVE  SizeOfAll((Rows' \cup DOMAIN task'[m].listed) \ {task'[m].row})
                        <= MaxSizeBytes + task'[m].excess + FreshBytes(m)'
    BY DEF ExcessIsEnough
  <2>1. Counting(m)
    BY <1>1, <1>2, <1>3, EvictorSets DEF Counting
  <2>2. SizeOfAll((Rows \cup DOMAIN task[m].listed) \ {task[m].row})
          <= MaxSizeBytes + task[m].excess + FreshBytes(m)
    BY <2>1 DEF EvictInv, ExcessIsEnough
  <2>3. CASE m # x
    BY <2>2, <2>3, <1>2, <1>4, EvictorSets
  <2> DEFINE A == Rows \cup DOMAIN task[m].listed
  <2>4. CASE m = x
    <3>1. A \in SUBSET Entries /\ A \ {NoRow} = A /\ e \in A
      BY <2>4, TaskFacts, NoTaskType, EvictorSets DEF EvictInv, EvictTypes
    <3>2. /\ SizeOfAll(A) \in Nat /\ SizeOfAll(A \ {e}) \in Nat /\ SizeOf[e] \in Nat
          /\ SizeOfAll(A) = SizeOf[e] + SizeOfAll(A \ {e})
      BY <3>1, <1>1, SizeFacts, SizeWithout
    <3>3. SizeOfAll(A) <= MaxSizeBytes + task[m].excess + FreshBytes(m)
      BY <2>2, <2>4, <1>1, <3>1
    <3>4. task[m].excess \in Int /\ MaxSizeBytes \in Nat /\ FreshBytes(m) \in Nat
      <4>1. fresh[m] \in [Entries -> Nat]
        BY DEF EvictInv, EvictTypes
      <4>2. FreshBytes(m) \in Nat
        BY <4>1, FreshFacts DEF FreshBytes
      <4>. QED  BY <4>2, TaskFacts, BudgetType, EvictorSets
    <3>5. CASE t.row = e
      <4>1. (Rows' \cup DOMAIN task'[m].listed) \ {task'[m].row} = A \ {e}
        BY <3>5, <2>4, <1>2, <1>3, <1>4
      <4>2. task'[m].excess = task[m].excess - SizeOf[e]
        BY <3>5, <2>4, <1>1, <1>2, <1>3, NoTaskType
      <4>3. \A a, b, z, f, k \in Nat, i \in Int : a <= k + i + f /\ a = z + b => b <= k + (i - z) + f
        OBVIOUS
      <4>4. SizeOfAll(A \ {e}) <= MaxSizeBytes + (task[m].excess - SizeOf[e]) + FreshBytes(m)
        BY <4>3, <3>2, <3>3, <3>4
      <4>. QED  BY <4>1, <4>2, <4>4, <1>4
    <3>6. CASE t.row = NoRow
      <4>1. (Rows' \cup DOMAIN task'[m].listed) \ {task'[m].row} \in SUBSET A
        BY <3>6, <2>4, <1>2, <1>3, <1>4
      <4>2. task'[m].excess = task[m].excess
        BY <3>6, <2>4, <1>1, <1>2, <1>3, NoTaskType
      <4>3. \A a, b, f, k \in Nat, i \in Int : a <= k + i + f /\ b <= a => b <= k + i + f
        OBVIOUS
      <4> DEFINE B == (Rows' \cup DOMAIN task'[m].listed) \ {task'[m].row}
      <4>4. SizeOfAll(B) \in Nat /\ SizeOfAll(B) <= SizeOfAll(A)
        BY <4>1, <3>1, SizeFacts
      <4> HIDE DEF A, B
      <4>5. SizeOfAll(B) <= MaxSizeBytes + task[m].excess + FreshBytes(m)
        BY <4>3, <4>4, <3>2, <3>3, <3>4
      <4>. QED  BY <4>2, <4>5, <1>4 DEF B
    <3>. QED  BY <3>5, <3>6, <1>3
  <2>. QED  BY <2>3, <2>4
<1>11. FilesAreTried'
  <2> SUFFICES ASSUME NEW m \in Sweepers, task'[m].at = "reclaim", NEW f \in RowsOf(m) \cap onDisk'
               PROVE  fresh[m][f] > 0 \/ f \in renamed \/ f \in DOMAIN task'[m].listed
    BY <1>1, <1>4 DEF FilesAreTried
  <2>1. task[m].at = "reclaim" /\ f \in onDisk /\ f # e
    BY <1>2, <1>3, EvictorSets
  <2>2. fresh[m][f] > 0 \/ f \in renamed \/ f \in DOMAIN task[m].listed
    BY <2>1 DEF EvictInv, FilesAreTried
  <2>. QED  BY <2>1, <2>2, <1>2, <1>3, EvictorSets
<1>. QED  BY <1>5, <1>6, <1>7, <1>8, <1>9, <1>10, <1>11 DEF EvictInv
-----------------------------------------------------------------------------
(* Eviction: the other steps.                                              *)

LEMMA RealKept ==
  ASSUME EvictInv, NEW w \in Workers, Counting(w), w \notin disturbed,
         NEW R \in SUBSET Entries, Rows \ {task[w].row} \subseteq R
  PROVE  SizeOfAll(R) >= FitTarget(w) + task[w].excess
<1>1. SizeOfAll(Rows \ {task[w].row}) >= FitTarget(w) + task[w].excess
  BY DEF EvictInv, ExcessIsReal
<1>2. /\ SizeOfAll(R) \in Nat /\ SizeOfAll(Rows \ {task[w].row}) \in Nat
      /\ SizeOfAll(Rows \ {task[w].row}) <= SizeOfAll(R)
  BY SizeFacts
<1>3. task[w].excess \in Int /\ FitTarget(w) \in Nat
  BY TaskFacts, BudgetType, EvictorSets
<1>4. \A a, b, f \in Nat, i \in Int : a >= f + i /\ a <= b => b >= f + i
  OBVIOUS
<1>. QED  BY <1>1, <1>2, <1>3, <1>4

LEMMA FreshType ==
  ASSUME EvictInv, NEW m \in Sweepers
  PROVE  fresh[m] \in [Entries -> Nat] /\ FreshBytes(m) \in Nat
<1>1. fresh[m] \in [Entries -> Nat]
  BY DEF EvictInv, EvictTypes
<1>. QED  BY <1>1, FreshFacts DEF FreshBytes

LEMMA EnoughKept ==
  ASSUME EvictInv, NEW m \in Sweepers, Counting(m),
         NEW B \in SUBSET ((Rows \cup DOMAIN task[m].listed) \ {task[m].row})
  PROVE  SizeOfAll(B) <= MaxSizeBytes + task[m].excess + FreshBytes(m)
<1> DEFINE A == (Rows \cup DOMAIN task[m].listed) \ {task[m].row}
<1>1. SizeOfAll(A) <= MaxSizeBytes + task[m].excess + FreshBytes(m)
  BY DEF EvictInv, ExcessIsEnough
<1>2. A \in SUBSET Entries
  BY TaskFacts, EvictorSets DEF EvictInv, EvictTypes
<1>3. SizeOfAll(A) \in Nat /\ SizeOfAll(B) \in Nat /\ SizeOfAll(B) <= SizeOfAll(A)
  BY <1>2, SizeFacts
<1> HIDE DEF A
<1>4. task[m].excess \in Int /\ MaxSizeBytes \in Nat /\ FreshBytes(m) \in Nat
  BY TaskFacts, BudgetType, EvictorSets, FreshType
<1>5. \A a, b, f, k \in Nat, i \in Int : a <= k + i + f /\ b <= a => b <= k + i + f
  OBVIOUS
<1>. QED  BY <1>1, <1>3, <1>4, <1>5

\* remove (db.rs): the row goes, whoever has listed it, and the totals of the
\* workers that the evictor's lock does not exclude are no longer relied on.
LEMMA RemoveRowInv ==
  ASSUME EvictInv, NEW x \in Evictors, RemoveRow(x)
  PROVE  EvictInv'
<1>1. PICK r : r = task[x].row
  OBVIOUS
<1> DEFINE t == [task[x] EXCEPT !.row = NoRow]
<1>2. /\ r # NoRow /\ lastHit' = Without(lastHit, {r}) /\ Set(x, t)
      /\ disturbed' = disturbed \cup DisturbedBy(x)
      /\ UNCHANGED <<onDisk, renamed, time, turns, evictLock, fresh>>
  BY <1>1 DEF RemoveRow
<1>3. /\ t \in Tasks /\ t.at = task[x].at /\ t.listed = task[x].listed
      /\ t.excess = task[x].excess /\ t.row = NoRow
  BY TaskFacts DEF Tasks
<1> HIDE DEF t
<1>4. /\ task' \in [Evictors -> Tasks]
      /\ \A y \in Evictors : task'[y] = IF y = x THEN t ELSE task[y]
  BY <1>2, <1>3, SetEffect
<1>5. Rows' = Rows \ {r} /\ lastHit' \in [Rows' -> 0..time]
  BY <1>2 DEF Rows, Without, Restrict, EvictInv, EvictTypes
<1>6. /\ \A m : FreshBytes(m)' = FreshBytes(m)
      /\ \A m : RowsOf(m)' \subseteq RowsOf(m)
  BY <1>2, <1>5 DEF RowsOf, FreshBytes
<1>7. EvictTypes'
  <2>1. disturbed' \subseteq Workers
    BY <1>2 DEF DisturbedBy, EvictInv, EvictTypes
  <2>. QED  BY <1>2, <1>4, <1>5, <2>1 DEF EvictInv, EvictTypes
<1>8. MarksTookTurns'
  BY <1>2 DEF EvictInv, MarksTookTurns
<1>9. WorkersLock'
  BY <1>2, <1>3, <1>4, EvictorSets DEF EvictInv, WorkersLock
<1>10. RowsOnce'
  <2>1. ASSUME NEW y \in Evictors
        PROVE  /\ task'[y].row \notin DOMAIN task'[y].listed
               /\ task'[y].at = "list" => task'[y].row = NoRow
    <3>1. CASE y = x
      BY <3>1, <1>3, <1>4, NoTaskType, TaskFacts
    <3>2. CASE y # x
      BY <3>2, <1>4 DEF EvictInv, RowsOnce
    <3>. QED  BY <3>1, <3>2
  <2>. QED  BY <2>1 DEF RowsOnce
<1>11. ExcessIsReal'
  <2> SUFFICES ASSUME NEW w \in Workers, Counting(w)', w \notin disturbed'
               PROVE  SizeOfAll(Rows' \ {task'[w].row}) >= FitTarget(w) + task'[w].excess
    BY DEF ExcessIsReal
  <2>1. Counting(w) /\ w \notin disturbed /\ w \notin DisturbedBy(x)
    BY <1>2, <1>3, <1>4, EvictorSets DEF Counting
  <2>2. x \in Workers /\ WorkerMount[x] = WorkerMount[w]
    BY <2>1 DEF DisturbedBy, Counting
  <2>3. x = w
    BY <2>1, <2>2, <1>1, <1>2 DEF EvictInv, WorkersLock, Counting
  <2>4. Rows' \ {task'[w].row} = Rows \ {task[w].row} /\ task'[w].excess = task[w].excess
    <3>1. NoRow \notin Rows
      BY NoTaskType DEF EvictInv, EvictTypes
    <3>. QED  BY <3>1, <2>3, <1>1, <1>3, <1>4, <1>5
  <2>5. Rows \ {task[w].row} \in SUBSET Entries
    BY DEF EvictInv, EvictTypes
  <2>. QED  BY <2>1, <2>4, <2>5, RealKept
<1>12. ExcessIsEnough'
  <2> SUFFICES ASSUME NEW m \in Sweepers, Counting(m)'
               PROVE  SizeOfAll((Rows' \cup DOMAIN task'[m].listed) \ {task'[m].row})
                        <= MaxSizeBytes + task'[m].excess + FreshBytes(m)'
    BY DEF ExcessIsEnough
  <2>1. Counting(m) /\ DOMAIN task'[m].listed = DOMAIN task[m].listed /\ task'[m].excess = task[m].excess
    BY <1>3, <1>4, EvictorSets DEF Counting
  <2>2. (Rows' \cup DOMAIN task'[m].listed) \ {task'[m].row}
          \in SUBSET ((Rows \cup DOMAIN task[m].listed) \ {task[m].row})
    <3>1. CASE m = x
      <4>1. r \notin DOMAIN task[m].listed
        BY <3>1, <1>1 DEF EvictInv, RowsOnce
      <4>. QED  BY <4>1, <2>1, <3>1, <1>1, <1>5
    <3>2. CASE m # x
      BY <3>2, <1>4, <1>5, EvictorSets
    <3>. QED  BY <3>1, <3>2
  <2>3. SizeOfAll((Rows' \cup DOMAIN task'[m].listed) \ {task'[m].row})
          <= MaxSizeBytes + task[m].excess + FreshBytes(m)
    BY <2>1, <2>2, EnoughKept
  <2>. QED  BY <2>1, <2>3, <1>6
<1>13. FilesAreTried'
  <2> SUFFICES ASSUME NEW m \in Sweepers, task'[m].at = "reclaim", NEW f \in RowsOf(m)' \cap onDisk'
               PROVE  fresh'[m][f] > 0 \/ f \in renamed' \/ f \in DOMAIN task'[m].listed
    BY DEF FilesAreTried
  <2>1. task[m].at = "reclaim" /\ DOMAIN task'[m].listed = DOMAIN task[m].listed
    BY <1>3, <1>4, EvictorSets
  <2>2. f \in RowsOf(m) \cap onDisk
    BY <1>2, <1>6
  <2>3. fresh[m][f] > 0 \/ f \in renamed \/ f \in DOMAIN task[m].listed
    BY <2>1, <2>2 DEF EvictInv, FilesAreTried
  <2>. QED  BY <2>1, <2>3, <1>2
<1>. QED  BY <1>7, <1>8, <1>9, <1>10, <1>11, <1>12, <1>13 DEF EvictInv
LEMMA CandidatesType ==
  ASSUME EvictInv, NEW S \in SUBSET Rows
  PROVE  Restrict(lastHit, S) \in Lists /\ DOMAIN Restrict(lastHit, S) = S
<1>1. \A i \in 0..time : i \in 0..MaxTime
  BY EvictionAssumption DEF EvictInv, EvictTypes, MaxTime
<1>2. S \in SUBSET Entries /\ \A e \in S : lastHit[e] \in 0..MaxTime
  BY <1>1 DEF EvictInv, EvictTypes
<1>3. Restrict(lastHit, S) \in [S -> 0..MaxTime]
  BY <1>2 DEF Restrict
<1>. QED  BY <1>2, <1>3 DEF Lists

LEMMA ReadCandidatesInv ==
  ASSUME EvictInv, NEW x \in Evictors, ReadCandidates(x)
  PROVE  EvictInv'
<1>1. PICK l : l = EvictionCandidates(EvictingMount(x))
  OBVIOUS
<1>2. l \in Lists /\ DOMAIN l = RowsOf(EvictingMount(x)) /\ DOMAIN l \subseteq Rows
  <2>1. RowsOf(EvictingMount(x)) \in SUBSET Rows
    BY DEF RowsOf
  <2>. QED  BY <1>1, <2>1, CandidatesType DEF EvictionCandidates
<1> DEFINE t == [task[x] EXCEPT !.at = "reclaim", !.listed = l]
<1>3. /\ task[x].at = "list" /\ Set(x, t)
      /\ UNCHANGED <<lastHit, onDisk, renamed, time, turns, evictLock, fresh, disturbed>>
  BY <1>1 DEF ReadCandidates, Stays, cacheVars
<1>4. /\ t \in Tasks /\ t.at = "reclaim" /\ t.listed = l
      /\ t.excess = task[x].excess /\ t.row = task[x].row
  BY <1>2, TaskFacts DEF Tasks, Steps
<1> HIDE DEF t
<1>5. /\ task' \in [Evictors -> Tasks]
      /\ \A y \in Evictors : task'[y] = IF y = x THEN t ELSE task[y]
  BY <1>3, <1>4, SetEffect
<1>6. /\ Rows' = Rows /\ \A m : RowsOf(m)' = RowsOf(m) /\ FreshBytes(m)' = FreshBytes(m)
  BY <1>3 DEF Rows, RowsOf, FreshBytes
<1>7. EvictTypes'
  BY <1>3, <1>5, <1>6 DEF EvictInv, EvictTypes
<1>8. MarksTookTurns'
  BY <1>3 DEF EvictInv, MarksTookTurns
<1>9. WorkersLock'
  BY <1>3, <1>4, <1>5, EvictorSets DEF EvictInv, WorkersLock
<1>10. RowsOnce'
  <2>1. task[x].row = NoRow /\ NoRow \notin Rows
    BY <1>3, NoTaskType DEF EvictInv, EvictTypes, RowsOnce
  <2>. QED  BY <2>1, <1>2, <1>4, <1>5 DEF EvictInv, RowsOnce
<1>11. ExcessIsReal'
  <2> SUFFICES ASSUME NEW w \in Workers, Counting(w)', w \notin disturbed'
               PROVE  SizeOfAll(Rows' \ {task'[w].row}) >= FitTarget(w) + task'[w].excess
    BY DEF ExcessIsReal
  <2>1. Counting(w) /\ w \notin disturbed /\ task'[w].row = task[w].row /\ task'[w].excess = task[w].excess
    BY <1>3, <1>4, <1>5, EvictorSets DEF Counting
  <2>. QED  BY <2>1, <1>6 DEF EvictInv, ExcessIsReal
<1>12. ExcessIsEnough'
  <2> SUFFICES ASSUME NEW m \in Sweepers, Counting(m)'
               PROVE  SizeOfAll((Rows' \cup DOMAIN task'[m].listed) \ {task'[m].row})
                        <= MaxSizeBytes + task'[m].excess + FreshBytes(m)'
    BY DEF ExcessIsEnough
  <2>1. Counting(m) /\ task'[m].row = task[m].row /\ task'[m].excess = task[m].excess
    BY <1>3, <1>4, <1>5, EvictorSets DEF Counting
  <2>2. (Rows' \cup DOMAIN task'[m].listed) \ {task'[m].row}
          \in SUBSET ((Rows \cup DOMAIN task[m].listed) \ {task[m].row})
    BY <2>1, <1>2, <1>4, <1>5, <1>6, EvictorSets
  <2>3. SizeOfAll((Rows' \cup DOMAIN task'[m].listed) \ {task'[m].row})
          <= MaxSizeBytes + task[m].excess + FreshBytes(m)
    BY <2>1, <2>2, EnoughKept
  <2>. QED  BY <2>1, <2>3, <1>6
<1>13. FilesAreTried'
  <2> SUFFICES ASSUME NEW m \in Sweepers, task'[m].at = "reclaim", NEW f \in RowsOf(m) \cap onDisk
               PROVE  fresh[m][f] > 0 \/ f \in renamed \/ f \in DOMAIN task'[m].listed
    BY <1>3, <1>6 DEF FilesAreTried
  <2>1. CASE m = x
    <3>1. EvictingMount(m) = m
      BY EvictorSets
    <3>. QED  BY <2>1, <3>1, <1>2, <1>4, <1>5
  <2>2. CASE m # x
    <3>1. task'[m] = task[m]
      BY <2>2, <1>5, EvictorSets
    <3>. QED  BY <3>1 DEF EvictInv, FilesAreTried
  <2>. QED  BY <2>1, <2>2
<1>. QED  BY <1>7, <1>8, <1>9, <1>10, <1>11, <1>12, <1>13 DEF EvictInv

\* A step of a sweep that touches neither files nor rows: it does not count, or
\* it has just read the total.
SweepMoves(m, t) ==
  /\ t \in Tasks /\ Set(m, t) /\ t.row = NoRow
  /\ fresh' = fresh \/ fresh' = [fresh EXCEPT ![m] = NoneMarked]
  /\ \/ t.at \in {"idle", "expire", "total"}
     \/ /\ t.at = "list" /\ DOMAIN t.listed = {} /\ t.excess = TotalCached - MaxSizeBytes
        /\ fresh' = [fresh EXCEPT ![m] = NoneMarked]
  /\ UNCHANGED <<cacheVars, evictLock, disturbed>>

LEMMA SweepMovesInv ==
  ASSUME EvictInv, NEW m \in Sweepers, NEW t, SweepMoves(m, t)
  PROVE  EvictInv'
<1>1. /\ t \in Tasks /\ Set(m, t) /\ t.row = NoRow /\ m \in Evictors
      /\ t.at \in {"idle", "expire", "total", "list"}
      /\ UNCHANGED <<lastHit, onDisk, renamed, time, turns, evictLock, disturbed>>
  BY EvictorSets DEF SweepMoves, cacheVars
<1>2. /\ task' \in [Evictors -> Tasks]
      /\ \A y \in Evictors : task'[y] = IF y = m THEN t ELSE task[y]
  BY <1>1, SetEffect
<1>3. /\ fresh' \in [Sweepers -> [Entries -> Nat]]
      /\ \A n \in Sweepers : n # m => fresh'[n] = fresh[n]
      /\ fresh'[m] = fresh[m] \/ fresh'[m] = NoneMarked
  <2>1. fresh' = fresh \/ fresh' = [fresh EXCEPT ![m] = NoneMarked]
    BY DEF SweepMoves
  <2>2. NoneMarked \in [Entries -> Nat]
    BY DEF NoneMarked
  <2>3. fresh \in [Sweepers -> [Entries -> Nat]]
    BY DEF EvictInv, EvictTypes
  <2>. QED  BY <2>1, <2>2, <2>3
<1>4. /\ Rows' = Rows /\ \A n : RowsOf(n)' = RowsOf(n)
      /\ \A n \in Sweepers : n # m => FreshBytes(n)' = FreshBytes(n)
  BY <1>1, <1>3 DEF Rows, RowsOf, FreshBytes
<1>5. EvictTypes'
  BY <1>1, <1>2, <1>3, <1>4 DEF EvictInv, EvictTypes
<1>6. MarksTookTurns'
  <2>1. ASSUME NEW n \in Sweepers, NEW e \in Entries
        PROVE  fresh'[n][e] + (IF e \in renamed THEN 1 ELSE 0) <= turns
    <3>1. fresh[n][e] + (IF e \in renamed THEN 1 ELSE 0) <= turns /\ fresh[n][e] \in Nat /\ turns \in Nat
      BY DEF EvictInv, EvictTypes, MarksTookTurns
    <3>2. fresh'[n][e] = fresh[n][e] \/ fresh'[n][e] = 0
      BY <1>3 DEF NoneMarked
    <3>. QED  BY <3>1, <3>2
  <2>. QED  BY <2>1, <1>1 DEF MarksTookTurns
<1>7. WorkersLock'
  BY <1>1, <1>2, EvictorSets DEF EvictInv, WorkersLock
<1>8. RowsOnce'
  <2>1. t.row \notin DOMAIN t.listed
    BY <1>1, NoTaskType, ListFacts DEF Tasks
  <2>. QED  BY <2>1, <1>1, <1>2 DEF EvictInv, RowsOnce
<1>9. ExcessIsReal'
  BY <1>1, <1>2, <1>4, EvictorSets DEF EvictInv, ExcessIsReal, Counting
<1>10. ExcessIsEnough'
  <2> SUFFICES ASSUME NEW n \in Sweepers, Counting(n)'
               PROVE  SizeOfAll((Rows' \cup DOMAIN task'[n].listed) \ {task'[n].row})
                        <= MaxSizeBytes + task'[n].excess + FreshBytes(n)'
    BY DEF ExcessIsEnough
  <2>1. CASE n # m
    BY <2>1, <1>2, <1>4, EvictorSets DEF EvictInv, ExcessIsEnough, Counting
  <2>2. CASE n = m
    <3>1. /\ task'[n] = t /\ t.at = "list" /\ DOMAIN t.listed = {} /\ t.excess = TotalCached - MaxSizeBytes
          /\ t.row = NoRow /\ fresh' = [fresh EXCEPT ![m] = NoneMarked]
      BY <2>2, <1>1, <1>2 DEF Counting, SweepMoves
    <3>2. FreshBytes(n)' = 0
      <4>1. fresh'[n] = NoneMarked
        BY <3>1, <2>2 DEF EvictInv, EvictTypes
      <4>2. NoneMarked \in [Entries -> Nat] /\ \A e \in Entries : NoneMarked[e] = 0
        BY DEF NoneMarked
      <4> HIDE DEF NoneMarked
      <4>3. SumFunction([e \in Entries |-> NoneMarked[e] * SizeOf[e]]) = 0
        BY <4>2, FreshFacts
      <4>. QED  BY <4>1, <4>3 DEF FreshBytes
    <3>3. (Rows' \cup DOMAIN task'[n].listed) \ {task'[n].row} = Rows
      BY <3>1, <1>4, NoTaskType DEF EvictInv, EvictTypes
    <3>4. SizeOfAll(Rows) \in Nat /\ MaxSizeBytes \in Nat /\ task'[n].excess = SizeOfAll(Rows) - MaxSizeBytes
      BY <3>1, SizeFacts, BudgetType DEF TotalCached, EvictInv, EvictTypes
    <3>5. \A a, k \in Nat : a <= k + (a - k) + 0
      OBVIOUS
    <3>. QED  BY <3>2, <3>3, <3>4, <3>5
  <2>. QED  BY <2>1, <2>2
<1>11. FilesAreTried'
  <2> SUFFICES ASSUME NEW n \in Sweepers, task'[n].at = "reclaim", NEW f \in RowsOf(n) \cap onDisk
               PROVE  fresh'[n][f] > 0 \/ f \in renamed \/ f \in DOMAIN task'[n].listed
    BY <1>1, <1>4 DEF FilesAreTried
  <2>1. n # m
    BY <1>1, <1>2, EvictorSets
  <2>2. task'[n] = task[n] /\ fresh'[n] = fresh[n]
    BY <2>1, <1>2, <1>3, EvictorSets
  <2>. QED  BY <2>2 DEF EvictInv, FilesAreTried
<1>. QED  BY <1>5, <1>6, <1>7, <1>8, <1>9, <1>10, <1>11 DEF EvictInv

LEMMA SweepInv ==
  ASSUME EvictInv, NEW m \in Sweepers,
         SweepStarts(m) \/ SweepExpired(m) \/ SweepReads(m) \/ SweepEnds(m)
  PROVE  EvictInv'
<1> DEFINE Total == [NoTask EXCEPT !.at = "total"]
           Exp == [NoTask EXCEPT !.at = "expire", !.listed = ExpiredFiles(m)]
           Read == [NoTask EXCEPT !.at = "list", !.excess = TotalCached - MaxSizeBytes]
<1>1. Total \in Tasks /\ Total.row = NoRow /\ Total.at = "total"
  BY NoTaskType DEF Tasks, Steps, NoTask
<1>2. Exp \in Tasks /\ Exp.row = NoRow /\ Exp.at = "expire"
  <2>1. ExpiredFiles(m) \in Lists
    <3>1. {e \in RowsOf(m) : lastHit[e] < Max({time - ExpirySecs, 0})} \in SUBSET Rows
      BY DEF RowsOf
    <3>. QED  BY <3>1, CandidatesType DEF ExpiredFiles
  <2>. QED  BY <2>1, NoTaskType DEF Tasks, Steps, NoTask
<1>3. /\ Read \in Tasks /\ Read.row = NoRow /\ Read.at = "list" /\ DOMAIN Read.listed = {}
      /\ Read.excess = TotalCached - MaxSizeBytes
  <2>1. TotalCached - MaxSizeBytes \in Int
    BY SizeFacts, BudgetType DEF TotalCached, EvictInv, EvictTypes
  <2>. QED  BY <2>1, NoTaskType DEF Tasks, Steps, NoTask
<1>4. NoTask \in Tasks /\ NoTask.row = NoRow /\ NoTask.at = "idle"
  BY NoTaskType
<1> HIDE DEF Total, Exp, Read
<1>5. CASE SweepStarts(m)
  <2>1. SweepMoves(m, Total) \/ SweepMoves(m, Exp)
    BY <1>1, <1>2, <1>5 DEF SweepStarts, SweepMoves, Stays, cacheVars, Total, Exp
  <2>. QED  BY <2>1, SweepMovesInv
<1>6. CASE SweepExpired(m)
  <2>1. SweepMoves(m, Total)
    BY <1>1, <1>6 DEF SweepExpired, SweepMoves, Stays, cacheVars, Total
  <2>. QED  BY <2>1, SweepMovesInv
<1>7. CASE SweepReads(m)
  <2>1. SweepMoves(m, Read) \/ SweepMoves(m, NoTask)
    BY <1>3, <1>4, <1>7 DEF SweepReads, ReadTotal, SweepMoves, cacheVars, Read
  <2>. QED  BY <2>1, SweepMovesInv
<1>8. CASE SweepEnds(m)
  <2>1. SweepMoves(m, NoTask)
    BY <1>4, <1>8 DEF SweepEnds, SweepMoves, cacheVars
  <2>. QED  BY <2>1, SweepMovesInv
<1>. QED  BY <1>5, <1>6, <1>7, <1>8
\* The same of a worker: it takes the lock, reads the total or gives up.
FitMoves(w, t) ==
  /\ t \in Tasks /\ Set(w, t) /\ t.row = NoRow
  /\ \/ /\ t.at = "total" /\ LockIsFree(w) /\ evictLock' = [evictLock EXCEPT ![WorkerMount[w]] = w]
     \/ /\ t.at = "idle" /\ task[w].at # "idle" /\ Unlock(w)
     \/ /\ t.at = "list" /\ task[w].at = "total" /\ evictLock' = evictLock
        /\ t.excess = TotalCached - FitTarget(w)
  /\ disturbed' = disturbed \/ disturbed' = disturbed \ {w}
  /\ UNCHANGED <<cacheVars, fresh>>

LEMMA FitMovesInv ==
  ASSUME EvictInv, NEW w \in Workers, NEW t, FitMoves(w, t)
  PROVE  EvictInv'
<1>1. /\ t \in Tasks /\ Set(w, t) /\ t.row = NoRow /\ w \in Evictors
      /\ t.at \in {"idle", "total", "list"}
      /\ UNCHANGED <<lastHit, onDisk, renamed, time, turns, fresh>>
      /\ disturbed' \subseteq disturbed /\ disturbed \ {w} \subseteq disturbed'
  BY EvictorSets DEF FitMoves, cacheVars
<1>2. /\ task' \in [Evictors -> Tasks]
      /\ \A y \in Evictors : task'[y] = IF y = w THEN t ELSE task[y]
  BY <1>1, SetEffect
<1>3. /\ Rows' = Rows /\ \A n : RowsOf(n)' = RowsOf(n) /\ FreshBytes(n)' = FreshBytes(n)
  BY <1>1 DEF Rows, RowsOf, FreshBytes
<1>4. /\ evictLock' \in [WorkerMounts -> Workers \cup {NoRow}]
      /\ \A v \in Workers : WorkerMount[v] # WorkerMount[w] => evictLock'[WorkerMount[v]] = evictLock[WorkerMount[v]]
      /\ t.at = "total" => evictLock'[WorkerMount[w]] = w /\ evictLock[WorkerMount[w]] = NoRow
      /\ t.at = "list" => evictLock' = evictLock /\ task[w].at = "total"
      /\ t.at = "idle" => task[w].at # "idle"
  <2>1. evictLock \in [WorkerMounts -> Workers \cup {NoRow}] /\ \A v \in Workers : WorkerMount[v] \in WorkerMounts
    BY DEF EvictInv, EvictTypes, WorkerMounts
  <2>2. CASE t.at = "total"
    BY <2>1, <2>2 DEF FitMoves, LockIsFree
  <2>3. CASE t.at = "idle"
    BY <2>1, <2>3 DEF FitMoves, Unlock
  <2>4. CASE t.at = "list"
    BY <2>1, <2>4 DEF FitMoves
  <2>. QED  BY <1>1, <2>2, <2>3, <2>4
<1>5. EvictTypes'
  BY <1>1, <1>2, <1>3, <1>4 DEF EvictInv, EvictTypes
<1>6. MarksTookTurns'
  BY <1>1 DEF EvictInv, MarksTookTurns
<1>7. WorkersLock'
  <2>1. ASSUME NEW v \in Workers
        PROVE  /\ task'[v].at # "idle" => evictLock'[WorkerMount[v]] = v
               /\ task'[v].at # "expire" /\ (task'[v].at = "idle" => task'[v].row = NoRow)
    <3>0. /\ task[v].at # "idle" => evictLock[WorkerMount[v]] = v
          /\ task[w].at # "idle" => evictLock[WorkerMount[w]] = w
          /\ task[v].at # "expire" /\ (task[v].at = "idle" => task[v].row = NoRow)
      BY DEF EvictInv, WorkersLock
    <3>1. CASE v = w
      <4>1. task'[v] = t
        BY <3>1, <1>1, <1>2
      <4>. QED  BY <4>1, <3>0, <3>1, <1>1, <1>4
    <3>2. CASE v # w
      <4>1. task'[v] = task[v]
        BY <3>2, <1>2, EvictorSets
      <4>2. CASE WorkerMount[v] # WorkerMount[w]
        BY <4>1, <4>2, <3>0, <1>4
      <4>3. CASE WorkerMount[v] = WorkerMount[w]
        <5>1. task[v].at = "idle" \/ t.at = "list"
          BY <4>3, <3>0, <3>2, <1>1, <1>4, NoTaskType
        <5>. QED  BY <5>1, <4>1, <3>0, <1>4
      <4>. QED  BY <4>2, <4>3
    <3>. QED  BY <3>1, <3>2
  <2>. QED  BY <2>1 DEF WorkersLock
<1>8. RowsOnce'
  <2>1. t.row \notin DOMAIN t.listed
    BY <1>1, NoTaskType, ListFacts DEF Tasks
  <2>. QED  BY <2>1, <1>1, <1>2 DEF EvictInv, RowsOnce
<1>9. ExcessIsReal'
  <2> SUFFICES ASSUME NEW v \in Workers, Counting(v)', v \notin disturbed'
               PROVE  SizeOfAll(Rows' \ {task'[v].row}) >= FitTarget(v) + task'[v].excess
    BY DEF ExcessIsReal
  <2>1. CASE v # w
    BY <2>1, <1>1, <1>2, <1>3, EvictorSets DEF EvictInv, ExcessIsReal, Counting
  <2>2. CASE v = w
    <3>1. task'[v] = t /\ t.at = "list" /\ t.excess = TotalCached - FitTarget(v) /\ t.row = NoRow
      BY <2>2, <1>1, <1>2 DEF Counting, FitMoves
    <3>2. Rows' \ {task'[v].row} = Rows
      BY <3>1, <1>3, NoTaskType DEF EvictInv, EvictTypes
    <3>3. SizeOfAll(Rows) \in Nat /\ FitTarget(v) \in Nat /\ task'[v].excess = SizeOfAll(Rows) - FitTarget(v)
      BY <3>1, SizeFacts, BudgetType DEF TotalCached, EvictInv, EvictTypes
    <3>4. \A a, k \in Nat : a >= k + (a - k)
      OBVIOUS
    <3>. QED  BY <3>2, <3>3, <3>4
  <2>. QED  BY <2>1, <2>2
<1>10. \A m \in Sweepers : task'[m] = task[m]
  BY <1>2, EvictorSets
<1>11. ExcessIsEnough' /\ FilesAreTried'
  BY <1>1, <1>3, <1>10 DEF EvictInv, ExcessIsEnough, FilesAreTried, Counting
<1>. QED  BY <1>5, <1>6, <1>7, <1>8, <1>9, <1>11 DEF EvictInv

LEMMA FitInv ==
  ASSUME EvictInv, NEW w \in Workers, DiskFull(w) \/ FitReads(w) \/ FitEnds(w)
  PROVE  EvictInv'
<1> DEFINE Total == [NoTask EXCEPT !.at = "total"]
           Read == [NoTask EXCEPT !.at = "list", !.excess = TotalCached - FitTarget(w)]
<1>1. Total \in Tasks /\ Total.row = NoRow /\ Total.at = "total"
  BY NoTaskType DEF Tasks, Steps, NoTask
<1>2. /\ Read \in Tasks /\ Read.row = NoRow /\ Read.at = "list"
      /\ Read.excess = TotalCached - FitTarget(w)
  <2>1. TotalCached - FitTarget(w) \in Int
    BY SizeFacts, BudgetType DEF TotalCached, EvictInv, EvictTypes
  <2>. QED  BY <2>1, NoTaskType DEF Tasks, Steps, NoTask
<1>3. NoTask \in Tasks /\ NoTask.row = NoRow /\ NoTask.at = "idle"
  BY NoTaskType
<1> HIDE DEF Total, Read
<1>4. CASE DiskFull(w)
  <2>1. FitMoves(w, Total)
    BY <1>1, <1>4 DEF DiskFull, FitMoves, Stays, cacheVars, Total
  <2>. QED  BY <2>1, FitMovesInv
<1>5. CASE FitReads(w)
  <2>1. FitMoves(w, Read) \/ FitMoves(w, NoTask)
    BY <1>2, <1>3, <1>5 DEF FitReads, ReadTotal, FitMoves, cacheVars, Read
  <2>. QED  BY <2>1, FitMovesInv
<1>6. CASE FitEnds(w)
  <2>1. FitMoves(w, NoTask)
    BY <1>3, <1>6 DEF FitEnds, Reclaimed, FitMoves, cacheVars
  <2>. QED  BY <2>1, FitMovesInv
<1>. QED  BY <1>4, <1>5, <1>6

LEMMA IpcEvictInv ==
  ASSUME EvictInv, NEW e \in Entries, IpcEvict(e)
  PROVE  EvictInv'
<1> DEFINE t == [NoTask EXCEPT !.row = e]
<1>1. t \in Tasks /\ t.at = "idle" /\ t.row = e /\ DOMAIN t.listed = {}
  BY NoTaskType DEF Tasks, NoTask
<1>2. /\ Set("ipc", t) /\ onDisk' = onDisk \ {e} /\ turns' = turns + 1 /\ turns < MaxTurns
      /\ UNCHANGED <<lastHit, renamed, time, evictLock, fresh, disturbed>>
  BY DEF IpcEvict, Turn
<1> HIDE DEF t
<1>3. /\ task' \in [Evictors -> Tasks]
      /\ \A y \in Evictors : task'[y] = IF y = "ipc" THEN t ELSE task[y]
  BY <1>1, <1>2, SetEffect, EvictorSets
<1>4. /\ \A y \in Workers : task'[y] = task[y]
      /\ \A y \in Sweepers : task'[y] = task[y]
  BY <1>3, EvictorSets
<1>5. /\ Rows' = Rows /\ \A n : RowsOf(n)' = RowsOf(n) /\ FreshBytes(n)' = FreshBytes(n)
  BY <1>2 DEF Rows, RowsOf, FreshBytes
<1>6. EvictTypes'
  <2>1. turns' \in 0..MaxTurns /\ time <= StartTime + turns'
    BY <1>2, EvictionAssumption DEF EvictInv, EvictTypes
  <2>. QED  BY <2>1, <1>2, <1>3, <1>5 DEF EvictInv, EvictTypes
<1>7. MarksTookTurns'
  <2>1. ASSUME NEW m \in Sweepers, NEW f \in Entries
        PROVE  fresh[m][f] + (IF f \in renamed THEN 1 ELSE 0) <= turns + 1
    <3>1. fresh[m][f] + (IF f \in renamed THEN 1 ELSE 0) <= turns /\ fresh[m][f] \in Nat /\ turns \in Nat
      BY DEF EvictInv, EvictTypes, MarksTookTurns
    <3>. QED  BY <3>1
  <2>. QED  BY <2>1, <1>2 DEF MarksTookTurns
<1>8. WorkersLock' /\ ExcessIsReal' /\ ExcessIsEnough' /\ FilesAreTried'
  <2>1. WorkersLock'
    BY <1>2, <1>4 DEF EvictInv, WorkersLock
  <2>2. ExcessIsReal'
    BY <1>2, <1>4, <1>5 DEF EvictInv, ExcessIsReal, Counting
  <2>3. ExcessIsEnough'
    BY <1>2, <1>4, <1>5 DEF EvictInv, ExcessIsEnough, Counting
  <2>4. FilesAreTried'
    BY <1>2, <1>4, <1>5 DEF EvictInv, FilesAreTried
  <2>. QED  BY <2>1, <2>2, <2>3, <2>4
<1>9. RowsOnce'
  BY <1>1, <1>3 DEF EvictInv, RowsOnce
<1>. QED  BY <1>6, <1>7, <1>8, <1>9 DEF EvictInv

LEMMA SurroundingsInv ==
  ASSUME EvictInv, (\E e \in Entries : Hit(e) \/ CopyRenames(e)) \/ TimePasses \/ UNCHANGED evictionVars
  PROVE  EvictInv'
<1>1. UNCHANGED <<task, evictLock, fresh, disturbed>>
  BY DEF Hit, CopyRenames, TimePasses, evictionVars
<1>2. /\ Rows' = Rows /\ lastHit' \in [Rows -> 0..time'] /\ time' \in Nat
      /\ turns' \in 0..MaxTurns /\ time' <= StartTime + turns' /\ turns <= turns'
  <2>0. /\ turns \in 0..MaxTurns /\ time \in Nat /\ time <= StartTime + turns /\ lastHit \in [Rows -> 0..time]
        /\ StartTime \in Nat /\ MaxTurns \in Nat
    BY EvictionAssumption DEF EvictInv, EvictTypes
  <2>1. CASE UNCHANGED evictionVars
    BY <2>0, <2>1 DEF evictionVars, Rows
  <2>2. CASE TimePasses
    <3>1. UNCHANGED lastHit /\ time' = time + 1 /\ turns' = turns + 1 /\ turns < MaxTurns
      BY <2>2 DEF TimePasses, Turn
    <3>2. \A i \in 0..time : i \in 0..(time + 1)
      BY <2>0
    <3>. QED  BY <3>1, <3>2, <2>0 DEF Rows
  <2>3. ASSUME NEW e \in Entries, Hit(e)
        PROVE  /\ Rows' = Rows /\ lastHit' \in [Rows -> 0..time] /\ time' = time
               /\ turns' = turns + 1 /\ turns < MaxTurns
    <3>1. e \in Rows /\ lastHit' = [lastHit EXCEPT ![e] = time] /\ time' = time
          /\ turns' = turns + 1 /\ turns < MaxTurns
      BY <2>3 DEF Hit, MarkHit, Turn
    <3>2. time \in 0..time
      BY <2>0
    <3>. QED  BY <3>1, <3>2, <2>0 DEF Rows
  <2>4. ASSUME NEW e \in Entries, CopyRenames(e)
        PROVE  /\ Rows' = Rows /\ lastHit' \in [Rows -> 0..time] /\ time' = time
               /\ turns' = turns + 1 /\ turns < MaxTurns
    BY <2>0, <2>4 DEF CopyRenames, Turn, Rows
  <2>. QED  BY <2>0, <2>1, <2>2, <2>3, <2>4
<1>3. /\ onDisk' \subseteq Entries /\ renamed' \subseteq Entries
      /\ onDisk' \subseteq onDisk \cup renamed' /\ renamed \subseteq renamed'
      /\ \A e \in Entries : e \in renamed' /\ e \notin renamed => turns' = turns + 1
  BY DEF Hit, CopyRenames, TimePasses, Turn, evictionVars, EvictInv, EvictTypes
<1>4. \A n : RowsOf(n)' = RowsOf(n) /\ FreshBytes(n)' = FreshBytes(n)
  BY <1>1, <1>2 DEF RowsOf, FreshBytes
<1>5. EvictTypes'
  BY <1>1, <1>2, <1>3 DEF EvictInv, EvictTypes
<1>6. MarksTookTurns'
  <2>1. ASSUME NEW m \in Sweepers, NEW f \in Entries
        PROVE  fresh[m][f] + (IF f \in renamed' THEN 1 ELSE 0) <= turns'
    <3>1. fresh[m][f] + (IF f \in renamed THEN 1 ELSE 0) <= turns /\ fresh[m][f] \in Nat
      BY DEF EvictInv, EvictTypes, MarksTookTurns
    <3>2. turns \in Nat /\ turns' \in Nat /\ turns <= turns'
      BY <1>2 DEF EvictInv, EvictTypes
    <3>3. (f \in renamed' <=> f \in renamed) \/ (f \in renamed' /\ f \notin renamed /\ turns' = turns + 1)
      BY <1>3
    <3>. QED  BY <3>1, <3>2, <3>3
  <2>. QED  BY <2>1, <1>1 DEF MarksTookTurns
<1>7. WorkersLock' /\ RowsOnce'
  BY <1>1 DEF EvictInv, WorkersLock, RowsOnce
<1>8. ExcessIsReal'
  BY <1>1, <1>2 DEF EvictInv, ExcessIsReal, Counting
<1>9. ExcessIsEnough'
  BY <1>1, <1>2, <1>4 DEF EvictInv, ExcessIsEnough, Counting
<1>10. FilesAreTried'
  BY <1>1, <1>3, <1>4 DEF EvictInv, FilesAreTried
<1>. QED  BY <1>5, <1>6, <1>7, <1>8, <1>9, <1>10 DEF EvictInv
\* mark_cached: a row more, by which the rows may grow, and one more mark for
\* the sweeps that count.
LEMMA CopyMarksInv ==
  ASSUME EvictInv, NEW e \in Entries, CopyMarks(e)
  PROVE  EvictInv'
<1>1. /\ e \in renamed /\ renamed' = renamed \ {e}
      /\ lastHit' = [f \in Rows \cup {e} |-> IF f = e THEN time ELSE lastHit[f]]
      /\ UNCHANGED <<onDisk, time, turns, task, evictLock, disturbed>>
  BY DEF CopyMarks, MarkCached
<1>2. \A m \in Sweepers : fresh'[m] = IF Counting(m) THEN [fresh[m] EXCEPT ![e] = fresh[m][e] + 1] ELSE NoneMarked
  BY DEF CopyMarks, Counting
<1>3. fresh' \in [Sweepers -> [Entries -> Nat]]
  <2>1. NoneMarked \in [Entries -> Nat]
    BY DEF NoneMarked
  <2>2. \A m \in Sweepers : fresh[m] \in [Entries -> Nat] /\ fresh[m][e] + 1 \in Nat
    BY DEF EvictInv, EvictTypes
  <2>3. \A m \in Sweepers : fresh'[m] \in [Entries -> Nat]
    BY <1>2, <2>1, <2>2
  <2>4. \E h : fresh' = [m \in Sweepers |-> h[m]]
    <3> DEFINE h == [x \in Sweepers |-> IF task[x].at \in {"list", "reclaim"} THEN [fresh[x] EXCEPT ![e] = @ + 1] ELSE NoneMarked]
    <3>1. fresh' = h /\ h = [m \in Sweepers |-> h[m]]
      BY DEF CopyMarks
    <3> HIDE DEF h
    <3>. QED  BY <3>1
  <2>. QED  BY <2>3, <2>4
<1>4. Rows' = Rows \cup {e} /\ \A m : RowsOf(m)' \subseteq RowsOf(m) \cup {e}
  BY <1>1 DEF Rows, RowsOf
<1>5. EvictTypes'
  <2>1. lastHit' \in [Rows' -> 0..time]
    BY <1>1, <1>4 DEF EvictInv, EvictTypes
  <2>. QED  BY <1>1, <1>3, <1>4, <2>1 DEF EvictInv, EvictTypes
<1>6. MarksTookTurns'
  <2>1. ASSUME NEW m \in Sweepers, NEW f \in Entries
        PROVE  fresh'[m][f] + (IF f \in renamed' THEN 1 ELSE 0) <= turns
    <3>1. fresh[m][f] + (IF f \in renamed THEN 1 ELSE 0) <= turns /\ fresh[m][f] \in Nat /\ turns \in Nat
      BY DEF EvictInv, EvictTypes, MarksTookTurns
    <3>2. fresh'[m][f] = 0 \/ fresh'[m][f] = IF f = e THEN fresh[m][f] + 1 ELSE fresh[m][f]
      <4>1. fresh[m] \in [Entries -> Nat]
        BY DEF EvictInv, EvictTypes
      <4>. QED  BY <4>1, <1>2 DEF NoneMarked
    <3>3. (f \in renamed' <=> f \in renamed /\ f # e) /\ e \in renamed
      BY <1>1
    <3>. QED  BY <3>1, <3>2, <3>3
  <2>. QED  BY <2>1, <1>1 DEF MarksTookTurns
<1>7. WorkersLock' /\ RowsOnce'
  BY <1>1 DEF EvictInv, WorkersLock, RowsOnce
<1>8. ExcessIsReal'
  <2> SUFFICES ASSUME NEW w \in Workers, Counting(w)', w \notin disturbed'
               PROVE  SizeOfAll(Rows' \ {task'[w].row}) >= FitTarget(w) + task'[w].excess
    BY DEF ExcessIsReal
  <2>1. Counting(w) /\ w \notin disturbed /\ task'[w] = task[w]
    BY <1>1 DEF Counting
  <2>2. /\ Rows' \ {task'[w].row} \in SUBSET Entries
        /\ Rows \ {task[w].row} \subseteq Rows' \ {task'[w].row}
    BY <2>1, <1>4 DEF EvictInv, EvictTypes
  <2>3. SizeOfAll(Rows' \ {task'[w].row}) >= FitTarget(w) + task[w].excess
    BY <2>1, <2>2, RealKept
  <2>. QED  BY <2>1, <2>3
<1>9. ExcessIsEnough'
  <2> SUFFICES ASSUME NEW m \in Sweepers, Counting(m)'
               PROVE  SizeOfAll((Rows' \cup DOMAIN task'[m].listed) \ {task'[m].row})
                        <= MaxSizeBytes + task'[m].excess + FreshBytes(m)'
    BY DEF ExcessIsEnough
  <2>1. Counting(m) /\ task'[m] = task[m]
    BY <1>1 DEF Counting
  <2>2. FreshBytes(m)' = FreshBytes(m) + SizeOf[e] /\ FreshBytes(m) \in Nat
    <3>1. fresh[m] \in [Entries -> Nat] /\ FreshBytes(m) \in Nat
      BY FreshType
    <3>2. PICK h \in [Entries -> Nat] : h = fresh[m]
      BY <3>1
    <3>3. fresh'[m] = [h EXCEPT ![e] = h[e] + 1]
      BY <1>2, <2>1, <3>2
    <3>4. SumFunction([f \in Entries |-> [h EXCEPT ![e] = h[e] + 1][f] * SizeOf[f]])
            = SumFunction([f \in Entries |-> h[f] * SizeOf[f]]) + SizeOf[e]
      BY FreshFacts
    <3>5. FreshBytes(m) = SumFunction([f \in Entries |-> h[f] * SizeOf[f]])
      BY <3>2 DEF FreshBytes
    <3>6. FreshBytes(m)' = SumFunction([f \in Entries |-> [h EXCEPT ![e] = h[e] + 1][f] * SizeOf[f]])
      BY <3>3, Zenon DEF FreshBytes
    <3>. QED  BY <3>1, <3>4, <3>5, <3>6
  <2> DEFINE A == (Rows' \cup DOMAIN task'[m].listed) \ {task'[m].row}
  <2>3. A \in SUBSET Entries
    BY <1>4, <2>1, TaskFacts, EvictorSets DEF EvictInv, EvictTypes
  <2>4. A \ {e} \in SUBSET ((Rows \cup DOMAIN task[m].listed) \ {task[m].row})
    BY <1>4, <2>1
  <2> HIDE DEF A
  <2>5. SizeOfAll(A \ {e}) <= MaxSizeBytes + task[m].excess + FreshBytes(m)
    BY <2>1, <2>4, EnoughKept
  <2>6. /\ SizeOf[e] \in Nat /\ SizeOfAll(A) \in Nat /\ SizeOfAll(A \ {e}) \in Nat
        /\ SizeOfAll(A) <= SizeOf[e] + SizeOfAll(A \ {e})
    BY <2>3, SizeWithout
  <2>7. task[m].excess \in Int /\ MaxSizeBytes \in Nat
    BY TaskFacts, BudgetType, EvictorSets
  <2>8. \A a, b, z, f, k \in Nat, i \in Int : b <= k + i + f /\ a <= z + b => a <= k + i + (f + z)
    OBVIOUS
  <2>9. SizeOfAll(A) <= MaxSizeBytes + task[m].excess + (FreshBytes(m) + SizeOf[e])
    BY <2>2, <2>5, <2>6, <2>7, <2>8
  <2>. QED  BY <2>1, <2>2, <2>9 DEF A
<1>10. FilesAreTried'
  <2> SUFFICES ASSUME NEW m \in Sweepers, task[m].at = "reclaim", NEW f \in RowsOf(m)' \cap onDisk
               PROVE  fresh'[m][f] > 0 \/ f \in renamed' \/ f \in DOMAIN task[m].listed
    BY <1>1 DEF FilesAreTried
  <2>1. Counting(m) /\ fresh[m] \in [Entries -> Nat]
    BY DEF Counting, EvictInv, EvictTypes
  <2>2. CASE f = e
    <3>1. fresh'[m][f] = fresh[m][f] + 1 /\ fresh[m][f] \in Nat
      BY <2>1, <2>2, <1>2
    <3>. QED  BY <3>1
  <2>3. CASE f # e
    <3>1. f \in RowsOf(m) /\ f \in Entries
      BY <2>3, <1>4 DEF RowsOf, EvictInv, EvictTypes
    <3>2. fresh[m][f] > 0 \/ f \in renamed \/ f \in DOMAIN task[m].listed
      BY <3>1 DEF EvictInv, FilesAreTried
    <3>3. fresh'[m][f] = fresh[m][f]
      BY <2>1, <2>3, <3>1, <1>2
    <3>. QED  BY <3>2, <3>3, <2>3, <1>1
  <2>. QED  BY <2>2, <2>3
<1>. QED  BY <1>5, <1>6, <1>7, <1>8, <1>9, <1>10 DEF EvictInv

LEMMA EvictStepInv == EvictInv /\ [EvictionNext]_evictionVars => EvictInv'
<1> SUFFICES ASSUME EvictInv, [EvictionNext]_evictionVars PROVE EvictInv'
  OBVIOUS
<1>1. ASSUME NEW x \in Evictors, DeleteFile(x) \/ RemoveRow(x) \/ ReadCandidates(x) PROVE EvictInv'
  BY <1>1, DeleteInv, RemoveRowInv, ReadCandidatesInv
<1>2. ASSUME NEW m \in Sweepers, SweepStarts(m) \/ SweepExpired(m) \/ SweepReads(m) \/ SweepEnds(m)
      PROVE  EvictInv'
  BY <1>2, SweepInv
<1>3. ASSUME NEW w \in Workers, DiskFull(w) \/ FitReads(w) \/ FitEnds(w) PROVE EvictInv'
  BY <1>3, FitInv
<1>4. ASSUME NEW e \in Entries, IpcEvict(e) \/ CopyMarks(e) PROVE EvictInv'
  BY <1>4, IpcEvictInv, CopyMarksInv
<1>5. CASE (\E e \in Entries : Hit(e) \/ CopyRenames(e)) \/ TimePasses \/ UNCHANGED evictionVars
  BY <1>5, SurroundingsInv
<1>. QED  BY <1>1, <1>2, <1>3, <1>4, <1>5 DEF EvictionNext

-----------------------------------------------------------------------------
(* Eviction: the theorems.                                                 *)

\* The invariant holds whatever sweeps, copy workers, clients and copies do
\* between each other's steps.
THEOREM EvictInvariance == EvictionSpec => []EvictInv
<1>. QED  BY EvictInitInv, EvictStepInv, PTL DEF EvictionSpec

LEMMA EvictionTypes ==
  ASSUME EvictInv
  PROVE  EvictionTypeOK
<1>1. /\ DOMAIN lastHit \subseteq Entries /\ Range(lastHit) \subseteq 0..time
      /\ time \in 0..MaxTime
  <2>1. DOMAIN lastHit \subseteq Entries /\ \A e \in DOMAIN lastHit : lastHit[e] \in 0..time
    BY DEF EvictInv, EvictTypes, Rows
  <2>2. time \in 0..MaxTime
    BY EvictionAssumption DEF EvictInv, EvictTypes, MaxTime
  <2>. QED  BY <2>1, <2>2 DEF Range
<1>2. /\ DOMAIN task = Evictors
      /\ \A x \in Evictors : /\ task[x].at \in Steps /\ task[x].row \in Entries \cup {NoRow}
                             /\ DOMAIN task[x].listed \subseteq Entries /\ task[x].excess \in Int
  BY TaskFacts DEF EvictInv, EvictTypes
<1>3. fresh \in [Sweepers -> [Entries -> 0..MaxTurns]]
  <2>1. ASSUME NEW m \in Sweepers, NEW e \in Entries PROVE fresh[m][e] \in 0..MaxTurns
    <3>1. fresh[m][e] + (IF e \in renamed THEN 1 ELSE 0) <= turns /\ fresh[m][e] \in Nat /\ turns \in 0..MaxTurns
      BY DEF EvictInv, EvictTypes, MarksTookTurns
    <3>. QED  BY <3>1, EvictionAssumption
  <2>. QED  BY <2>1 DEF EvictInv, EvictTypes
<1>. QED  BY <1>1, <1>2, <1>3 DEF EvictionTypeOK, EvictInv, EvictTypes

\* Rows, tasks and locks keep their types; no row is hit later than now, and a
\* sweep never marks more than was copied.
THEOREM EvictionTypeCorrect == EvictionSpec => []EvictionTypeOK
<1>1. EvictInv => EvictionTypeOK
  BY EvictionTypes
<1>. QED  BY <1>1, EvictInvariance, PTL

\* evict_lock keeps workers from over-evicting (io.rs:379): for any files, sizes
\* and mounts, a worker deletes a file only while the rows still exceed what it
\* has to fit into, unless one who does not take its lock has removed rows.
THEOREM WorkersDoNotOverEvict == EvictionSpec => NoOverEviction
<1> DEFINE Fits == \A w \in Workers : onDisk' # onDisk /\ task'[w] # task[w] /\ w \notin disturbed
                                       => TotalCached > FitTarget(w)
<1>1. ASSUME EvictInv, [EvictionNext]_evictionVars PROVE [Fits]_evictionVars
  <2> SUFFICES ASSUME EvictionNext, NEW w \in Workers, onDisk' # onDisk, task'[w] # task[w], w \notin disturbed
               PROVE  TotalCached > FitTarget(w)
    BY <1>1
  <2>1. DeleteFile(w)
    <3>1. ASSUME NEW x \in Evictors, DeleteFile(x), x # w PROVE FALSE
      <4>1. PICK t \in Tasks : Set(x, t)
        BY <3>1, <1>1, DeleteEffect
      <4>. QED  BY <4>1, <3>1, <1>1, SetEffect, EvictorSets
    <3>2. ASSUME NEW e \in Entries, IpcEvict(e) PROVE FALSE
      <4>1. [NoTask EXCEPT !.row = e] \in Tasks
        BY NoTaskType DEF Tasks, NoTask
      <4>2. Set("ipc", [NoTask EXCEPT !.row = e])
        BY <3>2 DEF IpcEvict
      <4>. QED  BY <4>1, <4>2, <1>1, SetEffect, EvictorSets
    <3>3. ASSUME NEW e \in Entries, CopyRenames(e) PROVE FALSE
      BY <3>3 DEF CopyRenames
    <3>4. ASSUME NEW e \in Entries, Hit(e) \/ CopyMarks(e) PROVE FALSE
      BY <3>4 DEF Hit, CopyMarks
    <3>5. ASSUME NEW x \in Evictors, RemoveRow(x) \/ ReadCandidates(x) PROVE FALSE
      BY <3>5 DEF RemoveRow, ReadCandidates, Stays, cacheVars
    <3>6. ASSUME NEW m \in Sweepers, SweepStarts(m) \/ SweepExpired(m) \/ SweepReads(m) \/ SweepEnds(m)
          PROVE  FALSE
      BY <3>6 DEF SweepStarts, SweepExpired, SweepReads, SweepEnds, Stays, cacheVars
    <3>7. ASSUME NEW v \in Workers, DiskFull(v) \/ FitReads(v) \/ FitEnds(v) PROVE FALSE
      BY <3>7 DEF DiskFull, FitReads, FitEnds, Stays, cacheVars
    <3>8. ~TimePasses
      BY DEF TimePasses
    <3>. QED  BY <3>1, <3>2, <3>3, <3>4, <3>5, <3>6, <3>7, <3>8 DEF EvictionNext
  <2>2. /\ task[w].at = "expire" \/ (task[w].at = "reclaim" /\ task[w].excess > 0)
        /\ task[w].row = NoRow
    BY <2>1, <1>1, DeleteEffect, EvictorSets
  <2>3. Counting(w) /\ task[w].excess > 0
    BY <2>2, <1>1 DEF EvictInv, WorkersLock, Counting
  <2>4. Rows \in SUBSET Entries /\ Rows \ {task[w].row} = Rows
    BY <2>2, <1>1, NoTaskType DEF EvictInv, EvictTypes
  <2>5. SizeOfAll(Rows) >= FitTarget(w) + task[w].excess
    BY <2>3, <2>4, <1>1, RealKept
  <2>6. SizeOfAll(Rows) \in Nat /\ FitTarget(w) \in Nat /\ task[w].excess \in Int
    BY <2>4, <1>1, SizeFacts, BudgetType, TaskFacts, EvictorSets
  <2>7. \A a, f \in Nat, i \in Int : a >= f + i /\ i > 0 => a > f
    OBVIOUS
  <2>. QED  BY <2>3, <2>5, <2>6, <2>7 DEF TotalCached
<1>. QED  BY <1>1, EvictInvariance, PTL DEF EvictionSpec, NoOverEviction

\* A sweep brings the cache back into its budget (evict_if_needed) but for what
\* was cached since it read the total, or it has tried every file of its mount
\* that was not cached meanwhile: for any files, sizes, mounts and evictors.
THEOREM SweepsReclaim == EvictionSpec => SweepReclaims
<1> DEFINE Reclaims(m) ==
             \/ TotalCached <= MaxSizeBytes + FreshBytes(m)
             \/ \A e \in RowsOf(m) \cap onDisk : fresh[m][e] > 0 \/ e \in renamed
           Ends == \A m \in Sweepers : task[m].at = "reclaim" /\ task'[m].at = "idle" => Reclaims(m)
<1>1. ASSUME EvictInv, [EvictionNext]_evictionVars PROVE [Ends]_evictionVars
  <2> SUFFICES ASSUME EvictionNext, NEW m \in Sweepers, task[m].at = "reclaim", task'[m].at = "idle"
               PROVE  Reclaims(m)
    BY <1>1
  <2>1. Reclaimed(m)
    <3>0. m \in Evictors
      BY EvictorSets
    <3>1. ASSUME NEW x \in Evictors, NEW t \in Tasks, Set(x, t), x # m \/ t.at = "reclaim" PROVE FALSE
      BY <3>0, <3>1, <1>1, SetEffect
    <3>2. ASSUME NEW x \in Evictors, DeleteFile(x) PROVE FALSE
      <4>1. PICK e \in DOMAIN task[x].listed, t \in Tasks : DeletesFrom(x, e, t) /\ Set(x, t)
        BY <3>2, <1>1, DeleteEffect
      <4>. QED  BY <4>1, <3>1 DEF DeletesFrom
    <3>3. ASSUME NEW x \in Evictors, RemoveRow(x) PROVE FALSE
      <4> DEFINE t == [task[x] EXCEPT !.row = NoRow]
      <4>1. t \in Tasks /\ t.at = task[x].at
        BY <1>1, TaskFacts DEF Tasks
      <4>2. Set(x, t)
        BY <3>3 DEF RemoveRow
      <4> HIDE DEF t
      <4>. QED  BY <4>1, <4>2, <3>1
    <3>4. ASSUME NEW x \in Evictors, ReadCandidates(x) PROVE FALSE
      <4>1. x # m
        BY <3>4 DEF ReadCandidates
      <4>2. task'[m] = task[m]
        BY <3>4, <4>1, <1>1, <3>0 DEF ReadCandidates, Set, EvictInv, EvictTypes
      <4>. QED  BY <4>2
    <3>5. ASSUME NEW n \in Sweepers, SweepStarts(n) \/ SweepExpired(n) \/ SweepReads(n) PROVE FALSE
      <4>1. n # m
        BY <3>5 DEF SweepStarts, SweepExpired, SweepReads, ReadTotal
      <4>2. task'[m] = task[m]
        BY <3>5, <4>1, <1>1, <3>0
           DEF SweepStarts, SweepExpired, SweepReads, ReadTotal, Set, EvictInv, EvictTypes
      <4>. QED  BY <4>2
    <3>6. ASSUME NEW n \in Sweepers, SweepEnds(n) PROVE Reclaimed(m)
      <4>1. CASE n = m
        BY <3>6, <4>1 DEF SweepEnds
      <4>2. CASE n # m
        <5>1. task'[m] = task[m]
          BY <3>6, <4>2, <1>1, <3>0 DEF SweepEnds, Set, EvictInv, EvictTypes
        <5>. QED  BY <5>1
      <4>. QED  BY <4>1, <4>2
    <3>7. ASSUME NEW w \in Workers, DiskFull(w) \/ FitReads(w) \/ FitEnds(w) PROVE FALSE
      <4>1. w # m
        BY EvictorSets
      <4>2. task'[m] = task[m]
        BY <3>7, <4>1, <1>1, <3>0 DEF DiskFull, FitReads, FitEnds, ReadTotal, Set, EvictInv, EvictTypes
      <4>. QED  BY <4>2
    <3>8. ASSUME NEW e \in Entries, IpcEvict(e) \/ Hit(e) \/ CopyRenames(e) \/ CopyMarks(e) PROVE FALSE
      <4>1. "ipc" # m
        BY EvictorSets
      <4>2. task'[m] = task[m]
        BY <3>8, <4>1, <1>1, <3>0 DEF IpcEvict, Hit, CopyRenames, CopyMarks, Set, EvictInv, EvictTypes
      <4>. QED  BY <4>2
    <3>9. ~TimePasses
      BY DEF TimePasses
    <3>. QED  BY <3>2, <3>3, <3>4, <3>5, <3>6, <3>7, <3>8, <3>9 DEF EvictionNext
  <2>2. CASE task[m].excess <= 0
    <3>1. task[m].row = NoRow /\ NoRow \notin Rows
      BY <2>1, <1>1, NoTaskType DEF Reclaimed, EvictInv, EvictTypes
    <3>2. Rows \in SUBSET ((Rows \cup DOMAIN task[m].listed) \ {task[m].row})
      BY <3>1
    <3>3. SizeOfAll(Rows) <= MaxSizeBytes + task[m].excess + FreshBytes(m)
      BY <3>2, <1>1, EnoughKept DEF Counting
    <3>4. SizeOfAll(Rows) \in Nat /\ MaxSizeBytes \in Nat /\ FreshBytes(m) \in Nat /\ task[m].excess \in Int
      BY <1>1, SizeFacts, BudgetType, FreshType, TaskFacts, EvictorSets DEF EvictInv, EvictTypes
    <3>5. \A a, k, f \in Nat, i \in Int : a <= k + i + f /\ i <= 0 => a <= k + f
      OBVIOUS
    <3>. QED  BY <2>2, <3>3, <3>4, <3>5 DEF TotalCached
  <2>3. CASE task[m].listed = NoTask.listed
    <3>1. DOMAIN task[m].listed = {}
      BY <2>3, NoTaskType
    <3>. QED  BY <3>1, <1>1 DEF EvictInv, FilesAreTried
  <2>. QED  BY <2>1, <2>2, <2>3 DEF Reclaimed
<1>. QED  BY <1>1, EvictInvariance, PTL DEF EvictionSpec, SweepReclaims

-----------------------------------------------------------------------------
(* The two parts together (module MCHousekeeping).                         *)

\* Both parts keep their types, whichever of them moves: the LRU of the
\* watcher has one entry per path, and no row of the cache was hit later than
\* now.
THEOREM HousekeepingTypeCorrect == Spec => []HousekeepingTypeOK
<1> DEFINE Inv == WatchInv /\ EvictInv
<1>1. Init => Inv
  BY WatchInitInv, EvictInitInv DEF Init
<1>2. Inv /\ [Next]_housekeepingVars => Inv'
  <2> SUFFICES ASSUME Inv, [Next]_housekeepingVars PROVE Inv'
    OBVIOUS
  <2>1. [BackingWatchNext]_backingVars /\ [EvictionNext]_evictionVars
    BY DEF Next, housekeepingVars
  <2>. QED  BY <2>1, WatchStepInv, EvictStepInv
<1>3. Inv => HousekeepingTypeOK
  BY WatchIsTyped, EvictionTypes DEF HousekeepingTypeOK
<1>. QED  BY <1>1, <1>2, <1>3, PTL DEF Spec

-----------------------------------------------------------------------------
(* Episode prediction.                                                     *)

\* A well-kept library, and the order of its files.
WellKept(lib) ==
  /\ lib \subseteq EpisodeFiles
  /\ (\A g \in lib : g.dir = g.s) \/ (\A g \in lib : g.dir = Flat)
KeyOrder(lib) == {o \in lib \X lib : Before(o[1], o[2])}

LEMMA LibraryFacts ==
  ASSUME NEW lib, WellKept(lib)
  PROVE  /\ IsFiniteSet(lib)
         /\ \A g \in lib : g.s \in Nat \ {0} /\ g.s \in Seasons /\ g.e \in Nat
         /\ \A g, h \in lib : g.s = h.s /\ g.e = h.e => g = h
<1>1. \A g \in EpisodeFiles : /\ g.dir \in {Flat} \cup Seasons /\ g.s \in Seasons /\ g.e \in Episodes
                              /\ g = [dir |-> g.dir, s |-> g.s, e |-> g.e]
  BY DEF EpisodeFiles
<1>2. \A g, h \in lib : g.s = h.s /\ g.e = h.e => g.dir = h.dir
  BY DEF WellKept
<1>3. \A g, h \in lib : g.s = h.s /\ g.e = h.e => g = h
  <2> SUFFICES ASSUME NEW g \in lib, NEW h \in lib, g.s = h.s, g.e = h.e PROVE g = h
    OBVIOUS
  <2>1. /\ g = [dir |-> g.dir, s |-> g.s, e |-> g.e]
        /\ h = [dir |-> h.dir, s |-> h.s, e |-> h.e]
    BY <1>1 DEF WellKept
  <2>. QED  BY <2>1, <1>2
<1>4. \A g \in lib : g.s \in Nat \ {0} /\ g.s \in Seasons /\ g.e \in Nat /\ g.e \in Episodes
  BY <1>1, PresetsAssumption DEF WellKept
<1> DEFINE K == Seasons \X Episodes
           f == [g \in lib |-> <<g.s, g.e>>]
<1>5. IsFiniteSet(K)
  BY PresetsAssumption, FS_Product
<1>6. f \in [lib -> K] /\ DOMAIN f = lib /\ \A g, h \in lib : f[g] = f[h] => g = h
  BY <1>3, <1>4
<1> HIDE DEF f, K
<1>7. f \in Injection(lib, K)
  BY <1>6 DEF Injection, IsInjective
<1>8. IsFiniteSet(lib)
  BY <1>5, <1>7, FS_Injection
<1>. QED  BY <1>3, <1>4, <1>8

LEMMA LibraryOrder ==
  ASSUME NEW lib, WellKept(lib), NEW T \in SUBSET lib
  PROVE  /\ TotalOrder(T, KeyOrder(lib)) /\ IsFiniteSet(T)
         /\ \A g, h \in lib : <<g, h>> \in KeyOrder(lib) <=> Before(g, h)
         /\ \A x \in T : Rank(T, KeyOrder(lib), x) = Cardinality({y \in T : Before(y, x)})
<1>1. \A g, h \in lib : <<g, h>> \in KeyOrder(lib) <=> Before(g, h)
  BY DEF KeyOrder
<1>2. /\ \A g \in lib : g.s \in Nat /\ g.e \in Nat
      /\ \A g, h \in lib : g.s = h.s /\ g.e = h.e => g = h
  BY LibraryFacts
<1>3. \A g \in lib : ~Before(g, g)
  BY <1>2 DEF Before
<1>4. \A g, h \in lib : g = h \/ Before(g, h) \/ Before(h, g)
  BY <1>2 DEF Before
<1>5. \A g, h, k \in lib : Before(g, h) /\ Before(h, k) => Before(g, k)
  BY <1>2 DEF Before
<1>6. TotalOrder(T, KeyOrder(lib))
  BY <1>1, <1>3, <1>4, <1>5 DEF TotalOrder
<1>7. ASSUME NEW x \in T PROVE Rank(T, KeyOrder(lib), x) = Cardinality({y \in T : Before(y, x)})
  <2>1. Lower(T, KeyOrder(lib), x) = {y \in T : Before(y, x)}
    BY <1>1 DEF Lower
  <2>. QED  BY <2>1 DEF Rank
<1>8. IsFiniteSet(T)
  BY LibraryFacts, FS_Subset
<1>. QED  BY <1>1, <1>6, <1>7, <1>8

\* sort_by_key of files.
LEMMA FilesSorted ==
  ASSUME NEW lib, WellKept(lib), NEW T \in SUBSET lib
  PROVE  SortedOver(InOrder(T), T, KeyOrder(lib))
<1> DEFINE R == KeyOrder(lib)
           At(i) == CHOOSE x \in T : Cardinality({y \in T : Before(y, x)}) = i - 1
<1>1. /\ TotalOrder(T, R) /\ IsFiniteSet(T)
      /\ \A x \in T : Rank(T, R, x) = Cardinality({y \in T : Before(y, x)})
  BY LibraryOrder
<1>2. PICK N \in Nat : N = Cardinality(T)
  BY <1>1, FS_CardinalityType
<1>3. ASSUME NEW i \in 1..N PROVE At(i) \in T /\ Rank(T, R, At(i)) = i - 1
  <2> HIDE DEF R
  <2>1. PICK x \in T : Rank(T, R, x) = i - 1
    BY <1>1, <1>2, RankExists
  <2>2. Cardinality({y \in T : Before(y, x)}) = i - 1
    BY <2>1, <1>1
  <2>3. At(i) \in T /\ Cardinality({y \in T : Before(y, At(i))}) = i - 1
    BY <2>2
  <2> HIDE DEF At
  <2>. QED  BY <2>3, <1>1
<1>4. InOrder(T) = [i \in 1..N |-> At(i)]
  BY <1>2 DEF InOrder, Sorted
<1> HIDE DEF R, At
<1>5. PICK q : q = [i \in 1..N |-> At(i)]
  OBVIOUS
<1>6. q \in Seq(T) /\ Len(q) = N /\ \A i \in 1..N : q[i] = At(i)
  BY <1>3, <1>5
<1>7. SortedOver(q, T, R)
  BY <1>1, <1>2, <1>3, <1>6, RankedIsSorted
<1>. QED  BY <1>4, <1>5, <1>7 DEF R

NumberOrder(D) == {o \in D \X D : o[1] < o[2]}

\* sort_by_key of season directories.
LEMMA DirsSorted ==
  ASSUME NEW D \in SUBSET Nat, IsFiniteSet(D)
  PROVE  SortedOver(Sorted(D, <), D, NumberOrder(D))
<1> DEFINE R == NumberOrder(D)
           At(i) == CHOOSE x \in D : Cardinality({y \in D : y < x}) = i - 1
<1>1. TotalOrder(D, R)
  BY DEF TotalOrder, NumberOrder
<1>2. ASSUME NEW x \in D PROVE Rank(D, R, x) = Cardinality({y \in D : y < x})
  <2>1. Lower(D, R, x) = {y \in D : y < x}
    BY DEF Lower, NumberOrder
  <2>. QED  BY <2>1 DEF Rank
<1>3. PICK N \in Nat : N = Cardinality(D)
  BY FS_CardinalityType
<1>4. ASSUME NEW i \in 1..N PROVE At(i) \in D /\ Rank(D, R, At(i)) = i - 1
  <2> HIDE DEF R
  <2>1. PICK x \in D : Rank(D, R, x) = i - 1
    BY <1>1, <1>3, RankExists
  <2>2. Cardinality({y \in D : y < x}) = i - 1
    BY <2>1, <1>2
  <2>3. At(i) \in D /\ Cardinality({y \in D : y < At(i)}) = i - 1
    BY <2>2
  <2> HIDE DEF At
  <2>. QED  BY <2>3, <1>2
<1>5. Sorted(D, <) = [i \in 1..N |-> At(i)]
  BY <1>3 DEF Sorted
<1> HIDE DEF R, At
<1>6. PICK q : q = [i \in 1..N |-> At(i)]
  OBVIOUS
<1>7. q \in Seq(D) /\ Len(q) = N /\ \A i \in 1..N : q[i] = At(i)
  BY <1>4, <1>6
<1>8. SortedOver(q, D, R)
  BY <1>1, <1>3, <1>4, <1>7, RankedIsSorted
<1>. QED  BY <1>5, <1>6, <1>8 DEF R

\* truncate.
LEMMA TruncatedElements ==
  ASSUME NEW S, NEW q \in Seq(S), NEW n \in Nat
  PROVE  /\ Truncated(q, n) \in Seq(S) /\ Len(Truncated(q, n)) = IF n <= Len(q) THEN n ELSE Len(q)
         /\ \A i \in 1..Len(Truncated(q, n)) : Truncated(q, n)[i] = q[i]
         /\ Truncated(q, n) = SubSeq(q, 1, IF n <= Len(q) THEN n ELSE Len(q))
<1>1. PICK N \in Nat : N = Len(q)
  BY LenProperties
<1>2. PICK m \in 0..N : m = IF n <= N THEN n ELSE N
  OBVIOUS
<1>3. Min({n, N}) = m
  BY <1>2 DEF Min
<1>4. Truncated(q, n) = SubSeq(q, 1, m)
  BY <1>1, <1>3 DEF Truncated
<1>5. SubSeq(q, 1, m) \in Seq(S) /\ Len(SubSeq(q, 1, m)) = m /\ \A i \in 1..m : SubSeq(q, 1, m)[i] = q[i]
  BY <1>1, PrefixOf
<1>. QED  BY <1>1, <1>2, <1>4, <1>5

\* The candidates are truncated before the following are appended and after:
\* the first has no effect of its own.
LEMMA TruncatedOnce ==
  ASSUME NEW S, NEW a \in Seq(S), NEW b \in Seq(S), NEW n \in Nat
  PROVE  Truncated(Truncated(a, n) \o b, n) = Truncated(a \o b, n)
<1>1. PICK k \in Nat : k = Len(a)
  BY LenProperties
<1>2. PICK l \in Nat : l = Len(b)
  BY LenProperties
<1>3. PICK m \in Nat : m = IF n <= k THEN n ELSE k
  OBVIOUS
<1>4. PICK c \in Seq(S) : c = Truncated(a, n) /\ Len(c) = m /\ \A i \in 1..m : c[i] = a[i]
  <2>1. PICK c : c = Truncated(a, n)
    OBVIOUS
  <2>2. c \in Seq(S) /\ Len(c) = (IF n <= Len(a) THEN n ELSE Len(a)) /\ \A i \in 1..Len(c) : c[i] = a[i]
    BY <2>1, TruncatedElements
  <2>3. Len(c) = m
    BY <2>2, <1>1, <1>3
  <2>. QED  BY <2>1, <2>2, <2>3
<1>5. PICK p \in Seq(S) : Concatenated(p, c, b, m, l)
  BY <1>2, <1>4, ConcatElements
<1>6. PICK q \in Seq(S) : Concatenated(q, a, b, k, l)
  BY <1>1, <1>2, ConcatElements
<1>7. /\ Truncated(p, n) \in Seq(S) /\ Len(Truncated(p, n)) = (IF n <= m + l THEN n ELSE m + l)
      /\ \A i \in 1..Len(Truncated(p, n)) : Truncated(p, n)[i] = p[i]
  <2>1. Len(p) = m + l
    BY <1>5 DEF Concatenated
  <2>2. /\ Truncated(p, n) \in Seq(S) /\ Len(Truncated(p, n)) = IF n <= Len(p) THEN n ELSE Len(p)
        /\ \A i \in 1..Len(Truncated(p, n)) : Truncated(p, n)[i] = p[i]
    BY TruncatedElements
  <2>. QED  BY <2>1, <2>2, Zenon
<1>8. /\ Truncated(q, n) \in Seq(S) /\ Len(Truncated(q, n)) = (IF n <= k + l THEN n ELSE k + l)
      /\ \A i \in 1..Len(Truncated(q, n)) : Truncated(q, n)[i] = q[i]
  <2>1. Len(q) = k + l
    BY <1>6 DEF Concatenated
  <2>2. /\ Truncated(q, n) \in Seq(S) /\ Len(Truncated(q, n)) = IF n <= Len(q) THEN n ELSE Len(q)
        /\ \A i \in 1..Len(Truncated(q, n)) : Truncated(q, n)[i] = q[i]
    BY TruncatedElements
  <2>. QED  BY <2>1, <2>2, Zenon
<1>9. PICK N \in Nat : N = (IF n <= m + l THEN n ELSE m + l) /\ N = (IF n <= k + l THEN n ELSE k + l)
  BY <1>3
<1>10. ASSUME NEW i \in 1..N PROVE p[i] = q[i]
  <2>1. i \in 1..(m + l) /\ i \in 1..(k + l)
    BY <1>9
  <2>2. CASE n <= k
    <3>1. i <= m /\ i <= k /\ i \in 1..m
      BY <2>2, <1>3, <1>9
    <3>. QED  BY <2>1, <3>1, <1>4, <1>5, <1>6 DEF Concatenated
  <2>3. CASE ~(n <= k)
    <3>1. m = k
      BY <2>3, <1>3
    <3>2. i <= m => i \in 1..m
      OBVIOUS
    <3>. QED  BY <2>1, <3>1, <3>2, <1>4, <1>5, <1>6 DEF Concatenated
  <2>. QED  BY <2>2, <2>3
<1>11. PICK s \in Seq(S), t \in Seq(S) :
         /\ s = Truncated(p, n) /\ Len(s) = N /\ \A i \in 1..N : s[i] = p[i]
         /\ t = Truncated(q, n) /\ Len(t) = N /\ \A i \in 1..N : t[i] = q[i]
  <2>1. Len(Truncated(p, n)) = N /\ Len(Truncated(q, n)) = N
    BY <1>7, <1>8, <1>9
  <2>. QED  BY <2>1, <1>7, <1>8
<1>12. s = t
  BY <1>10, <1>11, SeqEqual
<1>. QED  BY <1>4, <1>5, <1>6, <1>11, <1>12 DEF Concatenated

LEMMA TruncatedSorted ==
  ASSUME NEW S, IsFiniteSet(S), NEW R, TotalOrder(S, R), NEW q, SortedOver(q, S, R), NEW n \in Nat
  PROVE  SortedOver(Truncated(q, n), {x \in S : Rank(S, R, x) < n}, R)
<1>1. PICK N \in Nat : N = Len(q) /\ N = Cardinality(S)
  BY SortedRank
<1>2. PICK m \in 0..N : m = IF n <= N THEN n ELSE N
  OBVIOUS
<1>3. Truncated(q, n) = SubSeq(q, 1, m)
  <2>1. q \in Seq(S)
    BY DEF SortedOver
  <2>. QED  BY <2>1, <1>1, <1>2, TruncatedElements
<1>4. SortedOver(SubSeq(q, 1, m), {x \in S : Rank(S, R, x) < m}, R)
  BY <1>1, SortedPrefix
<1>5. \A x \in S : Rank(S, R, x) \in Nat /\ Rank(S, R, x) < N
  BY <1>1, RankOrder
<1>6. {x \in S : Rank(S, R, x) < m} = {x \in S : Rank(S, R, x) < n}
  <2>1. \A r \in Nat : r < N => (r < m <=> r < n)
    BY <1>2
  <2>. QED  BY <1>5, <2>1
<1>. QED  BY <1>3, <1>4, <1>6

\* Later seasons in directories of their own, one directory after the other.
LEMMA DirsFollow ==
  ASSUME NEW lib, WellKept(lib), \A g \in lib : g.dir = g.s, NEW f \in lib
  PROVE  SortedOver(FromDirs(lib, f), {g \in lib : g.s > f.s}, KeyOrder(lib))
<1> DEFINE D == DirsAfter(lib, f.s)
           R == KeyOrder(lib)
           B == {g \in lib : g.s > f.s}
<1>1. \A g \in lib : g.s \in Nat /\ g.s \in Seasons /\ g.dir = g.s
  BY LibraryFacts
<1>2. /\ D \in SUBSET Nat /\ D \in SUBSET Seasons
      /\ \A g \in lib : g.s \in D <=> g \in B
  BY <1>1, PresetsAssumption DEF DirsAfter
<1>3. IsFiniteSet(D)
  BY <1>2, PresetsAssumption, FS_Subset
<1>4. PICK q : q = LaterDirs(lib, f) /\ SortedOver(q, D, NumberOrder(D))
  BY <1>2, <1>3, DirsSorted DEF LaterDirs
<1>5. PICK N \in Nat : N = Len(q) /\ DOMAIN q = 1..N
  BY <1>4, LenProperties DEF SortedOver
<1>6. \A i \in 1..N : q[i] \in D
  BY <1>4, <1>5 DEF SortedOver
<1>7. \A i, j \in 1..N : i < j => q[i] < q[j]
  BY <1>4, <1>5 DEF SortedOver, NumberOrder
<1> DEFINE seqs == [i \in 1..N |-> InOrder(ListDir(lib, q[i]))]
<1>8. ASSUME NEW i \in 1..N
      PROVE  /\ SortedOver(InOrder(ListDir(lib, q[i])), ListDir(lib, q[i]), R)
             /\ ListDir(lib, q[i]) \subseteq lib
  <2>1. ListDir(lib, q[i]) \in SUBSET lib
    BY DEF ListDir
  <2>. QED  BY <2>1, FilesSorted
<1> HIDE DEF D, R
<1>9. \A i \in 1..N : seqs[i] \in Seq(lib)
  <2>1. ASSUME NEW i \in 1..N PROVE InOrder(ListDir(lib, q[i])) \in Seq(lib)
    <3>1. InOrder(ListDir(lib, q[i])) \in Seq(ListDir(lib, q[i])) /\ ListDir(lib, q[i]) \subseteq lib
      BY <1>8 DEF SortedOver
    <3>. QED  BY <3>1
  <2>. QED  BY <2>1
<1>10. seqs \in Seq(Seq(lib)) /\ Len(seqs) = N
  BY <1>9
<1>11. FromDirs(lib, f) = FlattenSeq(seqs)
  BY <1>4, <1>5 DEF FromDirs
<1>12. \A i \in 1..N : seqs[i] = InOrder(ListDir(lib, q[i]))
  OBVIOUS
<1> HIDE DEF seqs
<1>13. PICK g : /\ g[0] = <<>> /\ g[N] = FlattenSeq(seqs)
                /\ \A i \in 1..N : g[i] = g[i - 1] \o seqs[i]
  BY <1>10, FlattenSteps
<1> DEFINE Upto(k) == {x \in lib : \E i \in 1..k : x.dir = q[i]}
           P == {k \in Nat : k \in 0..N => SortedOver(g[k], Upto(k), R)}
<1>14. 0 \in P
  <2>1. Upto(0) = {}
    OBVIOUS
  <2>2. SortedOver(<<>>, {}, R)
    BY EmptySeq DEF SortedOver
  <2>. QED  BY <2>1, <2>2, <1>13
<1>15. ASSUME NEW k \in P PROVE k + 1 \in P
  <2> SUFFICES ASSUME k + 1 \in 0..N PROVE SortedOver(g[k + 1], Upto(k + 1), R)
    OBVIOUS
  <2>1. /\ k \in Nat /\ k \in 0..N /\ k + 1 \in 1..N /\ (k + 1) - 1 = k
        /\ \A i \in 1..k : i \in 1..N /\ i < k + 1 /\ i \in 1..(k + 1)
        /\ \A i \in 1..(k + 1) : i \in 1..k \/ i = k + 1
        /\ k + 1 \in 1..(k + 1)
    OBVIOUS
  <2>2. SortedOver(g[k], Upto(k), R)
    BY <2>1
  <2> DEFINE L == ListDir(lib, q[k + 1])
  <2>3. SortedOver(seqs[k + 1], L, R)
    BY <2>1, <1>8, <1>12
  <2>4. Upto(k + 1) = Upto(k) \cup L
    BY <2>1 DEF ListDir
  <2>5. ASSUME NEW x \in Upto(k), NEW y \in L PROVE <<x, y>> \in R
    <3>1. PICK i \in 1..k : x.dir = q[i]
      OBVIOUS
    <3>2. x \in lib /\ y \in lib /\ y.dir = q[k + 1]
      BY DEF ListDir
    <3>3. q[i] < q[k + 1]
      BY <2>1, <1>7
    <3>4. x.s < y.s
      BY <3>1, <3>2, <3>3, <1>1
    <3>5. Before(x, y)
      BY <3>4 DEF Before
    <3>. QED  BY <3>2, <3>5, LibraryOrder DEF R
  <2> HIDE DEF L, Upto
  <2>6. SortedOver(g[k] \o seqs[k + 1], Upto(k) \cup L, R)
    BY <2>2, <2>3, <2>5, SortedConcat
  <2>7. g[k + 1] = g[k] \o seqs[k + 1]
    BY <2>1, <1>13
  <2>. QED  BY <2>4, <2>6, <2>7
<1>16. P = Nat
  BY <1>14, <1>15, NumberInduction
<1>17. N \in 0..N
  OBVIOUS
<1>18. Upto(N) = B
  <2>1. \A d \in D : \E i \in 1..N : q[i] = d
    BY <1>4, <1>5 DEF SortedOver
  <2>. QED  BY <2>1, <1>1, <1>2, <1>6
<1>. QED  BY <1>11, <1>13, <1>16, <1>17, <1>18 DEF R

\* The prediction is the files of least rank among those that come next.
LEMMA NextAreNearest ==
  ASSUME NEW lib, WellKept(lib), NEW f \in lib, NEW n \in Nat
  PROVE  LET following == {g \in lib : Before(f, g)}
             soon == {g \in following : Cardinality({h \in following : Before(h, g)}) < n}
         IN  FindNextEpisodes(lib, f, n) = InOrder(soon)
<1> DEFINE R == KeyOrder(lib)
           A == SameSeason(lib, f)
           B == {g \in lib : g.s > f.s}
           F == {g \in lib : Before(f, g)}
           soon == {g \in F : Cardinality({h \in F : Before(h, g)}) < n}
           next == IF f.dir # Flat THEN FromDirs(lib, f) ELSE FromFlat(lib, f)
<1>1. \A g \in lib : g.s \in Nat \ {0} /\ g.e \in Nat
  BY LibraryFacts
<1>2. A \in SUBSET lib /\ \A g \in lib : g \in A <=> g.s = f.s /\ g.e > f.e
  BY DEF SameSeason, ListDir, WellKept
<1>3. SortedOver(next, B, R)
  <2>1. CASE \A g \in lib : g.dir = g.s
    <3>1. f.dir # Flat
      BY <2>1, <1>1 DEF Flat
    <3>. QED  BY <2>1, <3>1, DirsFollow
  <2>2. CASE \A g \in lib : g.dir = Flat
    <3>1. FromFlat(lib, f) = InOrder(B)
      <4>1. {g \in ListDir(lib, f.dir) : g.s > f.s} = B
        BY <2>2 DEF ListDir
      <4>. QED  BY <4>1 DEF FromFlat
    <3>2. B \in SUBSET lib /\ f.dir = Flat
      BY <2>2
    <3>. QED  BY <3>1, <3>2, FilesSorted
  <2>. QED  BY <2>1, <2>2 DEF WellKept
<1>4. SortedOver(InOrder(A), A, R)
  BY <1>2, FilesSorted
<1>5. A \cup B = F
  BY <1>1, <1>2 DEF Before
<1>6. ASSUME NEW x \in A, NEW y \in B PROVE <<x, y>> \in R
  <2>1. x \in lib /\ y \in lib /\ x.s < y.s
    BY <1>1, <1>2
  <2>2. Before(x, y)
    BY <2>1 DEF Before
  <2>. QED  BY <2>1, <2>2, LibraryOrder
<1>7. F \in SUBSET lib
  OBVIOUS
<1>8. TotalOrder(F, R) /\ IsFiniteSet(F) /\ \A x \in F : Rank(F, R, x) = Cardinality({y \in F : Before(y, x)})
  BY <1>7, LibraryOrder
<1>9. FindNextEpisodes(lib, f, n) = Truncated(Truncated(InOrder(A), n) \o next, n)
  BY DEF FindNextEpisodes
<1>10. soon = {x \in F : Rank(F, R, x) < n}
  BY <1>8
<1>11. soon \in SUBSET lib
  BY <1>7
<1> HIDE DEF R, A, B, F, next, soon
<1>12. SortedOver(InOrder(A) \o next, F, R)
  BY <1>3, <1>4, <1>5, <1>6, SortedConcat
<1>13. SortedOver(Truncated(InOrder(A) \o next, n), soon, R)
  BY <1>8, <1>10, <1>12, TruncatedSorted
<1>14. Truncated(Truncated(InOrder(A), n) \o next, n) = Truncated(InOrder(A) \o next, n)
  <2>1. InOrder(A) \in Seq(F) /\ next \in Seq(F)
    <3>1. InOrder(A) \in Seq(A) /\ next \in Seq(B) /\ A \subseteq F /\ B \subseteq F
      BY <1>3, <1>4, <1>5 DEF SortedOver
    <3>. QED  BY <3>1
  <2>. QED  BY <2>1, TruncatedOnce
<1>15. SortedOver(InOrder(soon), soon, R) /\ TotalOrder(soon, R) /\ IsFiniteSet(soon)
  BY <1>11, FilesSorted, LibraryOrder DEF R
<1>16. FindNextEpisodes(lib, f, n) = InOrder(soon)
  BY <1>9, <1>13, <1>14, <1>15, SortedUnique
<1>. QED  BY <1>16 DEF soon, F

\* In a library of either layout, of any size, the prediction is the `lookahead`
\* episodes that come next, in order and across seasons, none skipped and none
\* twice, whatever gaps there are (find_next_episodes).
THEOREM PredictionFollows == PresetsInit => PredictsFollowing
<1> SUFFICES ASSUME PresetsInit, input.about = "library" PROVE PredictsFollowing
  BY DEF PredictsFollowing
<1>1. input.lib \in Libraries
  BY DEF PresetsInit, Inputs
<1>2. WellKept(input.lib)
  <2>1. PICK lib : lib = input.lib
    OBVIOUS
  <2>2. lib \in SUBSET Structured \/ lib \in SUBSET AllFlat
    BY <1>1, <2>1 DEF Libraries
  <2>3. WellKept(lib)
    BY <2>2 DEF Structured, AllFlat, WellKept
  <2>. QED  BY <2>1, <2>3
<1>3. 0..MaxLookahead \subseteq Nat
  BY PresetsAssumption
<1>. QED  BY <1>2, <1>3, NextAreNearest DEF PredictsFollowing

-----------------------------------------------------------------------------
(* Prefetch.                                                               *)

\* The levels of a directory: their definition by recursion has a solution.
HasLevels(tree, dirs, dir, depth, wl, bl, levels) ==
  /\ \A n \in 1..depth : levels[n] = IF n = 1 THEN {dir} ELSE NextLevel(tree, dirs, levels[n - 1])
  /\ CollectRecursive(tree, dirs, dir, depth, wl, bl) =
       UNION {FilesKept(tree, dirs, d, wl, bl) : d \in UNION {levels[n] : n \in 1..depth}}

LEMMA LevelSteps ==
  ASSUME NEW tree, NEW dirs, NEW dir \in dirs, NEW depth \in Nat, NEW wl, NEW bl
  PROVE  \E levels : HasLevels(tree, dirs, dir, depth, wl, bl, levels)
<1> DEFINE V == SUBSET dirs
           N == [l \in V |-> NextLevel(tree, dirs, l)]
           step == [i \in Nat |-> N]
           IsLevels(l) == l = [n \in 1..depth |-> IF n = 1 THEN {dir} ELSE NextLevel(tree, dirs, l[n - 1])]
           levels == CHOOSE l : IsLevels(l)
<1>1. \A l \in V : NextLevel(tree, dirs, l) \in V
  BY DEF NextLevel
<1>2. step \in [Nat -> [V -> V]] /\ {dir} \in V
  BY <1>1
<1>3. \A i \in Nat, l \in V : step[i][l] = NextLevel(tree, dirs, l)
  OBVIOUS
<1> HIDE DEF step, V
<1>4. PICK g \in [0..depth -> V] : RecursiveTo(depth, {dir}, step, g)
  BY <1>2, RecursionExists
<1> DEFINE h == [n \in 1..depth |-> g[n - 1]]
<1>5. g[0] = {dir} /\ \A n \in 0..depth : n # 0 => g[n] = NextLevel(tree, dirs, g[n - 1])
  <2>1. \A n \in 0..depth : n # 0 => n \in Nat /\ n - 1 \in 0..depth
    OBVIOUS
  <2>2. \A n \in 0..depth : n # 0 => step[n][g[n - 1]] = NextLevel(tree, dirs, g[n - 1])
    BY <2>1, <1>3
  <2>3. 0 \in 0..depth
    OBVIOUS
  <2>. QED  BY <1>4, <2>2, <2>3 DEF RecursiveTo
<1>6. \A n \in 1..depth : n # 1 => n - 1 \in 1..depth /\ n - 1 \in 0..depth /\ n - 1 # 0
  OBVIOUS
<1>7. \A n \in 1..depth : h[n] = IF n = 1 THEN {dir} ELSE NextLevel(tree, dirs, h[n - 1])
  <2>1. \A n \in 1..depth : h[n] = g[n - 1]
    OBVIOUS
  <2>2. \A n \in 1..depth : n = 1 => h[n] = {dir}
    BY <1>5, <2>1
  <2> HIDE DEF h
  <2>3. \A n \in 1..depth : n # 1 => h[n - 1] = g[(n - 1) - 1] /\ g[n - 1] = NextLevel(tree, dirs, g[(n - 1) - 1])
    BY <1>5, <1>6, <2>1
  <2>. QED  BY <2>1, <2>2, <2>3
<1>8. IsLevels(h)
  <2>1. h = [n \in 1..depth |-> h[n]]
    OBVIOUS
  <2> HIDE DEF h
  <2>. QED  BY <1>7, <2>1
<1>9. IsLevels(levels)
  BY <1>8
<1>10. CollectRecursive(tree, dirs, dir, depth, wl, bl) =
         UNION {FilesKept(tree, dirs, d, wl, bl) : d \in UNION {levels[n] : n \in 1..depth}}
  BY DEF CollectRecursive
<1> HIDE DEF levels
<1>11. \A n \in 1..depth : levels[n] = IF n = 1 THEN {dir} ELSE NextLevel(tree, dirs, levels[n - 1])
  BY <1>9
<1>12. HasLevels(tree, dirs, dir, depth, wl, bl, levels)
  BY <1>10, <1>11 DEF HasLevels
<1>. QED  BY <1>12

\* What a tree has of a tree: its paths have names, and their parents are
\* directories.
IsTree(tree, dirs) ==
  /\ \A p \in tree : p \in Seq(Names) /\ p # <<>> /\ Front(p) \in dirs
  /\ \A d \in dirs : d \in Seq(Names) /\ (d # <<>> => d \in tree)

\* The directories so many levels below one.
Below(dirs, dir, n) == {d \in dirs : IsPrefix(dir, d) /\ Len(d) = Len(dir) + n}

LEMMA LevelIsBelow ==
  ASSUME NEW tree, NEW dirs, IsTree(tree, dirs), NEW dir \in dirs, NEW n \in Nat
  PROVE  /\ Below(dirs, dir, 0) = {dir}
         /\ NextLevel(tree, dirs, Below(dirs, dir, n)) = Below(dirs, dir, n + 1)
         /\ \A p \in tree : Front(p) \in Below(dirs, dir, n) <=> IsPrefix(dir, p) /\ Len(p) = Len(dir) + (n + 1)
<1>1. dir \in Seq(Names) /\ \A d \in dirs : d \in Seq(Names) /\ Len(d) \in Nat
  BY LenProperties DEF IsTree
<1>2. Below(dirs, dir, 0) = {dir}
  <2>1. IsPrefix(dir, dir) /\ Len(dir) = Len(dir) + 0
    BY <1>1 DEF IsPrefix
  <2>2. ASSUME NEW d \in dirs, IsPrefix(dir, d), Len(d) = Len(dir) + 0 PROVE d = dir
    <3>1. Len(d) = Len(dir) /\ d \in Seq(Names)
      BY <1>1, <2>2
    <3>2. \A i \in 1..Len(dir) : dir[i] = d[i]
      BY <2>2, <3>1, <1>1, PrefixElements DEF AgreeTo
    <3>. QED  BY <3>1, <3>2, <1>1, SeqEqual
  <2>. QED  BY <2>1, <2>2 DEF Below
<1>3. ASSUME NEW p \in tree
      PROVE  /\ Front(p) \in Below(dirs, dir, n) <=> IsPrefix(dir, p) /\ Len(p) = Len(dir) + (n + 1)
             /\ p # <<>>
  <2>1. p \in Seq(Names) /\ p # <<>> /\ Front(p) \in dirs
    BY <1>3 DEF IsTree
  <2>2. IsPrefix(dir, Front(p)) <=> IsPrefix(dir, p) /\ Len(dir) < Len(p)
    BY <1>1, <2>1, PrefixOfFront
  <2>3. Len(Front(p)) = Len(p) - 1 /\ Len(p) \in Nat /\ Len(dir) \in Nat
    BY <1>1, <2>1, FrontElements
  <2>4. \A a, b \in Nat : /\ b - 1 = a + n <=> b = a + (n + 1)
                          /\ b = a + (n + 1) => a < b
    OBVIOUS
  <2>5. Len(Front(p)) = Len(dir) + n <=> Len(p) = Len(dir) + (n + 1)
    BY <2>3, <2>4
  <2>. QED  BY <2>1, <2>2, <2>3, <2>4, <2>5 DEF Below
<1>4. NextLevel(tree, dirs, Below(dirs, dir, n)) = Below(dirs, dir, n + 1)
  <2>1. \A p : p \in NextLevel(tree, dirs, Below(dirs, dir, n))
                 <=> p \in tree /\ p \in dirs /\ p # <<>> /\ Front(p) \in Below(dirs, dir, n)
    BY DEF NextLevel, Children
  <2>2. ASSUME NEW p \in dirs, Len(p) = Len(dir) + (n + 1) PROVE p \in tree
    <3>1. Len(p) # 0
      BY <2>2, <1>1
    <3>2. p # <<>>
      BY <3>1
    <3>. QED  BY <3>2 DEF IsTree
  <2>. QED  BY <2>1, <2>2, <1>3 DEF Below
<1>. QED  BY <1>2, <1>3, <1>4

\* collect_recursive finds the files so many levels below a directory.
LEMMA RecursiveReach ==
  ASSUME NEW tree, NEW dirs, IsTree(tree, dirs), NEW dir \in dirs, NEW depth \in Nat, NEW wl, NEW bl
  PROVE  CollectRecursive(tree, dirs, dir, depth, wl, bl) =
           {p \in tree \ dirs : /\ IsPrefix(dir, p) /\ Len(p) - Len(dir) \in 1..depth
                                /\ PassesFilter(p, wl, bl)}
<1>0. PICK levels : HasLevels(tree, dirs, dir, depth, wl, bl, levels)
  BY LevelSteps
<1>1. /\ \A n \in 1..depth : levels[n] = IF n = 1 THEN {dir} ELSE NextLevel(tree, dirs, levels[n - 1])
      /\ CollectRecursive(tree, dirs, dir, depth, wl, bl) =
           UNION {FilesKept(tree, dirs, d, wl, bl) : d \in UNION {levels[n] : n \in 1..depth}}
  BY <1>0 DEF HasLevels
<1> DEFINE P == {n \in Nat : n + 1 \in 1..depth => levels[n + 1] = Below(dirs, dir, n)}
<1>2. 0 \in P
  <2>1. 0 \in Nat /\ Below(dirs, dir, 0) = {dir}
    BY LevelIsBelow
  <2>2. 1 \in 1..depth => levels[1] = {dir}
    BY <1>1
  <2>. QED  BY <2>1, <2>2
<1>3. ASSUME NEW n \in P PROVE n + 1 \in P
  <2> SUFFICES ASSUME (n + 1) + 1 \in 1..depth PROVE levels[(n + 1) + 1] = Below(dirs, dir, n + 1)
    OBVIOUS
  <2>1. n \in Nat /\ n + 1 \in 1..depth /\ (n + 1) + 1 # 1 /\ ((n + 1) + 1) - 1 = n + 1
    OBVIOUS
  <2>2. levels[n + 1] = Below(dirs, dir, n)
    BY <2>1
  <2>3. levels[(n + 1) + 1] = NextLevel(tree, dirs, levels[n + 1])
    BY <2>1, <1>1
  <2>. QED  BY <2>1, <2>2, <2>3, LevelIsBelow
<1>4. P = Nat
  BY <1>2, <1>3, NumberInduction
<1>5. ASSUME NEW p \in tree
      PROVE  (\E n \in 1..depth : Front(p) \in levels[n]) <=> IsPrefix(dir, p) /\ Len(p) - Len(dir) \in 1..depth
  <2>1. \A n \in 1..depth : n - 1 \in Nat /\ (n - 1) + 1 = n
    OBVIOUS
  <2>2. \A n \in 1..depth : levels[n] = Below(dirs, dir, n - 1)
    BY <2>1, <1>4
  <2>3. \A n \in 1..depth : Front(p) \in Below(dirs, dir, n - 1) <=> IsPrefix(dir, p) /\ Len(p) = Len(dir) + n
    BY <2>1, <1>5, LevelIsBelow
  <2>4. Len(p) \in Nat /\ Len(dir) \in Nat
    BY LenProperties DEF IsTree
  <2>5. \A a, b \in Nat : (\E n \in 1..depth : a = b + n) <=> a - b \in 1..depth
    OBVIOUS
  <2>6. (\E n \in 1..depth : Front(p) \in levels[n]) <=> IsPrefix(dir, p) /\ \E n \in 1..depth : Len(p) = Len(dir) + n
    BY <2>2, <2>3
  <2>. QED  BY <2>4, <2>5, <2>6
<1>6. \A p : p \in CollectRecursive(tree, dirs, dir, depth, wl, bl)
               <=> /\ p \in tree \ dirs /\ p # <<>> /\ PassesFilter(p, wl, bl)
                   /\ \E n \in 1..depth : Front(p) \in levels[n]
  BY <1>1 DEF FilesKept, Children
<1>7. \A p \in tree : p # <<>>
  BY DEF IsTree
<1>. QED  BY <1>5, <1>6, <1>7

\* The recursive mode of Prefetch reaches the files less than max_depth
\* directories below the parent and no others, whatever the file filter says
\* of the directories on the way; at depth 1 it is the neighbours mode
\* (collect_recursive, collect_neighbors).  RecursiveReach says the same of
\* trees, depths, filters and empty directories beyond the ones checked here.
THEOREM PrefetchReaches == PresetsInit => PrefetchReach
<1> SUFFICES ASSUME PresetsInit, input.about = "tree", NEW empty \in SUBSET input.tree
             PROVE  ReachesFiles(input.tree, {Front(p) : p \in input.tree} \cup empty)
  BY DEF PrefetchReach
<1> DEFINE tree == input.tree
<1>2. tree \in Trees
  BY DEF PresetsInit, Inputs
<1> DEFINE dirs == {Front(p) : p \in tree} \cup empty
<1>3. IsTree(tree, dirs)
  <2>1. ASSUME NEW p \in tree PROVE p \in Seq(Names) /\ p # <<>> /\ (Len(p) > 1 => Front(p) \in tree)
    <3>1. PICK n \in 1..3 : p \in [1..n -> Names]
      BY <1>2 DEF Trees
    <3>2. p \in Seq(Names) /\ Len(p) = n
      BY <3>1
    <3>3. p # <<>>
      BY <3>1, <3>2
    <3>. QED  BY <1>2, <3>2, <3>3 DEF Trees
  <2>2. ASSUME NEW p \in tree PROVE Front(p) \in Seq(Names) /\ (Front(p) # <<>> => Front(p) \in tree)
    <3>1. Front(p) \in Seq(Names) /\ Len(Front(p)) = Len(p) - 1 /\ Len(p) \in Nat
      BY <2>1, FrontElements
    <3>2. Front(p) # <<>> => Len(Front(p)) # 0 /\ Len(Front(p)) \in Nat
      BY <3>1, EmptySeq, LenProperties
    <3>3. Front(p) # <<>> => Len(p) > 1
      BY <3>1, <3>2
    <3>. QED  BY <3>1, <3>3, <2>1
  <2>3. \A p \in empty : p \in tree
    OBVIOUS
  <2>. QED  BY <2>1, <2>2, <2>3 DEF IsTree
<1> HIDE DEF dirs, tree
<1>4. ASSUME NEW dir \in dirs, NEW filter \in FileFilters, NEW depth \in 0..3
      PROVE  CollectRecursive(tree, dirs, dir, depth, filter[1], filter[2]) = Reach(tree, dirs, dir, depth, filter)
  <2>1. depth \in Nat
    OBVIOUS
  <2>. QED  BY <1>3, <2>1, RecursiveReach DEF Reach
<1>5. ASSUME NEW dir \in dirs, NEW filter \in FileFilters, NEW c \in Children(tree, dir)
      PROVE  CollectNeighbors(tree, dirs, c, filter[1], filter[2]) = Reach(tree, dirs, dir, 1, filter)
  <2>1. Front(c) = dir /\ dir \in Seq(Names) /\ Len(dir) \in Nat
    BY <1>3, LenProperties DEF Children, IsTree
  <2>2. \A p \in tree : p # <<>> /\ Len(p) \in Nat
    BY <1>3, LenProperties DEF IsTree
  <2>3. \A p \in tree : Front(p) = dir <=> IsPrefix(dir, p) /\ Len(p) = Len(dir) + (0 + 1)
    BY <1>3, LevelIsBelow
  <2>4. \A a, b \in Nat : a = b + (0 + 1) <=> a - b \in 1..1
    OBVIOUS
  <2>5. \A p \in tree : Front(p) = dir <=> IsPrefix(dir, p) /\ Len(p) - Len(dir) \in 1..1
    BY <2>1, <2>2, <2>3, <2>4
  <2>. PICK wl, bl : wl = filter[1] /\ bl = filter[2]
    OBVIOUS
  <2>6. \A p : p \in FilesKept(tree, dirs, dir, wl, bl)
                 <=> p \in tree \ dirs /\ Front(p) = dir /\ PassesFilter(p, wl, bl)
    BY <2>2 DEF FilesKept, Children
  <2>7. \A p : p \in Reach(tree, dirs, dir, 1, filter)
                 <=> p \in tree \ dirs /\ Front(p) = dir /\ PassesFilter(p, wl, bl)
    BY <2>5 DEF Reach
  <2>8. CollectNeighbors(tree, dirs, c, wl, bl) = FilesKept(tree, dirs, dir, wl, bl)
    BY <2>1 DEF CollectNeighbors
  <2>9. FilesKept(tree, dirs, dir, wl, bl) = Reach(tree, dirs, dir, 1, filter)
    BY <2>6, <2>7, Zenon
  <2>. QED  BY <2>8, <2>9
<1>6. ReachesFiles(tree, dirs)
  BY <1>4, <1>5, Zenon DEF ReachesFiles
<1>. QED  BY <1>6 DEF dirs, tree

-----------------------------------------------------------------------------
(* The process filter.                                                     *)

\* The chain of a process: its definition by recursion has a solution.
LEMMA ChainSteps ==
  ASSUME NEW parent \in [Pids -> Pids], NEW pid \in Pids
  PROVE  LET chain == ChainEnd(parent, pid) IN
         /\ chain \in [0..AncestorDepth -> Pids] /\ chain[0] = pid
         /\ \A n \in 1..AncestorDepth : chain[n] = Up(parent, chain[n - 1])
<1> DEFINE step == [i \in Nat |-> [v \in Pids |-> Up(parent, v)]]
           IsChain(c) == c = [n \in 0..AncestorDepth |-> IF n = 0 THEN pid ELSE Up(parent, c[n - 1])]
           chain == CHOOSE c : IsChain(c)
<1>1. AncestorDepth \in Nat /\ \A v \in Pids : Up(parent, v) \in Pids
  BY PresetsAssumption DEF Up
<1>2. step \in [Nat -> [Pids -> Pids]]
  BY <1>1
<1>3. \A i \in Nat, v \in Pids : step[i][v] = Up(parent, v)
  OBVIOUS
<1> HIDE DEF step
<1>4. PICK g \in [0..AncestorDepth -> Pids] : RecursiveTo(AncestorDepth, pid, step, g)
  BY <1>1, <1>2, RecursionExists
<1>5. IsChain(g)
  <2>1. \A i \in 0..AncestorDepth : i # 0 => i \in Nat /\ i - 1 \in 0..AncestorDepth
    BY <1>1
  <2>2. \A i \in 0..AncestorDepth : i # 0 => step[i][g[i - 1]] = Up(parent, g[i - 1])
    BY <2>1, <1>3
  <2>. QED  BY <1>4, <2>2 DEF RecursiveTo
<1>6. IsChain(chain)
  BY <1>5
<1>7. ChainEnd(parent, pid) = chain
  BY DEF ChainEnd
<1> HIDE DEF chain
<1>8. chain[0] = pid /\ DOMAIN chain = 0..AncestorDepth
  BY <1>6, <1>1
<1>9. \A n \in 1..AncestorDepth : n \in 0..AncestorDepth /\ n # 0 /\ n - 1 \in 0..AncestorDepth
  BY <1>1
<1>10. \A n \in 1..AncestorDepth : chain[n] = Up(parent, chain[n - 1])
  BY <1>6, <1>9
<1>11. \A n \in 0..AncestorDepth : chain[n] \in Pids
  <2> DEFINE P == {n \in Nat : n \in 0..AncestorDepth => chain[n] \in Pids}
  <2>1. 0 \in P
    BY <1>8
  <2>2. ASSUME NEW n \in P PROVE n + 1 \in P
    <3>1. n + 1 \in 0..AncestorDepth => n \in 0..AncestorDepth /\ n + 1 \in 1..AncestorDepth /\ (n + 1) - 1 = n
      BY <1>1
    <3>. QED  BY <3>1, <2>2, <1>1, <1>10
  <2>3. P = Nat
    BY <2>1, <2>2, NumberInduction
  <2>. QED  BY <2>3
<1>12. chain \in [0..AncestorDepth -> Pids]
  BY <1>6, <1>8, <1>11
<1>. QED  BY <1>7, <1>8, <1>10, <1>12

\* A process is on the chain exactly if the opener descends from it, or is it.
LEMMA ChainIsDescent ==
  ASSUME NEW parent \in [Pids -> Pids], NEW p \in Pids \ {1}, NEW q \in Pids \ {1}, p # q
  PROVE  \A named : q \in CollectAncestors(parent, named, p)
                      <=> q \in named /\ \E n \in 1..AncestorDepth : Descends(parent, p, q, n)
<1> DEFINE chain == ChainEnd(parent, p)
<1>0. AncestorDepth \in Nat
  BY PresetsAssumption
<1>1. /\ chain \in [0..AncestorDepth -> Pids] /\ chain[0] = p
      /\ \A n \in 1..AncestorDepth : chain[n] = Up(parent, chain[n - 1])
  BY ChainSteps
<1> HIDE DEF chain
<1>2. \A x \in Pids : x \in Nat /\ x # 0 /\ (x <= 1 <=> x = 1)
  BY PresetsAssumption
<1>3. \A named : q \in CollectAncestors(parent, named, p) <=> q \in named /\ \E n \in 1..AncestorDepth : chain[n] = q
  BY DEF CollectAncestors, chain
<1>4. ASSUME NEW n \in 1..AncestorDepth, Descends(parent, p, q, n) PROVE chain[n] = q
  <2>1. PICK path \in [0..n -> Pids \ {1}] :
          path[0] = p /\ path[n] = q /\ \A i \in 1..n : path[i] = parent[path[i - 1]]
    BY <1>4 DEF Descends
  <2> DEFINE P == {i \in Nat : i \in 0..n => chain[i] = path[i]}
  <2>2. 0 \in P
    BY <1>1, <2>1
  <2>3. ASSUME NEW i \in P PROVE i + 1 \in P
    <3> SUFFICES ASSUME i + 1 \in 0..n PROVE chain[i + 1] = path[i + 1]
      OBVIOUS
    <3>1. i \in 0..n /\ i + 1 \in 1..n /\ (i + 1) - 1 = i /\ i + 1 \in 1..AncestorDepth
      BY <1>0
    <3>2. chain[i] = path[i] /\ path[i] \in Pids \ {1} /\ path[i + 1] \in Pids \ {1} /\ path[i + 1] = parent[path[i]]
      BY <3>1, <2>1
    <3>3. Up(parent, path[i]) = parent[path[i]]
      BY <3>2, <1>2 DEF Up
    <3>. QED  BY <3>1, <3>2, <3>3, <1>1
  <2>4. P = Nat
    BY <2>2, <2>3, NumberInduction
  <2>. QED  BY <2>4, <2>1
<1>5. ASSUME NEW n \in 1..AncestorDepth PROVE \E m \in 0..n : Descends(parent, p, chain[n], m)
  <2> DEFINE P == {i \in Nat : i \in 0..AncestorDepth => \E m \in 0..i : Descends(parent, p, chain[i], m)}
  <2>1. 0 \in P
    <3> DEFINE path == [i \in 0..0 |-> p]
    <3>1. path \in [0..0 -> Pids \ {1}] /\ path[0] = p /\ \A i \in 1..0 : path[i] = parent[path[i - 1]]
      OBVIOUS
    <3> HIDE DEF path
    <3>2. Descends(parent, p, chain[0], 0)
      BY <3>1, <1>1 DEF Descends
    <3>. QED  BY <3>2
  <2>2. ASSUME NEW i \in P PROVE i + 1 \in P
    <3> SUFFICES ASSUME i + 1 \in 0..AncestorDepth PROVE \E m \in 0..(i + 1) : Descends(parent, p, chain[i + 1], m)
      OBVIOUS
    <3>1. i \in 0..AncestorDepth /\ i + 1 \in 1..AncestorDepth /\ (i + 1) - 1 = i
      BY <1>0
    <3>2. PICK m \in 0..i : Descends(parent, p, chain[i], m)
      BY <3>1
    <3>3. chain[i + 1] = Up(parent, chain[i])
      BY <3>1, <1>1
    <3>4. CASE chain[i + 1] = chain[i]
      BY <3>2, <3>4
    <3>5. CASE chain[i + 1] # chain[i]
      <4>1. chain[i + 1] = parent[chain[i]] /\ chain[i + 1] \in Pids \ {1}
        BY <3>1, <3>3, <3>5, <1>1, <1>2 DEF Up
      <4>2. PICK path \in [0..m -> Pids \ {1}] :
              path[0] = p /\ path[m] = chain[i] /\ \A j \in 1..m : path[j] = parent[path[j - 1]]
        BY <3>2 DEF Descends
      <4> DEFINE longer == [j \in 0..(m + 1) |-> IF j = m + 1 THEN chain[i + 1] ELSE path[j]]
      <4>3. /\ m + 1 \in 0..(i + 1) /\ 0 \in 0..(m + 1) /\ 0 # m + 1 /\ m + 1 \in 0..(m + 1)
            /\ \A j \in 0..(m + 1) : j # m + 1 => j \in 0..m
            /\ \A j \in 1..(m + 1) : /\ j \in 0..(m + 1) /\ j - 1 \in 0..(m + 1) /\ j - 1 # m + 1
                                     /\ (j = m + 1 => j - 1 = m) /\ (j # m + 1 => j \in 1..m)
        OBVIOUS
      <4>4. longer \in [0..(m + 1) -> Pids \ {1}]
        BY <4>1, <4>2, <4>3
      <4>5. longer[0] = p /\ longer[m + 1] = chain[i + 1]
        BY <4>2, <4>3
      <4>6. ASSUME NEW j \in 1..(m + 1) PROVE longer[j] = parent[longer[j - 1]]
        <5>1. CASE j = m + 1
          BY <5>1, <4>1, <4>2, <4>3
        <5>2. CASE j # m + 1
          BY <5>2, <4>2, <4>3
        <5>. QED  BY <5>1, <5>2
      <4> HIDE DEF longer
      <4>7. Descends(parent, p, chain[i + 1], m + 1)
        BY <4>4, <4>5, <4>6 DEF Descends
      <4>. QED  BY <4>3, <4>7
    <3>. QED  BY <3>4, <3>5
  <2>3. P = Nat
    BY <2>1, <2>2, NumberInduction
  <2>4. n \in Nat /\ n \in 0..AncestorDepth
    BY <1>0
  <2>. QED  BY <2>3, <2>4
<1>6. ~Descends(parent, p, q, 0)
  BY DEF Descends
<1>7. ASSUME NEW n \in 1..AncestorDepth, chain[n] = q
      PROVE  \E m \in 1..AncestorDepth : Descends(parent, p, q, m)
  <2>1. PICK m \in 0..n : Descends(parent, p, q, m)
    BY <1>5, <1>7
  <2>2. m # 0
    BY <2>1, <1>6
  <2>3. m \in 1..AncestorDepth
    BY <2>2, <1>0
  <2>. QED  BY <2>1, <2>3
<1>. QED  BY <1>3, <1>4, <1>7

\* A step of the scan as a record.
IsScanned(r, a, b) == r = [prev |-> a, found |-> b]

LEMMA ScanRecord ==
  ASSUME NEW a, NEW b, NEW r, IsScanned(r, a, b)
  PROVE  /\ r.prev = a /\ r.found = b
         /\ \A T : a \in T /\ b \in BOOLEAN => r \in [prev : T, found : BOOLEAN]
  BY DEF IsScanned

\* The scan of a command line: its definition by recursion has a solution.
LEMMA ScanSteps ==
  ASSUME NEW c \in Seq(Tokens)
  PROVE  \E scan \in [0..Len(c) -> [prev : Tokens \cup {""}, found : BOOLEAN]] :
           /\ IsScanned(scan[0], "", FALSE)
           /\ \A n \in 1..Len(c) : IsScanned(scan[n], c[n], SeenSoFar(scan[n - 1], c[n]))
           /\ IsPlexPlayback(c) = scan[Len(c)].found
<1>0. \A i \in 1..Len(c) : c[i] \in Tokens
  OBVIOUS
<1> DEFINE V == [prev : Tokens \cup {""}, found : BOOLEAN]
           N == Len(c)
           none == [prev |-> "", found |-> FALSE]
           Next1(i, v) == [prev |-> c[i], found |-> SeenSoFar(v, c[i])]
           step == [i \in Nat |-> [v \in V |-> IF i \in 1..N THEN Next1(i, v) ELSE v]]
           IsScan(s) == s = [n \in 0..N |-> IF n = 0 THEN none ELSE Next1(n, s[n - 1])]
           scan == CHOOSE s : IsScan(s)
<1>1. N \in Nat /\ DOMAIN c = 1..N /\ none \in V
  BY LenProperties
<1>2. ASSUME NEW i \in 1..N, NEW v \in V PROVE Next1(i, v) \in V
  <2>1. c[i] \in Tokens
    BY <1>0
  <2>2. SeenSoFar(v, c[i]) \in BOOLEAN
    BY Zenon DEF SeenSoFar
  <2>3. c[i] \in Tokens \cup {""}
    BY <2>1
  <2>4. IsScanned(Next1(i, v), c[i], SeenSoFar(v, c[i]))
    BY DEF IsScanned
  <2> HIDE DEF Next1
  <2>. QED  BY <2>2, <2>3, <2>4, ScanRecord
<1> HIDE DEF Next1, V, none, N
<1>3. step \in [Nat -> [V -> V]]
  BY <1>2
<1>4. \A i \in 1..N, v \in V : i \in Nat /\ step[i][v] = Next1(i, v)
  BY <1>1
<1> HIDE DEF step
<1>5. PICK g \in [0..N -> V] : RecursiveTo(N, none, step, g)
  BY <1>1, <1>3, RecursionExists
<1>6. IsScan(g)
  <2>1. \A i \in 0..N : i # 0 => i \in 1..N /\ i - 1 \in 0..N
    BY <1>1
  <2>2. \A i \in 0..N : i # 0 => step[i][g[i - 1]] = Next1(i, g[i - 1])
    BY <2>1, <1>4
  <2>. QED  BY <1>5, <2>2 DEF RecursiveTo
<1>7. IsScan(scan)
  BY <1>6
<1>8. IsPlexPlayback(c) = scan[N].found
  BY DEF IsPlexPlayback, Next1, none, N
<1> HIDE DEF scan
<1>9. scan[0] = none /\ DOMAIN scan = 0..N
  BY <1>7, <1>1
<1>10. \A n \in 1..N : n \in 0..N /\ n # 0 /\ n - 1 \in 0..N
  BY <1>1
<1>11. \A n \in 1..N : scan[n] = Next1(n, scan[n - 1])
  BY <1>7, <1>10
<1>12. \A n \in 0..N : scan[n] \in V
  <2> DEFINE P == {n \in Nat : n \in 0..N => scan[n] \in V}
  <2>1. 0 \in P
    BY <1>1, <1>9
  <2>2. ASSUME NEW n \in P PROVE n + 1 \in P
    <3>1. n + 1 \in 0..N => n \in 0..N /\ n + 1 \in 1..N /\ (n + 1) - 1 = n
      BY <1>1
    <3>. QED  BY <3>1, <2>2, <1>2, <1>11
  <2>3. P = Nat
    BY <2>1, <2>2, NumberInduction
  <2>4. \A n \in 0..N : n \in Nat
    BY <1>1
  <2>. QED  BY <2>3, <2>4
<1>13. scan \in [0..N -> V]
  BY <1>7, <1>9, <1>12
<1>14. IsScanned(scan[0], "", FALSE)
  BY <1>9 DEF none, IsScanned
<1>15. \A n \in 1..N : IsScanned(scan[n], c[n], SeenSoFar(scan[n - 1], c[n]))
  BY <1>11 DEF Next1, IsScanned
<1>. QED  BY <1>8, <1>13, <1>14, <1>15 DEF V, N

\* is_plex_playback_cmdline: a streaming format follows -f somewhere.
LEMMA PlaybackIsStreaming ==
  ASSUME NEW c \in Seq(Tokens)
  PROVE  IsPlexPlayback(c) <=> \E i \in 1..(Len(c) - 1) : Muxes(c[i], c[i + 1])
<1>1. PICK scan :
        /\ scan \in [0..Len(c) -> [prev : Tokens \cup {""}, found : BOOLEAN]]
        /\ IsScanned(scan[0], "", FALSE)
        /\ \A n \in 1..Len(c) : IsScanned(scan[n], c[n], SeenSoFar(scan[n - 1], c[n]))
        /\ IsPlexPlayback(c) = scan[Len(c)].found
  BY ScanSteps
<1>2. PICK N \in Nat : N = Len(c)
  BY LenProperties
<1>3. ~scan[0].found /\ scan[0].prev = ""
  <2>1. scan[0].prev = "" /\ scan[0].found = FALSE
    <3>1. IsScanned(scan[0], "", FALSE)
      BY <1>1
    <3>2. PICK r, b : r = scan[0] /\ b = FALSE /\ IsScanned(r, "", b)
      BY <3>1
    <3>3. r.prev = "" /\ r.found = b
      BY <3>2, ScanRecord
    <3>. QED  BY <3>2, <3>3
  <2>. QED  BY <2>1, Zenon
<1>4. ASSUME NEW n \in 1..N
      PROVE  scan[n].prev = c[n] /\ (scan[n].found <=> scan[n - 1].found \/ Muxes(scan[n - 1].prev, c[n]))
  <2>1. IsScanned(scan[n], c[n], SeenSoFar(scan[n - 1], c[n]))
    BY <1>1, <1>2
  <2>2. scan[n].prev = c[n] /\ scan[n].found = SeenSoFar(scan[n - 1], c[n])
    BY <2>1, ScanRecord
  <2>. QED  BY <2>2, Zenon DEF SeenSoFar
<1>5. ~Muxes(scan[0].prev, c[1])
  BY <1>3 DEF Muxes
<1> DEFINE Seen(n) == \E i \in 1..(n - 1) : Muxes(c[i], c[i + 1])
           P == {n \in Nat : n \in 0..N => (scan[n].found <=> Seen(n))}
<1>6. \A n \in Nat : /\ n + 1 \in 0..N => n \in 0..N /\ n + 1 \in 1..N
                     /\ (n + 1) - 1 = n /\ n # 0 => n \in 1..n
                     /\ n # 0 /\ n \in 0..N => n \in 1..N
                     /\ \A i \in 1..n : i \in 1..(n - 1) \/ i = n
                     /\ \A i \in 1..(n - 1) : i \in 1..n
                     /\ n \in 0..n
  OBVIOUS
<1>7. 0 \in P
  <2>1. ~Seen(0) /\ 0 \in Nat
    OBVIOUS
  <2>2. scan[0].found <=> Seen(0)
    BY <2>1, <1>3, Zenon
  <2>. QED  BY <2>2
<1>8. ASSUME NEW n \in P PROVE n + 1 \in P
  <2> SUFFICES ASSUME n + 1 \in 0..N PROVE scan[n + 1].found <=> Seen(n + 1)
    OBVIOUS
  <2>1. n \in Nat /\ n \in 0..N /\ n + 1 \in 1..N /\ (n + 1) - 1 = n
    BY <1>6
  <2>2. scan[n].found <=> Seen(n)
    BY <2>1
  <2>3. scan[n + 1].found <=> scan[n].found \/ Muxes(scan[n].prev, c[n + 1])
    BY <2>1, <1>4
  <2>4. CASE n = 0
    <3>0. n + 1 = 1
      BY <2>4
    <3>1. ~scan[n].found /\ ~Muxes(scan[n].prev, c[n + 1])
      BY <2>4, <3>0, <1>3, <1>5, Zenon
    <3>2. ~Seen(n + 1)
      BY <2>4
    <3>. QED  BY <2>3, <3>1, <3>2
  <2>5. CASE n # 0
    <3>1. scan[n].prev = c[n]
      BY <2>1, <2>5, <1>4, <1>6
    <3>2. Seen(n + 1) <=> Seen(n) \/ Muxes(c[n], c[n + 1])
      BY <2>1, <2>5, <1>6
    <3>. QED  BY <2>2, <2>3, <3>1, <3>2
  <2>. QED  BY <2>4, <2>5
<1>9. P = Nat
  BY <1>7, <1>8, NumberInduction
<1>10. scan[N].found <=> Seen(N)
  BY <1>9, <1>6
<1>. QED  BY <1>1, <1>2, <1>10

\* The filters let through what they should and nothing else, for any number of
\* processes, any lists and any depth of the chain (and, by the lemma above,
\* for a command line of any length, not only the ones of Inputs): an opener
\* is filtered exactly if it or a process it descends from in at most
\* AncestorDepth steps is on the blocklist, or there is an allowlist without
\* it (collect_ancestors, should_filter), and a transcoder plays exactly if
\* some output has a streaming format (is_plex_playback_cmdline).
THEOREM FiltersAreExact == PresetsInit => FilterIsExact
<1> SUFFICES ASSUME PresetsInit PROVE FilterIsExact
  OBVIOUS
<1>1. ASSUME input.about = "processes", NEW p \in Pids \ {1}, NEW named \in SUBSET (Pids \ {1}),
             NEW allow \in SUBSET (Pids \ {1}), NEW block \in SUBSET (Pids \ {1})
      PROVE  PolicyFilters(p, named, CollectAncestors(input.parent, named, p), allow, block)
               <=> \/ Lineage(input.parent, p) \cap named \cap block # {}
                   \/ allow # {} /\ p \notin named \cap allow
  <2>1. input.parent \in [Pids -> Pids]
    BY <1>1 DEF PresetsInit, Inputs, Parents
  <2>2. PICK parent \in [Pids -> Pids] : parent = input.parent
    BY <2>1
  <2>3. AncestorDepth \in Nat
    BY PresetsAssumption
  <2>4. \A q \in Pids \ {1} : q \in Lineage(parent, p)
                              <=> q = p \/ \E n \in 1..AncestorDepth : Descends(parent, p, q, n)
    <3>1. Descends(parent, p, p, 0)
      <4> DEFINE path == [i \in 0..0 |-> p]
      <4>1. path \in [0..0 -> Pids \ {1}] /\ path[0] = p /\ \A i \in 1..0 : path[i] = parent[path[i - 1]]
        OBVIOUS
      <4> HIDE DEF path
      <4>. QED  BY <4>1 DEF Descends
    <3>2. \A q : Descends(parent, p, q, 0) => q = p
      BY DEF Descends
    <3>3. \A n \in 0..AncestorDepth : n = 0 \/ n \in 1..AncestorDepth
      BY <2>3
    <3>4. 0 \in 0..AncestorDepth /\ \A n \in 1..AncestorDepth : n \in 0..AncestorDepth
      BY <2>3
    <3>. QED  BY <3>1, <3>2, <3>3, <3>4 DEF Lineage
  <2>5. \A q \in Pids \ {1} : q # p => (q \in CollectAncestors(parent, named, p) <=> q \in named /\ q \in Lineage(parent, p))
    BY <2>4, ChainIsDescent
  <2>6. p \in Lineage(parent, p) /\ p \notin CollectAncestors(parent, named, p)
    BY <2>4 DEF CollectAncestors
  <2>7. Blocked(p, named, CollectAncestors(parent, named, p), block)
          <=> Lineage(parent, p) \cap named \cap block # {}
    <3>1. \A q : q \in block => q \in Pids \ {1}
      OBVIOUS
    <3>2. \A q \in block : q \in named /\ q \in Lineage(parent, p)
                            <=> (q = p /\ p \in named) \/ q \in CollectAncestors(parent, named, p)
      BY <2>5, <2>6, <3>1
    <3>. QED  BY <3>2, Zenon DEF Blocked, MatchesOpener
  <2>. QED  BY <2>2, <2>7 DEF PolicyFilters, MatchesOpener
<1>2. ASSUME input.about = "cmdline", NEW policy \in BOOLEAN
      PROVE  ~PlexFilters(policy, TRUE, input.cmdline)
               <=> /\ ~policy
                   /\ \E i \in 1..(Len(input.cmdline) - 1) : Muxes(input.cmdline[i], input.cmdline[i + 1])
  <2>1. input.cmdline \in Seq(Tokens)
    <3>1. input.cmdline \in BoundedSeq(Tokens, 5)
      BY <1>2 DEF PresetsInit, Inputs
    <3>2. PICK n \in 0..5 : input.cmdline \in [1..n -> Tokens]
      BY <3>1 DEF BoundedSeq, SeqOf
    <3>. QED  BY <3>2
  <2>2. PICK c \in Seq(Tokens) : c = input.cmdline
    BY <2>1
  <2>3. c = <<>> => ~\E i \in 1..(Len(c) - 1) : Muxes(c[i], c[i + 1])
    OBVIOUS
  <2>4. IsPlexPlayback(c) <=> \E i \in 1..(Len(c) - 1) : Muxes(c[i], c[i + 1])
    BY PlaybackIsStreaming
  <2>. QED  BY <2>2, <2>3, <2>4 DEF PlexFilters
<1>. QED  BY <1>1, <1>2 DEF FilterIsExact

-----------------------------------------------------------------------------
(* The caching window.                                                     *)

\* The caching window of is_allowed_at is the stretch of the clock from its
\* start for as long as its end is away, for every length of the day, whether
\* or not midnight lies in it.
THEOREM WindowsAreStretches == PresetsInit => WindowIsStretch
<1> SUFFICES ASSUME PresetsInit, input.about = "window", NEW now \in InDay
             PROVE  IsAllowedAt(input.start, input.end, now)
                      <=> (now - input.start) % DayMinutes < (input.end - input.start) % DayMinutes
  BY DEF WindowIsStretch
<1>1. input.start \in InDay /\ input.end \in InDay
  BY DEF PresetsInit, Inputs
<1>. PICK s \in Int, e \in Int, D \in Nat \ {0}, n \in Int :
       /\ s = input.start /\ e = input.end /\ D = DayMinutes /\ n = now
       /\ s >= 0 /\ s < D /\ e >= 0 /\ e < D /\ n >= 0 /\ n < D
  BY <1>1, PresetsAssumption DEF InDay
<1>2. \A x \in Int : (x >= 0 /\ x < D => x % D = x) /\ (x < 0 /\ x > 0 - D => x % D = x + D)
  OBVIOUS
<1>3. /\ (n - s) % D = IF n >= s THEN n - s ELSE n - s + D
      /\ (e - s) % D = IF e >= s THEN e - s ELSE e - s + D
  BY <1>2
<1>. QED  BY <1>3 DEF IsAllowedAt, WrapsMidnight
=============================================================================

---------------------------- MODULE AccessProofs ----------------------------
(***************************************************************************)
(* Proofs about module Access, for every set of paths and descriptors,     *)
(* every size, floor, minimum access time and budget: types, the maps of   *)
(* the session (MapsMatchDescriptors), and that the access filter counts   *)
(* no handle that is not there (PendingIsOpen).                            *)
(*                                                                         *)
(* The last is a fact about a FIFO between two counters.  It is inductive  *)
(* once it is known that at every position of the channel the opens before *)
(* it, received or not, outnumber the closes (SeenInRange).                *)
(***************************************************************************)
EXTENDS Access, CollectionFacts, FunctionTheorems

Opens == {"Miss", "Hit"}
Closes == {"Close"}

\* The events of a kind in K about p that come after position k of a sequence.
After(s, p, K, k) == {i \in (k + 1)..Len(s) : s[i].path = p /\ s[i].kind \in K}
Readers(p) == {f \in Fds : openPaths[f] = p}

\* The reported handles of p that are open as far as the events up to k tell.
SeenAt(p, k) ==
  Cardinality(Readers(p)) - Cardinality(After(events, p, Opens, k)) + Cardinality(After(events, p, Closes, k))

\* At every position of the channel that is a possible number of descriptors.
SeenInRange == \A p \in Paths, k \in 0..Len(events) : SeenAt(p, k) \in 0..Cardinality(Fds)

AccessInv == TypeOK /\ MapsMatchDescriptors /\ SeenInRange /\ PendingIsOpen

-----------------------------------------------------------------------------
(* Counting.                                                               *)

LEMMA AfterFinite ==
  ASSUME NEW s \in Seq(Events), NEW p, NEW K, NEW k \in Nat
  PROVE  IsFiniteSet(After(s, p, K, k)) /\ Cardinality(After(s, p, K, k)) \in Nat
<1>1. Len(s) \in Nat /\ k + 1 \in Int
  BY LenProperties
<1>2. IsFiniteSet((k + 1)..Len(s))
  BY <1>1, FS_Interval
<1>3. After(s, p, K, k) \in SUBSET ((k + 1)..Len(s))
  BY DEF After
<1>. QED  BY <1>2, <1>3, FS_Subset, FS_CardinalityType

\* An event that is sent counts at every position before it.
LEMMA AfterAppend ==
  ASSUME NEW s \in Seq(Events), NEW e \in Events, NEW p, NEW K, NEW k \in 0..Len(s)
  PROVE  Cardinality(After(Append(s, e), p, K, k)) =
           Cardinality(After(s, p, K, k)) + (IF e.path = p /\ e.kind \in K THEN 1 ELSE 0)
<1>. PICK n \in Nat : n = Len(s) /\ k \in Nat /\ k <= n
  BY LenProperties
<1>. PICK t \in Seq(Events) : t = Append(s, e)
  BY AppendProperties
<1>1. Len(t) = n + 1 /\ (\A i \in 1..n : t[i] = s[i]) /\ t[n + 1] = e
  BY AppendProperties
<1>2. IsFiniteSet(After(s, p, K, k)) /\ Cardinality(After(s, p, K, k)) \in Nat /\ n + 1 \notin After(s, p, K, k)
  <2>1. n + 1 \notin After(s, p, K, k)
    BY DEF After
  <2>. QED  BY <2>1, AfterFinite
<1>3. CASE e.path = p /\ e.kind \in K
  <2>1. After(t, p, K, k) = After(s, p, K, k) \cup {n + 1}
    BY <1>1, <1>3 DEF After
  <2>. QED  BY <1>2, <1>3, <2>1, FS_AddElement
<1>4. CASE ~(e.path = p /\ e.kind \in K)
  <2>1. After(t, p, K, k) = After(s, p, K, k)
    BY <1>1, <1>4 DEF After
  <2>. QED  BY <1>2, <1>4, <2>1
<1>. QED  BY <1>3, <1>4

\* Nothing comes after the end.
LEMMA AfterEnd ==
  ASSUME NEW s \in Seq(Events), NEW p, NEW K
  PROVE  Cardinality(After(s, p, K, Len(s))) = 0
<1>1. Len(s) \in Nat
  BY LenProperties
<1>2. After(s, p, K, Len(s)) = {}
  BY <1>1 DEF After
<1>. QED  BY <1>2, FS_EmptySet

\* The events behind the head, by the positions they move to.
LEMMA AfterTail ==
  ASSUME NEW s \in Seq(Events), s # <<>>, NEW p, NEW K, NEW k \in 0..(Len(s) - 1)
  PROVE  Cardinality(After(Tail(s), p, K, k)) = Cardinality(After(s, p, K, k + 1))
<1>. PICK n \in Nat : n = Len(s) /\ k \in Nat
  BY LenProperties
<1>. PICK t : t = Tail(s)
  OBVIOUS
<1>. PICK A : A = After(t, p, K, k)
  OBVIOUS
<1>. PICK B : B = After(s, p, K, k + 1)
  OBVIOUS
<1>1. t \in Seq(Events) /\ Len(t) = n - 1 /\ \A i \in 1..(n - 1) : t[i] = s[i + 1]
  BY HeadTailProperties
<1>. PICK g : g = [i \in A |-> i + 1]
  OBVIOUS
<1>2. A \subseteq Nat /\ B \subseteq Nat
  BY <1>1 DEF After
<1>3. \A i \in A : i + 1 \in B
  BY <1>1 DEF After
<1>4. \A i \in B : i - 1 \in A /\ (i - 1) + 1 = i
  BY <1>1 DEF After
<1>5. g \in Bijection(A, B)
  <2>1. g \in [A -> B]
    BY <1>3
  <2>2. \A a, b \in A : g[a] = g[b] => a = b
    BY <1>2
  <2>3. \A b \in B : \E a \in A : g[a] = b
    BY <1>4
  <2>. QED  BY <2>1, <2>2, <2>3, Fun_IsBij
<1>6. IsFiniteSet(A) /\ ExistsBijection(A, B)
  BY <1>1, <1>5, AfterFinite, Fun_ExistsBij
<1>. QED  BY <1>6, FS_Bijection

\* An event that is received counts no longer.
LEMMA AfterHead ==
  ASSUME NEW s \in Seq(Events), s # <<>>, NEW p, NEW K
  PROVE  Cardinality(After(s, p, K, 0)) =
           Cardinality(After(s, p, K, 1)) + (IF Head(s).path = p /\ Head(s).kind \in K THEN 1 ELSE 0)
<1>. PICK n \in Nat : n = Len(s) /\ n > 0
  BY LenProperties, EmptySeq
<1>1. Head(s) = s[1]
  BY HeadTailProperties
<1>2. IsFiniteSet(After(s, p, K, 1)) /\ Cardinality(After(s, p, K, 1)) \in Nat /\ 1 \notin After(s, p, K, 1)
  <2>1. 1 \notin After(s, p, K, 1)
    BY DEF After
  <2>. QED  BY <2>1, AfterFinite
<1>3. CASE s[1].path = p /\ s[1].kind \in K
  <2>1. After(s, p, K, 0) = After(s, p, K, 1) \cup {1}
    BY <1>3 DEF After
  <2>. QED  BY <1>1, <1>2, <1>3, <2>1, FS_AddElement
<1>4. CASE ~(s[1].path = p /\ s[1].kind \in K)
  <2>1. After(s, p, K, 0) = After(s, p, K, 1)
    <3>1. \A i \in 1..n : i = 1 \/ i \in 2..n
      OBVIOUS
    <3>. QED  BY <1>4, <3>1 DEF After
  <2>. QED  BY <1>1, <1>2, <1>4, <2>1
<1>. QED  BY <1>3, <1>4

\* The counts of the property are those at the front of the channel.
LEMMA AfterFront ==
  ASSUME NEW s \in Seq(Events), NEW p
  PROVE  /\ {i \in DOMAIN s : s[i].path = p /\ s[i].kind # "Close"} = After(s, p, Opens, 0)
         /\ {i \in DOMAIN s : s[i].path = p /\ s[i].kind = "Close"} = After(s, p, Closes, 0)
<1>1. Len(s) \in Nat /\ DOMAIN s = 1..Len(s) /\ \A i \in 1..Len(s) : s[i] \in Events
  BY LenProperties, ElementOfSeq
<1>2. \A i \in 1..Len(s) : s[i].kind # "Close" <=> s[i].kind \in Opens
  BY <1>1 DEF Events, Opens
<1>. QED  BY <1>1, <1>2 DEF After, Closes

LEMMA SeenAtFront ==
  ASSUME events \in Seq(Events), NEW p
  PROVE  HandlesSeen(p) = SeenAt(p, 0)
  BY AfterFront DEF HandlesSeen, OpensSent, ClosesSent, SeenAt, Readers

LEMMA SeenAtFrontNext ==
  ASSUME events' \in Seq(Events), NEW p
  PROVE  HandlesSeen(p)' = SeenAt(p, 0)'
  BY AfterFront DEF HandlesSeen, OpensSent, ClosesSent, SeenAt, Readers

LEMMA ReadersCounted ==
  ASSUME NEW p
  PROVE  IsFiniteSet(Readers(p)) /\ Cardinality(Readers(p)) \in 0..Cardinality(Fds) /\ Cardinality(Fds) \in Nat
<1>1. IsFiniteSet(Fds) /\ Readers(p) \in SUBSET Fds
  BY AccessAssumption DEF Readers
<1>. QED  BY <1>1, FS_Subset, FS_CardinalityType

LEMMA ReadersCountedNext ==
  ASSUME NEW p
  PROVE  IsFiniteSet(Readers(p)') /\ Cardinality(Readers(p)') \in 0..Cardinality(Fds) /\ Cardinality(Fds) \in Nat
<1>1. IsFiniteSet(Fds) /\ Readers(p)' \in SUBSET Fds
  BY AccessAssumption DEF Readers
<1>. QED  BY <1>1, FS_Subset, FS_CardinalityType

\* What an event says of the handles of p.
Says(e, p) == IF e.path # p THEN 0 ELSE IF e.kind = "Close" THEN -1 ELSE 1

\* An event that is sent when the handle it is about appears or goes leaves
\* every count as it was, and adds the true one at the end.
LEMMA SentInRange ==
  ASSUME AccessInv, NEW e \in Events, events' = Append(events, e),
         \A p \in Paths : Cardinality(Readers(p)') = Cardinality(Readers(p)) + Says(e, p)
  PROVE  SeenInRange' /\ \A p \in Paths : HandlesSeen(p)' = HandlesSeen(p)
<1>. PICK n \in Nat : n = Len(events)
  BY LenProperties DEF AccessInv, TypeOK
<1>. PICK N \in Nat : N = Cardinality(Fds)
  BY ReadersCounted
<1>1. events \in Seq(Events) /\ events' \in Seq(Events) /\ Len(events') = n + 1
  BY AppendProperties DEF AccessInv, TypeOK
<1>2. ASSUME NEW p \in Paths, NEW k \in 0..n
      PROVE  SeenAt(p, k)' = SeenAt(p, k)
  <2>1. Cardinality(After(events', p, Opens, k)) =
          Cardinality(After(events, p, Opens, k)) + (IF e.path = p /\ e.kind \in Opens THEN 1 ELSE 0)
    BY <1>1, AfterAppend
  <2>2. Cardinality(After(events', p, Closes, k)) =
          Cardinality(After(events, p, Closes, k)) + (IF e.path = p /\ e.kind \in Closes THEN 1 ELSE 0)
    BY <1>1, AfterAppend
  <2>3. Says(e, p) = (IF e.path = p /\ e.kind \in Opens THEN 1 ELSE 0)
                     - (IF e.path = p /\ e.kind \in Closes THEN 1 ELSE 0)
    BY DEF Says, Opens, Closes, Events
  <2>4. /\ Cardinality(Readers(p)) \in Nat /\ Cardinality(After(events, p, Opens, k)) \in Nat
        /\ Cardinality(After(events, p, Closes, k)) \in Nat
    BY <1>1, ReadersCounted, AfterFinite
  <2>. PICK o \in {0, 1}, c \in {0, 1} :
            /\ o = (IF e.path = p /\ e.kind \in Opens THEN 1 ELSE 0)
            /\ c = (IF e.path = p /\ e.kind \in Closes THEN 1 ELSE 0)
    OBVIOUS
  <2>5. Cardinality(Readers(p)') = Cardinality(Readers(p)) + (o - c)
    BY <2>3
  <2>6. /\ Cardinality(After(events', p, Opens, k)) = Cardinality(After(events, p, Opens, k)) + o
        /\ Cardinality(After(events', p, Closes, k)) = Cardinality(After(events, p, Closes, k)) + c
    BY <2>1, <2>2
  <2>. QED  BY <2>4, <2>5, <2>6 DEF SeenAt
<1>3. ASSUME NEW p \in Paths
      PROVE  SeenAt(p, n + 1)' = Cardinality(Readers(p)')
  <2>1. Cardinality(After(events', p, Opens, n + 1)) = 0 /\ Cardinality(After(events', p, Closes, n + 1)) = 0
    BY <1>1, AfterEnd
  <2>. QED  BY <2>1, ReadersCountedNext DEF SeenAt
<1>4. SeenInRange'
  <2>1. ASSUME NEW p \in Paths, NEW k \in 0..(n + 1) PROVE SeenAt(p, k)' \in 0..N
    <3>1. CASE k = n + 1
      BY <1>3, <3>1, ReadersCountedNext
    <3>2. CASE k # n + 1
      <4>1. k \in 0..n
        BY <3>2
      <4>. QED  BY <1>2, <4>1 DEF AccessInv, SeenInRange
    <3>. QED  BY <3>1, <3>2
  <2>. QED  BY <1>1, <2>1 DEF SeenInRange
<1>5. \A p \in Paths : SeenAt(p, 0)' = SeenAt(p, 0)
  BY <1>2
<1>6. \A p \in Paths : HandlesSeen(p)' = SeenAt(p, 0)'
  BY <1>1, SeenAtFrontNext
<1>. QED  BY <1>1, <1>4, <1>5, <1>6, SeenAtFront

\* An event that is received is seen.
LEMMA ReceivedInRange ==
  ASSUME AccessInv, events # <<>>, events' = Tail(events), openPaths' = openPaths
  PROVE  /\ SeenInRange' /\ Head(events) \in Events
         /\ \A p \in Paths : /\ HandlesSeen(p) \in 0..Cardinality(Fds) /\ HandlesSeen(p)' \in 0..Cardinality(Fds)
                             /\ HandlesSeen(p)' = HandlesSeen(p) + Says(Head(events), p)
<1>. PICK n \in Nat : n = Len(events) /\ n > 0
  BY LenProperties, EmptySeq DEF AccessInv, TypeOK
<1>. PICK N \in Nat : N = Cardinality(Fds)
  BY ReadersCounted
<1>1. events \in Seq(Events) /\ events' \in Seq(Events) /\ Len(events') = n - 1 /\ Head(events) \in Events
  BY HeadTailProperties DEF AccessInv, TypeOK
<1>. PICK e \in Events : e = Head(events)
  BY <1>1
<1>2. ASSUME NEW p \in Paths, NEW k \in 0..(n - 1)
      PROVE  SeenAt(p, k)' = SeenAt(p, k + 1)
  <2>1. /\ Cardinality(After(events', p, Opens, k)) = Cardinality(After(events, p, Opens, k + 1))
        /\ Cardinality(After(events', p, Closes, k)) = Cardinality(After(events, p, Closes, k + 1))
    BY <1>1, AfterTail
  <2>2. Readers(p)' = Readers(p)
    BY DEF Readers
  <2>. QED  BY <2>1, <2>2 DEF SeenAt
<1>3. ASSUME NEW p \in Paths, NEW k \in 0..(n - 1) PROVE SeenAt(p, k)' \in 0..N
  <2>1. k + 1 \in 0..n
    OBVIOUS
  <2>. QED  BY <1>2, <2>1 DEF AccessInv, SeenInRange
<1>4. SeenInRange'
  BY <1>1, <1>3 DEF SeenInRange
<1>5. ASSUME NEW p \in Paths
      PROVE  SeenAt(p, 0) \in Int /\ SeenAt(p, 0)' = SeenAt(p, 0) + Says(e, p)
  <2>. PICK o \in {0, 1}, c \in {0, 1} :
            /\ o = (IF e.path = p /\ e.kind \in Opens THEN 1 ELSE 0)
            /\ c = (IF e.path = p /\ e.kind \in Closes THEN 1 ELSE 0)
    OBVIOUS
  <2>1. Says(e, p) = o - c
    BY DEF Says, Opens, Closes, Events
  <2>2. /\ Cardinality(After(events, p, Opens, 0)) = Cardinality(After(events, p, Opens, 1)) + o
        /\ Cardinality(After(events, p, Closes, 0)) = Cardinality(After(events, p, Closes, 1)) + c
    BY <1>1, AfterHead
  <2>3. /\ Cardinality(Readers(p)) \in Nat /\ Cardinality(After(events, p, Opens, 1)) \in Nat
        /\ Cardinality(After(events, p, Closes, 1)) \in Nat
    BY <1>1, ReadersCounted, AfterFinite
  <2>4. SeenAt(p, 0)' = SeenAt(p, 1)
    <3>1. 0 \in 0..(n - 1) /\ 0 + 1 = 1
      OBVIOUS
    <3>. QED  BY <1>2, <3>1
  <2>. QED  BY <2>1, <2>2, <2>3, <2>4 DEF SeenAt
<1>6. ASSUME NEW p \in Paths
      PROVE  /\ HandlesSeen(p) \in 0..N /\ HandlesSeen(p)' \in 0..N
             /\ HandlesSeen(p)' = HandlesSeen(p) + Says(e, p)
  <2>1. HandlesSeen(p) = SeenAt(p, 0) /\ HandlesSeen(p)' = SeenAt(p, 0)'
    BY <1>1, SeenAtFront, SeenAtFrontNext
  <2>2. SeenAt(p, 0) \in 0..N
    BY DEF AccessInv, SeenInRange
  <2>. QED  BY <1>3, <1>5, <2>1, <2>2
<1>. QED  BY <1>1, <1>4, <1>6

-----------------------------------------------------------------------------
(* The steps.                                                              *)

LEMMA AccessInitInv == Init => AccessInv
<1> SUFFICES ASSUME Init PROVE AccessInv
  OBVIOUS
<1>1. TypeOK
  <2>1. <<>> \in Seq(Events) /\ <<>> \in Seq(Paths) /\ Len(<<>>) = 0 /\ -1 \in -1..Size
    BY AccessAssumption, EmptySeq
  <2>. QED  BY <2>1, AccessAssumption DEF Init, TypeOK
<1>2. MapsMatchDescriptors
  BY AccessAssumption DEF Init, MapsMatchDescriptors
<1>3. PendingIsOpen
  BY DEF Init, PendingIsOpen
<1>4. SeenInRange
  <2>1. events \in Seq(Events) /\ Len(events) = 0
    BY <1>1, EmptySeq DEF Init, TypeOK
  <2>2. ASSUME NEW p \in Paths PROVE SeenAt(p, 0) \in 0..Cardinality(Fds)
    <3>1. Cardinality(After(events, p, Opens, 0)) = 0 /\ Cardinality(After(events, p, Closes, 0)) = 0
      BY <2>1, AfterEnd
    <3>. QED  BY <3>1, ReadersCounted DEF SeenAt
  <2>3. \A k \in 0..0 : k = 0
    OBVIOUS
  <2>. QED  BY <2>1, <2>2, <2>3 DEF SeenInRange
<1>. QED  BY <1>1, <1>2, <1>3, <1>4 DEF AccessInv

\* A step that changes neither the reported handles nor the channel, and that
\* counts no further handle.
LEMMA CountsKept ==
  ASSUME AccessInv, UNCHANGED <<openPaths, events>>,
         \A p \in Paths : pending'[p] = NoEntry
                          \/ (pending[p] # NoEntry /\ pending'[p].handles = pending[p].handles)
  PROVE  SeenInRange' /\ PendingIsOpen'
<1>1. \A p \in Paths : HandlesSeen(p)' = HandlesSeen(p)
  BY DEF HandlesSeen, OpensSent, ClosesSent
<1>2. SeenInRange'
  BY DEF AccessInv, SeenInRange, SeenAt, Readers
<1>. QED  BY <1>1, <1>2 DEF AccessInv, PendingIsOpen

LEMMA NotReportedInv ==
  ASSUME AccessInv, NEW f \in Fds, Read(f) \/ \E p \in Paths : Open(f, p, TRUE)
  PROVE  AccessInv'
<1>1. UNCHANGED <<openPaths, events, pending>>
  BY DEF Open, Read, engineVars
<1>2. SeenInRange' /\ PendingIsOpen'
  BY <1>1, CountsKept
<1>3. TypeOK'
  <2>1. fds' \subseteq Fds /\ UNCHANGED <<writePaths, appendHandles, storeVars, engineVars>>
    BY DEF Open, Read, AccessInv, TypeOK
  <2>2. openBytes' \in [Fds -> -1..Size]
    <3>1. openBytes \in [Fds -> -1..Size] /\ Size \in Nat
      BY AccessAssumption DEF AccessInv, TypeOK
    <3>2. CASE \E p \in Paths : Open(f, p, TRUE)
      BY <3>1, <3>2 DEF Open
    <3>3. CASE Read(f)
      <4>1. openBytes[f] + 1 \in -1..Size /\ openBytes' = [openBytes EXCEPT ![f] = openBytes[f] + 1]
        BY <3>1, <3>3 DEF Read
      <4>. QED  BY <3>1, <4>1
    <3>. QED  BY <3>2, <3>3
  <2>. QED  BY <1>1, <2>1, <2>2 DEF storeVars, engineVars, AccessInv, TypeOK
<1>4. MapsMatchDescriptors'
  BY AccessAssumption DEF Open, Read, AccessInv, TypeOK, MapsMatchDescriptors
<1>. QED  BY <1>2, <1>3, <1>4 DEF AccessInv

\* A write handle is opened, with or without a new file, or taken back.
LEMMA WriteHandleInv ==
  ASSUME AccessInv, NEW f \in Fds, NEW p \in Paths,
         CreateFails(f, p) \/ \E append \in BOOLEAN : OpenWrite(f, p, append) \/ Create(f, p, append)
  PROVE  AccessInv'
<1>1. /\ UNCHANGED <<openPaths, openBytes, events, pending, todo, cands, total, first, cached, jobs>>
      /\ live' \in {live, live \cup {p}} /\ f \notin fds
  BY DEF OpenWrite, Create, CreateFails, OpenWriteHandle, engineVars, storeVars
<1>2. SeenInRange' /\ PendingIsOpen'
  BY <1>1, CountsKept
<1>3. \/ /\ fds' = fds \cup {f} /\ writePaths' = [writePaths EXCEPT ![f] = p]
         /\ appendHandles' \in {appendHandles, appendHandles \cup {f}}
      \/ /\ fds' = fds /\ writePaths' = [writePaths EXCEPT ![f] = NoPath]
         /\ appendHandles' = appendHandles \ {f}
  BY DEF OpenWrite, Create, CreateFails, OpenWriteHandle
<1>4. TypeOK'
  <2>1. live' \subseteq Paths
    BY <1>1 DEF AccessInv, TypeOK
  <2>2. /\ fds' \subseteq Fds /\ appendHandles' \subseteq Fds
        /\ writePaths' \in [Fds -> Paths \cup {NoPath}]
    <3>1. fds \subseteq Fds /\ appendHandles \subseteq Fds /\ writePaths \in [Fds -> Paths \cup {NoPath}]
      BY DEF AccessInv, TypeOK
    <3>. QED  BY <1>3, <3>1
  <2>. QED  BY <1>1, <2>1, <2>2 DEF AccessInv, TypeOK
<1>5. MapsMatchDescriptors'
  BY <1>1, <1>3, AccessAssumption DEF AccessInv, TypeOK, MapsMatchDescriptors
<1>. QED  BY <1>2, <1>4, <1>5 DEF AccessInv

LEMMA OpenReportedInv ==
  ASSUME AccessInv, NEW f \in Fds, NEW p \in Paths, Open(f, p, FALSE)
  PROVE  AccessInv'
<1>. PICK e : e = [path |-> p, kind |-> Outcome(p, FALSE), bytes |-> 0]
  OBVIOUS
<1>1. e \in Events /\ e.path = p /\ e.kind \in Opens
  BY AccessAssumption DEF Events, Outcome, Opens
<1>2. /\ events' = Append(events, e) /\ Len(events) < MaxEvents
      /\ openPaths' = [openPaths EXCEPT ![f] = p] /\ openBytes' = [openBytes EXCEPT ![f] = 0]
      /\ fds' = fds \cup {f} /\ f \notin fds
      /\ UNCHANGED <<storeVars, writePaths, appendHandles, engineVars>>
  BY DEF Open, Send
<1>3. /\ openPaths \in [Fds -> Paths \cup {NoPath}] /\ openPaths[f] = NoPath
  BY <1>2 DEF AccessInv, TypeOK, MapsMatchDescriptors
<1>4. ASSUME NEW q \in Paths PROVE Cardinality(Readers(q)') = Cardinality(Readers(q)) + Says(e, q)
  <2>0. IsFiniteSet(Readers(q)) /\ Cardinality(Readers(q)) \in Nat
    BY ReadersCounted
  <2>1. CASE q = p
    <3>1. Readers(q)' = Readers(q) \cup {f} /\ f \notin Readers(q)
      BY <1>2, <1>3, <2>1, AccessAssumption DEF Readers
    <3>2. Says(e, q) = 1
      BY <1>1, <2>1 DEF Says, Opens
    <3>. QED  BY <2>0, <3>1, <3>2, FS_AddElement
  <2>2. CASE q # p
    <3>1. Readers(q)' = Readers(q)
      BY <1>2, <1>3, <2>2, AccessAssumption DEF Readers
    <3>2. Says(e, q) = 0
      BY <1>1, <2>2 DEF Says
    <3>. QED  BY <2>0, <3>1, <3>2
  <2>. QED  BY <2>1, <2>2
<1>5. SeenInRange' /\ \A q \in Paths : HandlesSeen(q)' = HandlesSeen(q)
  BY <1>1, <1>2, <1>4, SentInRange
<1>6. PendingIsOpen'
  BY <1>2, <1>5 DEF engineVars, AccessInv, PendingIsOpen
<1>7. TypeOK'
  <2>1. events' \in Seq(Events) /\ Len(events') <= MaxEvents
    <3>1. events \in Seq(Events) /\ Len(events) \in Nat
      BY LenProperties DEF AccessInv, TypeOK
    <3>2. events' \in Seq(Events) /\ Len(events') = Len(events) + 1
      BY <1>1, <1>2, <3>1, AppendProperties
    <3>. QED  BY <1>2, <3>1, <3>2, AccessAssumption
  <2>2. openPaths' \in [Fds -> Paths \cup {NoPath}] /\ openBytes' \in [Fds -> -1..Size] /\ fds' \subseteq Fds
    BY <1>2, AccessAssumption DEF AccessInv, TypeOK
  <2>. QED  BY <1>2, <2>1, <2>2 DEF storeVars, engineVars, AccessInv, TypeOK
<1>8. MapsMatchDescriptors'
  BY <1>2, AccessAssumption DEF AccessInv, TypeOK, MapsMatchDescriptors
<1>. QED  BY <1>5, <1>6, <1>7, <1>8 DEF AccessInv

LEMMA ReleaseInv ==
  ASSUME AccessInv, NEW f \in Fds, Release(f)
  PROVE  AccessInv'
<1>0. /\ openPaths \in [Fds -> Paths \cup {NoPath}] /\ openBytes \in [Fds -> -1..Size]
      /\ writePaths \in [Fds -> Paths \cup {NoPath}] /\ fds \subseteq Fds /\ f \in fds
      /\ fds' = fds \ {f} /\ UNCHANGED <<storeVars, engineVars>>
  BY DEF Release, AccessInv, TypeOK
<1>1. CASE writePaths[f] # NoPath
  <2>1. /\ writePaths' = [writePaths EXCEPT ![f] = NoPath] /\ appendHandles' = appendHandles \ {f}
        /\ UNCHANGED <<openPaths, openBytes, events, pending>>
    BY <1>1 DEF Release, engineVars
  <2>2. SeenInRange' /\ PendingIsOpen'
    BY <2>1, CountsKept
  <2>3. TypeOK'
    BY <1>0, <2>1 DEF storeVars, engineVars, AccessInv, TypeOK
  <2>4. MapsMatchDescriptors'
    BY <1>0, <1>1, <2>1 DEF AccessInv, MapsMatchDescriptors
  <2>. QED  BY <2>2, <2>3, <2>4 DEF AccessInv
<1>2. CASE writePaths[f] = NoPath
  <2>1. /\ openPaths' = [openPaths EXCEPT ![f] = NoPath] /\ openBytes' = [openBytes EXCEPT ![f] = -1]
        /\ UNCHANGED <<writePaths, appendHandles, pending>>
    BY <1>2 DEF Release, BytesDropped, engineVars
  <2>2. MapsMatchDescriptors'
    BY <1>0, <1>2, <2>1 DEF AccessInv, MapsMatchDescriptors
  <2>3. openPaths' \in [Fds -> Paths \cup {NoPath}] /\ openBytes' \in [Fds -> -1..Size]
    <3>1. -1 \in -1..Size
      BY AccessAssumption
    <3>. QED  BY <1>0, <2>1, <3>1
  <2>4. CASE openPaths[f] = NoPath
    <3>1. UNCHANGED <<openPaths, events>>
      BY <1>0, <1>2, <2>1, <2>4 DEF Release, Reported
    <3>2. SeenInRange' /\ PendingIsOpen'
      BY <2>1, <3>1, CountsKept
    <3>3. TypeOK'
      BY <1>0, <2>1, <2>3, <3>1 DEF storeVars, engineVars, AccessInv, TypeOK
    <3>. QED  BY <2>2, <3>2, <3>3 DEF AccessInv
  <2>5. CASE openPaths[f] # NoPath
    <3>. PICK p \in Paths : p = openPaths[f]
      BY <1>0, <2>5
    <3>. PICK e : e = [path |-> p, kind |-> "Close", bytes |-> openBytes[f]]
      OBVIOUS
    <3>1. openBytes[f] \in 0..Size
      <4>1. openBytes[f] # -1 /\ openBytes[f] \in -1..Size
        BY <1>0, <2>5 DEF AccessInv, MapsMatchDescriptors
      <4>. QED  BY <4>1, AccessAssumption
    <3>2. e \in Events /\ e.path = p /\ e.kind = "Close"
      BY <3>1 DEF Events
    <3>3. events' = Append(events, e) /\ Len(events) < MaxEvents
      BY <1>2, <2>5 DEF Release, Reported, Send
    <3>4. ASSUME NEW q \in Paths PROVE Cardinality(Readers(q)') = Cardinality(Readers(q)) + Says(e, q)
      <4>0. IsFiniteSet(Readers(q)) /\ Cardinality(Readers(q)) \in Nat
        BY ReadersCounted
      <4>1. CASE q = p
        <5>1. Readers(q)' = Readers(q) \ {f} /\ f \in Readers(q)
          BY <1>0, <2>1, <4>1, AccessAssumption DEF Readers
        <5>2. Says(e, q) = -1
          BY <3>2, <4>1 DEF Says
        <5>. QED  BY <4>0, <5>1, <5>2, FS_RemoveElement
      <4>2. CASE q # p
        <5>1. Readers(q)' = Readers(q)
          BY <1>0, <2>1, <4>2, AccessAssumption DEF Readers
        <5>2. Says(e, q) = 0
          BY <3>2, <4>2 DEF Says
        <5>. QED  BY <4>0, <5>1, <5>2
      <4>. QED  BY <4>1, <4>2
    <3>5. SeenInRange' /\ \A q \in Paths : HandlesSeen(q)' = HandlesSeen(q)
      BY <3>2, <3>3, <3>4, SentInRange
    <3>6. PendingIsOpen'
      BY <2>1, <3>5 DEF AccessInv, PendingIsOpen
    <3>7. events' \in Seq(Events) /\ Len(events') <= MaxEvents
      <4>1. events \in Seq(Events) /\ Len(events) \in Nat
        BY LenProperties DEF AccessInv, TypeOK
      <4>2. events' \in Seq(Events) /\ Len(events') = Len(events) + 1
        BY <3>2, <3>3, <4>1, AppendProperties
      <4>. QED  BY <3>3, <4>1, <4>2, AccessAssumption
    <3>8. TypeOK'
      BY <1>0, <2>1, <2>3, <3>7 DEF storeVars, engineVars, AccessInv, TypeOK
    <3>. QED  BY <2>2, <3>5, <3>6, <3>8 DEF AccessInv
  <2>. QED  BY <2>4, <2>5
<1>. QED  BY <1>1, <1>2

LEMMA UpToType ==
  ASSUME NEW n \in Nat
  PROVE  UpTo(n) \in 0..Size
<1>1. Size \in Nat /\ (n <= Size \/ Size <= n)
  BY AccessAssumption
<1>2. UpTo(n) \in {n, Size} /\ \A y \in {n, Size} : UpTo(n) <= y
  BY <1>1 DEF UpTo, Min
<1>. QED  BY <1>1, <1>2

\* One event, received: what it does to the pending entry of its path follows
\* what it says of the handles.
LEMMA ReceiveInv ==
  ASSUME AccessInv, Receive
  PROVE  AccessInv'
<1>0. /\ events # <<>> /\ events' = Tail(events) /\ UNCHANGED <<storeVars, sessionVars, cands, total, first>>
      /\ openPaths' = openPaths
  BY DEF Receive, sessionVars
<1>1. /\ SeenInRange' /\ Head(events) \in Events
      /\ \A p \in Paths : /\ HandlesSeen(p) \in 0..Cardinality(Fds) /\ HandlesSeen(p)' \in 0..Cardinality(Fds)
                          /\ HandlesSeen(p)' = HandlesSeen(p) + Says(Head(events), p)
  BY <1>0, ReceivedInRange
<1>. PICK e \in Events : e = Head(events)
  BY <1>1
<1>. PICK p \in Paths : p = e.path
  BY DEF Events
<1>. PICK N \in Nat : N = Cardinality(Fds)
  BY ReadersCounted
<1>2. /\ pending \in [Paths -> Entries \cup {NoEntry}] /\ todo \in Seq(Events) /\ NoEntry \notin Entries
      /\ e.bytes \in 0..Size /\ Size \in Nat /\ MinAccess \in Nat
  BY AccessAssumption DEF AccessInv, TypeOK, Events
<1>3. \A q \in Paths : pending[q] # NoEntry => pending[q] \in Entries /\ pending[q].handles \in 1..N
                                               /\ pending[q].handles <= HandlesSeen(q)
  BY <1>2 DEF AccessInv, PendingIsOpen, Entries
<1>4. \A q \in Paths \ {p} : HandlesSeen(q)' = HandlesSeen(q)
  BY <1>1 DEF Says
<1>9. <<e>> \in Seq(Events) /\ <<>> \in Seq(Events)
  OBVIOUS
\* Whatever the event, it is enough to know what becomes of its path.
<1>5. ASSUME NEW t, t = NoEntry \/ (t \in Entries /\ t.handles <= HandlesSeen(p)'),
             pending' = [pending EXCEPT ![p] = t]
      PROVE  pending' \in [Paths -> Entries \cup {NoEntry}] /\ PendingIsOpen'
  <2>1. pending' \in [Paths -> Entries \cup {NoEntry}]
    BY <1>2, <1>5
  <2>2. ASSUME NEW q \in Paths, pending'[q] # NoEntry PROVE pending'[q].handles <= HandlesSeen(q)'
    <3>1. CASE q = p
      BY <1>2, <1>5, <2>2, <3>1
    <3>2. CASE q # p
      BY <1>2, <1>3, <1>4, <1>5, <2>2, <3>2
    <3>. QED  BY <3>1, <3>2
  <2>. QED  BY <2>1, <2>2 DEF PendingIsOpen
<1>6. pending' \in [Paths -> Entries \cup {NoEntry}] /\ PendingIsOpen' /\ todo' \in Seq(Events)
  <2>1. CASE e.kind = "Close"
    <3>0. ReceiveClose(e)
      BY <2>1 DEF Receive
    <3>1. HandlesSeen(p)' = HandlesSeen(p) - 1
      BY <1>1, <2>1 DEF Says
    <3>2. CASE pending[p] = NoEntry
      <4>1. pending' = [pending EXCEPT ![p] = NoEntry] /\ todo' = <<e>>
        BY <1>2, <3>0, <3>2 DEF ReceiveClose
      <4>. QED  BY <1>5, <1>9, <4>1
    <3>3. CASE pending[p] # NoEntry /\ pending[p].handles > 1
      <4>. PICK x \in Entries : x = pending[p]
        BY <1>3, <3>3
      <4>0. x.handles \in 1..N /\ x.bytes \in Nat /\ x.handles > 1 /\ e.bytes \in Nat
        BY <1>2, <3>3 DEF Entries
      <4>. PICK b \in 0..Size : b = UpTo(x.bytes + e.bytes)
        BY <4>0, UpToType
      <4>. PICK h \in 1..N : h = x.handles - 1
        BY <4>0
      <4>. PICK t : t = [x EXCEPT !.handles = h, !.bytes = b]
        OBVIOUS
      <4>1. pending' = [pending EXCEPT ![p] = t] /\ todo' = todo
        <5>1. /\ pending' = [pending EXCEPT ![p] = [x EXCEPT !.handles = @ - 1, !.bytes = b]]
              /\ todo' = todo
          BY <3>0, <3>3 DEF ReceiveClose, HandlesLeft
        <5>2. [x EXCEPT !.handles = @ - 1, !.bytes = b] = t
          BY DEF Entries
        <5>. QED  BY <5>1, <5>2, Zenon
      <4>2. t \in Entries /\ t.handles = pending[p].handles - 1
        BY DEF Entries
      <4>3. t.handles <= HandlesSeen(p)'
        BY <1>1, <1>3, <3>1, <3>3, <4>2
      <4>. QED  BY <1>2, <1>5, <4>1, <4>2, <4>3
    <3>4. CASE pending[p] # NoEntry /\ ~(pending[p].handles > 1)
      <4>1. pending' = [pending EXCEPT ![p] = NoEntry]
        BY <3>0, <3>4 DEF ReceiveClose, HandlesLeft
      <4>2. todo' \in {<<Event(p, pending[p].kind)>>, <<>>}
        BY <3>0, <3>4 DEF ReceiveClose, HandlesLeft
      <4>3. Event(p, pending[p].kind) \in Events
        BY <1>2, <1>3, <3>4 DEF Event, Events, Entries
      <4>4. todo' \in Seq(Events)
        <5>1. <<Event(p, pending[p].kind)>> \in Seq(Events)
          BY <4>3
        <5>. QED  BY <1>9, <4>2, <5>1
      <4>. QED  BY <1>5, <4>1, <4>4
    <3>. QED  BY <3>2, <3>3, <3>4
  <2>2. CASE e.kind # "Close"
    <3>0. ReceiveOpen(e)
      BY <2>2 DEF Receive
    <3>1. HandlesSeen(p)' = HandlesSeen(p) + 1 /\ HandlesSeen(p) \in 0..N /\ HandlesSeen(p)' \in 0..N
      BY <1>1, <2>2 DEF Says
    <3>2. CASE ~PassesFloor(p) \/ MinAccess = 0
      <4>1. pending' = pending /\ todo' \in {todo, <<e>>}
        BY <3>0, <3>2 DEF ReceiveOpen
      <4>2. pending' = [pending EXCEPT ![p] = pending[p]]
        BY <1>2, <4>1
      <4>3. pending[p] = NoEntry \/ (pending[p] \in Entries /\ pending[p].handles <= HandlesSeen(p)')
        BY <1>3, <3>1
      <4>4. todo' \in Seq(Events)
        BY <1>2, <1>9, <4>1
      <4>. QED  BY <1>5, <4>2, <4>3, <4>4
    <3>3. CASE PassesFloor(p) /\ MinAccess # 0 /\ pending[p] = NoEntry
      <4>. PICK t : t = [kind |-> e.kind, age |-> 0, handles |-> 1, bytes |-> 0]
        OBVIOUS
      <4>1. pending' = [pending EXCEPT ![p] = t] /\ todo' = todo
        BY <1>2, <3>0, <3>3 DEF ReceiveOpen
      <4>2. 1 <= HandlesSeen(p)' /\ 1 \in 1..N
        BY <3>1
      <4>3. t \in Entries /\ t.handles = 1
        BY <1>2, <2>2, <4>2 DEF Entries, Events
      <4>. QED  BY <1>2, <1>5, <4>1, <4>2, <4>3
    <3>4. CASE PassesFloor(p) /\ MinAccess # 0 /\ pending[p] # NoEntry
      <4>. PICK t : t = [pending[p] EXCEPT !.handles = pending[p].handles + 1]
        OBVIOUS
      <4>1. pending' = [pending EXCEPT ![p] = t] /\ todo' = todo
        BY <1>2, <3>0, <3>4 DEF ReceiveOpen, OneMoreHandle
      <4>2. pending[p].handles + 1 <= HandlesSeen(p)' /\ pending[p].handles + 1 \in 1..N
        BY <1>3, <3>1, <3>4
      <4>3. t \in Entries /\ t.handles = pending[p].handles + 1
        BY <1>3, <3>4, <4>2 DEF Entries
      <4>. QED  BY <1>2, <1>5, <4>1, <4>2, <4>3
    <3>. QED  BY <3>2, <3>3, <3>4
  <2>. QED  BY <2>1, <2>2
<1>7. TypeOK'
  <2>1. events' \in Seq(Events) /\ Len(events') <= MaxEvents
    <3>1. events \in Seq(Events) /\ Len(events) \in Nat /\ Len(events) <= MaxEvents
      BY LenProperties DEF AccessInv, TypeOK
    <3>2. events' \in Seq(Events) /\ Len(events') = Len(events) - 1
      BY <1>0, <3>1, HeadTailProperties
    <3>. QED  BY <3>1, <3>2, AccessAssumption
  <2>. QED  BY <1>0, <1>6, <2>1 DEF storeVars, sessionVars, AccessInv, TypeOK
<1>8. MapsMatchDescriptors'
  BY <1>0 DEF sessionVars, AccessInv, MapsMatchDescriptors
<1>. QED  BY <1>1, <1>6, <1>7, <1>8 DEF AccessInv

\* Time passes for the pending entries, and ripe ones are taken for processing.
LEMMA TimeInv ==
  ASSUME AccessInv, Clock \/ Tick
  PROVE  AccessInv'
<1>0. /\ UNCHANGED <<storeVars, sessionVars, events, cands, total, first>> /\ UNCHANGED <<openPaths, events>>
      /\ pending \in [Paths -> Entries \cup {NoEntry}] /\ MinAccess \in Nat /\ NoEntry \notin Entries
  BY AccessAssumption DEF Clock, Tick, sessionVars, AccessInv, TypeOK
<1>1. CASE Clock
  <2>1. ASSUME NEW p \in Young
        PROVE  /\ pending[p] \in Entries /\ pending'[p] \in Entries
               /\ pending'[p].handles = pending[p].handles
    <3>. PICK x \in Entries : x = pending[p] /\ x.age < MinAccess
      BY <1>0 DEF Young
    <3>. PICK a \in 0..MinAccess : a = x.age + 1
      BY <1>0 DEF Entries
    <3>. PICK y : y = [x EXCEPT !.age = a]
      OBVIOUS
    <3>1. y \in Entries /\ y.handles = x.handles
      BY DEF Entries
    <3>2. pending'[p] = [x EXCEPT !.age = x.age + 1]
      BY <1>1, <1>0 DEF Clock, Young, Entries
    <3>. QED  BY <3>1, <3>2
  <2>2. \A p \in Paths \ Young : pending'[p] = pending[p]
    BY <1>1 DEF Clock
  <2>3. pending' \in [Paths -> Entries \cup {NoEntry}]
    <3>1. pending' = [p \in Paths |-> pending'[p]]
      BY <1>1 DEF Clock
    <3>2. \A p \in Paths : pending'[p] \in Entries \cup {NoEntry}
      BY <1>0, <2>1, <2>2
    <3>. QED  BY <3>1, <3>2
  <2>4. \A p \in Paths : pending'[p] = NoEntry
                         \/ (pending[p] # NoEntry /\ pending'[p].handles = pending[p].handles)
    BY <1>0, <2>1, <2>2
  <2>5. SeenInRange' /\ PendingIsOpen'
    BY <1>0, <2>4, CountsKept
  <2>6. TypeOK'
    BY <1>0, <1>1, <2>3 DEF Clock, storeVars, sessionVars, AccessInv, TypeOK
  <2>7. MapsMatchDescriptors'
    BY <1>0 DEF sessionVars, AccessInv, MapsMatchDescriptors
  <2>. QED  BY <2>5, <2>6, <2>7 DEF AccessInv
<1>2. CASE Tick
  <2>1. pending' \in [Paths -> Entries \cup {NoEntry}]
    BY <1>0, <1>2 DEF Tick
  <2>2. \A p \in Paths : pending'[p] = NoEntry
                         \/ (pending[p] # NoEntry /\ pending'[p].handles = pending[p].handles)
    BY <1>2 DEF Tick
  <2>3. todo' \in Seq(Events)
    <3>1. PICK order \in SetToSeqs(Ripe) :
            todo' = [i \in DOMAIN order |-> Event(order[i], pending[order[i]].kind)]
      BY <1>2 DEF Tick
    <3>2. IsFiniteSet(Ripe)
      <4>1. Ripe \in SUBSET Paths /\ IsFiniteSet(Paths)
        BY AccessAssumption DEF Ripe
      <4>. QED  BY <4>1, FS_Subset
    <3>. PICK n \in Nat : n = Cardinality(Ripe)
      BY <3>2, FS_CardinalityType
    <3>3. order \in [1..n -> Ripe]
      BY <3>1 DEF SetToSeqs
    <3>4. \A p \in Ripe : Event(p, pending[p].kind) \in Events
      BY <1>0, AccessAssumption DEF Ripe, Event, Events, Entries
    <3>5. todo' = [i \in 1..n |-> Event(order[i], pending[order[i]].kind)]
      BY <3>1, <3>3
    <3>6. todo' \in [1..n -> Events]
      BY <3>3, <3>4, <3>5
    <3>. QED  BY <3>6
  <2>4. SeenInRange' /\ PendingIsOpen'
    BY <1>0, <2>2, CountsKept
  <2>5. TypeOK'
    BY <1>0, <2>1, <2>3 DEF storeVars, sessionVars, AccessInv, TypeOK
  <2>6. MapsMatchDescriptors'
    BY <1>0 DEF sessionVars, AccessInv, MapsMatchDescriptors
  <2>. QED  BY <2>4, <2>5, <2>6 DEF AccessInv
<1>. QED  BY <1>1, <1>2

\* The engine works on an event, and the store changes: neither the handles
\* nor the entries are touched.
LEMMA StoreInv ==
  ASSUME AccessInv, UNCHANGED <<sessionVars, events, pending>>,
         live' \subseteq Paths, cached' \subseteq Paths, jobs' \subseteq Paths \X {"Populate", "Validate"},
         todo' \in Seq(Events), cands' \in Seq(Paths), total' \in Nat, first' \in BOOLEAN
  PROVE  AccessInv'
<1>1. UNCHANGED <<openPaths, events>> /\ pending' = pending
  BY DEF sessionVars
<1>2. SeenInRange' /\ PendingIsOpen'
  BY <1>1, CountsKept
<1>3. TypeOK'
  BY DEF sessionVars, AccessInv, TypeOK
<1>4. MapsMatchDescriptors'
  BY DEF sessionVars, AccessInv, MapsMatchDescriptors
<1>. QED  BY <1>2, <1>3, <1>4 DEF AccessInv

LEMMA EngineInv ==
  ASSUME AccessInv, BeginEvent \/ Consider
  PROVE  AccessInv'
<1>0. /\ live \subseteq Paths /\ cached \subseteq Paths /\ jobs \subseteq Paths \X {"Populate", "Validate"}
      /\ todo \in Seq(Events) /\ cands \in Seq(Paths) /\ total \in Nat /\ first \in BOOLEAN
      /\ Size \in Nat /\ IsFiniteSet(Paths)
  BY AccessAssumption DEF AccessInv, TypeOK
<1>1. CASE BeginEvent
  <2>1. /\ todo # <<>> /\ UNCHANGED <<sessionVars, events, pending, live, cached>> /\ first' = TRUE
        /\ todo' = Tail(todo)
    BY <1>1 DEF BeginEvent
  <2>2. Head(todo) \in Events /\ Tail(todo) \in Seq(Events)
    BY <1>0, <2>1, HeadTailProperties
  <2>. PICK e \in Events : e = Head(todo) /\ e.path \in Paths
    BY <2>2 DEF Events
  <2>3. jobs' \subseteq Paths \X {"Populate", "Validate"}
    BY <1>0, <1>1 DEF BeginEvent, SubmitJob
  <2>4. cands' \in Seq(Paths)
    <3>1. cands' \in {Upcoming[e.path], <<>>}
      BY <1>1 DEF BeginEvent
    <3>. QED  BY <3>1, EmptySeq, AccessAssumption
  <2>5. total' \in Nat
    <3>1. Cardinality(cached) \in Nat
      BY <1>0, FS_Subset, FS_CardinalityType
    <3>2. Size * Cardinality(cached) \in Nat
      BY <1>0, <3>1
    <3>3. total' \in {Size * Cardinality(cached), 0}
      BY <1>1 DEF BeginEvent, TotalCachedBytes
    <3>. QED  BY <3>2, <3>3
  <2>. QED  BY <1>0, <2>1, <2>2, <2>3, <2>4, <2>5, StoreInv
<1>2. CASE Consider
  <2>1. cands # <<>> /\ UNCHANGED <<sessionVars, events, pending, live, cached, todo>>
    BY <1>2 DEF Consider
  <2>. PICK p \in Paths : p = Head(cands)
    BY <1>0, <2>1, HeadTailProperties
  <2>2. cands' \in Seq(Paths)
    <3>1. cands' \in {<<>>, Tail(cands)}
      BY <1>2 DEF Consider
    <3>. QED  BY <1>0, <2>1, <3>1, EmptySeq, HeadTailProperties
  <2>3. jobs' \subseteq Paths \X {"Populate", "Validate"}
    BY <1>0, <1>2 DEF Consider, SubmitJob
  <2>4. FileSize(p) \in Nat
    BY <1>0 DEF FileSize
  <2>5. total' \in {0, total, total + FileSize(p)} /\ first' \in BOOLEAN
    BY <1>0, <1>2 DEF Consider
  <2>6. total' \in Nat
    BY <1>0, <2>4, <2>5
  <2>. QED  BY <1>0, <2>1, <2>2, <2>3, <2>5, <2>6, StoreInv
<1>. QED  BY <1>1, <1>2

LEMMA AccessStepInv ==
  ASSUME AccessInv, [Next]_vars
  PROVE  AccessInv'
<1>0. /\ live \subseteq Paths /\ cached \subseteq Paths /\ jobs \subseteq Paths \X {"Populate", "Validate"}
      /\ todo \in Seq(Events) /\ cands \in Seq(Paths) /\ total \in Nat /\ first \in BOOLEAN
  BY DEF AccessInv, TypeOK
<1>1. CASE UNCHANGED vars
  <2>1. UNCHANGED <<sessionVars, events, pending, live, cached, jobs, todo, cands, total, first>>
    BY <1>1 DEF vars, storeVars, engineVars
  <2>. QED  BY <1>0, <2>1, StoreInv
<1>2. CASE \E f \in Fds : Session(f)
  <2>. PICK f \in Fds : Session(f)
    BY <1>2
  <2>1. CASE Release(f)
    BY <2>1, ReleaseInv
  <2>2. CASE \E p \in Paths, filtered \in BOOLEAN : Open(f, p, filtered)
    <3>1. PICK p \in Paths : Open(f, p, TRUE) \/ Open(f, p, FALSE)
      BY <2>2
    <3>. QED  BY <3>1, NotReportedInv, OpenReportedInv
  <2>3. CASE Read(f)
    BY <2>3, NotReportedInv
  <2>4. CASE \E p \in Paths : \/ CreateFails(f, p)
                             \/ \E append \in BOOLEAN : OpenWrite(f, p, append) \/ Create(f, p, append)
    BY <2>4, WriteHandleInv
  <2>. QED  BY <2>1, <2>2, <2>3, <2>4 DEF Session
<1>3. CASE Engine
  BY <1>3, ReceiveInv, EngineInv DEF Engine
<1>4. CASE Tick \/ Clock
  BY <1>4, TimeInv
<1>5. ASSUME NEW p \in Paths, Evicted(p) \/ BackingChanges(p)
      PROVE  AccessInv'
  <2>1. /\ UNCHANGED <<sessionVars, events, pending, todo, cands, total, first, jobs>>
        /\ live' \subseteq Paths /\ cached' \subseteq Paths
    BY <1>0, <1>5 DEF Evicted, BackingChanges, engineVars
  <2>. QED  BY <1>0, <2>1, StoreInv
<1>6. ASSUME NEW j \in jobs, JobEnds(j)
      PROVE  AccessInv'
  <2>1. /\ UNCHANGED <<sessionVars, events, pending, todo, cands, total, first, live>>
        /\ jobs' \subseteq Paths \X {"Populate", "Validate"} /\ cached' \subseteq Paths
    BY <1>0, <1>6 DEF JobEnds, engineVars
  <2>. QED  BY <1>0, <2>1, StoreInv
<1>. QED  BY <1>1, <1>2, <1>3, <1>4, <1>5, <1>6 DEF Next

-----------------------------------------------------------------------------
(* The theorems.                                                           *)

\* The inductive invariant holds in every state of the session and the engine.
THEOREM AccessInvariance == Spec => []AccessInv
  BY AccessInitInv, AccessStepInv, PTL DEF Spec

\* Types; in particular the count of a pending entry (open_handles, action.rs)
\* stays between one and the number of descriptors, so that it neither
\* saturates at zero nor overflows.
THEOREM AccessTypeCorrect == Spec => []TypeOK
<1>1. AccessInv => TypeOK
  BY DEF AccessInv
<1>. QED  BY <1>1, AccessInvariance, PTL

\* The maps of the session follow the descriptors, however often a number is
\* reused (open, read and release, fusefs.rs).
THEOREM MapsFollowDescriptors == Spec => []MapsMatchDescriptors
<1>1. AccessInv => MapsMatchDescriptors
  BY DEF AccessInv
<1>. QED  BY <1>1, AccessInvariance, PTL

\* The access filter counts no handle that is not there, however the session
\* and the engine interleave and however many events wait in the channel
\* (action.rs, the Open and Close arms of the event loop).
THEOREM PendingHandlesAreOpen == Spec => []PendingIsOpen
<1>1. AccessInv => PendingIsOpen
  BY DEF AccessInv
<1>. QED  BY <1>1, AccessInvariance, PTL
=============================================================================

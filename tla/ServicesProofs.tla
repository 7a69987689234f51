--------------------------- MODULE ServicesProofs ---------------------------
(***************************************************************************)
(* Proofs about modules Discovery and Telemetry, and about the services    *)
(* together (module MCServices).                                           *)
(*                                                                         *)
(* Discovery, for every set of FUSE threads and every number of sessions   *)
(* and operations: what a session had recorded when it was cancelled is    *)
(* flushed before its task disarms the controller (LastBucketFlushed), and *)
(* no operation is lost or counted twice (CountsConserved), from which the *)
(* bounds of the counters follow (DiscoveryTypeOK).                        *)
(*                                                                         *)
(* Telemetry, for every set of clients and files and every capacity of     *)
(* channel and ring: types, NoLineMissed, NoPhantomCopy, RingKeepsLogs and *)
(* NeverUndercounts.                                                       *)
(***************************************************************************)
EXTENDS MCServices, DaemonProofs, CollectionFacts

-----------------------------------------------------------------------------
(* Discovery: the inductive invariant.                                     *)

Ended == {"disable", "clear", "done"}

\* The counters are natural numbers; that none exceeds MaxBumps follows from
\* the accounts below.
CounterTypes ==
  /\ session \in 0..MaxSession /\ started \in 0..MaxSession /\ cancelled \subseteq Sessions
  /\ drain \in [Sessions -> DrainStages]
  /\ counts \in [Sessions -> Nat] /\ bumped \in [Sessions -> Nat] /\ due \in [Sessions -> Nat]
  /\ bucket \in [Sessions -> [epoch : Buckets, count : Nat]] /\ now \in Buckets

\* A session that has not been armed has no drain task.
TasksAfterArm ==
  /\ lock = "arm" => started > 0
  /\ \A s \in Sessions : s > started \/ (s = started /\ lock = "arm") => drain[s] = "none"

\* What a session has recorded, has swapped out, and owes to the table.
FlushInv ==
  \A s \in Sessions :
    /\ counts[s] + bucket[s].count <= bumped[s] /\ due[s] <= bumped[s]
    /\ drain[s] \in {"final"} \cup Ended => Cancelled(s)
    /\ drain[s] \notin {"write", "final"} => bucket[s].count = 0
    /\ drain[s] = "final" => due[s] + counts[s] <= bumped[s]
    /\ drain[s] \in Ended => due[s] + counts[s] <= bumped[s]

DiscoveryInv == CounterTypes /\ TasksAfterArm /\ FlushInv

LEMMA DiscoveryInitInv == DiscoveryInit => DiscoveryInv
  BY DiscoveryAssumption
     DEF DiscoveryInit, DiscoveryInv, CounterTypes, TasksAfterArm, FlushInv, Sessions, Buckets,
         DrainStages, NoBucket, Ended

\* A session becomes due when it is cancelled, and only then.
LEMMA DueNowInv ==
  ASSUME DiscoveryInv, NEW S \in SUBSET Sessions, due' = DueNow(S),
         UNCHANGED <<session, started, drain, counts, bumped, bucket, now>>,
         lock' = "arm" => lock = "arm",
         cancelled' \subseteq Sessions, \A s \in Sessions : Cancelled(s) => Cancelled(s)'
  PROVE  DiscoveryInv'
<1>1. \A s \in Sessions : due'[s] = IF s \in S /\ ~Cancelled(s) THEN bumped[s] ELSE due[s]
  BY DEF DueNow, Cancelled
<1>2. due' \in [Sessions -> Nat]
  BY DEF DueNow, DiscoveryInv, CounterTypes
<1>3. CounterTypes'
  BY <1>2 DEF DiscoveryInv, CounterTypes
<1>4. TasksAfterArm'
  BY DEF DiscoveryInv, TasksAfterArm
<1>5. FlushInv'
  <2>1. ASSUME NEW s \in Sessions
        PROVE  /\ counts[s] + bucket[s].count <= bumped[s] /\ due'[s] <= bumped[s]
               /\ drain[s] \in {"final"} \cup Ended => Cancelled(s)'
               /\ drain[s] \notin {"write", "final"} => bucket[s].count = 0
               /\ drain[s] = "final" => due'[s] + counts[s] <= bumped[s]
               /\ drain[s] \in Ended => due'[s] + counts[s] <= bumped[s]
    <3>1. counts[s] \in Nat /\ bumped[s] \in Nat /\ due[s] \in Nat
      BY DEF DiscoveryInv, CounterTypes
    <3>. QED  BY <1>1, <3>1 DEF DiscoveryInv, FlushInv
  <2>. QED  BY <2>1 DEF FlushInv
<1>. QED  BY <1>3, <1>4, <1>5 DEF DiscoveryInv

LEMMA ControlInv ==
  ASSUME DiscoveryInv, Control \/ RootCancel
  PROVE  DiscoveryInv'
<1>1. CASE StartNew
  <2>1. CounterTypes'
    BY <1>1, DiscoveryAssumption DEF StartNew, countVars, DiscoveryInv, CounterTypes
  <2>2. TasksAfterArm'
    BY <1>1, DiscoveryAssumption DEF StartNew, countVars, DiscoveryInv, CounterTypes, TasksAfterArm, Sessions
  <2>3. FlushInv'
    BY <1>1 DEF StartNew, countVars, DiscoveryInv, FlushInv, Cancelled
  <2>. QED  BY <2>1, <2>2, <2>3 DEF DiscoveryInv
<1>2. CASE StartArm
  <2>1. started \in Sessions /\ drain[started] = "none"
    BY <1>2, DiscoveryAssumption DEF StartArm, DiscoveryInv, CounterTypes, TasksAfterArm, Sessions
  <2>2. \A s \in Sessions : drain'[s] = IF s = started THEN "loop" ELSE drain[s]
    BY <1>2 DEF StartArm, DiscoveryInv, CounterTypes
  <2>3. CounterTypes'
    BY <1>2, <2>1 DEF StartArm, countVars, DiscoveryInv, CounterTypes, DrainStages
  <2>4. TasksAfterArm'
    BY <1>2, <2>2, DiscoveryAssumption DEF StartArm, DiscoveryInv, CounterTypes, TasksAfterArm, Sessions
  <2>5. FlushInv'
    BY <1>2, <2>1, <2>2 DEF StartArm, countVars, DiscoveryInv, FlushInv, Cancelled, Ended
  <2>. QED  BY <2>3, <2>4, <2>5 DEF DiscoveryInv
<1>3. CASE StopCancel
  <2>1. due' = DueNow({session} \cap Sessions)
    BY <1>3 DEF StopCancel, DueNow
  <2>2. cancelled' \subseteq Sessions /\ \A s \in Sessions : Cancelled(s) => Cancelled(s)'
    BY <1>3, DiscoveryAssumption DEF StopCancel, DiscoveryInv, CounterTypes, Cancelled, Sessions
  <2>. QED  BY <1>3, <2>1, <2>2, DueNowInv DEF StopCancel, countVars
<1>4. CASE StopDisarm \/ StopClear
  <2>1. CounterTypes'
    BY <1>4, DiscoveryAssumption DEF StopDisarm, StopClear, countVars, DiscoveryInv, CounterTypes
  <2>2. TasksAfterArm'
    BY <1>4 DEF StopDisarm, StopClear, countVars, DiscoveryInv, TasksAfterArm
  <2>3. FlushInv'
    BY <1>4 DEF StopDisarm, StopClear, countVars, DiscoveryInv, FlushInv, Cancelled
  <2>. QED  BY <2>1, <2>2, <2>3 DEF DiscoveryInv
<1>5. CASE RootCancel
  BY <1>5, DueNowInv DEF RootCancel, countVars, Cancelled, DiscoveryInv, CounterTypes
<1>. QED  BY <1>1, <1>2, <1>3, <1>4, <1>5 DEF Control

LEMMA LogInv ==
  ASSUME DiscoveryInv, NEW t \in Threads, LogChecks(t) \/ LogLoad(t) \/ LogBump(t)
  PROVE  DiscoveryInv'
<1>1. CASE LogChecks(t) \/ LogLoad(t)
  BY <1>1 DEF LogChecks, LogLoad, controlVars, DiscoveryInv, CounterTypes, TasksAfterArm,
     FlushInv, Cancelled
<1>2. CASE LogBump(t)
  <2>. PICK s \in Sessions : s = thread[t]
    BY <1>2 DEF LogBump
  <2>1. /\ counts' = [counts EXCEPT ![s] = @ + 1] /\ bumped' = [bumped EXCEPT ![s] = @ + 1]
        /\ UNCHANGED <<session, lock, started, cancelled, root, due, drain, bucket, now>>
    BY <1>2 DEF LogBump, Bumped, controlVars
  <2>2. CounterTypes' /\ TasksAfterArm'
    BY <2>1 DEF DiscoveryInv, CounterTypes, TasksAfterArm
  <2>3. ASSUME NEW r \in Sessions
        PROVE  /\ counts'[r] + bucket[r].count <= bumped'[r] /\ due[r] <= bumped'[r]
               /\ drain[r] = "final" => due[r] + counts'[r] <= bumped'[r]
               /\ drain[r] \in Ended => due[r] + counts'[r] <= bumped'[r]
    <3>1. /\ counts[r] \in Nat /\ bumped[r] \in Nat /\ due[r] \in Nat /\ bucket[r].count \in Nat
      BY DEF DiscoveryInv, CounterTypes
    <3>2. /\ counts'[r] = IF r = s THEN counts[r] + 1 ELSE counts[r]
          /\ bumped'[r] = IF r = s THEN bumped[r] + 1 ELSE bumped[r]
      BY <2>1 DEF DiscoveryInv, CounterTypes
    <3>. QED  BY <3>1, <3>2 DEF DiscoveryInv, FlushInv
  <2>4. FlushInv'
    BY <2>1, <2>3 DEF DiscoveryInv, FlushInv, Cancelled
  <2>. QED  BY <2>2, <2>4 DEF DiscoveryInv
<1>. QED  BY <1>1, <1>2

\* flush_bucket's first half: nothing is lost between counters and bucket, and
\* after the last one everything due has left the counters.
LEMMA SwapOutInv ==
  ASSUME DiscoveryInv, NEW s \in Sessions, DrainTick(s) \/ DrainCancelled(s)
  PROVE  DiscoveryInv'
<1>. PICK n \in {"write", "final"} : SwapOut(s, n) /\ drain[s] = "loop" /\ (n = "final" => Cancelled(s))
  BY DEF DrainTick, DrainCancelled
<1>1. UNCHANGED <<session, lock, started, cancelled, root, due, now, bumped>>
  BY DEF SwapOut, controlVars
<1>2. /\ counts[s] \in Nat /\ bumped[s] \in Nat /\ due[s] \in Nat /\ bucket[s].count = 0
  BY DEF DiscoveryInv, CounterTypes, FlushInv
<1>3. /\ \A r \in Sessions : drain'[r] = IF r = s THEN n ELSE drain[r]
      /\ \A r \in Sessions : counts'[r] = IF r = s THEN 0 ELSE counts[r]
      /\ \A r \in Sessions : bucket'[r] = IF r = s THEN [epoch |-> now, count |-> counts[s]] ELSE bucket[r]
  BY DEF SwapOut, DiscoveryInv, CounterTypes
<1>4. CounterTypes'
  BY <1>1 DEF SwapOut, DiscoveryInv, CounterTypes, DrainStages
<1>5. TasksAfterArm'
  BY <1>1, <1>3 DEF DiscoveryInv, TasksAfterArm
<1>6. FlushInv'
  <2>1. ASSUME NEW r \in Sessions
        PROVE  /\ counts'[r] + bucket'[r].count <= bumped[r] /\ due[r] <= bumped[r]
               /\ drain'[r] \in {"final"} \cup Ended => Cancelled(r)
               /\ drain'[r] \notin {"write", "final"} => bucket'[r].count = 0
               /\ drain'[r] = "final" => due[r] + counts'[r] <= bumped[r]
               /\ drain'[r] \in Ended => due[r] + counts'[r] <= bumped[r]
    <3>1. CASE r = s
      BY <1>2, <1>3, <3>1 DEF DiscoveryInv, FlushInv, Ended
    <3>2. CASE r # s
      BY <1>3, <3>2 DEF DiscoveryInv, FlushInv
    <3>. QED  BY <3>1, <3>2
  <2>. QED  BY <1>1, <2>1 DEF FlushInv, Cancelled
<1>. QED  BY <1>4, <1>5, <1>6 DEF DiscoveryInv

LEMMA DrainWriteInv ==
  ASSUME DiscoveryInv, NEW s \in Sessions, DrainWrite(s)
  PROVE  DiscoveryInv'
<1>1. UNCHANGED <<session, lock, started, cancelled, root, due, now, counts, bumped>>
  BY DEF DrainWrite, controlVars
<1>2. /\ counts[s] \in Nat /\ bumped[s] \in Nat /\ due[s] \in Nat /\ bucket[s].count \in Nat
      /\ drain[s] \in {"write", "final"}
  BY DEF DrainWrite, DiscoveryInv, CounterTypes
<1>3. /\ \A r \in Sessions : bucket'[r] = IF r = s THEN NoBucket ELSE bucket[r]
      /\ \A r \in Sessions : drain'[r] = IF r # s THEN drain[r]
                                         ELSE IF drain[s] = "write" THEN "loop" ELSE "disable"
  BY DEF DrainWrite, DiscoveryInv, CounterTypes
<1>4. CounterTypes'
  <2>1. NoBucket \in [epoch : Buckets, count : Nat]
    BY DiscoveryAssumption DEF NoBucket, Buckets
  <2>. QED  BY <1>1, <2>1 DEF DrainWrite, DiscoveryInv, CounterTypes, DrainStages
<1>5. TasksAfterArm'
  BY <1>1, <1>2, <1>3 DEF DiscoveryInv, TasksAfterArm
<1>6. FlushInv'
  <2>1. ASSUME NEW r \in Sessions
        PROVE  /\ counts[r] + bucket'[r].count <= bumped[r] /\ due[r] <= bumped[r]
               /\ drain'[r] \in {"final"} \cup Ended => Cancelled(r)
               /\ drain'[r] \notin {"write", "final"} => bucket'[r].count = 0
               /\ drain'[r] = "final" => due[r] + counts[r] <= bumped[r]
               /\ drain'[r] \in Ended => due[r] + counts[r] <= bumped[r]
    <3>1. CASE r = s
      BY <1>2, <1>3, <3>1 DEF DiscoveryInv, FlushInv, Ended, NoBucket
    <3>2. CASE r # s
      BY <1>3, <3>2 DEF DiscoveryInv, FlushInv
    <3>. QED  BY <3>1, <3>2
  <2>. QED  BY <1>1, <2>1 DEF FlushInv, Cancelled
<1>. QED  BY <1>4, <1>5, <1>6 DEF DiscoveryInv

LEMMA DrainEndInv ==
  ASSUME DiscoveryInv, NEW s \in Sessions, DrainEnd(s)
  PROVE  DiscoveryInv'
<1>1. UNCHANGED <<lock, started, cancelled, root, due, now, counts, bumped, bucket>>
  BY DEF DrainEnd, countVars
<1>. PICK n \in {"clear", "done"} : drain' = [drain EXCEPT ![s] = n] /\ drain[s] \in {"disable", "clear"}
  BY DEF DrainEnd
<1>2. \A r \in Sessions : drain'[r] = IF r = s THEN n ELSE drain[r]
  BY DEF DiscoveryInv, CounterTypes
<1>3. session' \in 0..MaxSession
  BY DiscoveryAssumption DEF DrainEnd, DiscoveryInv, CounterTypes
<1>4. CounterTypes'
  BY <1>1, <1>3 DEF DiscoveryInv, CounterTypes, DrainStages
<1>5. TasksAfterArm'
  BY <1>1, <1>2 DEF DiscoveryInv, TasksAfterArm
<1>6. FlushInv'
  BY <1>1, <1>2 DEF DiscoveryInv, FlushInv, Ended, Cancelled
<1>. QED  BY <1>4, <1>5, <1>6 DEF DiscoveryInv

LEMMA DiscoveryStepInv == DiscoveryInv /\ [DiscoveryNext]_discoveryVars => DiscoveryInv'
<1> SUFFICES ASSUME DiscoveryInv, [DiscoveryNext]_discoveryVars PROVE DiscoveryInv'
  OBVIOUS
<1>1. CASE Control \/ RootCancel
  BY <1>1, ControlInv
<1>2. ASSUME NEW t \in Threads, LogChecks(t) \/ LogLoad(t) \/ LogBump(t) PROVE DiscoveryInv'
  BY <1>2, LogInv
<1>3. ASSUME NEW s \in Sessions, DrainTick(s) \/ DrainRuns(s) PROVE DiscoveryInv'
  BY <1>3, SwapOutInv, DrainWriteInv, DrainEndInv DEF DrainRuns
<1>4. CASE Prune \/ SecondPasses \/ UNCHANGED discoveryVars
  <2>1. UNCHANGED <<session, lock, started, cancelled, root, drain, due, counts, bumped, bucket>>
    BY <1>4 DEF Prune, SecondPasses, controlVars, discoveryVars
  <2>2. now' \in Buckets
    BY <1>4, DiscoveryAssumption
       DEF Prune, SecondPasses, discoveryVars, Buckets, DiscoveryInv, CounterTypes
  <2>. QED  BY <2>1, <2>2 DEF DiscoveryInv, CounterTypes, TasksAfterArm, FlushInv, Cancelled
<1>. QED  BY <1>1, <1>2, <1>3, <1>4 DEF DiscoveryNext

\* The last bucket of a session (flush_bucket after the cancellation,
\* discovery.rs) has gone to the table, or been lost to a failed upsert, when
\* its drain task disarms the controller, whatever the FUSE threads record
\* between the steps of the flush.
THEOREM LastBucketsAreFlushed == DiscoverySpec => []LastBucketFlushed
<1>1. DiscoverySpec => []DiscoveryInv
  BY DiscoveryInitInv, DiscoveryStepInv, PTL DEF DiscoverySpec
<1>2. DiscoveryInv => LastBucketFlushed
  <2>1. SUFFICES ASSUME DiscoveryInv, NEW s \in Sessions, drain[s] \in Ended
                 PROVE  due[s] <= bumped[s] - counts[s] - bucket[s].count
    BY DEF LastBucketFlushed, Ended
  <2>2. counts[s] \in Nat /\ bumped[s] \in Nat /\ due[s] \in Nat /\ bucket[s].count = 0
    BY <2>1 DEF DiscoveryInv, CounterTypes, FlushInv, Ended
  <2>. QED  BY <2>1, <2>2 DEF DiscoveryInv, FlushInv
<1>. QED  BY <1>1, <1>2, PTL

-----------------------------------------------------------------------------
(* Discovery: the accounts.                                                *)

SwappedOut == [s \in Sessions |-> bucket[s].count]

\* The rest of the state, and that the operations recorded are bounded in all.
AccountTypes ==
  /\ enabled \in BOOLEAN /\ root \in BOOLEAN /\ lock \in {"free", "arm", "cancel", "disarm"}
  /\ thread \in [Threads -> {SawEnabled} \cup 0..MaxSession]
  /\ table \in [Buckets -> Nat] /\ pruned \in Nat /\ lost \in Nat

AccountInv == AccountTypes /\ CountsConserved /\ SumFunction(bumped) <= MaxBumps

LEMMA SessionsFinite ==
  /\ IsFiniteSet(Sessions) /\ IsFiniteSet(Buckets)
  /\ [Sessions -> Nat] \subseteq [Sessions -> Int] /\ [Buckets -> Nat] \subseteq [Buckets -> Int]
  BY DiscoveryAssumption, FS_Interval DEF Sessions, Buckets

\* The sum of natural numbers, over sessions or buckets.
LEMMA CountSum ==
  ASSUME NEW S \in {Sessions, Buckets}, NEW f \in [S -> Nat]
  PROVE  /\ SumFunction(f) \in Nat
         /\ \A x \in S : f[x] <= SumFunction(f)
         /\ (\A x \in S : f[x] = 0) => SumFunction(f) = 0
<1>1. IsFiniteSet(S) /\ DOMAIN f = S /\ \A x \in S : f[x] \in Nat
  BY SessionsFinite
<1>2. SumFunctionOnSet(f, S) \in Nat
  BY <1>1, SumNat
<1>3. \A x \in S : f[x] <= SumFunctionOnSet(f, S)
  BY <1>1, SumOfOne
<1>4. (\A x \in S : f[x] = 0) => SumFunctionOnSet(f, S) = 0
  BY <1>1, SumZero
<1>. QED  BY <1>1, <1>2, <1>3, <1>4 DEF SumFunction

LEMMA AccountInitInv == DiscoveryInit => AccountInv
<1> SUFFICES ASSUME DiscoveryInit PROVE AccountInv
  OBVIOUS
<1>1. AccountTypes
  <2>1. 0 \in 0..MaxSession
    BY DiscoveryAssumption
  <2>2. thread \in [Threads -> {SawEnabled} \cup 0..MaxSession]
    BY <2>1 DEF DiscoveryInit
  <2>. QED  BY <2>2 DEF DiscoveryInit, AccountTypes
<1>2. /\ counts \in [Sessions -> Nat] /\ bumped \in [Sessions -> Nat]
      /\ SwappedOut \in [Sessions -> Nat] /\ table \in [Buckets -> Nat]
      /\ \A s \in Sessions : counts[s] = 0 /\ bumped[s] = 0 /\ SwappedOut[s] = 0
      /\ \A b \in Buckets : table[b] = 0
  BY DEF DiscoveryInit, SwappedOut, NoBucket
<1>3. SumFunction(counts) = 0 /\ SumFunction(bumped) = 0 /\ SumFunction(SwappedOut) = 0 /\ SumFunction(table) = 0
  BY <1>2, CountSum
<1>4. pruned = 0 /\ lost = 0 /\ 0 <= MaxBumps
  BY DiscoveryAssumption DEF DiscoveryInit
<1>. QED  BY <1>1, <1>3, <1>4 DEF AccountInv, CountsConserved, SwappedOut

\* The sums as numbers, and what a step makes of them.
LEMMA AccountSums ==
  ASSUME DiscoveryInv, AccountInv
  PROVE  /\ SwappedOut \in [Sessions -> Nat]
         /\ SumFunction(counts) \in Nat /\ SumFunction(bumped) \in Nat
         /\ SumFunction(SwappedOut) \in Nat /\ SumFunction(table) \in Nat
         /\ pruned \in Nat /\ lost \in Nat
         /\ SumFunction(bumped) = SumFunction(counts) + SumFunction(SwappedOut) + SumFunction(table) + pruned + lost
<1>1. SwappedOut \in [Sessions -> Nat]
  BY DEF SwappedOut, DiscoveryInv, CounterTypes
<1>2. /\ counts \in [Sessions -> Nat] /\ bumped \in [Sessions -> Nat] /\ table \in [Buckets -> Nat]
      /\ pruned \in Nat /\ lost \in Nat
  BY DEF DiscoveryInv, CounterTypes, AccountInv, AccountTypes
<1>3. /\ SumFunction(counts) \in Nat /\ SumFunction(bumped) \in Nat
      /\ SumFunction(SwappedOut) \in Nat /\ SumFunction(table) \in Nat
  BY <1>1, <1>2, CountSum
<1>. QED  BY <1>1, <1>2, <1>3 DEF AccountInv, CountsConserved, SwappedOut

IsSet(f, x, v, h) == h = [f EXCEPT ![x] = v]
LEMMA CountSet ==
  ASSUME NEW S \in {Sessions, Buckets}, NEW f \in [S -> Nat], NEW x \in S, NEW v \in Nat,
         NEW h, IsSet(f, x, v, h)
  PROVE  SumFunction(h) = SumFunction(f) + (v - f[x])
<1>1. IsFiniteSet(S) /\ f \in [S -> Int] /\ v \in Int
  BY SessionsFinite
<1>. QED  BY <1>1, SumUpdate DEF IsSet

LEMMA BumpAccount ==
  ASSUME DiscoveryInv, AccountInv, NEW t \in Threads, LogBump(t)
  PROVE  AccountInv'
<1>1. PICK s \in Sessions : s = thread[t]
  BY DEF LogBump
<1>2. /\ counts' = [counts EXCEPT ![s] = counts[s] + 1] /\ bumped' = [bumped EXCEPT ![s] = bumped[s] + 1]
      /\ SumFunction(bumped) < MaxBumps
      /\ UNCHANGED <<enabled, root, lock, bucket, table, pruned, lost>>
      /\ thread' = [thread EXCEPT ![t] = 0]
  BY <1>1 DEF LogBump, Bumped, controlVars
<1>3. AccountTypes'
  BY <1>2, DiscoveryAssumption DEF AccountInv, AccountTypes
<1>4. /\ counts \in [Sessions -> Nat] /\ bumped \in [Sessions -> Nat]
      /\ counts[s] \in Nat /\ bumped[s] \in Nat
  BY DEF DiscoveryInv, CounterTypes
<1>5. /\ SumFunction(counts') = SumFunction(counts) + ((counts[s] + 1) - counts[s])
      /\ SumFunction(bumped') = SumFunction(bumped) + ((bumped[s] + 1) - bumped[s])
  <2>1. counts[s] + 1 \in Nat /\ bumped[s] + 1 \in Nat
    BY <1>4
  <2>2. IsSet(counts, s, counts[s] + 1, counts') /\ IsSet(bumped, s, bumped[s] + 1, bumped')
    BY <1>2 DEF IsSet
  <2>3. SumFunction(counts') = SumFunction(counts) + ((counts[s] + 1) - counts[s])
    BY <1>4, <2>1, <2>2, CountSet
  <2>4. SumFunction(bumped') = SumFunction(bumped) + ((bumped[s] + 1) - bumped[s])
    BY <1>4, <2>1, <2>2, CountSet
  <2>. QED  BY <2>3, <2>4
<1>6. SwappedOut' = SwappedOut
  BY <1>2 DEF SwappedOut
<1>7. /\ SumFunction(bumped') = SumFunction(counts') + SumFunction(SwappedOut') + SumFunction(table') + pruned' + lost'
      /\ SumFunction(bumped') <= MaxBumps
  <2>1. \A c, b, w, k, p, l, x, y \in Nat : b = c + w + k + p + l =>
          b + ((y + 1) - y) = (c + ((x + 1) - x)) + w + k + p + l
    OBVIOUS
  <2>2. \A b, y \in Nat : b < MaxBumps => b + ((y + 1) - y) <= MaxBumps
    BY DiscoveryAssumption
  <2>3. /\ SumFunction(table') = SumFunction(table) /\ SumFunction(SwappedOut') = SumFunction(SwappedOut)
        /\ pruned' = pruned /\ lost' = lost
    BY <1>2, <1>6
  <2>. QED  BY <2>1, <2>2, <2>3, <1>2, <1>4, <1>5, AccountSums
<1>. QED  BY <1>3, <1>7 DEF AccountInv, CountsConserved, SwappedOut

LEMMA SwapAccount ==
  ASSUME DiscoveryInv, AccountInv, NEW s \in Sessions, DrainTick(s) \/ DrainCancelled(s)
  PROVE  AccountInv'
<1>. PICK n : SwapOut(s, n) /\ drain[s] = "loop"
  BY DEF DrainTick, DrainCancelled
<1>1. /\ UNCHANGED <<enabled, root, lock, bumped, table, thread, pruned, lost>>
      /\ bucket' = [bucket EXCEPT ![s] = [epoch |-> now, count |-> counts[s]]]
      /\ counts' = [counts EXCEPT ![s] = 0]
  BY DEF SwapOut, controlVars
<1>2. AccountTypes'
  BY <1>1 DEF AccountInv, AccountTypes
<1>3. counts \in [Sessions -> Nat] /\ counts[s] \in Nat /\ bucket[s].count = 0 /\ SwappedOut[s] = 0
  BY DEF DiscoveryInv, CounterTypes, FlushInv, SwappedOut
<1>4. SwappedOut' = [SwappedOut EXCEPT ![s] = counts[s]]
  BY <1>1 DEF SwappedOut, DiscoveryInv, CounterTypes
<1>5. /\ SumFunction(counts') = SumFunction(counts) + (0 - counts[s])
      /\ SumFunction(SwappedOut') = SumFunction(SwappedOut) + (counts[s] - 0)
  <2>0. IsSet(counts, s, 0, counts')
    BY <1>1 DEF IsSet
  <2>1. SumFunction(counts') = SumFunction(counts) + (0 - counts[s])
    BY <1>3, <2>0, CountSet
  <2>2. PICK w \in [Sessions -> Nat] : w = SwappedOut
    BY AccountSums
  <2>3. IsSet(w, s, counts[s], SwappedOut')
    BY <1>4, <2>2 DEF IsSet
  <2>4. SumFunction(SwappedOut') = SumFunction(w) + (counts[s] - w[s])
    BY <1>3, <2>3, CountSet
  <2>. QED  BY <2>1, <2>2, <2>4, <1>3
<1>6. SumFunction(bumped') = SumFunction(counts') + SumFunction(SwappedOut') + SumFunction(table') + pruned' + lost'
  <2>1. \A c, b, w, k, p, l, x \in Nat : b = c + w + k + p + l =>
          b = (c + (0 - x)) + (w + (x - 0)) + k + p + l
    OBVIOUS
  <2>2. /\ SumFunction(table') = SumFunction(table) /\ SumFunction(bumped') = SumFunction(bumped)
        /\ pruned' = pruned /\ lost' = lost
    BY <1>1
  <2>. QED  BY <2>1, <2>2, <1>3, <1>5, AccountSums
<1>7. SumFunction(bumped') <= MaxBumps
  BY <1>1 DEF AccountInv
<1>. QED  BY <1>2, <1>6, <1>7 DEF AccountInv, CountsConserved, SwappedOut

LEMMA WriteAccount ==
  ASSUME DiscoveryInv, AccountInv, NEW s \in Sessions, DrainWrite(s)
  PROVE  AccountInv'
<1>1. PICK b \in Buckets, c \in Nat : b = bucket[s].epoch /\ c = bucket[s].count
  BY DEF DiscoveryInv, CounterTypes
<1>2. /\ UNCHANGED <<enabled, root, lock, bumped, counts, thread, pruned>>
      /\ bucket' = [bucket EXCEPT ![s] = NoBucket]
  BY DEF DrainWrite, controlVars
<1>9. PICK d \in 0..c : table' = [table EXCEPT ![b] = table[b] + d] /\ lost' = lost + (c - d)
  BY <1>1 DEF DrainWrite, Upserted
<1>10. d \in Nat /\ d <= c /\ c - d \in Nat
  BY <1>9
<1>3. /\ table \in [Buckets -> Nat] /\ table[b] \in Nat /\ table[b] + d \in Nat /\ SwappedOut[s] = c
      /\ lost \in Nat /\ lost' \in Nat
  BY <1>1, <1>9, <1>10 DEF AccountInv, AccountTypes, SwappedOut
<1>4. AccountTypes'
  BY <1>2, <1>3, <1>9 DEF AccountInv, AccountTypes
<1>5. SwappedOut' = [SwappedOut EXCEPT ![s] = 0]
  BY <1>2 DEF SwappedOut, DiscoveryInv, CounterTypes, NoBucket
<1>6. /\ SumFunction(table') = SumFunction(table) + ((table[b] + d) - table[b])
      /\ SumFunction(SwappedOut') = SumFunction(SwappedOut) + (0 - c)
  <2>0. IsSet(table, b, table[b] + d, table')
    BY <1>9 DEF IsSet
  <2>1. SumFunction(table') = SumFunction(table) + ((table[b] + d) - table[b])
    BY <1>3, <2>0, CountSet
  <2>2. PICK w \in [Sessions -> Nat] : w = SwappedOut
    BY AccountSums
  <2>3. IsSet(w, s, 0, SwappedOut')
    BY <1>5, <2>2 DEF IsSet
  <2>4. SumFunction(SwappedOut') = SumFunction(w) + (0 - w[s])
    BY <2>3, CountSet
  <2>. QED  BY <2>1, <2>2, <2>4, <1>3
<1>7. SumFunction(bumped') = SumFunction(counts') + SumFunction(SwappedOut') + SumFunction(table') + pruned' + lost'
  <2>1. \A n, m, w, k, p, l, x, y, z \in Nat : m = n + w + k + p + l =>
          m = n + (w + (0 - x)) + (k + ((y + z) - y)) + p + (l + (x - z))
    OBVIOUS
  <2>2. SumFunction(counts') = SumFunction(counts) /\ pruned' = pruned /\ SumFunction(bumped') = SumFunction(bumped)
    BY <1>2
  <2>. QED  BY <2>1, <2>2, <1>3, <1>6, <1>9, <1>10, AccountSums
<1>8. SumFunction(bumped') <= MaxBumps
  BY <1>2 DEF AccountInv
<1>. QED  BY <1>4, <1>7, <1>8 DEF AccountInv, CountsConserved, SwappedOut

LEMMA PruneAccount ==
  ASSUME DiscoveryInv, AccountInv, Prune
  PROVE  AccountInv'
<1>1. /\ UNCHANGED <<enabled, root, lock, bumped, counts, bucket, thread, lost>>
      /\ table' = [b \in Buckets |-> IF b \in Old THEN 0 ELSE table[b]]
      /\ pruned' = pruned + SumFunctionOnSet(table, Old)
  BY DEF Prune, controlVars
<1>2. PICK O \in SUBSET Buckets : O = Old
  BY DEF Old
<1>3. /\ table \in [Buckets -> Nat] /\ pruned \in Nat /\ IsFiniteSet(Buckets)
      /\ \A b \in Buckets : table[b] \in Nat /\ table[b] \in Int
  BY SessionsFinite DEF AccountInv, AccountTypes
<1>4. /\ SumFunctionOnSet(table, O) \in Nat
      /\ SumFunctionOnSet(table, Buckets) = SumFunctionOnSet(table, O) + SumFunctionOnSet(table, Buckets \ O)
  BY <1>3, SumOfPart, SumSplit
<1>5. AccountTypes'
  BY <1>1, <1>2, <1>3, <1>4 DEF AccountInv, AccountTypes
<1>6. /\ table' \in [Buckets -> Nat] /\ \A b \in Buckets : table'[b] \in Int
      /\ \A b \in O : table'[b] = 0
      /\ \A b \in Buckets \ O : table[b] \in Int /\ table[b] = table'[b]
  BY <1>1, <1>2, <1>3
<1>7. IsFiniteSet(O) /\ IsFiniteSet(Buckets \ O)
  BY <1>3, FS_Subset
<1>8. /\ SumFunctionOnSet(table', O) = 0
      /\ SumFunctionOnSet(table', Buckets \ O) = SumFunctionOnSet(table, Buckets \ O)
      /\ SumFunctionOnSet(table', Buckets) = SumFunctionOnSet(table', O) + SumFunctionOnSet(table', Buckets \ O)
  <2>1. SumFunctionOnSet(table', O) = 0
    BY <1>6, <1>7, SumZero
  <2>2. SumFunctionOnSet(table', Buckets \ O) = SumFunctionOnSet(table, Buckets \ O)
    BY <1>6, <1>7, SumAgree
  <2>3. SumFunctionOnSet(table', Buckets) = SumFunctionOnSet(table', O) + SumFunctionOnSet(table', Buckets \ O)
    BY <1>3, <1>6, SumSplit
  <2>. QED  BY <2>1, <2>2, <2>3
<1>9. SumFunctionOnSet(table, Buckets \ O) \in Nat
  <2>1. \A b \in Buckets \ O : table[b] \in Nat
    BY <1>3
  <2>. QED  BY <2>1, <1>7, SumNat
<1>10. /\ SumFunction(table) = SumFunctionOnSet(table, O) + SumFunctionOnSet(table, Buckets \ O)
       /\ SumFunction(table') = SumFunctionOnSet(table, Buckets \ O)
       /\ pruned' = pruned + SumFunctionOnSet(table, O)
  BY <1>1, <1>2, <1>3, <1>4, <1>6, <1>8, <1>9 DEF SumFunction
<1>11. SumFunction(bumped') = SumFunction(counts') + SumFunction(SwappedOut') + SumFunction(table') + pruned' + lost'
  <2>1. \A n, m, w, p, l, x, y \in Nat : m = n + w + (x + y) + p + l => m = n + w + y + (p + x) + l
    OBVIOUS
  <2>2. /\ SumFunction(counts') = SumFunction(counts) /\ SumFunction(bumped') = SumFunction(bumped)
        /\ SwappedOut' = SwappedOut /\ lost' = lost
    BY <1>1 DEF SwappedOut
  <2>. QED  BY <2>1, <2>2, <1>4, <1>9, <1>10, AccountSums
<1>12. SumFunction(bumped') <= MaxBumps
  BY <1>1 DEF AccountInv
<1>. QED  BY <1>5, <1>11, <1>12 DEF AccountInv, CountsConserved, SwappedOut

LEMMA AccountStepInv ==
  ASSUME DiscoveryInv, AccountInv, [DiscoveryNext]_discoveryVars
  PROVE  AccountInv'
<1>1. ASSUME AccountTypes', UNCHANGED <<bumped, counts, bucket, table, pruned, lost>> PROVE AccountInv'
  BY <1>1 DEF AccountInv, CountsConserved
<1>2. CASE Control \/ RootCancel
  <2>1. UNCHANGED <<bumped, counts, bucket, table, pruned, lost, thread>>
    BY <1>2 DEF Control, StartNew, StartArm, StopCancel, StopDisarm, StopClear, RootCancel, countVars
  <2>2. enabled' \in BOOLEAN /\ root' \in BOOLEAN /\ lock' \in {"free", "arm", "cancel", "disarm"}
    BY <1>2 DEF Control, StartNew, StartArm, StopCancel, StopDisarm, StopClear, RootCancel,
       AccountInv, AccountTypes
  <2>. QED  BY <2>1, <2>2, <1>1 DEF AccountInv, AccountTypes
<1>3. ASSUME NEW t \in Threads, LogChecks(t) \/ LogLoad(t) PROVE AccountInv'
  <2>1. /\ UNCHANGED <<bumped, counts, bucket, table, pruned, lost, enabled, root, lock>>
        /\ thread' = [thread EXCEPT ![t] = SawEnabled] \/ thread' = [thread EXCEPT ![t] = session]
    BY <1>3 DEF LogChecks, LogLoad, controlVars
  <2>2. session \in 0..MaxSession
    BY DEF DiscoveryInv, CounterTypes
  <2>. QED  BY <2>1, <2>2, <1>1 DEF AccountInv, AccountTypes
<1>4. ASSUME NEW t \in Threads, LogBump(t) PROVE AccountInv'
  BY <1>4, BumpAccount
<1>5. ASSUME NEW s \in Sessions, DrainTick(s) \/ DrainCancelled(s) PROVE AccountInv'
  BY <1>5, SwapAccount
<1>6. ASSUME NEW s \in Sessions, DrainWrite(s) PROVE AccountInv'
  BY <1>6, WriteAccount
<1>7. ASSUME NEW s \in Sessions, DrainEnd(s) PROVE AccountInv'
  <2>1. UNCHANGED <<bumped, counts, bucket, table, pruned, lost, thread, root, lock>> /\ enabled' \in BOOLEAN
    BY <1>7 DEF DrainEnd, countVars, AccountInv, AccountTypes
  <2>. QED  BY <2>1, <1>1 DEF AccountInv, AccountTypes
<1>8. CASE Prune
  BY <1>8, PruneAccount
<1>9. CASE SecondPasses \/ UNCHANGED discoveryVars
  <2>1. UNCHANGED <<bumped, counts, bucket, table, pruned, lost, thread, root, lock, enabled>>
    BY <1>9 DEF SecondPasses, controlVars, discoveryVars
  <2>. QED  BY <2>1, <1>1 DEF AccountInv, AccountTypes
<1>. QED  BY <1>2, <1>3, <1>4, <1>5, <1>6, <1>7, <1>8, <1>9 DEF DiscoveryNext, DrainRuns

\* Both invariants together.
LEMMA DiscoveryInvariance == DiscoverySpec => [](DiscoveryInv /\ AccountInv)
<1>1. DiscoveryInit => DiscoveryInv /\ AccountInv
  BY DiscoveryInitInv, AccountInitInv
<1>2. DiscoveryInv /\ AccountInv /\ [DiscoveryNext]_discoveryVars => (DiscoveryInv /\ AccountInv)'
  BY DiscoveryStepInv, AccountStepInv
<1>. QED  BY <1>1, <1>2, PTL DEF DiscoverySpec

\* No operation that a FUSE thread recorded (bump) is counted twice or lost by
\* flush_bucket, upsert_process_access or the pruning, for any number of
\* threads and sessions, other than with rows that an upsert fails to write.
THEOREM CountsAreConserved == DiscoverySpec => []CountsConserved
<1>1. AccountInv => CountsConserved
  BY DEF AccountInv
<1>. QED  BY <1>1, DiscoveryInvariance, PTL

\* What the invariants say of the types: a counter, a bucket, a row of the
\* table or the pruned total is a part of what was recorded.
LEMMA DiscoveryTypes ==
  ASSUME DiscoveryInv, AccountInv
  PROVE  DiscoveryTypeOK
<1>1. /\ counts \in [Sessions -> Nat] /\ bumped \in [Sessions -> Nat] /\ due \in [Sessions -> Nat]
      /\ bucket \in [Sessions -> [epoch : Buckets, count : Nat]]
      /\ table \in [Buckets -> Nat] /\ pruned \in Nat /\ lost \in Nat
  BY DEF DiscoveryInv, CounterTypes, AccountInv, AccountTypes
<1>2. /\ SumFunction(bumped) <= MaxBumps /\ SumFunction(bumped) \in Nat /\ MaxBumps \in Nat
      /\ SumFunction(table) \in Nat /\ SumFunction(table) <= SumFunction(bumped)
      /\ pruned <= SumFunction(bumped) /\ lost <= SumFunction(bumped)
  <2>1. \A n, m, w, k, p, l \in Nat : m = n + w + k + p + l => k <= m /\ p <= m /\ l <= m
    OBVIOUS
  <2>2. SumFunction(bumped) <= MaxBumps
    BY DEF AccountInv
  <2>. QED  BY <2>1, <2>2, AccountSums, DiscoveryAssumption
<1>3. \A s \in Sessions : bumped[s] <= SumFunction(bumped)
  BY <1>1, CountSum
<1>4. \A b \in Buckets : table[b] <= SumFunction(table)
  BY <1>1, CountSum
<1>5. pruned \in 0..MaxBumps /\ lost \in 0..MaxBumps
  BY <1>1, <1>2
<1>6. ASSUME NEW s \in Sessions
      PROVE  /\ counts[s] \in 0..MaxBumps /\ bumped[s] \in 0..MaxBumps /\ due[s] \in 0..MaxBumps
             /\ bucket[s] \in [epoch : Buckets, count : 0..MaxBumps]
  <2>1. counts[s] + bucket[s].count <= bumped[s] /\ due[s] <= bumped[s]
    BY DEF DiscoveryInv, FlushInv
  <2>2. counts[s] \in Nat /\ bumped[s] \in Nat /\ due[s] \in Nat /\ bucket[s].count \in Nat
    BY <1>1
  <2>3. \A n, k, m, q, M \in Nat : n + k <= m /\ m <= q /\ q <= M => n \in 0..M /\ k \in 0..M /\ m \in 0..M
    OBVIOUS
  <2>4. \A n, m, q, M \in Nat : n <= m /\ m <= q /\ q <= M => n \in 0..M
    OBVIOUS
  <2>5. counts[s] \in 0..MaxBumps /\ bumped[s] \in 0..MaxBumps /\ bucket[s].count \in 0..MaxBumps
    BY <2>1, <2>2, <2>3, <1>2, <1>3
  <2>6. due[s] \in 0..MaxBumps
    BY <2>1, <2>2, <2>4, <1>2, <1>3
  <2>. QED  BY <2>5, <2>6, <1>1
<1>7. ASSUME NEW b \in Buckets PROVE table[b] \in 0..MaxBumps
  <2>1. \A n, m, q, M \in Nat : n <= m /\ m <= q /\ q <= M => n \in 0..M
    OBVIOUS
  <2>2. table[b] \in Nat
    BY <1>1
  <2>. QED  BY <2>1, <2>2, <1>2, <1>4
<1>8. /\ counts \in [Sessions -> 0..MaxBumps] /\ bumped \in [Sessions -> 0..MaxBumps]
      /\ due \in [Sessions -> 0..MaxBumps]
      /\ bucket \in [Sessions -> [epoch : Buckets, count : 0..MaxBumps]]
      /\ table \in [Buckets -> 0..MaxBumps]
  BY <1>1, <1>6, <1>7
<1>. QED  BY <1>5, <1>8 DEF DiscoveryTypeOK, DiscoveryInv, CounterTypes, AccountInv, AccountTypes

\* The types, with their bounds: no counter, no flush under way, no row of the
\* table and not the pruned total exceeds what was recorded (bump).
THEOREM DiscoveryTypeCorrect == DiscoverySpec => []DiscoveryTypeOK
<1>1. DiscoveryInv /\ AccountInv => DiscoveryTypeOK
  BY DiscoveryTypes
<1>. QED  BY <1>1, DiscoveryInvariance, PTL

-----------------------------------------------------------------------------
(* Telemetry: the inductive invariant.                                     *)

\* Receivers are within the channel; a handler that does not forward yet has
\* read nothing and shows nothing.
ReceiversInside ==
  /\ ringPos <= Len(chan)
  /\ \A c \in Clients :
       /\ client[c].from <= client[c].pos /\ client[c].pos <= Len(chan)
       /\ client[c].at # "live" => client[c].pos = client[c].from /\ client[c].active = {}

StartedAt(f, i) == chan[i].type = "Started" /\ chan[i].file = f
EndedAt(f, i) == chan[i].type \in {"Complete", "Failed"} /\ chan[i].file = f

\* A start in the channel that no end follows is of a copy that runs.
OpenStartsRun ==
  \A f \in Files, i \in DOMAIN chan :
    StartedAt(f, i) /\ (\A k \in (i + 1)..Len(chan) : ~EndedAt(f, k))
      => \E j \in Copies : j[1] = f /\ job[j] = "copying"

\* A copy on a dashboard has started and, as far as was read, not ended.
ActiveHaveStarted ==
  \A c \in Clients : client[c].at = "live" /\ ~client[c].lagged =>
    \A f \in client[c].active :
      \E i \in 1..client[c].pos :
        StartedAt(f, i) /\ \A k \in (i + 1)..client[c].pos : ~EndedAt(f, k)

\* Before its pipeline is created a file has no job.
JobsAreSpawned == \A j \in Jobs : job[j] # "idle" => j[1] \in running

TelemetryInv ==
  /\ TelemetryTypeOK /\ ReceiversInside /\ NoLineMissed /\ OpenStartsRun /\ ActiveHaveStarted
  /\ JobsAreSpawned

LEMMA NoHandlerType == NoHandler \in Handlers
<1>1. <<>> \in Seq(Positions) /\ 0 \in 0..MaxSent
  BY TelemetryAssumption
<1>. QED  BY <1>1 DEF NoHandler, Handlers

LEMMA TelemetryInitInv == TelemetryInit => TelemetryInv
<1> SUFFICES ASSUME TelemetryInit PROVE TelemetryInv
  OBVIOUS
<1>1. TelemetryTypeOK
  <2>1. chan \in Seq(Messages) /\ Len(chan) = 0 /\ ring \in Seq(Positions) /\ Len(ring) = 0
    BY DEF TelemetryInit
  <2>2. Len(chan) <= MaxSent /\ Len(ring) <= RingCap /\ ringPos \in 0..MaxSent
    BY <2>1, TelemetryAssumption DEF TelemetryInit
  <2>3. client \in [Clients -> Handlers]
    BY NoHandlerType DEF TelemetryInit
  <2>. QED  BY <2>1, <2>2, <2>3 DEF TelemetryInit, TelemetryTypeOK
<1>2. ReceiversInside
  BY DEF TelemetryInit, ReceiversInside, NoHandler
<1>3. NoLineMissed /\ OpenStartsRun /\ ActiveHaveStarted /\ JobsAreSpawned
  BY DEF TelemetryInit, NoLineMissed, OpenStartsRun, ActiveHaveStarted, JobsAreSpawned, NoHandler
<1>. QED  BY <1>1, <1>2, <1>3 DEF TelemetryInv

\* Messages are appended to the channel and never change.
Grows ==
  /\ chan' \in Seq(Messages) /\ Len(chan') <= MaxSent /\ Len(chan) <= Len(chan')
  /\ \A i \in 1..Len(chan) : chan'[i] = chan[i]

LEMMA AppendGrows ==
  ASSUME TelemetryInv, NEW type \in {"Log", "Goodbye"}, chan' = Append(chan, Message(type)), Len(chan') <= MaxSent
  PROVE  /\ Grows /\ Len(chan') = Len(chan) + 1
         /\ chan'[Len(chan) + 1] = Message(type)
<1>1. chan \in Seq(Messages) /\ Len(chan) \in Nat /\ Message(type) \in Messages
  BY LenProperties DEF TelemetryInv, TelemetryTypeOK, Message, Messages, Types, JobEvents
<1>. QED  BY <1>1, AppendProperties DEF Grows

\* on_event: the event itself and, after it, at most its log line.
LEMMA EmitGrows ==
  ASSUME TelemetryInv, NEW type \in JobEvents, NEW f \in Files, NEW logged \in BOOLEAN,
         Emit(type, f, logged)
  PROVE  /\ Grows /\ Len(chan') > Len(chan)
         /\ chan'[Len(chan) + 1] = [type |-> type, file |-> f]
         /\ \A k \in (Len(chan) + 2)..Len(chan') : chan'[k].type = "Log"
<1> DEFINE e == [type |-> type, file |-> f]
           s == Sent(type, f, logged)
<1>. PICK n \in Nat : n = Len(chan)
  BY LenProperties DEF TelemetryInv, TelemetryTypeOK
<1>1. chan \in Seq(Messages) /\ e \in Messages /\ Message("Log") \in Messages
  BY DEF TelemetryInv, TelemetryTypeOK, Message, Messages, Types, JobEvents
<1>2. chan' = chan \o s /\ Len(chan') <= MaxSent
  BY DEF Emit
<1>3. /\ s \in Seq(Messages) /\ Len(s) \in {1, 2} /\ s[1] = e
      /\ Len(s) = 2 => s[2] = Message("Log")
  <2>1. <<e>> \in Seq(Messages) /\ <<Message("Log")>> \in Seq(Messages)
    BY <1>1
  <2>2. CASE logged
    <3>1. s = <<e>> \o <<Message("Log")>>
      BY <2>2 DEF Sent
    <3>2. /\ s \in Seq(Messages) /\ Len(s) = Len(<<e>>) + Len(<<Message("Log")>>)
          /\ \A i \in 1..(Len(<<e>>) + Len(<<Message("Log")>>)) :
               s[i] = IF i <= Len(<<e>>) THEN <<e>>[i] ELSE <<Message("Log")>>[i - Len(<<e>>)]
      BY <2>1, <3>1, ConcatProperties
    <3>. QED  BY <3>2
  <2>3. CASE ~logged
    <3>1. s = <<e>>
      BY <2>1, <2>3, ConcatEmptySeq DEF Sent
    <3>. QED  BY <2>1, <3>1
  <2>. QED  BY <2>2, <2>3
<1> HIDE DEF s, e
<1>4. /\ chan' \in Seq(Messages) /\ Len(chan') = n + Len(s)
      /\ \A i \in 1..(n + Len(s)) : chan'[i] = IF i <= n THEN chan[i] ELSE s[i - n]
  <2>1. /\ chan' \in Seq(Messages) /\ Len(chan') = Len(chan) + Len(s)
        /\ \A i \in 1..(Len(chan) + Len(s)) :
             chan'[i] = IF i <= Len(chan) THEN chan[i] ELSE s[i - Len(chan)]
    BY <1>1, <1>2, <1>3, ConcatProperties
  <2>. QED  BY <2>1
<1>5. \A i \in 1..n : chan'[i] = chan[i]
  <2>1. \A l \in {1, 2}, i \in 1..n : i \in 1..(n + l) /\ i <= n
    OBVIOUS
  <2>2. \A i \in 1..n : i \in 1..(n + Len(s)) /\ i <= n
    BY <2>1, <1>3
  <2>. QED  BY <2>2, <1>4
<1>6. chan'[n + 1] = s[1]
  BY <1>3, <1>4
<1>7. \A k \in (n + 2)..(n + Len(s)) : k = n + 2 /\ Len(s) = 2 /\ chan'[k] = s[2]
  BY <1>3, <1>4
<1>. QED  BY <1>2, <1>3, <1>4, <1>5, <1>6, <1>7 DEF Grows, e, Message

\* New messages change nothing for those who have not read them.
LEMMA GrowsKeepsReceivers ==
  ASSUME TelemetryInv, Grows, UNCHANGED <<ringVars, client>>
  PROVE  ReceiversInside' /\ NoLineMissed' /\ ActiveHaveStarted'
<1>. PICK n \in Nat : n = Len(chan)
  BY LenProperties DEF TelemetryInv, TelemetryTypeOK
<1>1. /\ DOMAIN chan = 1..n /\ DOMAIN chan' = 1..Len(chan') /\ Len(chan') \in Nat /\ n <= Len(chan')
      /\ \A i \in 1..n : chan'[i] = chan[i]
  BY LenProperties DEF TelemetryInv, TelemetryTypeOK, Grows
<1>2. /\ client' = client /\ ringPos' = ringPos /\ ringPos \in Nat
      /\ \A c \in Clients : client[c].pos \in Nat /\ client[c].from \in Nat /\ client[c].pos <= n
  BY DEF ringVars, TelemetryInv, TelemetryTypeOK, Handlers, ReceiversInside
<1>3. ReceiversInside'
  BY <1>1, <1>2 DEF TelemetryInv, ReceiversInside
<1>4. NoLineMissed'
  <2>1. ASSUME NEW c \in Clients
        PROVE  Logs' \cap (client[c].from + 1)..client[c].pos = Logs \cap (client[c].from + 1)..client[c].pos
    BY <1>1, <1>2 DEF Logs
  <2>. QED  BY <1>2, <2>1 DEF TelemetryInv, NoLineMissed
<1>5. ActiveHaveStarted'
  <2>1. ASSUME NEW c \in Clients, NEW f, NEW i \in 1..client[c].pos
        PROVE  (StartedAt(f, i)' <=> StartedAt(f, i)) /\ (EndedAt(f, i)' <=> EndedAt(f, i))
    <3>1. i \in 1..n
      BY <1>2
    <3>. QED  BY <1>1, <3>1 DEF StartedAt, EndedAt
  <2>2. \A c \in Clients : \A i \in 1..client[c].pos : \A k \in (i + 1)..client[c].pos : k \in 1..client[c].pos
    BY <1>2
  <2>3. ASSUME NEW c \in Clients, client[c].at = "live", ~client[c].lagged, NEW f \in client[c].active
        PROVE  \E i \in 1..client[c].pos :
                 StartedAt(f, i)' /\ \A k \in (i + 1)..client[c].pos : ~EndedAt(f, k)'
    <3>1. PICK i \in 1..client[c].pos :
                 StartedAt(f, i) /\ \A k \in (i + 1)..client[c].pos : ~EndedAt(f, k)
      BY <2>3 DEF TelemetryInv, ActiveHaveStarted
    <3>. QED  BY <2>1, <2>2, <3>1
  <2>. QED  BY <1>2, <2>3 DEF ActiveHaveStarted
<1>. QED  BY <1>3, <1>4, <1>5

\* New messages and job states keep OpenStartsRun if a new start is of a copy
\* that runs, and a copy that no longer runs has sent its end.
LEMMA GrowsKeepsStarts ==
  ASSUME TelemetryInv, Grows,
         \A k \in (Len(chan) + 1)..Len(chan') : chan'[k].type = "Started" =>
           \E j \in Copies : j[1] = chan'[k].file /\ job'[j] = "copying",
         \A j \in Copies : job[j] = "copying" =>
           job'[j] = "copying" \/ \E k \in (Len(chan) + 1)..Len(chan') : EndedAt(j[1], k)'
  PROVE  OpenStartsRun'
<1>. PICK n \in Nat : n = Len(chan)
  BY LenProperties DEF TelemetryInv, TelemetryTypeOK
<1>1. /\ DOMAIN chan = 1..n /\ DOMAIN chan' = 1..Len(chan') /\ Len(chan') \in Nat /\ n <= Len(chan')
      /\ \A i \in 1..n : chan'[i] = chan[i]
  BY LenProperties DEF TelemetryInv, TelemetryTypeOK, Grows
<1>2. SUFFICES ASSUME NEW f \in Files, NEW i \in 1..Len(chan'), StartedAt(f, i)',
                      \A k \in (i + 1)..Len(chan') : ~EndedAt(f, k)'
               PROVE  \E j \in Copies : j[1] = f /\ job'[j] = "copying"
  BY <1>1 DEF OpenStartsRun
<1>3. CASE i > n
  <2>1. i \in (n + 1)..Len(chan')
    BY <1>1, <1>3
  <2>. QED  BY <1>2, <2>1 DEF StartedAt
<1>4. CASE i <= n
  <2>1. i \in 1..n
    BY <1>1, <1>4
  <2>2. StartedAt(f, i)
    BY <1>1, <1>2, <2>1 DEF StartedAt
  <2>3. ASSUME NEW k \in (i + 1)..n PROVE ~EndedAt(f, k)
    <3>1. k \in 1..n /\ k \in (i + 1)..Len(chan')
      BY <1>1, <2>1
    <3>. QED  BY <1>1, <1>2, <3>1 DEF EndedAt
  <2>4. PICK j \in Copies : j[1] = f /\ job[j] = "copying"
    BY <1>1, <2>1, <2>2, <2>3 DEF TelemetryInv, OpenStartsRun
  <2>5. ASSUME NEW k \in (n + 1)..Len(chan') PROVE ~EndedAt(f, k)'
    <3>1. k \in (i + 1)..Len(chan')
      BY <1>1, <2>1
    <3>. QED  BY <1>2, <3>1
  <2>. QED  BY <2>4, <2>5
<1>. QED  BY <1>1, <1>3, <1>4

\* The steps of the jobs of the pipeline.
LEMMA SourceInv ==
  ASSUME TelemetryInv, NEW j \in Jobs,
         Enqueued(j) \/ CopyQueued(j) \/ LeavesSilently(j) \/ NoRoom(j) \/ CopyStarts(j) \/ CopyEnds(j)
  PROVE  TelemetryInv'
<1>. PICK n \in Nat : n = Len(chan)
  BY LenProperties DEF TelemetryInv, TelemetryTypeOK
<1>0. j[1] \in Files /\ InfoLogged \in BOOLEAN /\ TRUE \in BOOLEAN
      /\ {"Queued", "Failed", "Started", "Complete"} \subseteq JobEvents
      /\ chan \in Seq(Messages) /\ n <= MaxSent
  BY TelemetryAssumption DEF Jobs, JobEvents, TelemetryInv, TelemetryTypeOK
<1>1. UNCHANGED <<ringVars, serving, shutdown, client>>
  BY DEF Enqueued, CopyQueued, LeavesSilently, NoRoom, CopyStarts, CopyEnds, Quiet, Emit
<1>2. /\ job' \in [Jobs -> {"idle", "queued", "copying"}]
      /\ unsaid' \subseteq Jobs /\ ticking' \subseteq Files
  BY <1>0 DEF Enqueued, CopyQueued, LeavesSilently, NoRoom, CopyStarts, CopyEnds, SaysQueued,
     TelemetryInv, TelemetryTypeOK
<1>3. Grows /\ OpenStartsRun'
  <2>0. job \in [Jobs -> {"idle", "queued", "copying"}] /\ Copies \subseteq Jobs
    BY DEF TelemetryInv, TelemetryTypeOK, Copies
  <2>1. CASE Enqueued(j) \/ LeavesSilently(j)
    <3>1. chan' = chan /\ Grows
      BY <1>0, <2>1, LenProperties DEF Enqueued, LeavesSilently, Quiet, Grows
    <3>2. \A i \in Copies : job[i] = "copying" => job'[i] = "copying"
      BY <2>0, <2>1 DEF Enqueued, LeavesSilently
    <3>3. (Len(chan) + 1)..Len(chan') = {}
      BY <3>1
    <3>. QED  BY <3>1, <3>2, <3>3, GrowsKeepsStarts
  <2>2. CASE CopyQueued(j) \/ NoRoom(j)
    <3>. PICK type \in {"Queued", "Failed"}, logged \in BOOLEAN : Emit(type, j[1], logged)
      BY <1>0, <2>2 DEF CopyQueued, NoRoom
    <3>1. /\ Grows /\ Len(chan') > n
          /\ chan'[n + 1] = [type |-> type, file |-> j[1]]
          /\ \A k \in (n + 2)..Len(chan') : chan'[k].type = "Log"
      BY <1>0, EmitGrows
    <3>2. \A i \in Copies : job[i] = "copying" => job'[i] = "copying"
      BY <2>0, <2>2 DEF CopyQueued, NoRoom
    <3>3. Len(chan') \in Nat
      BY <3>1, LenProperties DEF Grows
    <3>4. \A k \in (n + 1)..Len(chan') : k = n + 1 \/ k \in (n + 2)..Len(chan')
      BY <3>3
    <3>5. \A k \in (n + 1)..Len(chan') : chan'[k].type # "Started"
      BY <3>1, <3>4
    <3>. QED  BY <3>1, <3>2, <3>5, GrowsKeepsStarts
  <2>3. CASE CopyStarts(j)
    <3>1. /\ Grows /\ Len(chan') > n
          /\ chan'[n + 1] = [type |-> "Started", file |-> j[1]]
          /\ \A k \in (n + 2)..Len(chan') : chan'[k].type = "Log"
      BY <1>0, <2>3, EmitGrows DEF CopyStarts
    <3>2. j \in Copies /\ job'[j] = "copying" /\ \A i \in Copies : job[i] = "copying" => job'[i] = "copying"
      BY <2>0, <2>3 DEF CopyStarts
    <3>3. Len(chan') \in Nat
      BY <3>1, LenProperties DEF Grows
    <3>4. \A k \in (n + 1)..Len(chan') : k = n + 1 \/ k \in (n + 2)..Len(chan')
      BY <3>3
    <3>5. \A k \in (n + 1)..Len(chan') : chan'[k].type = "Started" => chan'[k].file = j[1]
      BY <3>1, <3>4
    <3>. QED  BY <3>1, <3>2, <3>5, GrowsKeepsStarts
  <2>4. CASE CopyEnds(j)
    <3>. PICK type \in {"Complete", "Failed"}, logged \in BOOLEAN : Emit(type, j[1], logged)
      BY <1>0, <2>4 DEF CopyEnds
    <3>1. /\ Grows /\ Len(chan') > n
          /\ chan'[n + 1] = [type |-> type, file |-> j[1]]
          /\ \A k \in (n + 2)..Len(chan') : chan'[k].type = "Log"
      BY <1>0, EmitGrows
    <3>2. \A i \in Copies : job[i] = "copying" => job'[i] = "copying" \/ i = j
      BY <2>0, <2>4 DEF CopyEnds
    <3>3. Len(chan') \in Nat /\ n + 1 \in (n + 1)..Len(chan')
      BY <3>1, LenProperties DEF Grows
    <3>4. \A k \in (n + 1)..Len(chan') : k = n + 1 \/ k \in (n + 2)..Len(chan')
      BY <3>3
    <3>5. \A k \in (n + 1)..Len(chan') : chan'[k].type # "Started"
      BY <3>1, <3>4
    <3>6. EndedAt(j[1], n + 1)'
      BY <3>1 DEF EndedAt
    <3>. QED  BY <3>1, <3>2, <3>3, <3>5, <3>6, GrowsKeepsStarts
  <2>. QED  BY <2>1, <2>2, <2>3, <2>4
<1>4. TelemetryTypeOK' /\ JobsAreSpawned'
  <2>1. UNCHANGED <<running, restored>>
    BY DEF Enqueued, CopyQueued, LeavesSilently, NoRoom, CopyStarts, CopyEnds
  <2>2. job \in [Jobs -> {"idle", "queued", "copying"}] /\ \A i \in Jobs : job[i] # "idle" => i[1] \in running
    BY DEF TelemetryInv, TelemetryTypeOK, JobsAreSpawned
  <2>3. \A i \in Jobs : job'[i] # "idle" => i[1] \in running
    BY <2>2 DEF Enqueued, CopyQueued, LeavesSilently, NoRoom, CopyStarts, CopyEnds
  <2>. QED  BY <1>1, <1>2, <1>3, <2>1, <2>3 DEF Grows, ringVars, TelemetryInv, TelemetryTypeOK, JobsAreSpawned
<1>. QED  BY <1>1, <1>3, <1>4, GrowsKeepsReceivers DEF TelemetryInv

\* A pipeline is created, with the jobs found in the database: none of its
\* files had a job before.
LEMMA SpawnInv ==
  ASSUME TelemetryInv, NEW f \in Files, Spawn(f)
  PROVE  TelemetryInv'
<1>1. /\ UNCHANGED <<chan, ringVars, serving, shutdown, client, unsaid, ticking>>
      /\ running' = running \cup {f} /\ f \notin running
  BY DEF Spawn, Quiet
<1>2. /\ job \in [Jobs -> {"idle", "queued", "copying"}] /\ restored \in Nat /\ Copies \subseteq Jobs
      /\ chan \in Seq(Messages) /\ Len(chan) \in Nat /\ Len(chan) <= MaxSent
  BY LenProperties DEF TelemetryInv, TelemetryTypeOK, Copies
<1>3. PICK i \in Jobs : i[1] = f /\ i = <<f, "Populate">>
  BY DEF Jobs
<1>4. job[i] = "idle"
  BY <1>1, <1>2, <1>3 DEF TelemetryInv, JobsAreSpawned
<1>5. /\ job' = job \/ job' = [job EXCEPT ![i] = "queued"]
      /\ restored' \in Nat
  BY <1>2, <1>3 DEF Spawn
<1>6. /\ job' \in [Jobs -> {"idle", "queued", "copying"}]
      /\ \A j \in Jobs : job'[j] # "idle" => j[1] \in running'
      /\ \A j \in Copies : job[j] = "copying" => job'[j] = "copying"
  BY <1>1, <1>2, <1>3, <1>4, <1>5 DEF TelemetryInv, JobsAreSpawned
<1>7. Grows /\ (Len(chan) + 1)..Len(chan') = {}
  BY <1>1, <1>2 DEF Grows
<1>8. OpenStartsRun'
  BY <1>6, <1>7, GrowsKeepsStarts
<1>9. TelemetryTypeOK' /\ JobsAreSpawned'
  BY <1>1, <1>5, <1>6 DEF ringVars, TelemetryInv, TelemetryTypeOK, JobsAreSpawned
<1>. QED  BY <1>1, <1>7, <1>8, <1>9, GrowsKeepsReceivers DEF TelemetryInv

\* A progress event, another log line, and the server's Goodbye.
LEMMA OtherMessageInv ==
  ASSUME TelemetryInv, LogLine \/ ServerStops \/ \E f \in Files : TickerSends(f)
  PROVE  TelemetryInv'
<1>. PICK n \in Nat : n = Len(chan)
  BY LenProperties DEF TelemetryInv, TelemetryTypeOK
<1>0. "Progress" \in JobEvents /\ chan \in Seq(Messages)
  BY DEF JobEvents, TelemetryInv, TelemetryTypeOK
<1>1. /\ UNCHANGED <<ringVars, client, running, restored, job, unsaid>>
      /\ serving' \in BOOLEAN /\ shutdown' \in BOOLEAN /\ ticking' \subseteq Files
  BY DEF LogLine, ServerStops, TickerSends, Emit, sourceVars, TelemetryInv, TelemetryTypeOK
<1>2. Grows /\ \A k \in (n + 1)..Len(chan') : chan'[k].type # "Started"
  <2>1. CASE LogLine \/ ServerStops
    <3>. PICK type \in {"Log", "Goodbye"} : chan' = Append(chan, Message(type)) /\ Len(chan') <= MaxSent
      <4>1. CASE LogLine
        <5>1. chan' = Append(chan, Message("Log")) /\ n < MaxSent
          BY <4>1 DEF LogLine
        <5>2. Message("Log") \in Messages
          BY DEF Message, Messages, Types, JobEvents
        <5>3. Len(chan') = n + 1
          BY <1>0, <5>1, <5>2, AppendProperties
        <5>. QED  BY <5>1, <5>3, TelemetryAssumption
      <4>2. CASE ServerStops
        BY <4>2 DEF ServerStops
      <4>. QED  BY <2>1, <4>1, <4>2
    <3>1. /\ Grows /\ Len(chan') = n + 1 /\ chan'[n + 1] = Message(type)
      BY <1>0, AppendGrows
    <3>2. \A k \in (n + 1)..Len(chan') : k = n + 1
      BY <3>1
    <3>. QED  BY <3>1, <3>2 DEF Message
  <2>2. CASE \E f \in Files : TickerSends(f)
    <3>. PICK f \in Files : Emit("Progress", f, FALSE)
      BY <2>2 DEF TickerSends
    <3>1. /\ Grows /\ Len(chan') > n
          /\ chan'[n + 1] = [type |-> "Progress", file |-> f]
          /\ \A k \in (n + 2)..Len(chan') : chan'[k].type = "Log"
      BY <1>0, EmitGrows
    <3>2. Len(chan') \in Nat
      BY <3>1, LenProperties DEF Grows
    <3>3. \A k \in (n + 1)..Len(chan') : k = n + 1 \/ k \in (n + 2)..Len(chan')
      BY <3>2
    <3>. QED  BY <3>1, <3>3
  <2>. QED  BY <2>1, <2>2
<1>3. OpenStartsRun'
  BY <1>1, <1>2, GrowsKeepsStarts
<1>4. TelemetryTypeOK' /\ JobsAreSpawned'
  BY <1>1, <1>2 DEF Grows, ringVars, TelemetryInv, TelemetryTypeOK, JobsAreSpawned
<1>. QED  BY <1>1, <1>2, <1>3, <1>4, GrowsKeepsReceivers DEF TelemetryInv

LEMMA RingReceivesInv ==
  ASSUME TelemetryInv, RingReceives
  PROVE  TelemetryInv'
<1>. PICK n \in Nat : n = Len(chan)
  BY LenProperties DEF TelemetryInv, TelemetryTypeOK
<1>1. /\ ring \in Seq(Positions) /\ Len(ring) \in Nat /\ Len(ring) <= RingCap /\ ringPos \in Nat
      /\ n <= MaxSent /\ ringPos < n /\ ChanCap \in Nat /\ RingCap \in Nat \ {0} /\ MaxSent \in Nat
  BY TelemetryAssumption, LenProperties DEF RingReceives, TelemetryInv, TelemetryTypeOK
<1>2. UNCHANGED <<chan, serving, shutdown, client, running, restored, job, unsaid, ticking>>
  BY DEF RingReceives, sourceVars
<1>3. /\ ringPos' \in 0..MaxSent /\ ringPos' <= n /\ ringLagged' \in BOOLEAN
  <2>1. CASE Behind(ringPos)
    <3>1. n - ringPos > ChanCap /\ ringPos' = n - ChanCap /\ ringLagged' = TRUE
      BY <2>1 DEF RingReceives, Behind, Oldest
    <3>. QED  BY <1>1, <3>1
  <2>2. CASE ~Behind(ringPos)
    <3>1. ringPos' = ringPos + 1 /\ ringLagged' = ringLagged
      BY <2>2 DEF RingReceives
    <3>. QED  BY <1>1, <3>1 DEF TelemetryInv, TelemetryTypeOK
  <2>. QED  BY <2>1, <2>2
<1>4. ring' \in Seq(Positions) /\ Len(ring') <= RingCap
  <2>1. CASE ring' = ring
    BY <1>1, <2>1
  <2>2. CASE ring' # ring
    <3>1. ringPos' = ringPos + 1 /\ ring' = Pushed(ring, ringPos')
      BY <2>2 DEF RingReceives, PushedLog
    <3>2. ringPos' \in Positions
      BY <1>1, <3>1 DEF Positions
    <3>3. CASE Len(ring) >= RingCap
      <4>1. ring # <<>> /\ ring' = Append(Tail(ring), ringPos')
        BY <1>1, <3>1, <3>3 DEF Pushed
      <4>2. Tail(ring) \in Seq(Positions) /\ Len(Tail(ring)) = Len(ring) - 1
        BY <1>1, <4>1
      <4>3. ring' \in Seq(Positions) /\ Len(ring') = Len(Tail(ring)) + 1
        BY <3>2, <4>1, <4>2, AppendProperties
      <4>. QED  BY <1>1, <4>2, <4>3
    <3>4. CASE ~(Len(ring) >= RingCap)
      <4>1. ring' = Append(ring, ringPos')
        BY <3>1, <3>4 DEF Pushed
      <4>2. ring' \in Seq(Positions) /\ Len(ring') = Len(ring) + 1
        BY <1>1, <3>2, <4>1, AppendProperties
      <4>. QED  BY <1>1, <3>4, <4>2
    <3>. QED  BY <3>3, <3>4
  <2>. QED  BY <2>1, <2>2
<1>5. TelemetryTypeOK'
  BY <1>2, <1>3, <1>4 DEF TelemetryInv, TelemetryTypeOK
<1>6. ReceiversInside'
  BY <1>2, <1>3 DEF TelemetryInv, ReceiversInside
<1>7. NoLineMissed' /\ OpenStartsRun' /\ ActiveHaveStarted' /\ JobsAreSpawned'
  BY <1>2 DEF TelemetryInv, NoLineMissed, Logs, OpenStartsRun, ActiveHaveStarted, StartedAt, EndedAt, JobsAreSpawned
<1>. QED  BY <1>5, <1>6, <1>7 DEF TelemetryInv

\* What a handler must satisfy for itself.
HandlerOK(h) ==
  /\ h \in Handlers /\ h.from <= h.pos /\ h.pos <= Len(chan)
  /\ h.at # "live" => h.pos = h.from /\ h.active = {}
  /\ h.at = "live" /\ ~h.lagged =>
       /\ Logs \cap (h.from + 1)..h.pos \subseteq h.lines
       /\ \A f \in h.active : \E i \in 1..h.pos :
            StartedAt(f, i) /\ \A k \in (i + 1)..h.pos : ~EndedAt(f, k)

LEMMA HandlersAreOK ==
  ASSUME TelemetryInv, NEW c \in Clients
  PROVE  HandlerOK(client[c])
  BY DEF TelemetryInv, TelemetryTypeOK, ReceiversInside, NoLineMissed, ActiveHaveStarted, HandlerOK

LEMMA ClientStepInv ==
  ASSUME TelemetryInv, NEW c \in Clients, NEW h, ClientStep(c, h), HandlerOK(h), shutdown' \in BOOLEAN
  PROVE  TelemetryInv'
<1>1. UNCHANGED <<chan, ringVars, serving, running, restored, job, unsaid, ticking>>
  BY DEF ClientStep, sourceVars
<1>2. \A d \in Clients : client'[d] = IF d = c THEN h ELSE client[d]
  BY DEF ClientStep, TelemetryInv, TelemetryTypeOK
<1>3. \A d \in Clients : HandlerOK(client'[d])
  BY <1>2, HandlersAreOK
<1>4. TelemetryTypeOK'
  <2>1. client' \in [Clients -> Handlers]
    BY DEF ClientStep, HandlerOK, TelemetryInv, TelemetryTypeOK
  <2>. QED  BY <1>1, <2>1 DEF ringVars, TelemetryInv, TelemetryTypeOK
<1>5. ReceiversInside'
  BY <1>1, <1>3 DEF HandlerOK, ringVars, TelemetryInv, ReceiversInside
<1>6. NoLineMissed'
  BY <1>1, <1>3 DEF HandlerOK, NoLineMissed, Logs
<1>7. OpenStartsRun' /\ JobsAreSpawned'
  BY <1>1 DEF TelemetryInv, OpenStartsRun, StartedAt, EndedAt, JobsAreSpawned
<1>8. ActiveHaveStarted'
  BY <1>1, <1>3 DEF HandlerOK, ActiveHaveStarted, StartedAt, EndedAt
<1>. QED  BY <1>4, <1>5, <1>6, <1>7, <1>8 DEF TelemetryInv

LEMMA NoHandlerOK ==
  ASSUME TelemetryInv
  PROVE  HandlerOK(NoHandler)
<1>1. Len(chan) \in Nat
  BY LenProperties DEF TelemetryInv, TelemetryTypeOK
<1>. QED  BY <1>1, NoHandlerType DEF HandlerOK, NoHandler

LEMMA AcceptInv ==
  ASSUME TelemetryInv, NEW c \in Clients, Accept(c)
  PROVE  TelemetryInv'
<1> DEFINE h == [NoHandler EXCEPT !.at = "accepted", !.from = Len(chan), !.pos = Len(chan)]
<1>1. Len(chan) \in 0..MaxSent /\ Len(chan) \in Nat
  BY LenProperties, TelemetryAssumption DEF TelemetryInv, TelemetryTypeOK
<1>2. NoHandler \in Handlers /\ NoHandler.active = {}
  BY NoHandlerType DEF NoHandler
<1>3. HandlerOK(h)
  <2>1. /\ h \in Handlers /\ h.at = "accepted" /\ h.from = Len(chan) /\ h.pos = Len(chan)
        /\ h.active = NoHandler.active
    BY <1>1, <1>2 DEF Handlers
  <2>. QED  BY <1>1, <1>2, <2>1 DEF HandlerOK
<1> HIDE DEF h
<1>4. ClientStep(c, h) /\ shutdown' \in BOOLEAN
  BY DEF Accept, h, TelemetryInv, TelemetryTypeOK
<1>. QED  BY <1>3, <1>4, ClientStepInv

\* The range of the lines a handler owes is empty when it goes live.
LEMMA BeforeLiveInv ==
  ASSUME TelemetryInv, NEW c \in Clients, Snapshot(c) \/ Replayed(c)
  PROVE  TelemetryInv'
<1>. PICK h : h = client[c]
  OBVIOUS
<1>1. HandlerOK(h) /\ shutdown' \in BOOLEAN /\ ring \in Seq(Positions)
  BY HandlersAreOK DEF Snapshot, Replayed, TelemetryInv, TelemetryTypeOK
<1>2. h.from \in Nat /\ h.pos \in Nat
  BY <1>1 DEF HandlerOK, Handlers
<1>3. CASE Snapshot(c)
  <2>. PICK g : g = [h EXCEPT !.at = "replay", !.replay = ring]
    OBVIOUS
  <2>1. /\ g \in Handlers /\ g.at = "replay" /\ g.from = h.from /\ g.pos = h.pos
        /\ g.active = h.active
    BY <1>1 DEF HandlerOK, Handlers
  <2>2. HandlerOK(g)
    BY <1>1, <1>3, <2>1 DEF Snapshot, HandlerOK
  <2>. QED  BY <1>1, <1>3, <2>2, ClientStepInv DEF Snapshot
<1>4. CASE Replayed(c)
  <2>. PICK g : g = Live(h)
    OBVIOUS
  <2>0. ToSet(h.replay) \in SUBSET Positions /\ <<>> \in Seq(Positions)
    BY <1>1, ElementOfSeq, LenProperties DEF HandlerOK, Handlers, ToSet
  <2>1. /\ g \in Handlers /\ g.at = "live" /\ g.from = h.from /\ g.pos = h.pos
        /\ g.active = h.active
    BY <1>1, <2>0 DEF HandlerOK, Handlers, Live
  <2>2. h.pos = h.from /\ h.active = {}
    BY <1>1, <1>4 DEF Replayed, HandlerOK
  <2>3. (g.from + 1)..g.pos = {}
    BY <1>2, <2>1, <2>2
  <2>4. HandlerOK(g)
    BY <1>1, <2>1, <2>2, <2>3 DEF HandlerOK
  <2>. QED  BY <1>1, <1>4, <2>4, ClientStepInv DEF Replayed
<1>. QED  BY <1>3, <1>4

\* What apply_event does for message i to a handler that has read so far.
HasRead(h, g, m, i) ==
  /\ g \in Handlers /\ g.at = h.at /\ g.from = h.from /\ g.pos = h.pos /\ g.lagged = h.lagged
  /\ h.lines \subseteq g.lines /\ (m.type = "Log" => i \in g.lines)
  /\ g.active \subseteq h.active \cup (IF m.type = "Started" THEN {m.file} ELSE {})
  /\ m.type \in {"Complete", "Failed"} => m.file \notin g.active

LEMMA AppliedEffect ==
  ASSUME NEW h \in Handlers, NEW m \in Messages, NEW i \in Positions
  PROVE  HasRead(h, Applied(h, m, i), m, i)
<1>. PICK g : g = Applied(h, m, i)
  OBVIOUS
<1>. SUFFICES HasRead(h, g, m, i)
  OBVIOUS
<1>0. m.type \in Types /\ (m.type \in JobEvents => m.file \in Files)
  BY DEF Messages, Types, JobEvents
<1>1. CASE m.type = "Log"
  <2>1. g = [h EXCEPT !.lines = @ \cup {i}]
    BY <1>1 DEF Applied
  <2>. QED  BY <1>1, <2>1 DEF Handlers, HasRead
<1>2. CASE m.type = "Queued"
  <2>1. g = [h EXCEPT !.inFlight = @ + 1]
    BY <1>2 DEF Applied
  <2>. QED  BY <1>2, <2>1 DEF Handlers, HasRead
<1>3. CASE m.type = "Started"
  <2>1. g = [h EXCEPT !.active = @ \cup {m.file}] /\ m.file \in Files
    BY <1>0, <1>3 DEF Applied, JobEvents
  <2>. QED  BY <1>3, <2>1 DEF Handlers, HasRead
<1>4. CASE m.type = "Progress"
  <2>1. g = [h EXCEPT !.active = h.active]
    BY <1>4 DEF Applied, ProgressUpdates
  <2>. QED  BY <1>4, <2>1 DEF Handlers, HasRead
<1>5. CASE m.type \in {"Complete", "Failed"}
  <2>1. g = [h EXCEPT !.inFlight = Decremented(@), !.active = @ \ {m.file}]
    BY <1>5 DEF Applied
  <2>0. h.inFlight \in Nat /\ h.active \in SUBSET Files
    BY DEF Handlers
  <2>2. PICK n \in Nat, A \in SUBSET Files : n = Decremented(h.inFlight) /\ A = h.active \ {m.file}
    <3>1. Decremented(h.inFlight) \in Nat
      BY <2>0 DEF Decremented
    <3>2. h.active \ {m.file} \in SUBSET Files
      BY <2>0
    <3>. QED  BY <3>1, <3>2
  <2>3. g = [h EXCEPT !.inFlight = n, !.active = A]
    BY <2>1, <2>2 DEF Handlers
  <2>4. /\ g \in Handlers /\ g.at = h.at /\ g.from = h.from /\ g.pos = h.pos /\ g.lagged = h.lagged
        /\ g.lines = h.lines /\ g.active = A
    BY <2>3 DEF Handlers
  <2>. QED  BY <1>5, <2>2, <2>4 DEF HasRead
<1>6. CASE m.type = "Goodbye"
  <2>1. g = h
    BY <1>6 DEF Applied
  <2>. QED  BY <1>6, <2>1 DEF HasRead
<1>. QED  BY <1>0, <1>1, <1>2, <1>3, <1>4, <1>5, <1>6 DEF Types, JobEvents

\* A handler reads the next message, or is told that it lagged.
LEMMA ForwardInv ==
  ASSUME TelemetryInv, NEW c \in Clients, Forward(c)
  PROVE  TelemetryInv'
<1>. PICK h : h = client[c]
  OBVIOUS
<1>. PICK n \in Nat : n = Len(chan)
  BY LenProperties DEF TelemetryInv, TelemetryTypeOK
<1>1. HandlerOK(h) /\ shutdown' \in BOOLEAN /\ h.at = "live" /\ h.pos < n
  BY HandlersAreOK DEF Forward, TelemetryInv, TelemetryTypeOK
<1>2. /\ h \in Handlers /\ h.from \in Nat /\ h.pos \in Nat /\ h.from <= h.pos
      /\ n <= MaxSent /\ MaxSent \in Nat /\ ChanCap \in Nat \ {0}
      /\ chan \in Seq(Messages) /\ DOMAIN chan = 1..n
  BY <1>1, TelemetryAssumption, LenProperties DEF HandlerOK, Handlers, TelemetryInv, TelemetryTypeOK
<1>3. CASE Behind(h.pos)
  <2>0. n - h.pos > ChanCap
    BY <1>3 DEF Behind
  <2>. PICK p \in 0..MaxSent : p = n - ChanCap /\ p > h.pos /\ p <= n
    <3>1. n - ChanCap \in 0..MaxSent /\ n - ChanCap > h.pos /\ n - ChanCap <= n
      BY <1>2, <2>0
    <3>. QED  BY <3>1
  <2>. PICK g : g = [h EXCEPT !.pos = p, !.lagged = TRUE]
    OBVIOUS
  <2>1. g \in Handlers /\ g.at = "live" /\ g.from = h.from /\ g.pos = p /\ g.lagged
    BY <1>1, <1>2 DEF Handlers
  <2>2. HandlerOK(g)
    BY <1>2, <2>1 DEF HandlerOK
  <2>3. ClientStep(c, g)
    BY <1>3 DEF Forward, Oldest
  <2>. QED  BY <1>1, <2>2, <2>3, ClientStepInv
<1>4. CASE ~Behind(h.pos)
  <2>. PICK i \in Positions : i = h.pos + 1 /\ i \in 0..MaxSent /\ i <= n /\ i \in 1..n
    BY <1>1, <1>2 DEF Positions
  <2>. PICK h1 : h1 = [h EXCEPT !.pos = i]
    OBVIOUS
  <2>1. /\ h1 \in Handlers /\ h1.at = "live" /\ h1.from = h.from /\ h1.pos = i /\ h1.lagged = h.lagged
        /\ h1.lines = h.lines /\ h1.active = h.active
    BY <1>1, <1>2 DEF Handlers
  <2>. PICK m \in Messages : m = chan[i]
    BY <1>2
  <2>. PICK g : g = Applied(h1, m, i)
    OBVIOUS
  <2>6. HasRead(h1, g, m, i)
    BY <2>1, AppliedEffect
  <2>2. /\ g \in Handlers /\ g.at = "live" /\ g.from = h.from /\ g.pos = i /\ g.lagged = h.lagged
        /\ h.lines \subseteq g.lines /\ (m.type = "Log" => i \in g.lines)
        /\ g.active \subseteq h.active \cup (IF m.type = "Started" THEN {m.file} ELSE {})
        /\ m.type \in {"Complete", "Failed"} => m.file \notin g.active
    BY <2>1, <2>6 DEF HasRead
  <2>3. ClientStep(c, EndsOnGoodbye(g, m))
    BY <1>4 DEF Forward
  <2>4. CASE m.type = "Goodbye"
    <3>1. ClientStep(c, NoHandler)
      BY <2>3, <2>4 DEF EndsOnGoodbye
    <3>. QED  BY <1>1, <3>1, NoHandlerOK, ClientStepInv
  <2>5. CASE m.type # "Goodbye"
    <3>1. ClientStep(c, g)
      BY <2>3, <2>5 DEF EndsOnGoodbye
    <3>2. ASSUME ~h.lagged PROVE Logs \cap (h.from + 1)..i \subseteq g.lines
      <4>1. Logs \cap (h.from + 1)..h.pos \subseteq h.lines
        BY <1>1, <3>2 DEF HandlerOK
      <4>2. \A x \in (h.from + 1)..i : x = i \/ x \in (h.from + 1)..h.pos
        BY <1>2
      <4>3. i \in Logs => i \in g.lines
        BY <2>2 DEF Logs
      <4>. QED  BY <2>2, <4>1, <4>2, <4>3
    <3>3. ASSUME ~h.lagged, NEW f \in g.active
          PROVE  \E s \in 1..i : StartedAt(f, s) /\ \A k \in (s + 1)..i : ~EndedAt(f, k)
      <4>1. CASE f \in h.active
        <5>. PICK s \in 1..h.pos : StartedAt(f, s) /\ \A k \in (s + 1)..h.pos : ~EndedAt(f, k)
          BY <1>1, <3>3, <4>1 DEF HandlerOK
        <5>1. s \in 1..i /\ \A k \in (s + 1)..i : k = i \/ k \in (s + 1)..h.pos
          BY <1>2
        <5>2. ~EndedAt(f, i)
          BY <2>2, <3>3 DEF EndedAt
        <5>. QED  BY <5>1, <5>2
      <4>2. CASE f \notin h.active
        <5>1. StartedAt(f, i)
          BY <2>2, <3>3, <4>2 DEF StartedAt
        <5>2. (i + 1)..i = {} /\ i \in 1..i
          BY <1>2
        <5>. QED  BY <5>1, <5>2
      <4>. QED  BY <4>1, <4>2
    <3>4. HandlerOK(g)
      <4>0. g.from = h.from /\ g.pos = i /\ g.lagged = h.lagged
        BY <2>2
      <4>1. g.from <= g.pos /\ g.pos <= Len(chan)
        BY <1>2, <4>0
      <4>2. ~g.lagged => Logs \cap (g.from + 1)..g.pos \subseteq g.lines
        <5>1. ~h.lagged => Logs \cap (h.from + 1)..i \subseteq g.lines
          BY <3>2, Zenon
        <5>. QED  BY <4>0, <5>1
      <4>3. ~g.lagged => \A f \in g.active : \E s \in 1..g.pos :
                           StartedAt(f, s) /\ \A k \in (s + 1)..g.pos : ~EndedAt(f, k)
        <5>1. ~h.lagged => \A f \in g.active : \E s \in 1..i :
                             StartedAt(f, s) /\ \A k \in (s + 1)..i : ~EndedAt(f, k)
          BY <3>3, Zenon
        <5>. QED  BY <4>0, <5>1
      <4>. QED  BY <2>2, <4>1, <4>2, <4>3 DEF HandlerOK
    <3>. QED  BY <1>1, <3>1, <3>4, ClientStepInv
  <2>. QED  BY <2>4, <2>5
<1>. QED  BY <1>3, <1>4

LEMMA TelemetryStepInv ==
  ASSUME TelemetryInv, [TelemetryNext]_telemetryVars
  PROVE  TelemetryInv'
<1>1. CASE UNCHANGED telemetryVars
  BY <1>1 DEF telemetryVars, TelemetryInv, TelemetryTypeOK, ReceiversInside, NoLineMissed, Logs,
     OpenStartsRun, ActiveHaveStarted, StartedAt, EndedAt, JobsAreSpawned
<1>2. CASE LogLine \/ ServerStops \/ \E f \in Files : TickerSends(f)
  BY <1>2, OtherMessageInv
<1>3. CASE \E j \in Jobs : \/ Enqueued(j) \/ CopyQueued(j) \/ LeavesSilently(j)
                           \/ NoRoom(j) \/ CopyStarts(j) \/ CopyEnds(j)
  BY <1>3, SourceInv
<1>7. CASE \E f \in Files : Spawn(f)
  BY <1>7, SpawnInv
<1>4. CASE RingReceives
  BY <1>4, RingReceivesInv
<1>5. CASE Signalled
  BY <1>5 DEF Signalled, ringVars, sourceVars, TelemetryInv, TelemetryTypeOK, ReceiversInside,
     NoLineMissed, Logs, OpenStartsRun, ActiveHaveStarted, StartedAt, EndedAt, JobsAreSpawned
<1>6. ASSUME NEW c \in Clients, Accept(c) \/ Handler(c) \/ Detach(c)
      PROVE  TelemetryInv'
  <2>1. CASE Detach(c)
    <3>1. ClientStep(c, NoHandler) /\ shutdown' \in BOOLEAN
      BY <2>1 DEF Detach, TelemetryInv, TelemetryTypeOK
    <3>. QED  BY <3>1, NoHandlerOK, ClientStepInv
  <2>. QED  BY <1>6, <2>1, AcceptInv, BeforeLiveInv, ForwardInv DEF Handler
<1>. QED  BY <1>1, <1>2, <1>3, <1>4, <1>5, <1>6, <1>7 DEF TelemetryNext

\* The inductive invariant holds in every state of the telemetry: what the
\* receivers have read lies in the channel, and what a dashboard shows has an
\* open start there (server.rs, tui/state.rs).
THEOREM TelemetryInvariance == TelemetrySpec => []TelemetryInv
  BY TelemetryInitInv, TelemetryStepInv, PTL DEF TelemetrySpec

\* The state of the telemetry has its type: in particular a dashboard shows
\* only files, since only a job's events name one (on_event).
THEOREM TelemetryTypeCorrect == TelemetrySpec => []TelemetryTypeOK
<1>1. TelemetryInv => TelemetryTypeOK
  BY DEF TelemetryInv
<1>. QED  BY <1>1, TelemetryInvariance, PTL

\* A handler subscribes to the channel before it takes the snapshot of the
\* ring (accept loop and handle_client, server.rs), so that whatever happens
\* between its steps no log line is lost to it unless it was told that it lagged.
THEOREM LinesAreNotMissed == TelemetrySpec => []NoLineMissed
<1>1. TelemetryInv => NoLineMissed
  BY DEF TelemetryInv
<1>. QED  BY <1>1, TelemetryInvariance, PTL

\* A dashboard that has read everything shows no copy that has ended: what it
\* shows has started, and its end is not among what was read (apply_event,
\* tui/state.rs), so the copy runs.
THEOREM DashboardsShowRunningCopies == TelemetrySpec => []NoPhantomCopy
<1>1. ASSUME TelemetryInv PROVE NoPhantomCopy
  <2>. SUFFICES ASSUME NEW c \in Clients, CaughtUp(c), NEW f \in client[c].active
                PROVE  \E j \in Copies : j[1] = f /\ job[j] = "copying"
    BY DEF NoPhantomCopy
  <2>1. PICK i \in 1..Len(chan) : StartedAt(f, i) /\ \A k \in (i + 1)..Len(chan) : ~EndedAt(f, k)
    BY <1>1 DEF CaughtUp, TelemetryInv, ActiveHaveStarted
  <2>2. f \in Files /\ i \in DOMAIN chan
    BY <1>1, LenProperties DEF TelemetryInv, TelemetryTypeOK, Handlers
  <2>. QED  BY <1>1, <2>1, <2>2 DEF TelemetryInv, OpenStartsRun
<1>. QED  BY <1>1, TelemetryInvariance, PTL

-----------------------------------------------------------------------------
(* The ring of recent log lines.                                           *)

\* A step appends to the channel or leaves it alone, and only the task of the
\* ring changes the ring.
LEMMA StepGrows ==
  ASSUME TelemetryInv, [TelemetryNext]_telemetryVars
  PROVE  Grows /\ (RingReceives \/ UNCHANGED ringVars)
<1>0. chan' = chan => Grows
  <2>1. chan \in Seq(Messages) /\ Len(chan) \in Nat /\ Len(chan) <= MaxSent
    BY LenProperties DEF TelemetryInv, TelemetryTypeOK
  <2>. QED  BY <2>1 DEF Grows
<1>1. CASE UNCHANGED telemetryVars
  BY <1>0, <1>1 DEF telemetryVars, ringVars
<1>2. CASE LogLine \/ ServerStops
  <2>1. PICK type \in {"Log", "Goodbye"} :
          chan' = Append(chan, Message(type)) /\ Len(chan') <= MaxSent /\ UNCHANGED ringVars
    <3>1. CASE LogLine
      <4>1. Len(chan') = Len(chan) + 1 /\ Len(chan) \in Nat /\ Len(chan) < MaxSent
        <5>1. chan \in Seq(Messages) /\ Message("Log") \in Messages
          BY DEF TelemetryInv, TelemetryTypeOK, Message, Messages, Types, JobEvents
        <5>. QED  BY <3>1, <5>1, AppendProperties, LenProperties DEF LogLine
      <4>2. Len(chan') <= MaxSent
        BY <4>1, TelemetryAssumption
      <4>. QED  BY <3>1, <4>2 DEF LogLine
    <3>2. CASE ServerStops
      BY <3>2 DEF ServerStops
    <3>. QED  BY <1>2, <3>1, <3>2
  <2>. QED  BY <2>1, AppendGrows
<1>3. ASSUME NEW f \in Files, TickerSends(f) PROVE Grows /\ UNCHANGED ringVars
  <2>1. Emit("Progress", f, FALSE) /\ "Progress" \in JobEvents
    BY <1>3 DEF TickerSends, JobEvents
  <2>2. Grows
    BY <2>1, EmitGrows
  <2>. QED  BY <2>1, <2>2 DEF Emit
<1>4. ASSUME NEW j \in Jobs, CopyQueued(j) \/ NoRoom(j) \/ CopyStarts(j) \/ CopyEnds(j)
      PROVE  Grows /\ UNCHANGED ringVars
  <2>1. PICK type \in JobEvents, logged \in BOOLEAN : Emit(type, j[1], logged)
    BY <1>4, TelemetryAssumption DEF CopyQueued, NoRoom, CopyStarts, CopyEnds, JobEvents
  <2>2. j[1] \in Files
    BY DEF Jobs
  <2>3. Grows
    BY <2>1, <2>2, EmitGrows
  <2>. QED  BY <2>1, <2>3 DEF Emit
<1>5. ASSUME NEW j \in Jobs, Enqueued(j) \/ LeavesSilently(j) PROVE Grows /\ UNCHANGED ringVars
  BY <1>0, <1>5 DEF Enqueued, LeavesSilently, Quiet
<1>9. ASSUME NEW f \in Files, Spawn(f) PROVE Grows /\ UNCHANGED ringVars
  BY <1>0, <1>9 DEF Spawn, Quiet
<1>6. CASE Signalled
  BY <1>0, <1>6 DEF Signalled
<1>7. ASSUME NEW c \in Clients, Accept(c) \/ Handler(c) \/ Detach(c) PROVE Grows /\ UNCHANGED ringVars
  BY <1>0, <1>7 DEF Accept, Handler, Snapshot, Replayed, Forward, Detach, ClientStep
<1>8. CASE RingReceives
  BY <1>0, <1>8 DEF RingReceives
<1>. QED  BY <1>1, <1>2, <1>3, <1>4, <1>5, <1>6, <1>7, <1>8, <1>9 DEF TelemetryNext

\* push_log drops the oldest line of a full ring and appends the new one.
LEMMA PushedElements ==
  ASSUME NEW r \in Seq(Positions), NEW i \in Positions, Len(r) <= RingCap
  PROVE  LET q == Pushed(r, i)
             d == IF Len(r) >= RingCap THEN 1 ELSE 0 IN
         /\ q \in Seq(Positions) /\ Len(q) = Len(r) - d + 1
         /\ \A k \in 1..(Len(r) - d) : q[k] = r[k + d]
         /\ q[Len(r) - d + 1] = i
<1>0. Len(r) \in Nat /\ RingCap \in Nat \ {0}
  BY LenProperties, TelemetryAssumption
<1>1. CASE Len(r) >= RingCap
  <2>. PICK t : t = Tail(r)
    OBVIOUS
  <2>1. r # <<>>
    BY <1>0, <1>1
  <2>2. t \in Seq(Positions) /\ Len(t) = Len(r) - 1 /\ \A k \in 1..Len(t) : t[k] = r[k + 1]
    BY <2>1, HeadTailProperties
  <2>3. /\ Append(t, i) \in Seq(Positions) /\ Len(Append(t, i)) = Len(t) + 1
        /\ \A k \in 1..Len(t) : Append(t, i)[k] = t[k]
        /\ Append(t, i)[Len(t) + 1] = i
    BY <2>2, AppendProperties
  <2>4. Pushed(r, i) = Append(t, i)
    BY <1>1 DEF Pushed
  <2>. QED  BY <1>1, <2>2, <2>3, <2>4
<1>2. CASE ~(Len(r) >= RingCap)
  <2>1. /\ Append(r, i) \in Seq(Positions) /\ Len(Append(r, i)) = Len(r) + 1
        /\ \A k \in 1..Len(r) : Append(r, i)[k] = r[k]
        /\ Append(r, i)[Len(r) + 1] = i
    BY AppendProperties
  <2>2. Pushed(r, i) = Append(r, i) /\ Len(r) - 0 = Len(r) /\ \A k \in 1..Len(r) : k + 0 = k
    BY <1>0, <1>2 DEF Pushed
  <2>. QED  BY <1>2, <2>1, <2>2
<1>. QED  BY <1>1, <1>2

LEMMA RingKept ==
  ASSUME TelemetryInv, RingKeepsLogs, [TelemetryNext]_telemetryVars
  PROVE  RingKeepsLogs'
<1>. SUFFICES ASSUME ~ringLagged' PROVE RingKeepsLogs'
  BY DEF RingKeepsLogs
<1>. PICK n \in Nat : n = Len(chan)
  BY LenProperties DEF TelemetryInv, TelemetryTypeOK
<1>0. /\ DOMAIN chan = 1..n /\ DOMAIN chan' = 1..Len(chan') /\ Len(chan') \in Nat /\ n <= Len(chan')
      /\ \A i \in 1..n : chan'[i] = chan[i]
      /\ ringPos \in Nat /\ ringPos <= n /\ MaxSent \in Nat /\ n <= MaxSent
      /\ RingReceives \/ UNCHANGED ringVars
  BY StepGrows, LenProperties, TelemetryAssumption DEF TelemetryInv, TelemetryTypeOK, ReceiversInside, Grows
<1>1. \A i \in 1..n : i \in Logs' <=> i \in Logs
  BY <1>0 DEF Logs
<1>. PICK m \in Nat : m = Len(ring)
  BY LenProperties DEF TelemetryInv, TelemetryTypeOK
<1>2. ring \in Seq(Positions) /\ DOMAIN ring = 1..m /\ m <= RingCap /\ RingCap \in Nat \ {0}
  BY LenProperties, TelemetryAssumption DEF TelemetryInv, TelemetryTypeOK
<1>3. CASE UNCHANGED ringVars
  <2>1. ring' = ring /\ ringPos' = ringPos /\ ~ringLagged
    BY <1>3 DEF ringVars
  <2>2. \A i \in Logs' : i <= ringPos => i \in Logs
    BY <1>0, <1>1 DEF Logs
  <2>3. \A k \in DOMAIN ring : ring[k] \in Logs'
    BY <1>0, <1>1, <2>1 DEF RingKeepsLogs, Logs
  <2>4. /\ \A k, l \in DOMAIN ring : k < l => ring[k] < ring[l]
        /\ \A k \in DOMAIN ring : ring[k] <= ringPos
        /\ \A i \in Logs : i <= ringPos =>
             (\E k \in DOMAIN ring : ring[k] = i) \/ (Len(ring) = RingCap /\ i < ring[1])
    BY <2>1 DEF RingKeepsLogs
  <2>5. \A i \in Logs' : i <= ringPos =>
          (\E k \in DOMAIN ring : ring[k] = i) \/ (Len(ring) = RingCap /\ i < ring[1])
    BY <2>2, <2>4
  <2>. QED  BY <2>1, <2>3, <2>4, <2>5 DEF RingKeepsLogs
<1>4. CASE RingReceives
  <2>. PICK i \in Nat : i = ringPos + 1
    BY <1>0
  <2>1. /\ chan' = chan /\ ~ringLagged /\ ringPos' = i /\ ring' = PushedLog(i) /\ i <= n /\ i \in Positions
    BY <1>0, <1>4 DEF RingReceives, Positions
  <2>2. Logs' = Logs /\ \A l \in Logs : l <= i => l <= ringPos \/ l = i
    BY <1>0, <2>1 DEF Logs
  <2>3. /\ \A k, l \in 1..m : k < l => ring[k] < ring[l]
        /\ \A k \in 1..m : ring[k] \in Logs /\ ring[k] <= ringPos /\ ring[k] \in Nat
        /\ \A l \in Logs : l <= ringPos =>
             (\E k \in 1..m : ring[k] = l) \/ (m = RingCap /\ l < ring[1])
    <3>1. /\ \A k, l \in DOMAIN ring : k < l => ring[k] < ring[l]
          /\ \A k \in DOMAIN ring : ring[k] \in Logs /\ ring[k] <= ringPos
          /\ \A l \in Logs : l <= ringPos =>
               (\E k \in DOMAIN ring : ring[k] = l) \/ (Len(ring) = RingCap /\ l < ring[1])
      BY <2>1 DEF RingKeepsLogs
    <3>2. \A l \in Logs : l \in Nat
      BY <1>0 DEF Logs
    <3>. QED  BY <1>2, <3>1, <3>2
  <2>4. CASE chan[i].type # "Log"
    <3>1. ring' = ring /\ i \notin Logs
      BY <2>1, <2>4 DEF PushedLog, Logs
    <3>2. \A k \in 1..m : ring[k] <= i
      BY <1>0, <2>3
    <3>3. \A l \in Logs : l <= i => l <= ringPos
      BY <2>2, <3>1
    <3>4. \A l \in Logs : l <= i => (\E k \in 1..m : ring[k] = l) \/ (Len(ring) = RingCap /\ l < ring[1])
      BY <2>3, <3>3
    <3>. QED  BY <1>2, <2>1, <2>2, <2>3, <3>1, <3>2, <3>4 DEF RingKeepsLogs
  <2>5. CASE chan[i].type = "Log"
    <3>. PICK d \in {0, 1} : d = IF m >= RingCap THEN 1 ELSE 0
      OBVIOUS
    <3>. PICK q : q = Pushed(ring, i)
      OBVIOUS
    <3>1. /\ q \in Seq(Positions) /\ Len(q) = m - d + 1
          /\ \A k \in 1..(m - d) : q[k] = ring[k + d]
          /\ q[m - d + 1] = i
      BY <1>2, <2>1, PushedElements
    <3>2. ring' = q /\ i \in Logs /\ m - d \in Nat
      BY <1>0, <1>2, <2>1, <2>5 DEF PushedLog, Logs
    <3>. PICK e \in Nat : e = m - d
      BY <3>2
    <3>3. DOMAIN q = 1..(e + 1) /\ Len(q) = e + 1
      BY <3>1, <3>2, LenProperties
    <3>4. \A k \in 1..e : k + d \in 1..m /\ q[k] = ring[k + d]
      BY <3>1
    <3>5. q[e + 1] = i
      BY <3>1
    <3>6. \A k \in 1..(e + 1) : k \in 1..e \/ k = e + 1
      OBVIOUS
    <3>7. \A k \in DOMAIN q : q[k] \in Logs /\ q[k] <= i
      <4>1. ASSUME NEW k \in 1..e PROVE q[k] \in Logs /\ q[k] <= i
        <5>1. k + d \in 1..m /\ q[k] = ring[k + d]
          BY <3>4
        <5>2. ring[k + d] \in Logs /\ ring[k + d] <= ringPos /\ ring[k + d] \in Nat
          BY <2>3, <5>1
        <5>. QED  BY <1>0, <5>1, <5>2
      <4>2. q[e + 1] \in Logs /\ q[e + 1] <= i
        BY <3>2, <3>5
      <4>. QED  BY <3>3, <3>6, <4>1, <4>2
    <3>8. ASSUME NEW k \in DOMAIN q, NEW l \in DOMAIN q, k < l PROVE q[k] < q[l]
      <4>1. k \in 1..e
        BY <3>3, <3>8
      <4>2. CASE l \in 1..e
        BY <2>3, <3>4, <3>8, <4>1, <4>2
      <4>3. CASE l = e + 1
        BY <1>0, <2>3, <3>4, <3>5, <4>1, <4>3
      <4>. QED  BY <3>3, <3>6, <4>2, <4>3
    <3>9. ASSUME NEW l \in Logs, l <= i
          PROVE  (\E k \in DOMAIN q : q[k] = l) \/ (Len(q) = RingCap /\ l < q[1])
      <4>0. l \in Nat
        BY <1>0 DEF Logs
      <4>1. CASE l = i
        BY <3>3, <3>5, <4>1
      <4>2. CASE l # i
        <5>1. (\E k \in 1..m : ring[k] = l) \/ (m = RingCap /\ l < ring[1])
          BY <2>2, <2>3, <3>9, <4>2
        <5>2. CASE d = 0
          BY <1>2, <3>3, <3>4, <5>1, <5>2
        <5>3. CASE d = 1
          <6>1. m = RingCap /\ e = m - 1 /\ m >= 1 /\ Len(q) = RingCap
            BY <1>2, <3>3, <5>3
          <6>2. q[1] > ring[1]
            <7>1. CASE e = 0
              <8>1. q[1] = i /\ 1 \in 1..m
                BY <3>5, <6>1, <7>1
              <8>. QED  BY <1>0, <2>3, <8>1
            <7>2. CASE e # 0
              <8>1. 1 \in 1..e /\ 1 \in 1..m /\ 2 \in 1..m /\ q[1] = ring[2]
                BY <3>4, <5>3, <6>1, <7>2
              <8>. QED  BY <2>3, <8>1
            <7>. QED  BY <7>1, <7>2
          <6>3. CASE l <= ring[1]
            <7>1. q[1] \in Nat /\ ring[1] \in Nat
              <8>1. 1 \in 1..m /\ 1 \in DOMAIN q
                BY <3>3, <6>1
              <8>2. q[1] \in Logs /\ ring[1] \in Nat
                BY <2>3, <3>7, <8>1
              <8>. QED  BY <1>0, <8>2 DEF Logs
            <7>. QED  BY <4>0, <6>1, <6>2, <6>3, <7>1
          <6>4. CASE ~(l <= ring[1])
            <7>0. ring[1] \in Nat
              BY <2>3, <6>1
            <7>1. PICK k \in 1..m : ring[k] = l
              BY <4>0, <5>1, <6>4, <7>0
            <7>2. k # 1 /\ k - 1 \in 1..e /\ (k - 1) + d = k
              BY <4>0, <5>3, <6>1, <6>4, <7>0, <7>1
            <7>3. q[k - 1] = ring[(k - 1) + d]
              BY <3>4, <7>2
            <7>4. q[k - 1] = l
              BY <7>1, <7>2, <7>3
            <7>5. k - 1 \in DOMAIN q
              BY <3>3, <7>2
            <7>. QED  BY <7>4, <7>5
          <6>. QED  BY <6>3, <6>4
        <5>. QED  BY <5>2, <5>3
      <4>. QED  BY <4>1, <4>2
    <3>. QED  BY <2>1, <2>2, <3>2, <3>7, <3>8, <3>9 DEF RingKeepsLogs
  <2>. QED  BY <2>4, <2>5
<1>. QED  BY <1>0, <1>3, <1>4

\* As long as its task keeps up, the ring holds the last lines that the task
\* has read, in order and as many as there is room for; telemetry events take
\* no place in it (push_log and its task, recent_logs.rs).
THEOREM RingHoldsLastLogs == TelemetrySpec => []RingKeepsLogs
<1>1. TelemetryInit => RingKeepsLogs
  <2>1. TelemetryInit => ring = <<>> /\ chan = <<>>
    BY DEF TelemetryInit
  <2>. QED  BY <2>1 DEF RingKeepsLogs, Logs
<1>. QED  BY <1>1, RingKept, TelemetryInvariance, PTL DEF TelemetrySpec

-----------------------------------------------------------------------------
(* The in-flight counter.                                                  *)

Queues == {"Queued"}
Ends == {"Complete", "Failed"}

\* The messages of a type in K among the first n.
Said(K, n) == {i \in 1..n : chan[i].type \in K}
Unfinished == {j \in Copies : job[j] # "idle"}

OnlyCopiesRun == \A j \in Jobs : job[j] = "copying" => j \in Copies

\* Each copy under way has been announced, or is about to be, or was restored,
\* and its end has not been reported.
AnnouncedCoverEnds ==
  Cardinality(Unfinished) + Cardinality(Said(Ends, Len(chan)))
    <= Cardinality(Said(Queues, Len(chan))) + Cardinality(unsaid) + restored

\* The counter of a client that has seen all counts what it has read; it is
\* above the difference where a decrement has met zero.
CountersCover ==
  \A c \in Clients : client[c].at = "live" /\ ~client[c].lagged /\ client[c].from = 0 =>
    Cardinality(Said(Queues, client[c].pos)) <= client[c].inFlight + Cardinality(Said(Ends, client[c].pos))

CountInv == OnlyCopiesRun /\ AnnouncedCoverEnds /\ CountersCover

LEMMA SaidFinite ==
  ASSUME NEW K, NEW n \in Nat
  PROVE  IsFiniteSet(Said(K, n)) /\ Cardinality(Said(K, n)) \in Nat
<1>1. IsFiniteSet(1..n) /\ Said(K, n) \in SUBSET (1..n)
  BY FS_Interval DEF Said
<1>. QED  BY <1>1, FS_Subset, FS_CardinalityType

LEMMA SaidNext ==
  ASSUME NEW K, NEW n \in Nat
  PROVE  Cardinality(Said(K, n + 1)) = Cardinality(Said(K, n)) + (IF chan[n + 1].type \in K THEN 1 ELSE 0)
<1>1. CASE chan[n + 1].type \in K
  <2>1. Said(K, n + 1) = Said(K, n) \cup {n + 1} /\ n + 1 \notin Said(K, n)
    BY <1>1 DEF Said
  <2>. QED  BY <1>1, <2>1, SaidFinite, FS_AddElement
<1>2. CASE chan[n + 1].type \notin K
  <2>1. Said(K, n + 1) = Said(K, n)
    BY <1>2 DEF Said
  <2>. QED  BY <1>2, <2>1, SaidFinite
<1>. QED  BY <1>1, <1>2

\* What was said stays said.
LEMMA SaidKept ==
  ASSUME NEW K, TelemetryInv, Grows, NEW n \in Nat, n <= Len(chan)
  PROVE  Said(K, n)' = Said(K, n)
<1>1. Len(chan) \in Nat /\ \A i \in 1..Len(chan) : chan'[i] = chan[i]
  BY LenProperties DEF TelemetryInv, TelemetryTypeOK, Grows
<1>2. \A i \in 1..n : chan'[i] = chan[i]
  BY <1>1
<1>. QED  BY <1>2 DEF Said

LEMMA SaidMore ==
  ASSUME NEW K, TelemetryInv, Grows, Len(chan') > Len(chan),
         \A k \in (Len(chan) + 2)..Len(chan') : chan'[k].type \notin K
  PROVE  Cardinality(Said(K, Len(chan)))' =
           Cardinality(Said(K, Len(chan))) + (IF chan'[Len(chan) + 1].type \in K THEN 1 ELSE 0)
<1>. PICK n \in Nat : n = Len(chan)
  BY LenProperties DEF TelemetryInv, TelemetryTypeOK
<1>. PICK l \in Nat : l = Len(chan')
  BY LenProperties DEF Grows
<1>1. Said(K, n)' = Said(K, n)
  BY SaidKept
<1>2. IsFiniteSet(Said(K, n)) /\ Cardinality(Said(K, n)) \in Nat
  BY SaidFinite
<1>3. \A k \in 1..l : k \in 1..n \/ k = n + 1 \/ k \in (n + 2)..l
  OBVIOUS
<1>4. n + 1 \in 1..l /\ \A k \in 1..n : k \in 1..l /\ k # n + 1
  OBVIOUS
<1>5. CASE chan'[n + 1].type \in K
  <2>1. Said(K, l)' = Said(K, n)' \cup {n + 1} /\ n + 1 \notin Said(K, n)'
    BY <1>3, <1>4, <1>5 DEF Said
  <2>2. Said(K, Len(chan))' = Said(K, n) \cup {n + 1} /\ n + 1 \notin Said(K, n)
    BY <1>1, <2>1 DEF Said
  <2>. QED  BY <1>2, <1>5, <2>2, FS_AddElement
<1>6. CASE chan'[n + 1].type \notin K
  <2>1. Said(K, l)' = Said(K, n)'
    BY <1>3, <1>4, <1>6 DEF Said
  <2>2. Said(K, Len(chan))' = Said(K, n)
    BY <1>1, <2>1 DEF Said
  <2>. QED  BY <1>2, <1>6, <2>2
<1>. QED  BY <1>5, <1>6

LEMMA JobsAreFinite == IsFiniteSet(Jobs)
<1>1. IsFiniteSet({"Populate", "Replace", "Validate"})
  <2>1. {"Populate", "Replace", "Validate"} = ({"Populate"} \cup {"Replace"}) \cup {"Validate"}
    OBVIOUS
  <2>2. IsFiniteSet({"Populate"})
    BY FS_Singleton
  <2>3. IsFiniteSet({"Populate"} \cup {"Replace"})
    BY <2>2, FS_AddElement
  <2>4. IsFiniteSet(({"Populate"} \cup {"Replace"}) \cup {"Validate"})
    BY <2>3, FS_AddElement
  <2>. QED  BY <2>1, <2>4
<1>2. IsFiniteSet(Kinds)
  BY <1>1, FS_Subset, TelemetryAssumption
<1>3. IsFiniteSet(Kinds \cup {"Populate"})
  BY <1>2, FS_AddElement
<1>. QED  BY <1>3, FS_Product, TelemetryAssumption DEF Jobs

LEMMA CountsAreNat ==
  ASSUME TelemetryInv
  PROVE  /\ IsFiniteSet(Unfinished) /\ Cardinality(Unfinished) \in Nat
         /\ IsFiniteSet(unsaid) /\ Cardinality(unsaid) \in Nat
         /\ Cardinality(Said(Ends, Len(chan))) \in Nat
         /\ Cardinality(Said(Queues, Len(chan))) \in Nat /\ restored \in Nat
<1>1. Unfinished \in SUBSET Jobs /\ unsaid \in SUBSET Jobs /\ Len(chan) \in Nat /\ restored \in Nat
  BY LenProperties DEF Unfinished, Copies, TelemetryInv, TelemetryTypeOK
<1>. QED  BY <1>1, JobsAreFinite, FS_Subset, FS_CardinalityType, SaidFinite

\* A message that reports neither an announcement nor an end.
LEMMA SaysNeither ==
  ASSUME TelemetryInv, CountInv, Grows, UNCHANGED <<job, unsaid, restored>>,
         \A k \in (Len(chan) + 1)..Len(chan') : chan'[k].type \notin Queues \cup Ends
  PROVE  OnlyCopiesRun' /\ AnnouncedCoverEnds'
<1>1. OnlyCopiesRun'
  BY DEF CountInv, OnlyCopiesRun
<1>2. ASSUME NEW K \in {Queues, Ends} PROVE Said(K, Len(chan))' = Said(K, Len(chan))
  <2>. PICK n \in Nat : n = Len(chan)
    BY LenProperties DEF TelemetryInv, TelemetryTypeOK
  <2>. PICK l \in Nat : l = Len(chan') /\ n <= l
    BY LenProperties DEF Grows
  <2>1. Said(K, n)' = Said(K, n)
    BY SaidKept
  <2>2. \A k \in 1..l : k \in 1..n \/ k \in (n + 1)..l
    OBVIOUS
  <2>3. \A k \in 1..n : k \in 1..l
    OBVIOUS
  <2>4. \A k \in (n + 1)..l : chan'[k].type \notin K
    OBVIOUS
  <2>5. Said(K, l)' = Said(K, n)'
    BY <2>2, <2>3, <2>4 DEF Said
  <2>. QED  BY <2>1, <2>5 DEF Said
<1>3. Unfinished' = Unfinished /\ unsaid' = unsaid /\ restored' = restored
  BY DEF Unfinished
<1>4. Said(Queues, Len(chan))' = Said(Queues, Len(chan)) /\ Said(Ends, Len(chan))' = Said(Ends, Len(chan))
  BY <1>2
<1>. QED  BY <1>1, <1>3, <1>4 DEF CountInv, AnnouncedCoverEnds

LEMMA BalanceArithmetic ==
  ASSUME NEW a \in Nat, NEW e \in Nat, NEW q \in Nat, NEW u \in Nat, NEW r \in Nat, a + e <= q + u + r
  PROVE  /\ a + e <= q + (u + 1) + r /\ (a + 1) + e <= q + (u + 1) + r
         /\ a + e <= q + u + (r + 1) /\ (a + 1) + e <= q + u + (r + 1)
         /\ a + e <= (q + 1) + (u - 1) + r
         /\ (a - 1) + e <= q + u + r /\ (a - 1) + (e + 1) <= q + u + r
         /\ a + 1 \in Nat /\ e + 1 \in Nat /\ q + 1 \in Nat /\ u + 1 \in Nat /\ r + 1 \in Nat
  OBVIOUS

\* The steps of a job keep the balance of announcements and ends.
LEMMA JobKeepsBalance ==
  ASSUME TelemetryInv, CountInv, NEW j \in Jobs,
         Enqueued(j) \/ CopyQueued(j) \/ LeavesSilently(j) \/ NoRoom(j) \/ CopyStarts(j) \/ CopyEnds(j)
  PROVE  OnlyCopiesRun' /\ AnnouncedCoverEnds'
<1>. PICK U : U = Unfinished
  OBVIOUS
<1>. PICK q \in Nat, e \in Nat, u \in Nat, a \in Nat, r \in Nat :
       /\ r = restored /\ q = Cardinality(Said(Queues, Len(chan))) /\ e = Cardinality(Said(Ends, Len(chan)))
       /\ u = Cardinality(unsaid) /\ a = Cardinality(U)
  BY CountsAreNat
<1>0. /\ a + e <= q + u + r /\ IsFiniteSet(U) /\ IsFiniteSet(unsaid)
      /\ job \in [Jobs -> {"idle", "queued", "copying"}]
  BY CountsAreNat DEF CountInv, AnnouncedCoverEnds, TelemetryInv, TelemetryTypeOK
<1>1. ASSUME NEW q1 \in Nat, NEW e1 \in Nat, NEW u1 \in Nat, NEW w1 \in Nat,
             q1 = Cardinality(Said(Queues, Len(chan)))', e1 = Cardinality(Said(Ends, Len(chan)))',
             u1 = Cardinality(unsaid'), w1 = Cardinality(Unfinished'), w1 + e1 <= q1 + u1 + r
      PROVE  AnnouncedCoverEnds'
  <2>1. restored' = r
    BY DEF Enqueued, CopyQueued, LeavesSilently, NoRoom, CopyStarts, CopyEnds
  <2>. QED  BY <1>1, <2>1 DEF AnnouncedCoverEnds
<1>2. ASSUME NEW type \in JobEvents, NEW logged \in BOOLEAN, Emit(type, j[1], logged)
      PROVE  /\ Cardinality(Said(Queues, Len(chan)))' = q + (IF type = "Queued" THEN 1 ELSE 0)
             /\ Cardinality(Said(Ends, Len(chan)))' = e + (IF type \in Ends THEN 1 ELSE 0)
  <2>1. /\ Grows /\ Len(chan') > Len(chan)
        /\ chan'[Len(chan) + 1] = [type |-> type, file |-> j[1]]
        /\ \A k \in (Len(chan) + 2)..Len(chan') : chan'[k].type = "Log"
    BY <1>2, EmitGrows DEF Jobs
  <2>2. \A k \in (Len(chan) + 2)..Len(chan') : chan'[k].type \notin Queues /\ chan'[k].type \notin Ends
    BY <2>1 DEF Queues, Ends
  <2>3. chan'[Len(chan) + 1].type = type
    BY <2>1
  <2>4. Cardinality(Said(Queues, Len(chan)))' = q + (IF type \in Queues THEN 1 ELSE 0)
    BY <2>1, <2>2, <2>3, SaidMore
  <2>5. Cardinality(Said(Ends, Len(chan)))' = e + (IF type \in Ends THEN 1 ELSE 0)
    BY <2>1, <2>2, <2>3, SaidMore
  <2>. QED  BY <2>4, <2>5 DEF Queues
<1>3. ASSUME chan' = chan
      PROVE  /\ Cardinality(Said(Queues, Len(chan)))' = q /\ Cardinality(Said(Ends, Len(chan)))' = e
  BY <1>3 DEF Said
<1>4. ASSUME NEW v, job' = [job EXCEPT ![j] = v], v # "idle", j \notin U
      PROVE  Cardinality(Unfinished') \in {a, a + 1}
  <2>1. Unfinished' = U \/ Unfinished' = U \cup {j}
    BY <1>0, <1>4 DEF Unfinished, Copies
  <2>. QED  BY <1>0, <2>1, FS_AddElement
<1>5. ASSUME job' = [job EXCEPT ![j] = "idle"]
      PROVE  Cardinality(Unfinished') = IF j \in U THEN a - 1 ELSE a
  <2>1. Unfinished' = U \ {j}
    BY <1>0, <1>5 DEF Unfinished, Copies
  <2>. QED  BY <1>0, <2>1, FS_RemoveElement
<1>6. j \in U => a >= 1
  <2>1. a = 0 => U = {}
    BY <1>0, FS_EmptySet
  <2>. QED  BY <2>1
<1>7. CASE Enqueued(j)
  <2>1. /\ job[j] = "idle" /\ j \notin unsaid /\ job' = [job EXCEPT ![j] = "queued"]
        /\ unsaid' = unsaid \cup {j} /\ chan' = chan
    BY <1>7 DEF Enqueued, SaysQueued, Quiet
  <2>2. Cardinality(unsaid') = u + 1
    BY <1>0, <2>1, FS_AddElement
  <2>3. Cardinality(Unfinished') \in {a, a + 1}
    BY <1>4, <2>1 DEF Unfinished
  <2>4. OnlyCopiesRun'
    BY <1>0, <2>1 DEF CountInv, OnlyCopiesRun
  <2>5. AnnouncedCoverEnds'
    <3>1. u + 1 \in Nat /\ a + 1 \in Nat
      OBVIOUS
    <3>2. a + e <= q + (u + 1) + r
      BY <1>0, BalanceArithmetic
    <3>3. (a + 1) + e <= q + (u + 1) + r
      BY <1>0, BalanceArithmetic
    <3>. QED  BY <1>1, <1>3, <2>1, <2>2, <2>3, <3>1, <3>2, <3>3
  <2>. QED  BY <2>4, <2>5
<1>8. CASE CopyQueued(j)
  <2>1. j \in unsaid /\ unsaid' = unsaid \ {j} /\ job' = job /\ Emit("Queued", j[1], InfoLogged)
    BY <1>8 DEF CopyQueued
  <2>2. Cardinality(unsaid') = u - 1 /\ u - 1 \in Nat
    <3>1. u # 0
      BY <1>0, <2>1, FS_EmptySet
    <3>2. Cardinality(unsaid \ {j}) = u - 1
      BY <1>0, <2>1, FS_RemoveElement
    <3>. QED  BY <2>1, <3>1, <3>2
  <2>3. Unfinished' = U
    BY <2>1 DEF Unfinished
  <2>4. Cardinality(Said(Queues, Len(chan)))' = q + 1 /\ Cardinality(Said(Ends, Len(chan)))' = e
    BY <1>2, <2>1, TelemetryAssumption DEF JobEvents, Ends
  <2>5. OnlyCopiesRun'
    BY <2>1 DEF CountInv, OnlyCopiesRun
  <2>6. a + e <= (q + 1) + (u - 1) + r /\ q + 1 \in Nat
    BY <1>0, BalanceArithmetic
  <2>7. AnnouncedCoverEnds'
    BY <1>1, <2>2, <2>3, <2>4, <2>6
  <2>. QED  BY <2>5, <2>7
<1>9. CASE LeavesSilently(j)
  <2>1. job' = [job EXCEPT ![j] = "idle"] /\ unsaid' = unsaid /\ chan' = chan
    BY <1>9 DEF LeavesSilently, Quiet
  <2>2. OnlyCopiesRun'
    BY <1>0, <2>1 DEF CountInv, OnlyCopiesRun
  <2>3. AnnouncedCoverEnds'
    <3>1. CASE j \in U
      <4>1. Cardinality(Unfinished') = a - 1 /\ a - 1 \in Nat
        BY <1>5, <1>6, <2>1, <3>1
      <4>2. (a - 1) + e <= q + u + r
        BY <1>0, BalanceArithmetic
      <4>. QED  BY <1>1, <1>3, <2>1, <4>1, <4>2
    <3>2. CASE j \notin U
      BY <1>0, <1>1, <1>3, <1>5, <2>1, <3>2
    <3>. QED  BY <3>1, <3>2
  <2>. QED  BY <2>2, <2>3
<1>10. CASE NoRoom(j) \/ CopyEnds(j)
  <2>1. PICK type \in Ends, logged \in BOOLEAN : Emit(type, j[1], logged)
    BY <1>10, TelemetryAssumption DEF NoRoom, CopyEnds, Ends
  <2>2. j \in U /\ job' = [job EXCEPT ![j] = "idle"] /\ unsaid' = unsaid
    <3>1. CASE NoRoom(j)
      BY <3>1 DEF NoRoom, Unfinished
    <3>2. CASE CopyEnds(j)
      BY <3>2 DEF CopyEnds, Unfinished, CountInv, OnlyCopiesRun
    <3>. QED  BY <1>10, <3>1, <3>2
  <2>3. Cardinality(Said(Queues, Len(chan)))' = q /\ Cardinality(Said(Ends, Len(chan)))' = e + 1
    BY <1>2, <2>1 DEF JobEvents, Ends
  <2>4. OnlyCopiesRun'
    BY <1>0, <2>2 DEF CountInv, OnlyCopiesRun
  <2>5. Cardinality(Unfinished') = a - 1 /\ a - 1 \in Nat
    BY <1>5, <1>6, <2>2
  <2>6. (a - 1) + (e + 1) <= q + u + r /\ e + 1 \in Nat
    BY <1>0, BalanceArithmetic
  <2>7. AnnouncedCoverEnds'
    BY <1>1, <2>2, <2>3, <2>5, <2>6
  <2>. QED  BY <2>4, <2>7
<1>11. CASE CopyStarts(j)
  <2>1. /\ job[j] = "queued" /\ j \in Copies /\ job' = [job EXCEPT ![j] = "copying"] /\ unsaid' = unsaid
        /\ Emit("Started", j[1], InfoLogged)
    BY <1>11 DEF CopyStarts
  <2>2. Unfinished' = U
    BY <1>0, <2>1 DEF Unfinished, Copies
  <2>3. Cardinality(Said(Queues, Len(chan)))' = q /\ Cardinality(Said(Ends, Len(chan)))' = e
    BY <1>2, <2>1, TelemetryAssumption DEF JobEvents, Ends
  <2>4. OnlyCopiesRun'
    BY <1>0, <2>1 DEF CountInv, OnlyCopiesRun, Copies
  <2>. QED  BY <1>0, <1>1, <2>1, <2>2, <2>3, <2>4
<1>. QED  BY <1>7, <1>8, <1>9, <1>10, <1>11

\* A restored job is counted as one.
LEMMA SpawnKeepsBalance ==
  ASSUME TelemetryInv, CountInv, NEW f \in Files, Spawn(f)
  PROVE  OnlyCopiesRun' /\ AnnouncedCoverEnds'
<1>1. UNCHANGED <<chan, unsaid>>
  BY DEF Spawn, Quiet
<1>2. CASE UNCHANGED <<restored, job>>
  BY <1>1, <1>2 DEF CountInv, OnlyCopiesRun, AnnouncedCoverEnds, Unfinished, Said
<1>3. CASE job' = [job EXCEPT ![<<f, "Populate">>] = "queued"] /\ restored' = restored + 1
  <2>. PICK i \in Jobs : i = <<f, "Populate">>
    BY DEF Jobs
  <2>. PICK U : U = Unfinished
    OBVIOUS
  <2>. PICK q \in Nat, e \in Nat, u \in Nat, a \in Nat, r \in Nat :
         /\ r = restored /\ q = Cardinality(Said(Queues, Len(chan))) /\ e = Cardinality(Said(Ends, Len(chan)))
         /\ u = Cardinality(unsaid) /\ a = Cardinality(U)
    BY CountsAreNat
  <2>1. a + e <= q + u + r /\ IsFiniteSet(U) /\ job \in [Jobs -> {"idle", "queued", "copying"}]
    BY CountsAreNat DEF CountInv, AnnouncedCoverEnds, TelemetryInv, TelemetryTypeOK
  <2>2. Unfinished' = U \/ Unfinished' = U \cup {i}
    BY <1>3, <2>1 DEF Unfinished, Copies
  <2>3. Cardinality(Unfinished') \in {a, a + 1}
    BY <2>1, <2>2, FS_AddElement
  <2>4. /\ Cardinality(Said(Queues, Len(chan)))' = q /\ Cardinality(Said(Ends, Len(chan)))' = e
        /\ Cardinality(unsaid)' = u
    BY <1>1 DEF Said
  <2>5. AnnouncedCoverEnds'
    <3>1. restored' = r + 1 /\ a + e <= q + u + (r + 1) /\ (a + 1) + e <= q + u + (r + 1)
      BY <1>3, <2>1, BalanceArithmetic
    <3>. QED  BY <2>3, <2>4, <3>1 DEF AnnouncedCoverEnds
  <2>6. OnlyCopiesRun'
    BY <1>3, <2>1 DEF CountInv, OnlyCopiesRun
  <2>. QED  BY <2>5, <2>6
<1>. QED  BY <1>2, <1>3 DEF Spawn

\* The steps of everyone else announce nothing and end nothing.
LEMMA BalanceStep ==
  ASSUME TelemetryInv, CountInv, [TelemetryNext]_telemetryVars
  PROVE  OnlyCopiesRun' /\ AnnouncedCoverEnds'
<1>. PICK n \in Nat : n = Len(chan)
  BY LenProperties DEF TelemetryInv, TelemetryTypeOK
<1>0. ASSUME UNCHANGED <<chan, job, unsaid, restored>> PROVE OnlyCopiesRun' /\ AnnouncedCoverEnds'
  BY <1>0 DEF CountInv, OnlyCopiesRun, AnnouncedCoverEnds, Unfinished, Said
<1>1. CASE UNCHANGED telemetryVars
  BY <1>0, <1>1 DEF telemetryVars
<1>2. CASE LogLine \/ ServerStops
  <2>1. PICK type \in {"Log", "Goodbye"} : chan' = Append(chan, Message(type)) /\ Len(chan') <= MaxSent
    <3>1. CASE LogLine
      <4>1. chan \in Seq(Messages) /\ Message("Log") \in Messages /\ Len(chan) < MaxSent
        BY <3>1 DEF LogLine, TelemetryInv, TelemetryTypeOK, Message, Messages, Types, JobEvents
      <4>2. Len(Append(chan, Message("Log"))) = Len(chan) + 1
        BY <4>1, AppendProperties
      <4>3. n + 1 <= MaxSent
        BY <4>1, TelemetryAssumption
      <4>. QED  BY <3>1, <4>2, <4>3 DEF LogLine
    <3>2. CASE ServerStops
      BY <3>2 DEF ServerStops
    <3>. QED  BY <1>2, <3>1, <3>2
  <2>2. Grows /\ Len(chan') = Len(chan) + 1 /\ chan'[Len(chan) + 1] = Message(type)
    BY <2>1, AppendGrows
  <2>3. chan'[n + 1].type \notin Queues \cup Ends
    BY <2>2 DEF Message, Queues, Ends
  <2>4. \A k \in (n + 1)..Len(chan') : k = n + 1
    BY <2>2
  <2>5. UNCHANGED <<job, unsaid, restored>>
    BY <1>2 DEF LogLine, ServerStops, sourceVars
  <2>. QED  BY <2>2, <2>3, <2>4, <2>5, SaysNeither
<1>3. ASSUME NEW f \in Files, TickerSends(f) PROVE OnlyCopiesRun' /\ AnnouncedCoverEnds'
  <2>1. Emit("Progress", f, FALSE) /\ UNCHANGED <<job, unsaid, restored>>
    BY <1>3 DEF TickerSends
  <2>2. /\ Grows /\ chan'[n + 1].type = "Progress"
        /\ \A k \in (n + 2)..Len(chan') : chan'[k].type = "Log"
    <3>1. "Progress" \in JobEvents /\ FALSE \in BOOLEAN
      BY DEF JobEvents
    <3>2. /\ Grows /\ chan'[Len(chan) + 1] = [type |-> "Progress", file |-> f]
          /\ \A k \in (Len(chan) + 2)..Len(chan') : chan'[k].type = "Log"
      BY <2>1, <3>1, EmitGrows
    <3>. QED  BY <3>2
  <2>3. Len(chan') \in Nat
    BY <2>2, LenProperties DEF Grows
  <2>4. \A k \in (n + 1)..Len(chan') : k = n + 1 \/ k \in (n + 2)..Len(chan')
    BY <2>3
  <2>5. \A k \in (n + 1)..Len(chan') : chan'[k].type \notin Queues \cup Ends
    BY <2>2, <2>4 DEF Queues, Ends
  <2>. QED  BY <2>1, <2>2, <2>5, SaysNeither
<1>4. CASE RingReceives \/ Signalled
  BY <1>0, <1>4 DEF RingReceives, Signalled, sourceVars
<1>5. ASSUME NEW c \in Clients, Accept(c) \/ Handler(c) \/ Detach(c)
      PROVE  OnlyCopiesRun' /\ AnnouncedCoverEnds'
  BY <1>0, <1>5 DEF Accept, Handler, Snapshot, Replayed, Forward, Detach, ClientStep, sourceVars
<1>. QED  BY <1>1, <1>2, <1>3, <1>4, <1>5, JobKeepsBalance, SpawnKeepsBalance DEF TelemetryNext

CounterCovers(h) ==
  h.at = "live" /\ ~h.lagged /\ h.from = 0 =>
    Cardinality(Said(Queues, h.pos)) <= h.inFlight + Cardinality(Said(Ends, h.pos))

\* What apply_event does to the counter, a decrement of zero included.
HasCounted(h, g, m) ==
  g.inFlight = IF m.type \in Queues THEN h.inFlight + 1
               ELSE IF m.type \in Ends THEN Decremented(h.inFlight) ELSE h.inFlight

LEMMA AppliedCount ==
  ASSUME NEW h \in Handlers, NEW m \in Messages, NEW i \in Positions
  PROVE  HasCounted(h, Applied(h, m, i), m)
<1>0. m.type \in Types
  BY DEF Messages, Types, JobEvents
<1>1. CASE m.type = "Log"
  <2>1. Applied(h, m, i) = [h EXCEPT !.lines = @ \cup {i}]
    BY <1>1 DEF Applied
  <2>. QED  BY <1>1, <2>1 DEF HasCounted, Handlers, Queues, Ends
<1>2. CASE m.type = "Queued"
  <2>1. Applied(h, m, i) = [h EXCEPT !.inFlight = @ + 1]
    BY <1>2 DEF Applied
  <2>. QED  BY <1>2, <2>1 DEF HasCounted, Handlers, Queues
<1>3. CASE m.type = "Started"
  <2>1. Applied(h, m, i) = [h EXCEPT !.active = @ \cup {m.file}]
    BY <1>3 DEF Applied
  <2>. QED  BY <1>3, <2>1 DEF HasCounted, Handlers, Queues, Ends
<1>4. CASE m.type = "Progress"
  <2>1. Applied(h, m, i) = [h EXCEPT !.active = h.active]
    BY <1>4 DEF Applied, ProgressUpdates
  <2>. QED  BY <1>4, <2>1 DEF HasCounted, Handlers, Queues, Ends
<1>5. CASE m.type \in {"Complete", "Failed"}
  <2>. PICK n, A : n = Decremented(h.inFlight) /\ A = h.active \ {m.file}
    OBVIOUS
  <2>1. Applied(h, m, i) = [h EXCEPT !.inFlight = n, !.active = A]
    BY <1>5 DEF Applied, Handlers
  <2>. QED  BY <1>5, <2>1 DEF HasCounted, Handlers, Queues, Ends
<1>6. CASE m.type = "Goodbye"
  <2>1. Applied(h, m, i) = h
    BY <1>6 DEF Applied
  <2>. QED  BY <1>6, <2>1 DEF HasCounted, Queues, Ends
<1>. QED  BY <1>0, <1>1, <1>2, <1>3, <1>4, <1>5, <1>6 DEF Types, JobEvents

LEMMA ForwardCovers ==
  ASSUME TelemetryInv, CountInv, NEW c \in Clients, Forward(c)
  PROVE  \E g : ClientStep(c, g) /\ CounterCovers(g)
<1>. PICK h : h = client[c]
  OBVIOUS
<1>. PICK n \in Nat : n = Len(chan)
  BY LenProperties DEF TelemetryInv, TelemetryTypeOK
<1>1. /\ h \in Handlers /\ h.pos \in Nat /\ h.inFlight \in Nat /\ h.pos < n /\ h.at = "live"
      /\ n <= MaxSent /\ MaxSent \in Nat /\ CounterCovers(h) /\ \A i \in 1..n : chan[i] \in Messages
  BY TelemetryAssumption, LenProperties
     DEF Forward, TelemetryInv, TelemetryTypeOK, Handlers, CountInv, CountersCover, CounterCovers
<1>2. CASE Behind(h.pos)
  <2>. PICK g : g = [h EXCEPT !.pos = Oldest, !.lagged = TRUE]
    OBVIOUS
  <2>1. ClientStep(c, g)
    BY <1>2 DEF Forward
  <2>2. g.lagged
    BY <1>1 DEF Handlers
  <2>. QED  BY <2>1, <2>2 DEF CounterCovers
<1>3. CASE ~Behind(h.pos)
  <2>. PICK i \in Positions : i = h.pos + 1 /\ i \in 1..n /\ i \in 0..MaxSent
    BY <1>1 DEF Positions
  <2>. PICK h1 : h1 = [h EXCEPT !.pos = i]
    OBVIOUS
  <2>1. h1 \in Handlers /\ h1.pos = i /\ h1.inFlight = h.inFlight /\ h1.lagged = h.lagged /\ h1.from = h.from
    BY <1>1 DEF Handlers
  <2>. PICK m \in Messages : m = chan[i]
    BY <1>1
  <2>. PICK g : g = Applied(h1, m, i)
    OBVIOUS
  <2>7. HasRead(h1, g, m, i)
    BY <2>1, AppliedEffect
  <2>2. /\ g.pos = i /\ g.lagged = h.lagged /\ g.from = h.from
    BY <2>1, <2>7 DEF HasRead
  <2>8. HasCounted(h1, g, m)
    BY <2>1, AppliedCount
  <2>3. g.inFlight = IF m.type \in Queues THEN h.inFlight + 1
                     ELSE IF m.type \in Ends THEN Decremented(h.inFlight) ELSE h.inFlight
    BY <2>1, <2>8 DEF HasCounted
  <2>4. ClientStep(c, EndsOnGoodbye(g, m))
    BY <1>3 DEF Forward
  <2>5. CounterCovers(NoHandler)
    BY DEF NoHandler, CounterCovers
  <2>6. CounterCovers(g)
    <3>. SUFFICES ASSUME ~h.lagged, h.from = 0
                  PROVE  Cardinality(Said(Queues, i)) <= g.inFlight + Cardinality(Said(Ends, i))
      BY <2>2 DEF CounterCovers
    <3>. PICK q \in Nat, e \in Nat :
           q = Cardinality(Said(Queues, h.pos)) /\ e = Cardinality(Said(Ends, h.pos))
      BY <1>1, SaidFinite
    <3>1. q <= h.inFlight + e
      BY <1>1 DEF CounterCovers
    <3>2. /\ Cardinality(Said(Queues, i)) = q + (IF m.type \in Queues THEN 1 ELSE 0)
          /\ Cardinality(Said(Ends, i)) = e + (IF m.type \in Ends THEN 1 ELSE 0)
      BY <1>1, SaidNext
    <3>3. ~(m.type \in Queues /\ m.type \in Ends)
      BY DEF Queues, Ends
    <3>4. CASE m.type \in Queues
      BY <1>1, <2>3, <3>1, <3>2, <3>3, <3>4
    <3>5. CASE m.type \in Ends
      BY <1>1, <2>3, <3>1, <3>2, <3>3, <3>5 DEF Decremented
    <3>6. CASE m.type \notin Queues /\ m.type \notin Ends
      BY <1>1, <2>3, <3>1, <3>2, <3>6
    <3>. QED  BY <3>4, <3>5, <3>6
  <2>. QED  BY <2>4, <2>5, <2>6 DEF EndsOnGoodbye
<1>. QED  BY <1>2, <1>3

LEMMA CountersStep ==
  ASSUME TelemetryInv, CountInv, [TelemetryNext]_telemetryVars
  PROVE  CountersCover'
<1>0. /\ Grows /\ client \in [Clients -> Handlers]
      /\ \A d \in Clients : /\ client[d].pos \in Nat /\ client[d].pos <= Len(chan)
                            /\ CounterCovers(client[d])
                            /\ client[d].at # "live" => client[d].pos = client[d].from
  BY StepGrows DEF TelemetryInv, TelemetryTypeOK, Handlers, ReceiversInside, CountInv, CountersCover, CounterCovers
<1>1. ASSUME UNCHANGED client PROVE CountersCover'
  <2>1. \A d \in Clients : /\ Said(Queues, client[d].pos)' = Said(Queues, client[d].pos)
                           /\ Said(Ends, client[d].pos)' = Said(Ends, client[d].pos)
    <3>1. ASSUME NEW d \in Clients, NEW K PROVE Said(K, client[d].pos)' = Said(K, client[d].pos)
      <4>. PICK n \in Nat : n = client[d].pos /\ n <= Len(chan)
        BY <1>0
      <4>1. Said(K, n)' = Said(K, n)
        BY <1>0, SaidKept
      <4>. QED  BY <1>1, <4>1 DEF Said
    <3>. QED  BY <3>1
  <2>. QED  BY <1>0, <1>1, <2>1 DEF CounterCovers, CountersCover
<1>2. ASSUME NEW c \in Clients, NEW g, ClientStep(c, g), CounterCovers(g) PROVE CountersCover'
  <2>1. chan' = chan /\ \A d \in Clients : client'[d] = IF d = c THEN g ELSE client[d]
    BY <1>0, <1>2 DEF ClientStep
  <2>2. \A d \in Clients : CounterCovers(client'[d])
    BY <1>0, <1>2, <2>1
  <2>. QED  BY <2>1, <2>2 DEF CounterCovers, CountersCover, Said
<1>3. ASSUME NEW c \in Clients, Accept(c) PROVE CountersCover'
  <2>. PICK g : g = [NoHandler EXCEPT !.at = "accepted", !.from = Len(chan), !.pos = Len(chan)]
    OBVIOUS
  <2>1. ClientStep(c, g) /\ g.at # "live"
    BY <1>3 DEF Accept, NoHandler
  <2>. QED  BY <1>2, <2>1 DEF CounterCovers
<1>4. ASSUME NEW c \in Clients, Snapshot(c) PROVE CountersCover'
  <2>. PICK g : g = [client[c] EXCEPT !.at = "replay", !.replay = ring]
    OBVIOUS
  <2>1. ClientStep(c, g) /\ g.at # "live"
    BY <1>0, <1>4 DEF Snapshot, Handlers
  <2>. QED  BY <1>2, <2>1 DEF CounterCovers
<1>5. ASSUME NEW c \in Clients, Detach(c) PROVE CountersCover'
  <2>1. ClientStep(c, NoHandler) /\ NoHandler.at # "live"
    BY <1>5 DEF Detach, NoHandler
  <2>. QED  BY <1>2, <2>1 DEF CounterCovers
<1>6. ASSUME NEW c \in Clients, Replayed(c) PROVE CountersCover'
  <2>. PICK h : h = client[c]
    OBVIOUS
  <2>. PICK g : g = Live(h)
    OBVIOUS
  <2>1. ClientStep(c, g) /\ h.pos = h.from /\ h \in Handlers
    BY <1>0, <1>6 DEF Replayed
  <2>2. g.pos = h.pos /\ g.from = h.from /\ g.inFlight = h.inFlight /\ h.inFlight \in Nat
    <3>. PICK x, y : x = ToSet(h.replay) /\ y = <<>>
      OBVIOUS
    <3>1. g = [h EXCEPT !.at = "live", !.lines = x, !.replay = y]
      BY DEF Live
    <3>. QED  BY <2>1, <3>1 DEF Handlers
  <2>3. Said(Queues, 0) = {} /\ Cardinality(Said(Queues, 0)) = 0
    BY FS_EmptySet DEF Said
  <2>4. Cardinality(Said(Ends, 0)) \in Nat
    BY SaidFinite
  <2>5. CounterCovers(g)
    BY <2>1, <2>2, <2>3, <2>4 DEF CounterCovers
  <2>. QED  BY <1>2, <2>1, <2>5
<1>7. ASSUME NEW c \in Clients, Forward(c) PROVE CountersCover'
  BY <1>2, <1>7, ForwardCovers
<1>8. CASE \/ UNCHANGED telemetryVars \/ LogLine \/ RingReceives \/ Signalled \/ ServerStops
           \/ \E j \in Jobs : \/ Enqueued(j) \/ CopyQueued(j) \/ LeavesSilently(j)
                              \/ NoRoom(j) \/ CopyStarts(j) \/ CopyEnds(j)
           \/ \E f \in Files : Spawn(f) \/ TickerSends(f)
  <2>1. UNCHANGED client
    BY <1>8 DEF telemetryVars, LogLine, RingReceives, Signalled, ServerStops, Enqueued, CopyQueued,
       LeavesSilently, NoRoom, CopyStarts, CopyEnds, Spawn, TickerSends, Emit, Quiet
  <2>. QED  BY <1>1, <2>1
<1>. QED  BY <1>3, <1>4, <1>5, <1>6, <1>7, <1>8 DEF TelemetryNext, Handler

\* The in-flight counter of a dashboard that was there from the start and has
\* read everything falls below the copies queued or running by no more than
\* the jobs restored by CacheIO::spawn (io.rs:112), which are never announced
\* and whose ends decrease it, and those whose CopyQueued is still to be sent:
\* enqueue sends it after the mutex is released, so that it may even follow
\* the end of its own copy, and the decrement saturates (apply_event).
THEOREM CountersNeverUndercount == TelemetrySpec => []NeverUndercounts
<1>1. TelemetryInit => CountInv
  <2>. SUFFICES ASSUME TelemetryInit PROVE CountInv
    OBVIOUS
  <2>1. OnlyCopiesRun
    BY DEF TelemetryInit, OnlyCopiesRun
  <2>2. Unfinished = {} /\ Said(Ends, Len(chan)) = {} /\ Said(Queues, Len(chan)) = {} /\ unsaid = {} /\ restored = 0
    BY DEF TelemetryInit, Unfinished, Said, Copies
  <2>3. AnnouncedCoverEnds
    BY <2>2, FS_EmptySet DEF AnnouncedCoverEnds
  <2>4. CountersCover
    BY DEF TelemetryInit, NoHandler, CountersCover
  <2>. QED  BY <2>1, <2>3, <2>4 DEF CountInv
<1>2. TelemetryInv /\ CountInv /\ [TelemetryNext]_telemetryVars => CountInv'
  BY BalanceStep, CountersStep DEF CountInv
<1>3. \A q, e, u, a, f, r \in Nat : a + e <= q + u + r /\ q <= f + e => a <= f + u + r
  OBVIOUS
<1>4. ASSUME TelemetryInv, CountInv PROVE NeverUndercounts
  <2>. SUFFICES ASSUME NEW c \in Clients, CaughtUp(c), client[c].from = 0
                PROVE  Cardinality(Unfinished) <= client[c].inFlight + Cardinality(unsaid) + restored
    BY DEF NeverUndercounts, Unfinished
  <2>1. /\ Cardinality(Said(Queues, Len(chan))) <= client[c].inFlight + Cardinality(Said(Ends, Len(chan)))
        /\ client[c].inFlight \in Nat
    BY <1>4 DEF CaughtUp, CountInv, CountersCover, TelemetryInv, TelemetryTypeOK, Handlers
  <2>5. PICK q \in Nat, e \in Nat, u \in Nat, a \in Nat, r \in Nat :
         /\ r = restored /\ q = Cardinality(Said(Queues, Len(chan))) /\ e = Cardinality(Said(Ends, Len(chan)))
         /\ u = Cardinality(unsaid) /\ a = Cardinality(Unfinished)
    BY <1>4, CountsAreNat
  <2>6. PICK f \in Nat : f = client[c].inFlight
    BY <2>1
  <2>2. a + e <= q + u + r
    BY <1>4, <2>5 DEF CountInv, AnnouncedCoverEnds
  <2>3. q <= f + e
    BY <2>1, <2>5, <2>6
  <2>4. a <= f + u + r
    BY <1>3, <2>2, <2>3
  <2>. QED  BY <2>4, <2>5, <2>6
<1>. QED  BY <1>1, <1>2, <1>4, TelemetryInvariance, PTL DEF TelemetrySpec

-----------------------------------------------------------------------------
(* The services together (module MCServices).                              *)

\* The three parts keep their types, whichever of them moves: the counters of
\* discovery never exceed what was recorded, those of the telemetry never go
\* below zero, and locks are held by running daemons only.
THEOREM ServicesTypeCorrect == Spec => []ServicesTypeOK
<1> DEFINE Inv == /\ DiscoveryInv /\ AccountInv /\ TelemetryInv /\ DaemonInv
<1>1. Init => Inv
  BY DiscoveryInitInv, AccountInitInv, TelemetryInitInv, DaemonInitInv DEF Init
<1>2. Inv /\ [Next]_servicesVars => Inv'
  <2> SUFFICES ASSUME Inv, [Next]_servicesVars PROVE Inv'
    OBVIOUS
  <2>1. /\ [DiscoveryNext]_discoveryVars /\ [TelemetryNext]_telemetryVars /\ [DaemonNext]_daemonVars
    BY DEF Next, servicesVars
  <2>2. (DiscoveryInv /\ AccountInv)'
    BY <2>1, DiscoveryStepInv, AccountStepInv
  <2>3. TelemetryInv'
    BY <2>1, TelemetryStepInv
  <2>4. DaemonInv'
    BY <2>1, DaemonStepInv
  <2>. QED  BY <2>2, <2>3, <2>4
<1>3. Inv => ServicesTypeOK
  <2>1. DiscoveryInv /\ AccountInv => DiscoveryTypeOK
    BY DiscoveryTypes
  <2>2. TelemetryInv => TelemetryTypeOK
    BY DEF TelemetryInv
  <2>3. DaemonInv => DaemonTypeOK
    BY DEF DaemonInv, LockInv
  <2>. QED  BY <2>1, <2>2, <2>3 DEF ServicesTypeOK
<1>. QED  BY <1>1, <1>2, <1>3, PTL DEF Spec
=============================================================================

--------------------------- MODULE PipelineProofs ---------------------------
(* Proofs about module Pipeline, for every set of paths, every set of worker *)
(* slots, every number of permits and every TTL setting.                     *)
EXTENDS Pipeline, CollectionFacts

-----------------------------------------------------------------------------
(* The queue as a set of jobs.                                             *)

\* What submit_job's push_back does to the set of queued jobs.
LEMMA RangeAppend ==
  ASSUME NEW S, NEW q \in Seq(S), NEW e \in S
  PROVE  /\ Append(q, e) \in Seq(S)
         /\ Range(Append(q, e)) = Range(q) \cup {e}
         /\ IsInjective(q) /\ e \notin Range(q) => IsInjective(Append(q, e))
<1> DEFINE r == Append(q, e)
<1>1. /\ r \in Seq(S) /\ Len(r) = Len(q) + 1 /\ r[Len(q) + 1] = e
      /\ \A i \in 1..Len(q) : r[i] = q[i]
  BY AppendProperties
<1>2. Len(q) \in Nat /\ DOMAIN q = 1..Len(q) /\ DOMAIN r = 1..Len(q) + 1
  BY <1>1, LenProperties
<1> HIDE DEF r
<1>3. Range(r) = Range(q) \cup {e}
  <2>1. ASSUME NEW x \in Range(r) PROVE x \in Range(q) \cup {e}
    <3>1. PICK i \in 1..Len(q) + 1 : r[i] = x
      BY <1>2 DEF Range
    <3>. QED  BY <3>1, <1>1, <1>2 DEF Range
  <2>2. ASSUME NEW x \in Range(q) PROVE x \in Range(r)
    <3>1. PICK i \in 1..Len(q) : q[i] = x
      BY <1>2 DEF Range
    <3>. QED  BY <3>1, <1>1, <1>2 DEF Range
  <2>3. e \in Range(r)
    <3>1. Len(q) + 1 \in 1..Len(q) + 1
      BY <1>2
    <3>. QED  BY <3>1, <1>1, <1>2 DEF Range
  <2>. QED  BY <2>1, <2>2, <2>3
<1>4. ASSUME IsInjective(q), e \notin Range(q) PROVE IsInjective(r)
  <2>. SUFFICES ASSUME NEW i \in 1..Len(q) + 1, NEW k \in 1..Len(q) + 1, r[i] = r[k]
                PROVE  i = k
    BY <1>2 DEF IsInjective
  <2>1. \A n \in 1..Len(q) : q[n] # e
    BY <1>2, <1>4 DEF Range
  <2>. QED  BY <2>1, <1>1, <1>2, <1>4 DEF IsInjective
<1>. QED  BY <1>1, <1>3, <1>4 DEF r

\* What pop_next_job's removal of one position does to the set of queued jobs.
LEMMA RangeRemoveAt ==
  ASSUME NEW S, NEW q \in Seq(S), NEW n \in 1..Len(q), IsInjective(q)
  PROVE  /\ RemoveAt(q, n) \in Seq(S)
         /\ Range(RemoveAt(q, n)) = Range(q) \ {q[n]}
         /\ IsInjective(RemoveAt(q, n))
<1> DEFINE r == RemoveAt(q, n)
<1>0. Len(q) \in Nat /\ DOMAIN q = 1..Len(q)
  BY LenProperties
<1>3. /\ r \in Seq(S) /\ Len(r) = Len(q) - 1
      /\ \A i \in 1..(Len(q) - 1) : r[i] = IF i < n THEN q[i] ELSE q[i + 1]
  BY RemoveAtElements
<1>4. DOMAIN r = 1..(Len(q) - 1)
  BY <1>3, LenProperties
<1> HIDE DEF r
<1>5. Range(r) = Range(q) \ {q[n]}
  <2>1. ASSUME NEW x \in Range(r) PROVE x \in Range(q) \ {q[n]}
    <3>1. PICK i \in 1..(Len(q) - 1) : r[i] = x
      BY <1>4 DEF Range
    <3>2. PICK k \in 1..Len(q) : k # n /\ q[k] = x
      BY <3>1, <1>0, <1>3
    <3>. QED  BY <3>2, <1>0 DEF Range, IsInjective
  <2>2. ASSUME NEW x \in Range(q) \ {q[n]} PROVE x \in Range(r)
    <3>1. PICK k \in 1..Len(q) : q[k] = x /\ k # n
      BY <1>0 DEF Range
    <3>2. PICK i \in 1..(Len(q) - 1) : r[i] = x
      <4>1. CASE k < n
        BY <4>1, <3>1, <1>0, <1>3
      <4>2. CASE k > n
        <5>1. k - 1 \in 1..(Len(q) - 1) /\ ~(k - 1 < n) /\ (k - 1) + 1 = k
          BY <4>2, <1>0
        <5>. QED  BY <5>1, <3>1, <1>3
      <4>. QED  BY <4>1, <4>2, <3>1
    <3>. QED  BY <3>2, <1>4 DEF Range
  <2>. QED  BY <2>1, <2>2
<1>6. IsInjective(r)
  <2>. SUFFICES ASSUME NEW i \in 1..(Len(q) - 1), NEW k \in 1..(Len(q) - 1), r[i] = r[k]
                PROVE  i = k
    BY <1>4 DEF IsInjective
  <2>. QED  BY <1>0, <1>3 DEF IsInjective
<1>. QED  BY <1>3, <1>5, <1>6 DEF r

\* What expire_stale's pops from the front do to the set of queued jobs.
LEMMA RangeDropPrefix ==
  ASSUME NEW S, NEW q \in Seq(S), NEW n \in 0..Len(q), IsInjective(q)
  PROVE  /\ SubSeq(q, n + 1, Len(q)) \in Seq(S)
         /\ IsInjective(SubSeq(q, n + 1, Len(q)))
         /\ Range(SubSeq(q, 1, n)) \subseteq Range(q)
         /\ Range(SubSeq(q, n + 1, Len(q))) = Range(q) \ Range(SubSeq(q, 1, n))
<1> DEFINE a == SubSeq(q, 1, n)
           b == SubSeq(q, n + 1, Len(q))
<1>0. Len(q) \in Nat /\ DOMAIN q = 1..Len(q)
  BY LenProperties
<1>1. a \in Seq(S) /\ Len(a) = n /\ \A i \in 1..n : a[i] = q[i]
  BY <1>0, SubSeqProperties
<1>2. /\ b \in Seq(S) /\ Len(b) = Len(q) - n
      /\ \A i \in 1..(Len(q) - n) : b[i] = q[n + i]
  BY <1>0, Suffix
<1>3. DOMAIN a = 1..n /\ DOMAIN b = 1..(Len(q) - n)
  BY <1>1, <1>2, LenProperties
<1> HIDE DEF a, b
<1>4. IsInjective(b)
  <2>. SUFFICES ASSUME NEW i \in 1..(Len(q) - n), NEW k \in 1..(Len(q) - n), b[i] = b[k]
                PROVE  i = k
    BY <1>3 DEF IsInjective
  <2>1. n + i \in 1..Len(q) /\ n + k \in 1..Len(q) /\ (n + i = n + k => i = k)
    BY <1>0
  <2>2. q[n + i] = q[n + k]
    BY <1>2
  <2>. QED  BY <1>0, <2>1, <2>2 DEF IsInjective
<1>5. Range(a) \subseteq Range(q)
  BY <1>0, <1>1, <1>3 DEF Range
<1>6. Range(b) \subseteq Range(q) \ Range(a)
  <2>. SUFFICES ASSUME NEW x \in Range(b) PROVE x \in Range(q) /\ x \notin Range(a)
    OBVIOUS
  <2>1. PICK i \in 1..(Len(q) - n) : b[i] = x
    BY <1>3 DEF Range
  <2>2. n + i \in 1..Len(q) /\ n + i > n /\ q[n + i] = x
    BY <2>1, <1>0, <1>2
  <2>3. x \in Range(q)
    BY <2>2, <1>0 DEF Range
  <2>4. \A k \in 1..n : a[k] # x
    BY <2>2, <1>0, <1>1 DEF IsInjective
  <2>. QED  BY <2>3, <2>4, <1>3 DEF Range
<1>7. Range(q) \ Range(a) \subseteq Range(b)
  <2>. SUFFICES ASSUME NEW x \in Range(q), x \notin Range(a) PROVE x \in Range(b)
    OBVIOUS
  <2>1. PICK k \in 1..Len(q) : q[k] = x
    BY <1>0 DEF Range
  <2>2. k > n
    BY <2>1, <1>0, <1>1, <1>3 DEF Range
  <2>3. k - n \in 1..(Len(q) - n) /\ n + (k - n) = k
    BY <2>2, <1>0
  <2>4. b[k - n] = x
    BY <2>1, <2>3, <1>2
  <2>. QED  BY <2>3, <2>4, <1>3 DEF Range
<1>. QED  BY <1>2, <1>4, <1>5, <1>6, <1>7 DEF a, b

\* The rows load_deferred returns become a queue without repetitions.
LEMMA LoadedQueue ==
  ASSUME PipelineTypeOK, NEW rws \in LoadDeferred
  PROVE  LET q == [i \in DOMAIN rws |-> <<rws[i], "Populate">>] IN
         /\ q \in Seq(Jobs)
         /\ IsInjective(q)
         /\ \A j \in Jobs : j \in Range(q) <=> j[2] = "Populate" /\ j[1] \in Range(rws)
<1> DEFINE q == [i \in DOMAIN rws |-> <<rws[i], "Populate">>]
<1>1. PICK T \in SUBSET deferred : rws \in SetToSeqs(T)
  BY DEF LoadDeferred, SetToAllKPermutations
<1>2. Cardinality(T) \in Nat /\ T \subseteq Paths
  <2>1. T \subseteq Paths /\ IsFiniteSet(Paths)
    BY <1>1, PipelineAssumption DEF PipelineTypeOK
  <2>2. IsFiniteSet(T)
    BY <2>1, FS_Subset
  <2>. QED  BY <2>1, <2>2, FS_CardinalityType
<1>3. PICK n \in Nat : /\ rws \in [1..n -> T]
                        /\ \A i, k \in 1..n : i # k => rws[i] # rws[k]
  BY <1>1, <1>2 DEF SetToSeqs
<1>4. DOMAIN q = 1..n /\ \A i \in 1..n : q[i] = <<rws[i], "Populate">> /\ q[i] \in Jobs
  BY <1>2, <1>3 DEF Jobs, Kinds
<1>5. q \in Seq(Jobs)
  <2>1. q \in [1..n -> Jobs]
    BY <1>3, <1>4
  <2>. QED  BY <2>1, IsASeq
<1>6. IsInjective(q)
  BY <1>3, <1>4 DEF IsInjective
<1>7. ASSUME NEW j \in Jobs
      PROVE  j \in Range(q) <=> j[2] = "Populate" /\ j[1] \in Range(rws)
  <2>1. PICK p \in Paths, k \in Kinds : j = <<p, k>>
    BY DEF Jobs
  <2>2. DOMAIN rws = 1..n
    BY <1>3
  <2>. QED  BY <2>1, <2>2, <1>3, <1>4 DEF Range
<1>. QED  BY <1>5, <1>6, <1>7

-----------------------------------------------------------------------------
(* The inductive invariant: besides what is to be shown, the dispatcher has *)
(* a job in hand exactly when it waits for a permit, and a task that is not *)
(* free has a job.                                                          *)

HandMatchesPc == held # NoJob <=> dpc = "permit"
TasksHaveJobs == \A s \in Slots : stage[s] # "free" => tjob[s] \in Jobs
PipelineInv ==
  PipelineTypeOK /\ HandMatchesPc /\ TasksHaveJobs /\ DedupAirtight /\ HandleMatchesCopy

LEMMA InitInv == PipelineInit => PipelineInv
<1> SUFFICES ASSUME PipelineInit PROVE PipelineInv
  OBVIOUS
<1> USE PipelineAssumption DEF PipelineInit
<1>1. PipelineTypeOK
  BY EmptySeq DEF PipelineTypeOK, KnownStates, Stages
<1>2. HandMatchesPc /\ TasksHaveJobs
  BY DEF HandMatchesPc, TasksHaveJobs
<1>3. Range(queue) = {} /\ IsInjective(queue)
  BY DEF Range, IsInjective
<1>4. DedupAirtight /\ HandleMatchesCopy
  BY <1>3 DEF DedupAirtight, HandleMatchesCopy, Queued, Running, Live
<1>. QED  BY <1>1, <1>2, <1>4 DEF PipelineInv

\* submit_job adds a job that is nowhere.
LEMMA SubmitInv ==
  ASSUME PipelineInv, NEW p \in Paths, NEW k \in Kinds, Submit(p, k)
  PROVE  PipelineInv'
<1> DEFINE j0 == <<p, k>>
<1>0. j0 \in Jobs
  BY DEF Jobs
<1> HIDE DEF j0
<1> USE DEF PipelineInv
<1>1. /\ queue \in Seq(Jobs) /\ known[j0] = "absent" /\ queue' = Append(queue, j0)
      /\ known' = [known EXCEPT ![j0] = "queued"]
      /\ UNCHANGED <<window, dpc, allowed, expired, held, tjob, stage>>
  BY DEF Submit, NotKnown, PipelineTypeOK, dispVars, taskVars, j0
<1>2. ~Queued(j0) /\ held # j0 /\ ~Running(j0)
  BY <1>0, <1>1 DEF DedupAirtight
<1>3. /\ queue' \in Seq(Jobs) /\ IsInjective(queue')
      /\ Range(queue') = Range(queue) \cup {j0}
  BY <1>0, <1>1, <1>2, RangeAppend DEF DedupAirtight, Queued
<1>4. PipelineTypeOK'
  BY <1>0, <1>1, <1>3 DEF PipelineTypeOK, Submit, KnownStates
<1>5. HandMatchesPc' /\ TasksHaveJobs'
  BY <1>1 DEF HandMatchesPc, TasksHaveJobs
<1>6. \A j \in Jobs : known'[j] = IF j = j0 THEN "queued" ELSE known[j]
  BY <1>0, <1>1 DEF PipelineTypeOK
<1>7. DedupAirtight'
  BY <1>0, <1>1, <1>2, <1>3, <1>6 DEF DedupAirtight, Queued, Running, Live
<1>8. HandleMatchesCopy'
  BY <1>0, <1>1, <1>2, <1>6 DEF HandleMatchesCopy, Running, Live
<1>. QED  BY <1>4, <1>5, <1>7, <1>8

\* mark_abort changes which abort flags are up and nothing else.
LEMMA MarkAbortInv ==
  ASSUME PipelineInv, NEW p \in Paths, MarkAbort(p)
  PROVE  PipelineInv'
<1> USE DEF PipelineInv
<1>1. UNCHANGED <<queue, deferred, window, dpc, allowed, expired, held, tjob, stage>>
  BY DEF MarkAbort, dispVars, taskVars
<1>2. \A j \in Jobs : known'[j] = known[j] \/ (HasHandle(j) /\ known'[j] = "aborted")
  BY DEF MarkAbort
<1>3. PipelineTypeOK'
  <2>1. known' \in [Jobs -> KnownStates]
    BY DEF MarkAbort, PipelineTypeOK, KnownStates
  <2>. QED  BY <1>1, <2>1 DEF PipelineTypeOK
<1>4. HandMatchesPc' /\ TasksHaveJobs'
  BY <1>1 DEF HandMatchesPc, TasksHaveJobs
<1>5. DedupAirtight'
  BY <1>1, <1>2 DEF DedupAirtight, Queued, Running, Live, HasHandle
<1>6. HandleMatchesCopy'
  BY <1>1, <1>2 DEF HandleMatchesCopy, HasHandle
<1>. QED  BY <1>3, <1>4, <1>5, <1>6

\* expire_stale forgets jobs that were queued, hence with no worker.
LEMMA ExpireStaleInv ==
  ASSUME PipelineInv, ExpireStale
  PROVE  PipelineInv'
<1> USE DEF PipelineInv
<1>1. PICK n \in 0..Len(queue) :
        /\ known' = [j \in Jobs |-> IF j \in Range(SubSeq(queue, 1, n)) THEN "absent" ELSE known[j]]
        /\ queue' = SubSeq(queue, n + 1, Len(queue))
        /\ expired' \subseteq Paths
  BY DEF ExpireStale, ExpiredPaths
<1> DEFINE gone == Range(SubSeq(queue, 1, n))
<1>2. /\ dpc = "idle" /\ dpc' = "check"
      /\ UNCHANGED <<deferred, window, allowed, held, tjob, stage>>
  BY DEF ExpireStale, taskVars
<1>3. /\ queue' \in Seq(Jobs) /\ IsInjective(queue')
      /\ gone \subseteq Range(queue) /\ Range(queue') = Range(queue) \ gone
  BY <1>1, RangeDropPrefix DEF PipelineTypeOK, DedupAirtight
<1>4. known' = [j \in Jobs |-> IF j \in gone THEN "absent" ELSE known[j]]
  BY <1>1
<1> HIDE DEF gone
<1>5. PipelineTypeOK'
  BY <1>1, <1>2, <1>3, <1>4 DEF PipelineTypeOK, KnownStates
<1>6. HandMatchesPc' /\ TasksHaveJobs'
  BY <1>2 DEF HandMatchesPc, TasksHaveJobs
<1>7. \A j \in Jobs : j \in gone => ~Running(j) /\ held # j
  BY <1>3 DEF DedupAirtight, Queued
<1>8. DedupAirtight'
  BY <1>2, <1>3, <1>4, <1>7 DEF DedupAirtight, Queued, Running, Live
<1>9. HandleMatchesCopy'
  BY <1>2, <1>4, <1>7 DEF HandleMatchesCopy, Running, Live
<1>. QED  BY <1>5, <1>6, <1>8, <1>9

\* A worker takes over a job from the queue.
LEMMA PopValidateInv ==
  ASSUME PipelineInv, NEW s \in Slots, PopValidate(s)
  PROVE  PipelineInv'
<1> USE DEF PipelineInv
<1>1. PICK i \in 1..Len(queue) : /\ stage[s] = "free"
                                 /\ tjob' = [tjob EXCEPT ![s] = queue[i]]
                                 /\ stage' = [stage EXCEPT ![s] = "start"]
                                 /\ queue' = RemoveAt(queue, i)
  BY DEF PopValidate, SpawnTask, Free, Popped
<1> DEFINE j0 == queue[i]
<1>2. dpc = "pop" /\ dpc' = "check" /\ UNCHANGED <<known, deferred, window, expired, held>>
      /\ allowed' = FALSE
  BY DEF PopValidate
<1>3. /\ queue' \in Seq(Jobs) /\ IsInjective(queue')
      /\ Range(queue') = Range(queue) \ {j0}
  BY <1>1, RangeRemoveAt DEF PipelineTypeOK, DedupAirtight
<1>4. j0 \in Jobs /\ j0 \in Range(queue)
  BY ElementOfSeq, LenProperties DEF PipelineTypeOK, Range
<1>5. tjob' = [tjob EXCEPT ![s] = j0]
  BY <1>1
<1> HIDE DEF j0
<1>6. PipelineTypeOK'
  BY <1>1, <1>2, <1>3, <1>4, <1>5 DEF PipelineTypeOK, Stages
<1>7. HandMatchesPc' /\ TasksHaveJobs'
  BY <1>1, <1>2, <1>4, <1>5 DEF HandMatchesPc, TasksHaveJobs, PipelineTypeOK
<1>8. held # j0 /\ ~Running(j0)
  BY <1>4 DEF DedupAirtight, Queued
<1>9. /\ \A t \in Slots : t # s => stage'[t] = stage[t] /\ tjob'[t] = tjob[t]
      /\ stage'[s] = "start" /\ tjob'[s] = j0
  BY <1>1, <1>5 DEF PipelineTypeOK
<1>10. \A j \in Jobs : Running(j)' <=> (Running(j) \/ j = j0)
  BY <1>1, <1>9 DEF Running, Live
<1>11. DedupAirtight'
  <2>1. \A t, u \in Slots : (Live(t) /\ Live(u) /\ tjob[t] = tjob[u])' => t = u
    BY <1>8, <1>9 DEF DedupAirtight, Live, Running
  <2>. QED  BY <1>2, <1>3, <1>4, <1>8, <1>10, <2>1 DEF DedupAirtight, Queued
<1>12. HandleMatchesCopy'
  <2>1. \A j \in Jobs : (\E t \in Slots : stage'[t] = "flight" /\ tjob'[t] = j)
                          <=> (\E t \in Slots : stage[t] = "flight" /\ tjob[t] = j)
    BY <1>1, <1>9
  <2>. QED  BY <1>2, <2>1 DEF HandleMatchesCopy
<1>. QED  BY <1>6, <1>7, <1>11, <1>12

\* A copy is a job.
LEMMA CopiesAreJobs ==
  ASSUME NEW j
  PROVE  j \in Paths \X CopyKinds <=> j \in Jobs /\ j[2] \in CopyKinds
BY DEF Jobs, Kinds, CopyKinds

\* The dispatcher takes a copy job into its hand.
LEMMA PopCopyInv ==
  ASSUME PipelineInv, PopCopy
  PROVE  PipelineInv'
<1> USE DEF PipelineInv
<1>1. PICK i \in 1..Len(queue) : /\ queue[i][2] \in CopyKinds
                                 /\ held' = queue[i] /\ queue' = RemoveAt(queue, i)
  BY DEF PopCopy, Popped
<1> DEFINE j0 == queue[i]
<1>2. dpc = "pop" /\ dpc' = "permit" /\ UNCHANGED <<known, deferred, window, expired, tjob, stage>>
      /\ allowed' = FALSE
  BY DEF PopCopy, taskVars
<1>3. /\ queue' \in Seq(Jobs) /\ IsInjective(queue')
      /\ Range(queue') = Range(queue) \ {j0}
  BY <1>1, RangeRemoveAt DEF PipelineTypeOK, DedupAirtight
<1>4. j0 \in Jobs /\ j0 \in Range(queue)
  BY ElementOfSeq, LenProperties DEF PipelineTypeOK, Range
<1>5. held = NoJob /\ held' = j0 /\ j0 \in Paths \X CopyKinds
  BY <1>1, <1>2, <1>4, CopiesAreJobs DEF HandMatchesPc
<1> HIDE DEF j0
<1>6. PipelineTypeOK'
  BY <1>2, <1>3, <1>4, <1>5 DEF PipelineTypeOK
<1>7. HandMatchesPc' /\ TasksHaveJobs'
  BY <1>2, <1>4, <1>5, PipelineAssumption DEF HandMatchesPc, TasksHaveJobs
<1>8. DedupAirtight'
  BY <1>2, <1>3, <1>4, <1>5, PipelineAssumption DEF DedupAirtight, Queued, Running, Live
<1>9. HandleMatchesCopy'
  BY <1>2 DEF HandleMatchesCopy
<1>. QED  BY <1>6, <1>7, <1>8, <1>9

\* The job in hand goes to a worker that got a permit.
LEMMA StartCopyInv ==
  ASSUME PipelineInv, NEW s \in Slots, StartCopy(s)
  PROVE  PipelineInv'
<1> USE DEF PipelineInv
<1>1. /\ dpc = "permit" /\ dpc' = "check" /\ held' = NoJob /\ stage[s] = "free"
      /\ tjob' = [tjob EXCEPT ![s] = held]
      /\ stage' = [stage EXCEPT ![s] = "start"]
      /\ UNCHANGED <<queue, known, deferred, window, allowed, expired>>
  BY DEF StartCopy, SpawnTask, Free
<1>2. held \in Jobs
  BY <1>1, CopiesAreJobs DEF HandMatchesPc, PipelineTypeOK
<1>3. PipelineTypeOK'
  BY <1>1, <1>2 DEF PipelineTypeOK, Stages
<1>4. HandMatchesPc' /\ TasksHaveJobs'
  BY <1>1, <1>2 DEF HandMatchesPc, TasksHaveJobs, PipelineTypeOK
<1>5. ~Queued(held) /\ ~Running(held)
  BY <1>2 DEF DedupAirtight
<1>6. /\ \A t \in Slots : t # s => stage'[t] = stage[t] /\ tjob'[t] = tjob[t]
      /\ stage'[s] = "start" /\ tjob'[s] = held
  BY <1>1 DEF PipelineTypeOK
<1>7. \A j \in Jobs : Running(j)' <=> (Running(j) \/ j = held)
  BY <1>1, <1>6 DEF Running, Live
<1>8. DedupAirtight'
  <2>1. \A t, u \in Slots : (Live(t) /\ Live(u) /\ tjob[t] = tjob[u])' => t = u
    BY <1>5, <1>6 DEF DedupAirtight, Live, Running
  <2>. QED  BY <1>1, <1>2, <1>5, <1>7, <2>1, PipelineAssumption DEF DedupAirtight, Queued
<1>9. HandleMatchesCopy'
  <2>1. \A j \in Jobs : (\E t \in Slots : stage'[t] = "flight" /\ tjob'[t] = j)
                          <=> (\E t \in Slots : stage[t] = "flight" /\ tjob[t] = j)
    BY <1>1, <1>6
  <2>. QED  BY <1>1, <2>1 DEF HandleMatchesCopy
<1>. QED  BY <1>3, <1>4, <1>8, <1>9

\* A copy's entry gets its abort handle when the copy takes off.
LEMMA PromoteInv ==
  ASSUME PipelineInv, NEW s \in Slots, Promote(s)
  PROVE  PipelineInv'
<1> USE DEF PipelineInv
<1>1. /\ stage[s] = "start" /\ known' = [known EXCEPT ![tjob[s]] = "flight"]
      /\ stage' = [stage EXCEPT ![s] = "flight"]
      /\ UNCHANGED <<queue, deferred, window, dpc, allowed, expired, held, tjob>>
  BY DEF Promote, dispVars
<1>2. tjob[s] \in Jobs
  BY <1>1 DEF TasksHaveJobs
<1>3. PipelineTypeOK'
  BY <1>1, <1>2 DEF PipelineTypeOK, KnownStates, Stages
<1>4. HandMatchesPc' /\ TasksHaveJobs'
  BY <1>1, <1>2 DEF HandMatchesPc, TasksHaveJobs, PipelineTypeOK
<1>5. \A t \in Slots : stage'[t] = IF t = s THEN "flight" ELSE stage[t]
  BY <1>1 DEF PipelineTypeOK
<1>6. \A j \in Jobs : known'[j] = IF j = tjob[s] THEN "flight" ELSE known[j]
  BY <1>1, <1>2 DEF PipelineTypeOK
<1>7. \A t \in Slots : Live(t)' <=> Live(t)
  BY <1>1, <1>5 DEF Live
<1>8. \A j \in Jobs : Running(j)' <=> Running(j)
  BY <1>1, <1>7 DEF Running
<1>9. Running(tjob[s])
  BY <1>1 DEF Running, Live
<1>10. DedupAirtight'
  BY <1>1, <1>2, <1>6, <1>7, <1>8, <1>9 DEF DedupAirtight, Queued
<1>11. HandleMatchesCopy'
  BY <1>1, <1>5, <1>6 DEF HandleMatchesCopy
<1>. QED  BY <1>3, <1>4, <1>10, <1>11

\* finish_known takes a job out of the table together with its worker.
LEMMA FinishKnownInv ==
  ASSUME PipelineInv, NEW s \in Slots, FinishKnown(s)
  PROVE  PipelineInv'
<1> USE DEF PipelineInv
<1>1. /\ Live(s)
      /\ known' = [known EXCEPT ![tjob[s]] = "absent"]
      /\ UNCHANGED <<queue, deferred, window, dpc, allowed, expired, held>>
      /\ \/ stage' = [stage EXCEPT ![s] = "forget"] /\ tjob' = tjob
         \/ stage' = [stage EXCEPT ![s] = "free"] /\ tjob' = [tjob EXCEPT ![s] = NoJob]
  BY DEF FinishKnown, Leave, dispVars, Live
<1>2. tjob[s] \in Jobs
  BY <1>1 DEF TasksHaveJobs, Live
<1>3. PipelineTypeOK'
  BY <1>1, <1>2 DEF PipelineTypeOK, KnownStates, Stages
<1>4. HandMatchesPc' /\ TasksHaveJobs'
  BY <1>1, <1>2 DEF HandMatchesPc, TasksHaveJobs, PipelineTypeOK
<1>5. /\ stage'[s] \in {"forget", "free"}
      /\ \A t \in Slots : t # s => stage'[t] = stage[t] /\ tjob'[t] = tjob[t]
  BY <1>1 DEF PipelineTypeOK
<1>6. \A j \in Jobs : known'[j] = IF j = tjob[s] THEN "absent" ELSE known[j]
  BY <1>1, <1>2 DEF PipelineTypeOK
<1>7. \A t \in Slots : Live(t)' <=> (Live(t) /\ t # s)
  BY <1>5 DEF Live
<1>8. \A j \in Jobs : Running(j)' <=> (Running(j) /\ j # tjob[s])
  BY <1>1, <1>5, <1>7 DEF Running, DedupAirtight
<1>9. Running(tjob[s])
  BY <1>1 DEF Running
<1>10. DedupAirtight'
  <2>1. \A t, u \in Slots : (Live(t) /\ Live(u) /\ tjob[t] = tjob[u])' => t = u
    BY <1>5, <1>7 DEF DedupAirtight
  <2>. QED  BY <1>1, <1>2, <1>6, <1>8, <1>9, <2>1 DEF DedupAirtight, Queued
<1>11. HandleMatchesCopy'
  <2>1. \A j \in Jobs : (\E t \in Slots : stage'[t] = "flight" /\ tjob'[t] = j)
           <=> j # tjob[s] /\ (\E t \in Slots : stage[t] = "flight" /\ tjob[t] = j)
    BY <1>1, <1>5 DEF DedupAirtight, Live
  <2>. QED  BY <1>6, <2>1 DEF HandleMatchesCopy
<1>. QED  BY <1>3, <1>4, <1>10, <1>11

\* The task's last database write is no longer about a job of its own.
LEMMA ForgetDeferredInv ==
  ASSUME PipelineInv, NEW s \in Slots, ForgetDeferred(s)
  PROVE  PipelineInv'
<1> USE DEF PipelineInv
<1>1. /\ stage[s] = "forget" /\ deferred' \subseteq deferred
      /\ stage' = [stage EXCEPT ![s] = "free"]
      /\ tjob' = [tjob EXCEPT ![s] = NoJob]
      /\ UNCHANGED <<queue, known, window, dpc, allowed, expired, held>>
  BY DEF ForgetDeferred, RemoveDeferred, dispVars
<1>2. PipelineTypeOK'
  BY <1>1 DEF PipelineTypeOK, Stages
<1>3. HandMatchesPc' /\ TasksHaveJobs'
  BY <1>1 DEF HandMatchesPc, TasksHaveJobs, PipelineTypeOK
<1>4. /\ stage'[s] = "free"
      /\ \A t \in Slots : t # s => stage'[t] = stage[t] /\ tjob'[t] = tjob[t]
  BY <1>1 DEF PipelineTypeOK
<1>5. \A t \in Slots : Live(t)' <=> Live(t)
  BY <1>1, <1>4 DEF Live
<1>6. \A j \in Jobs : Running(j)' <=> Running(j)
  BY <1>1, <1>4, <1>5 DEF Running, Live
<1>7. DedupAirtight'
  <2>1. \A t, u \in Slots : (Live(t) /\ Live(u) /\ tjob[t] = tjob[u])' => t = u
    BY <1>1, <1>4, <1>5 DEF DedupAirtight, Live
  <2>. QED  BY <1>1, <1>6, <2>1 DEF DedupAirtight, Queued
<1>8. HandleMatchesCopy'
  <2>1. \A j \in Jobs : (\E t \in Slots : stage'[t] = "flight" /\ tjob'[t] = j)
                          <=> (\E t \in Slots : stage[t] = "flight" /\ tjob[t] = j)
    BY <1>1, <1>4
  <2>. QED  BY <1>1, <2>1 DEF HandleMatchesCopy
<1>. QED  BY <1>2, <1>3, <1>7, <1>8

\* A restart fills table and queue from the same rows, and runs nothing.
LEMMA RestartInv ==
  ASSUME PipelineInv, Restart
  PROVE  PipelineInv'
<1> USE DEF PipelineInv
<1>1. PICK rws \in LoadDeferred : Spawn(rws)
  BY DEF Restart
<1>2. /\ dpc' = "idle" /\ allowed' = FALSE /\ expired' = {} /\ held' = NoJob
      /\ tjob' = [s \in Slots |-> NoJob] /\ stage' = [s \in Slots |-> "free"]
      /\ UNCHANGED <<deferred, window>>
  BY DEF Restart
<1>3. /\ queue' \in Seq(Jobs) /\ IsInjective(queue')
      /\ \A j \in Jobs : j \in Range(queue') <=> j[2] = "Populate" /\ j[1] \in Range(rws)
  BY <1>1, LoadedQueue DEF Spawn
<1>4. known' = [j \in Jobs |-> IF j \in Range(queue') THEN "queued" ELSE "absent"]
  BY <1>1, <1>3 DEF Spawn
<1>5. PipelineTypeOK'
  BY <1>2, <1>3, <1>4 DEF PipelineTypeOK, KnownStates, Stages
<1>6. HandMatchesPc' /\ TasksHaveJobs'
  BY <1>2 DEF HandMatchesPc, TasksHaveJobs
<1>7. \A s \in Slots : stage'[s] = "free"
  BY <1>2
<1>8. DedupAirtight'
  BY <1>2, <1>3, <1>4, <1>7, PipelineAssumption DEF DedupAirtight, Queued, Running, Live
<1>9. HandleMatchesCopy'
  BY <1>4, <1>7 DEF HandleMatchesCopy
<1>. QED  BY <1>5, <1>6, <1>8, <1>9

\* The steps that touch neither a job's place nor the table.
LEMMA QuietInv ==
  ASSUME PipelineInv,
         \/ WindowFlips \/ CheckWindow \/ PopNone
         \/ \E p \in Paths : ForgetExpired(p)
         \/ UNCHANGED pipelineVars
  PROVE  PipelineInv'
<1> USE DEF PipelineInv
<1>1. /\ UNCHANGED <<queue, known, held, tjob, stage>>
      /\ PipelineTypeOK'
      /\ dpc' = "permit" <=> dpc = "permit"
  BY DEF WindowFlips, CheckWindow, PopNone, ForgetExpired, RemoveDeferred, pipelineVars,
         dispVars, taskVars, PipelineTypeOK
<1>2. HandMatchesPc' /\ TasksHaveJobs'
  BY <1>1 DEF HandMatchesPc, TasksHaveJobs
<1>3. DedupAirtight' /\ HandleMatchesCopy'
  BY <1>1 DEF DedupAirtight, HandleMatchesCopy, Queued, Running, Live
<1>. QED  BY <1>1, <1>2, <1>3

\* Every step preserves the invariant.
LEMMA NextInv == PipelineInv /\ [PipelineNext]_pipelineVars => PipelineInv'
<1> SUFFICES ASSUME PipelineInv, [PipelineNext]_pipelineVars PROVE PipelineInv'
  OBVIOUS
<1>1. CASE \E p \in Paths, k \in Kinds : Submit(p, k)
  BY <1>1, SubmitInv
<1>2. CASE \E p \in Paths : MarkAbort(p)
  BY <1>2, MarkAbortInv
<1>3. CASE Dispatcher
  BY <1>3, ExpireStaleInv, PopValidateInv, PopCopyInv, StartCopyInv, QuietInv DEF Dispatcher
<1>4. CASE \E s \in Slots : Worker(s)
  BY <1>4, PromoteInv, FinishKnownInv, ForgetDeferredInv DEF Worker
<1>5. CASE Restart
  BY <1>5, RestartInv
<1>6. CASE WindowFlips \/ UNCHANGED pipelineVars
  BY <1>6, QuietInv
<1>. QED  BY <1>1, <1>2, <1>3, <1>4, <1>5, <1>6 DEF PipelineNext

-----------------------------------------------------------------------------
(* The theorems.                                                           *)

\* The inductive invariant holds of every behaviour of the pipeline.
THEOREM PipelineInvariance == PipelineSpec => []PipelineInv
BY InitInv, NextInv, PTL DEF PipelineSpec

\* The variables of PipelineState, the dispatcher and the workers keep their types.
THEOREM PipelineTypeCorrect == PipelineSpec => []PipelineTypeOK
<1>1. PipelineInv => PipelineTypeOK
  BY DEF PipelineInv
<1>. QED  BY <1>1, PipelineInvariance, PTL

\* Dedup is airtight: `known` has exactly the jobs that are in the queue, in the
\* dispatcher's hand or with a worker, and each of them is there once.
THEOREM DedupIsAirtight == PipelineSpec => []DedupAirtight
<1>1. PipelineInv => DedupAirtight
  BY DEF PipelineInv
<1>. QED  BY <1>1, PipelineInvariance, PTL

\* An abort handle is in the table exactly while its copy runs, so mark_abort
\* reaches the copy that runs and no other.
THEOREM HandlesMatchCopies == PipelineSpec => []HandleMatchesCopy
<1>1. PipelineInv => HandleMatchesCopy
  BY DEF PipelineInv
<1>. QED  BY <1>1, PipelineInvariance, PTL

-----------------------------------------------------------------------------
(* The pipeline implements JobLifecycle.                                   *)

PhaseMap == [j \in Jobs |-> Phase(j)]
Waiting(j) == Queued(j) \/ held = j

\* A step that moves no job leaves the phases alone.
LEMMA SamePhases ==
  ASSUME \A j \in Jobs : (Waiting(j)' <=> Waiting(j)) /\ (Running(j)' <=> Running(j))
  PROVE  PhaseMap' = PhaseMap
BY DEF PhaseMap, Phase, Waiting

\* A step that moves one job j0 and no other is an EXCEPT on the phases.
LEMMA OnePhase ==
  ASSUME NEW j0 \in Jobs, NEW ph,
         \A j \in Jobs : j # j0 => (Waiting(j)' <=> Waiting(j)) /\ (Running(j)' <=> Running(j)),
         Phase(j0)' = ph
  PROVE  PhaseMap' = [PhaseMap EXCEPT ![j0] = ph]
BY DEF PhaseMap, Phase, Waiting

\* submit_job queues an idle job.
LEMMA SubmitSim ==
  ASSUME PipelineInv, NEW p \in Paths, NEW k \in Kinds, Submit(p, k)
  PROVE  Lifecycle!Submit(<<p, k>>)
<1> DEFINE j0 == <<p, k>>
<1>0. j0 \in Jobs
  BY DEF Jobs
<1>1. known[j0] = "absent" /\ queue' = Append(queue, j0) /\ UNCHANGED <<held, tjob, stage>>
  BY DEF Submit, NotKnown, dispVars, taskVars
<1> HIDE DEF j0
<1>2. Range(queue') = Range(queue) \cup {j0}
  BY <1>0, <1>1, RangeAppend DEF PipelineInv, PipelineTypeOK
<1>3. ~Queued(j0) /\ held # j0 /\ ~Running(j0)
  BY <1>0, <1>1 DEF PipelineInv, DedupAirtight
<1>4. \A j \in Jobs : (Queued(j)' <=> Queued(j) \/ j = j0) /\ (Running(j)' <=> Running(j))
  BY <1>1, <1>2 DEF Queued, Running, Live
<1>5. Phase(j0)' = "queued"
  BY <1>0, <1>4 DEF Phase
<1>6. PhaseMap' = [PhaseMap EXCEPT ![j0] = "queued"]
  BY <1>0, <1>1, <1>4, <1>5, OnePhase DEF Waiting
<1>7. PhaseMap[j0] = "idle"
  BY <1>0, <1>3 DEF PhaseMap, Phase
<1>. QED  BY <1>6, <1>7 DEF Lifecycle!Submit, PhaseMap, j0

\* expire_stale makes queued jobs idle.
LEMMA ExpireSim ==
  ASSUME PipelineInv, ExpireStale
  PROVE  Lifecycle!Expire
<1>1. PICK n \in 0..Len(queue) : queue' = SubSeq(queue, n + 1, Len(queue))
  BY DEF ExpireStale
<1>2. Range(queue') \subseteq Range(queue)
  BY <1>1, RangeDropPrefix DEF PipelineInv, PipelineTypeOK, DedupAirtight
<1>3. UNCHANGED <<held, tjob, stage>>
  BY DEF ExpireStale, taskVars
<1>4. \A j \in Jobs : (Queued(j)' => Queued(j)) /\ (Running(j)' <=> Running(j))
  BY <1>2, <1>3 DEF Queued, Running, Live
<1>5. \A j \in Jobs : Queued(j) => ~Running(j) /\ held # j
  BY DEF PipelineInv, DedupAirtight
<1>6. \A j \in Jobs : Phase(j)' # Phase(j) => Phase(j) = "queued" /\ Phase(j)' = "idle"
  BY <1>3, <1>4, <1>5 DEF Phase
<1>7. \A j \in Jobs : Phase(j)' \in {"idle", "queued", "running"}
  BY DEF Phase
<1>. QED  BY <1>6, <1>7 DEF Lifecycle!Expire, Lifecycle!Phases

\* A job in the dispatcher's hand is still waiting.
LEMMA PopCopySim ==
  ASSUME PipelineInv, PopCopy
  PROVE  PhaseMap' = PhaseMap
<1>1. PICK i \in 1..Len(queue) : held' = queue[i] /\ queue' = RemoveAt(queue, i)
  BY DEF PopCopy, Popped
<1>2. held = NoJob /\ UNCHANGED <<tjob, stage>>
  BY DEF PopCopy, PipelineInv, HandMatchesPc, taskVars
<1>3. Range(queue') = Range(queue) \ {queue[i]}
  BY <1>1, RangeRemoveAt DEF PipelineInv, PipelineTypeOK, DedupAirtight
<1>4. queue[i] \in Range(queue)
  BY LenProperties DEF PipelineInv, PipelineTypeOK, Range
<1>5. \A j \in Jobs : (Waiting(j)' <=> Waiting(j)) /\ (Running(j)' <=> Running(j))
  BY <1>1, <1>2, <1>3, <1>4, PipelineAssumption DEF Waiting, Queued, Running, Live
<1>. QED  BY <1>5, SamePhases

\* A waiting job given to a free slot starts to run.
LEMMA SpawnSim ==
  ASSUME PipelineInv, NEW s \in Slots, NEW j0 \in Jobs, SpawnTask(s, j0), Waiting(j0),
         \A j \in Jobs : Waiting(j)' <=> Waiting(j) /\ j # j0
  PROVE  Lifecycle!Start(j0)
<1>1. /\ stage[s] = "free" /\ stage'[s] = "start" /\ tjob'[s] = j0
      /\ \A t \in Slots : t # s => stage'[t] = stage[t] /\ tjob'[t] = tjob[t]
  BY DEF SpawnTask, Free, PipelineInv, PipelineTypeOK
<1>2. \A j \in Jobs : Running(j)' <=> Running(j) \/ j = j0
  BY <1>1 DEF Running, Live
<1>3. Phase(j0)' = "running"
  BY <1>2 DEF Phase, Waiting
<1>4. PhaseMap' = [PhaseMap EXCEPT ![j0] = "running"]
  BY <1>2, <1>3, OnePhase
<1>5. PhaseMap[j0] = "queued"
  BY DEF PhaseMap, Phase, Waiting
<1>. QED  BY <1>4, <1>5 DEF Lifecycle!Start, PhaseMap

LEMMA PopValidateSim ==
  ASSUME PipelineInv, NEW s \in Slots, PopValidate(s)
  PROVE  \E j \in Jobs : Lifecycle!Start(j)
<1>1. PICK i \in 1..Len(queue) : SpawnTask(s, queue[i]) /\ queue' = RemoveAt(queue, i)
  BY DEF PopValidate, Popped
<1>2. queue[i] \in Jobs /\ queue[i] \in Range(queue)
  BY ElementOfSeq, LenProperties DEF PipelineInv, PipelineTypeOK, Range
<1>3. Range(queue') = Range(queue) \ {queue[i]}
  BY <1>1, RangeRemoveAt DEF PipelineInv, PipelineTypeOK, DedupAirtight
<1>4. PICK j0 \in Jobs : j0 = queue[i]
  BY <1>2
<1>5. UNCHANGED held /\ held # j0
  BY <1>2, <1>4 DEF PopValidate, PipelineInv, DedupAirtight, Queued
<1>6. Waiting(j0) /\ \A j \in Jobs : Waiting(j)' <=> Waiting(j) /\ j # j0
  BY <1>2, <1>3, <1>4, <1>5 DEF Waiting, Queued
<1>. QED  BY <1>1, <1>4, <1>6, SpawnSim

LEMMA StartCopySim ==
  ASSUME PipelineInv, NEW s \in Slots, StartCopy(s)
  PROVE  \E j \in Jobs : Lifecycle!Start(j)
<1>1. SpawnTask(s, held) /\ held' = NoJob /\ UNCHANGED queue
  BY DEF StartCopy
<1>2. PICK j0 \in Jobs : j0 = held
  BY CopiesAreJobs DEF StartCopy, PipelineInv, HandMatchesPc, PipelineTypeOK
<1>3. Waiting(j0) /\ \A j \in Jobs : Waiting(j)' <=> Waiting(j) /\ j # j0
  BY <1>1, <1>2, PipelineAssumption DEF Waiting, Queued, PipelineInv, DedupAirtight
<1>. QED  BY <1>1, <1>2, <1>3, SpawnSim

\* A promotion does not start a second run.
LEMMA PromoteSim ==
  ASSUME PipelineInv, NEW s \in Slots, Promote(s) \/ ForgetDeferred(s)
  PROVE  PhaseMap' = PhaseMap
<1>1. UNCHANGED <<queue, held>> /\ \A t \in Slots : Live(t)' <=> Live(t)
  BY DEF Promote, ForgetDeferred, dispVars, Live, PipelineInv, PipelineTypeOK
<1>2. \A t \in Slots : Live(t) => tjob'[t] = tjob[t]
  BY DEF Promote, ForgetDeferred, Live, PipelineInv, PipelineTypeOK
<1>3. \A j \in Jobs : (Waiting(j)' <=> Waiting(j)) /\ (Running(j)' <=> Running(j))
  BY <1>1, <1>2 DEF Waiting, Queued, Running
<1>. QED  BY <1>3, SamePhases

\* finish_known makes a running job idle.
LEMMA FinishSim ==
  ASSUME PipelineInv, NEW s \in Slots, FinishKnown(s)
  PROVE  \E j \in Jobs : Lifecycle!Finish(j)
<1>1. /\ Live(s) /\ UNCHANGED <<queue, held>>
      /\ stage'[s] \in {"forget", "free"}
      /\ \A t \in Slots : t # s => stage'[t] = stage[t] /\ tjob'[t] = tjob[t]
  BY DEF FinishKnown, dispVars, Live, PipelineInv, PipelineTypeOK
<1>2. PICK j0 \in Jobs : j0 = tjob[s]
  BY <1>1 DEF PipelineInv, TasksHaveJobs, Live
<1>3. Running(j0) /\ ~Waiting(j0)
  BY <1>1, <1>2 DEF Running, Waiting, PipelineInv, DedupAirtight
<1>4. \A j \in Jobs : Running(j)' <=> Running(j) /\ j # j0
  BY <1>1, <1>2 DEF Running, Live, PipelineInv, DedupAirtight
<1>5. \A j \in Jobs : Waiting(j)' <=> Waiting(j)
  BY <1>1 DEF Waiting, Queued
<1>6. Phase(j0)' = "idle" /\ PhaseMap[j0] = "running"
  BY <1>3, <1>4, <1>5 DEF Phase, PhaseMap, Waiting
<1>7. PhaseMap' = [PhaseMap EXCEPT ![j0] = "idle"]
  BY <1>4, <1>5, <1>6, OnePhase
<1>. QED  BY <1>6, <1>7 DEF Lifecycle!Finish, PhaseMap

\* A restart leaves Populate jobs in the queue and nothing anywhere else.
LEMMA RestartSim ==
  ASSUME PipelineInv, Restart
  PROVE  Lifecycle!Restart
<1>1. PICK rws \in LoadDeferred : Spawn(rws)
  BY DEF Restart
<1>2. \A j \in Jobs : Queued(j)' => j[2] = "Populate"
  BY <1>1, LoadedQueue DEF Spawn, Queued, PipelineInv
<1>3. \A j \in Jobs : held' # j /\ ~Running(j)'
  BY PipelineAssumption DEF Restart, Running, Live
<1>4. \A j \in Jobs : Phase(j)' = "idle" \/ (Phase(j)' = "queued" /\ j[2] = "Populate")
  BY <1>2, <1>3 DEF Phase
<1>. QED  BY <1>4 DEF Lifecycle!Restart, Lifecycle!Phases

\* The remaining steps move no job.
LEMMA QuietSim ==
  ASSUME PipelineInv,
         \/ WindowFlips \/ CheckWindow \/ PopNone
         \/ \E p \in Paths : ForgetExpired(p) \/ MarkAbort(p)
         \/ UNCHANGED pipelineVars
  PROVE  PhaseMap' = PhaseMap
<1>1. UNCHANGED <<queue, held, tjob, stage>>
  BY DEF WindowFlips, CheckWindow, PopNone, ForgetExpired, MarkAbort, pipelineVars, dispVars,
         taskVars
<1>. QED  BY <1>1, SamePhases DEF Waiting, Queued, Running, Live

\* Each step of the pipeline is a step of the life cycle or leaves every phase alone.
LEMMA NextSim ==
  PipelineInv /\ [PipelineNext]_pipelineVars => [Lifecycle!Next]_PhaseMap
<1> SUFFICES ASSUME PipelineInv, [PipelineNext]_pipelineVars
             PROVE  Lifecycle!Next \/ PhaseMap' = PhaseMap
  OBVIOUS
<1>1. CASE \E p \in Paths, k \in Kinds : Submit(p, k)
  BY <1>1, SubmitSim DEF Lifecycle!Next, Jobs
<1>2. CASE Dispatcher
  BY <1>2, ExpireSim, PopCopySim, PopValidateSim, StartCopySim, QuietSim
     DEF Dispatcher, Lifecycle!Next
<1>3. CASE \E s \in Slots : Worker(s)
  BY <1>3, PromoteSim, FinishSim DEF Worker, Lifecycle!Next
<1>4. CASE Restart
  BY <1>4, RestartSim DEF Lifecycle!Next
<1>5. CASE WindowFlips \/ (\E p \in Paths : MarkAbort(p)) \/ UNCHANGED pipelineVars
  BY <1>5, QuietSim
<1>. QED  BY <1>1, <1>2, <1>3, <1>4, <1>5 DEF PipelineNext

\* The pipeline implements the life cycle of jobs: at most one worker at a time
\* runs a job, and it goes idle, queued, running, idle whatever is interleaved.
THEOREM PipelineImplementsLifecycle == PipelineSpec => LifecycleSpec
<1>1. PipelineInit => Lifecycle!Init
  <2> SUFFICES ASSUME PipelineInit PROVE Lifecycle!Init
    OBVIOUS
  <2>1. \A j \in Jobs : ~Queued(j) /\ held # j /\ ~Running(j)
    BY PipelineAssumption DEF PipelineInit, Queued, Running, Live, Range
  <2>. QED  BY <2>1 DEF Lifecycle!Init, Phase
<1>2. PipelineInv /\ [PipelineNext]_pipelineVars => [Lifecycle!Next]_PhaseMap
  BY NextSim
<1>. QED
  BY <1>1, <1>2, PipelineInvariance, PTL DEF PipelineSpec, LifecycleSpec, Lifecycle!Spec, PhaseMap

-----------------------------------------------------------------------------
(* Deferred rows.  A restart keeps the promise only if it queues every row: *)
(* load_deferred leaves rows past the TTL in the table.                     *)

\* expire_stale owes deletions only until the dispatcher reads the window.
ExpiryBeforeCheck == expired # {} => dpc = "check"
RowInv == ExpiryBeforeCheck /\ NoOrphanRow

\* With no TTL, load_deferred returns each row of the table.
LEMMA AllRowsLoaded ==
  ASSUME PipelineTypeOK, DeferredTtl = "never", NEW rws \in LoadDeferred
  PROVE  deferred \subseteq Range(rws)
<1> DEFINE D == 1..Cardinality(deferred)
<1>1. IsFiniteSet(deferred)
  BY PipelineAssumption, FS_Subset DEF PipelineTypeOK
<1>2. Cardinality(deferred) \in Nat
  BY <1>1, FS_CardinalityType
<1>3. Cardinality(D) = Cardinality(deferred)
  BY <1>2, FS_Interval
<1>4. rws \in [D -> deferred] /\ \A i, k \in D : i # k => rws[i] # rws[k]
  BY DEF LoadDeferred, SetToSeqs
<1> HIDE DEF D
<1>5. rws \in Injection(D, deferred)
  BY <1>4 DEF Injection, IsInjective
<1>6. rws \in Surjection(D, deferred)
  BY <1>1, <1>3, <1>5, FS_Injection
<1>. QED  BY <1>4, <1>6 DEF Surjection, Range

\* A restart rehydrates every row.
LEMMA RestartRows ==
  ASSUME PipelineInv, Restart, ~Crashes \/ DeferredTtl = "never"
  PROVE  RowInv'
<1>1. DeferredTtl = "never" /\ deferred' = deferred /\ expired' = {}
  BY DEF Restart
<1>2. PICK rws \in LoadDeferred : Spawn(rws)
  BY DEF Restart
<1>3. deferred \subseteq Range(rws) /\ deferred \subseteq Paths
  BY <1>1, AllRowsLoaded DEF PipelineInv, PipelineTypeOK
<1>4. ASSUME NEW p \in deferred PROVE known'[<<p, "Populate">>] = "queued"
  BY <1>2, <1>3 DEF Spawn, Jobs, Kinds
<1>. QED  BY <1>1, <1>4 DEF RowInv, ExpiryBeforeCheck, NoOrphanRow

\* expire_stale notes the path of each Populate it takes out of the table.
LEMMA ExpireStaleRows ==
  ASSUME PipelineInv, RowInv, ExpireStale
  PROVE  RowInv'
<1>1. PICK n \in 0..Len(queue) :
        LET gone == Range(SubSeq(queue, 1, n)) IN
        /\ known' = [j \in Jobs |-> IF j \in gone THEN "absent" ELSE known[j]]
        /\ expired' = {p \in Paths : <<p, "Populate">> \in gone}
  BY DEF ExpireStale, ExpiredPaths
<1>2. dpc = "idle" /\ dpc' = "check" /\ UNCHANGED <<deferred, tjob, stage>>
  BY DEF ExpireStale, taskVars
<1>3. expired = {}
  BY <1>2 DEF RowInv, ExpiryBeforeCheck
<1>4. ASSUME NEW p \in deferred, known[<<p, "Populate">>] # "absent"
      PROVE  known'[<<p, "Populate">>] # "absent" \/ p \in expired'
  <2>1. <<p, "Populate">> \in Jobs /\ p \in Paths
    BY DEF Jobs, Kinds, PipelineInv, PipelineTypeOK
  <2>. QED  BY <2>1, <1>1, <1>4
<1>. QED  BY <1>2, <1>3, <1>4 DEF RowInv, ExpiryBeforeCheck, NoOrphanRow

\* finish_known of a Populate owes the deletion until it has made it.
LEMMA WorkerRows ==
  ASSUME PipelineInv, RowInv, NEW s \in Slots, Worker(s)
  PROVE  RowInv'
<1>1. CASE Promote(s)
  <2>1. /\ stage[s] = "start" /\ stage' = [stage EXCEPT ![s] = "flight"]
        /\ known' = [known EXCEPT ![tjob[s]] = "flight"]
        /\ UNCHANGED <<deferred, expired, dpc, tjob>>
    BY <1>1 DEF Promote, dispVars
  <2>2. \A j \in Jobs : known[j] # "absent" => known'[j] # "absent"
    BY <2>1 DEF PipelineInv, PipelineTypeOK
  <2>3. \A t \in Slots : stage[t] = "forget" => stage'[t] = "forget"
    BY <2>1 DEF PipelineInv, PipelineTypeOK
  <2>4. \A p \in deferred : <<p, "Populate">> \in Jobs
    BY DEF PipelineInv, PipelineTypeOK, Jobs, Kinds
  <2>. QED  BY <2>1, <2>2, <2>3, <2>4 DEF RowInv, ExpiryBeforeCheck, NoOrphanRow
<1>2. CASE FinishKnown(s)
  <2>1. /\ stage[s] # "forget" /\ known' = [known EXCEPT ![tjob[s]] = "absent"]
        /\ UNCHANGED <<deferred, expired, dpc>>
    BY <1>2 DEF FinishKnown, Leave, dispVars
  <2>2. \A t \in Slots : t # s => stage'[t] = stage[t] /\ tjob'[t] = tjob[t]
    BY <1>2 DEF FinishKnown, PipelineInv, PipelineTypeOK
  <2>3. tjob[s] \in Jobs
    BY <1>2 DEF FinishKnown, PipelineInv, TasksHaveJobs
  <2>4. tjob[s][2] = "Populate" => stage'[s] = "forget" /\ tjob'[s] = tjob[s]
    BY <1>2 DEF FinishKnown, PipelineInv, PipelineTypeOK
  <2>5. ASSUME NEW p \in deferred, known[<<p, "Populate">>] # "absent"
        PROVE  \/ known'[<<p, "Populate">>] # "absent"
               \/ stage'[s] = "forget" /\ tjob'[s][1] = p
    <3>1. <<p, "Populate">> \in Jobs
      BY DEF PipelineInv, PipelineTypeOK, Jobs, Kinds
    <3>2. CASE tjob[s] = <<p, "Populate">>
      BY <3>2, <2>4
    <3>3. CASE tjob[s] # <<p, "Populate">>
      BY <3>1, <3>3, <2>1, <2>3, <2>5 DEF PipelineInv, PipelineTypeOK
    <3>. QED  BY <3>2, <3>3
  <2>. QED  BY <2>1, <2>2, <2>5 DEF RowInv, ExpiryBeforeCheck, NoOrphanRow
<1>3. CASE ForgetDeferred(s)
  <2>1. deferred' = deferred \ {tjob[s][1]} /\ UNCHANGED <<known, expired, dpc>>
    BY <1>3 DEF ForgetDeferred, RemoveDeferred, dispVars
  <2>2. \A t \in Slots : t # s => stage'[t] = stage[t] /\ tjob'[t] = tjob[t]
    BY <1>3 DEF ForgetDeferred, PipelineInv, PipelineTypeOK
  <2>. QED  BY <2>1, <2>2 DEF RowInv, ExpiryBeforeCheck, NoOrphanRow
<1>. QED  BY <1>1, <1>2, <1>3 DEF Worker

\* A submission and the other steps of the dispatcher.
LEMMA OtherRows ==
  ASSUME PipelineInv, RowInv,
         \/ \E p \in Paths, k \in Kinds : Submit(p, k)
         \/ \E p \in Paths : MarkAbort(p) \/ ForgetExpired(p)
         \/ WindowFlips \/ CheckWindow \/ PopNone \/ PopCopy
         \/ \E s \in Slots : PopValidate(s) \/ StartCopy(s)
         \/ UNCHANGED pipelineVars
  PROVE  RowInv'
<1>0. \A p \in Paths : <<p, "Populate">> \in Jobs
  BY DEF Jobs, Kinds
<1>1. CASE \E p \in Paths, k \in Kinds : Submit(p, k)
  <2>1. PICK p \in Paths, k \in Kinds : Submit(p, k)
    BY <1>1
  <2>2. /\ known' = [known EXCEPT ![<<p, k>>] = "queued"] /\ <<p, k>> \in Jobs
        /\ deferred' = IF k = "Populate" THEN deferred \cup {p} ELSE deferred
        /\ UNCHANGED <<expired, dpc, tjob, stage>>
    BY <2>1 DEF Submit, dispVars, taskVars, Jobs
  <2>3. \A j \in Jobs : known[j] # "absent" => known'[j] # "absent"
    BY <2>2 DEF PipelineInv, PipelineTypeOK
  <2>4. known'[<<p, k>>] = "queued"
    BY <2>2 DEF PipelineInv, PipelineTypeOK
  <2>5. deferred \subseteq Paths
    BY DEF PipelineInv, PipelineTypeOK
  <2>. QED  BY <2>2, <2>3, <2>4, <2>5, <1>0 DEF RowInv, ExpiryBeforeCheck, NoOrphanRow
<1>2. CASE \E p \in Paths : MarkAbort(p)
  <2>1. /\ \A j \in Jobs : known[j] # "absent" => known'[j] # "absent"
        /\ UNCHANGED <<deferred, expired, dpc, tjob, stage>>
    BY <1>2 DEF MarkAbort, dispVars, taskVars
  <2>2. deferred \subseteq Paths
    BY DEF PipelineInv, PipelineTypeOK
  <2>. QED  BY <2>1, <2>2, <1>0 DEF RowInv, ExpiryBeforeCheck, NoOrphanRow
<1>3. CASE \E p \in Paths : ForgetExpired(p)
  BY <1>3 DEF ForgetExpired, RemoveDeferred, taskVars, RowInv, ExpiryBeforeCheck, NoOrphanRow
<1>4. CASE WindowFlips \/ CheckWindow \/ PopNone \/ PopCopy \/ UNCHANGED pipelineVars
  BY <1>4 DEF WindowFlips, CheckWindow, PopNone, PopCopy, pipelineVars, dispVars, taskVars,
              RowInv, ExpiryBeforeCheck, NoOrphanRow
<1>5. CASE \E s \in Slots : PopValidate(s) \/ StartCopy(s)
  <2>1. PICK s \in Slots : PopValidate(s) \/ StartCopy(s)
    BY <1>5
  <2>2. /\ stage[s] = "free" /\ UNCHANGED <<known, deferred, expired>>
        /\ dpc \in {"pop", "permit"} /\ dpc' = "check"
    BY <2>1 DEF PopValidate, StartCopy, SpawnTask, Free
  <2>3. \A t \in Slots : t # s => stage'[t] = stage[t] /\ tjob'[t] = tjob[t]
    BY <2>1 DEF PopValidate, StartCopy, SpawnTask, PipelineInv, PipelineTypeOK
  <2>. QED  BY <2>2, <2>3 DEF RowInv, ExpiryBeforeCheck, NoOrphanRow
<1>. QED  BY <1>1, <1>2, <1>3, <1>4, <1>5

\* No deferred row outlives its job, whatever submissions, expiries, copies and
\* restarts overlap, if the daemon is not restarted or rows do not expire.
THEOREM RowsHaveOwners ==
  ASSUME ~Crashes \/ DeferredTtl = "never"
  PROVE  PipelineSpec => []NoOrphanRow
<1>1. PipelineInit => RowInv
  BY DEF PipelineInit, RowInv, ExpiryBeforeCheck, NoOrphanRow
<1>2. PipelineInv /\ RowInv /\ [PipelineNext]_pipelineVars => RowInv'
  BY RestartRows, ExpireStaleRows, WorkerRows, OtherRows DEF PipelineNext, Dispatcher
<1>3. RowInv => NoOrphanRow
  BY DEF RowInv
<1>. QED  BY <1>1, <1>2, <1>3, PipelineInvariance, PTL DEF PipelineSpec
=============================================================================

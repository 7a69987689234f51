---------------------------- MODULE CacheIOProofs ----------------------------
(***************************************************************************)
(* Proofs about module CacheIO, for every finite set of paths, every set   *)
(* of worker slots, every number of versions, callers and evictors.        *)
(*                                                                         *)
(* First, what holds for every number of permits: types, NoPartialLeft,    *)
(* and that the steps on files and rows are steps of the pipeline, so that *)
(* its theorems hold here.  Then, what a single permit (the default of     *)
(* max_concurrent_copies) buys: PublishedIsClosed, TornOnlyIfOverwritten   *)
(* and, while no restart has adopted files without a row, FreshIsIntact.   *)
(***************************************************************************)
EXTENDS CacheIO, PipelineProofs

-----------------------------------------------------------------------------
(* The inductive invariant for any number of permits.                      *)

CopyPlaces == {"space", "open", "copy", "verify", "commit", "mark"}
ValidatePlaces == {"stat", "backfill", "unlink", "unrow", "replace"}
PartialPlaces == {"copy", "verify", "commit"}

\* The place of a task in its function agrees with its stage in the pipeline
\* and the kind of its job.
TasksMatchStages ==
  \A s \in Slots :
    /\ at[s] = "-" <=> stage[s] \in {"free", "forget"}
    /\ at[s] = "begin" => stage[s] = "start"
    /\ at[s] \in CopyPlaces => stage[s] = "flight"
    /\ at[s] \in ValidatePlaces => stage[s] = "start" /\ tjob[s][2] = "Validate"
    /\ stage[s] = "flight" => tjob[s][2] \in CopyKinds

CacheInv == PipelineInv /\ TypeOK /\ TasksMatchStages /\ NoPartialLeft

LEMMA CacheInitInv == Init => CacheInv
<1> SUFFICES ASSUME Init PROVE CacheInv
  OBVIOUS
<1>1. PipelineInv
  BY InitInv DEF Init
<1>2. TypeOK
  <2>1. PipelineTypeOK
    BY <1>1 DEF PipelineInv
  <2>2. 1 \in Versions /\ MaxVersion \in Nat
    BY CacheIOAssumption DEF Versions
  <2>. QED  BY <2>1, <2>2 DEF Init, TypeOK, Files, FileStates, Places
<1>3. TasksMatchStages
  BY DEF Init, PipelineInit, TasksMatchStages, CopyPlaces, ValidatePlaces
<1>4. NoPartialLeft
  BY DEF Init, NoPartialLeft
<1>. QED  BY <1>1, <1>2, <1>3, <1>4 DEF CacheInv

\* A task that stands anywhere in its function has a job.
LEMMA TaskHasPath ==
  ASSUME CacheInv, NEW s \in Slots, at[s] # "-"
  PROVE  /\ tjob[s] \in Jobs /\ Path(s) \in Paths /\ Kind(s) \in Kinds
         /\ tjob[s] = <<Path(s), Kind(s)>>
         /\ stage[s] \in {"start", "flight"}
<1>1. stage[s] \in {"start", "flight"}
  BY DEF CacheInv, TasksMatchStages, TypeOK, PipelineTypeOK, Stages
<1>2. tjob[s] \in Jobs
  BY <1>1 DEF CacheInv, PipelineInv, TasksHaveJobs
<1>. QED  BY <1>1, <1>2 DEF Jobs, Path, Kind

\* Steps that neither create a partial file nor move a copy out of the places
\* where it has one.
LEMMA PartialKept ==
  ASSUME NoPartialLeft,
         \A p \in Paths : partial'[p] # NoFile => partial[p] # NoFile,
         \A s \in Slots : at[s] \in PartialPlaces =>
                            at'[s] \in PartialPlaces /\ tjob'[s] = tjob[s]
  PROVE  NoPartialLeft'
BY DEF NoPartialLeft, PartialPlaces, Path

\* A copy that leaves those places has removed or renamed its partial file.
LEMMA PartialRemoved ==
  ASSUME NoPartialLeft, NEW s \in Slots, Path(s) \in Paths,
         partial \in [Paths -> Files],
         partial' = [partial EXCEPT ![Path(s)] = NoFile],
         \A t \in Slots : t # s => at'[t] = at[t],
         UNCHANGED tjob
  PROVE  NoPartialLeft'
BY DEF NoPartialLeft, Path

-----------------------------------------------------------------------------
(* Every step of the cache is a step of the pipeline, or none of its.      *)

LEMMA SimulatesPipeline == CacheInv /\ [Next]_vars => [PipelineNext]_pipelineVars
<1> SUFFICES ASSUME CacheInv, [Next]_vars
             PROVE  PipelineNext \/ UNCHANGED pipelineVars
  OBVIOUS
<1>1. CASE \E p \in Paths : BackingWrite(p) \/ BackingDelete(p)
  BY <1>1 DEF BackingWrite, BackingDelete
<1>2. CASE \E p \in Paths : RequestCache(p) \/ RequestValidation(p) \/ WatchDispatch(p) \/ CallAbort(p)
  BY <1>2 DEF RequestCache, RequestValidation, WatchDispatch, CallAbort, PipelineNext
<1>3. CASE \E p \in Paths, k \in {"Populate", "Validate"} : CallSubmit(p, k)
  BY <1>3 DEF CallSubmit, SubmitOrDrop, PipelineNext, Kinds
<1>4. CASE Flip
  BY <1>4 DEF Flip, PipelineNext
<1>5. CASE Dispatch
  BY <1>5 DEF Dispatch, PipelineNext, Dispatcher
<1>6. CASE \E s \in Slots : CopyStep(s)
  BY <1>6 DEF CopyStep, SkipCached, BeginCopy, HasSpace, NoSpace, OpenFails, OpenPartial,
              CopyBytes, CopyError, Verify, CommitFails, Commit, MarkCached, PipelineNext, Worker
<1>7. CASE \E s \in Slots : ValidateStep(s)
  <2>1. PICK s \in Slots : ValidateStep(s)
    BY <1>7
  <2>2. CASE SubmitReplace(s)
    <3>1. Path(s) \in Paths
      BY <2>2, TaskHasPath DEF SubmitReplace
    <3>. QED  BY <2>2, <3>1 DEF SubmitReplace, SubmitOrDrop, PipelineNext, Kinds
  <2>3. CASE ~SubmitReplace(s)
    BY <2>1, <2>3 DEF ValidateStep, ReadFingerprint, CheckStale, Backfill, DropFile, DropRow
  <2>. QED  BY <2>2, <2>3
<1>8. CASE \E s \in Slots : Finish(s) \/ Forget(s)
  BY <1>8 DEF Finish, Forget, PipelineNext, Worker
<1>9. CASE \/ \E e \in EvictThreads, p \in Paths : EvictFile(e, p)
           \/ \E e \in EvictThreads : EvictRow(e)
  BY <1>9 DEF EvictFile, EvictRow
<1>10. CASE RestartMount
  BY <1>10 DEF RestartMount, PipelineNext
<1>11. CASE UNCHANGED vars
  BY <1>11 DEF vars
<1>. QED
  BY <1>1, <1>2, <1>3, <1>4, <1>5, <1>6, <1>7, <1>8, <1>9, <1>10, <1>11 DEF Next

-----------------------------------------------------------------------------
(* Steps preserve the invariant.                                           *)

\* The outside world, callers and evictors move no task and no partial file.
LEMMA OutsideInv ==
  ASSUME CacheInv,
         \/ \E p \in Paths : \/ BackingWrite(p) \/ BackingDelete(p) \/ RequestCache(p)
                             \/ RequestValidation(p) \/ WatchDispatch(p)
         \/ \E e \in EvictThreads, p \in Paths : EvictFile(e, p)
         \/ \E e \in EvictThreads : EvictRow(e)
         \/ UNCHANGED vars
  PROVE  TypeOK' /\ TasksMatchStages' /\ NoPartialLeft'
<1>1. UNCHANGED <<pipelineVars, at, partial>>
  BY DEF BackingWrite, BackingDelete, RequestCache, RequestValidation, WatchDispatch, EvictFile,
         EvictRow, storeVars, localVars, vars
<1>2. TasksMatchStages' /\ NoPartialLeft'
  BY <1>1 DEF CacheInv, TasksMatchStages, NoPartialLeft, Path, pipelineVars
<1>3. PipelineTypeOK'
  BY <1>1 DEF CacheInv, TypeOK, PipelineTypeOK, pipelineVars
<1>4. TypeOK'
  <2> USE DEF CacheInv, TypeOK
  <2>1. CASE \E p \in Paths : BackingWrite(p)
    <3>1. PICK p \in Paths : BackingWrite(p)
      BY <2>1
    <3>2. backing[p].ver + 1 \in Versions
      BY <3>1, CacheIOAssumption DEF BackingWrite, Versions
    <3>. QED  BY <3>1, <3>2, <1>3 DEF BackingWrite, localVars
  <2>2. CASE \E p \in Paths : BackingDelete(p)
    <3>1. PICK p \in Paths : BackingDelete(p)
      BY <2>2
    <3>2. [backing[p] EXCEPT !.live = FALSE] \in [ver : Versions, live : BOOLEAN]
      OBVIOUS
    <3>3. backing' = [backing EXCEPT ![p] = [backing[p] EXCEPT !.live = FALSE]]
      BY <3>1 DEF BackingDelete
    <3>. QED  BY <3>1, <3>2, <3>3, <1>3 DEF BackingDelete, localVars
  <2>3. CASE \E p \in Paths : RequestCache(p) \/ RequestValidation(p) \/ WatchDispatch(p)
    BY <2>3, <1>3 DEF RequestCache, RequestValidation, WatchDispatch, Calling, storeVars, localVars
  <2>4. CASE \E e \in EvictThreads, p \in Paths : EvictFile(e, p)
    BY <2>4, <1>3 DEF EvictFile, eventVars, Files, FileStates
  <2>5. CASE \E e \in EvictThreads : EvictRow(e)
    BY <2>5, <1>3 DEF EvictRow, eventVars
  <2>6. CASE UNCHANGED vars
    BY <2>6, <1>3 DEF vars, storeVars, localVars, eventVars
  <2>. QED  BY <2>1, <2>2, <2>3, <2>4, <2>5, <2>6
<1>. QED  BY <1>2, <1>4

\* Calls that take the state lock, the dispatcher and the last database write
\* of a task leave the tasks that stand in their functions alone.
LEMMA PipelineStepInv ==
  ASSUME CacheInv, PipelineTypeOK',
         \/ \E p \in Paths : CallAbort(p)
         \/ \E p \in Paths, k \in {"Populate", "Validate"} : CallSubmit(p, k)
         \/ Flip
         \/ Dispatch
         \/ \E s \in Slots : Forget(s)
  PROVE  TypeOK' /\ TasksMatchStages' /\ NoPartialLeft'
<1> USE DEF CacheInv
<1>1. CASE \/ \E p \in Paths : CallAbort(p)
           \/ \E p \in Paths, k \in {"Populate", "Validate"} : CallSubmit(p, k)
  <2>1. UNCHANGED <<storeVars, localVars, dirty, tjob, stage>>
    BY <1>1 DEF CallAbort, MarkAbort, CallSubmit, SubmitOrDrop, Submit, taskVars, pipelineVars
  <2>2. callers' \subseteq Paths \X {"Populate", "Validate", "Abort"}
    <3>1. CASE \E p \in Paths : CallAbort(p)
      BY <3>1 DEF CallAbort, TypeOK
    <3>2. CASE \E p \in Paths, k \in {"Populate", "Validate"} : CallSubmit(p, k)
      BY <3>2 DEF CallSubmit, TypeOK
    <3>. QED  BY <1>1, <3>1, <3>2
  <2>3. TypeOK'
    BY <2>1, <2>2 DEF TypeOK, storeVars, localVars
  <2>. QED  BY <2>1, <2>3 DEF TasksMatchStages, NoPartialLeft, Path, storeVars, localVars
<1>2. CASE Flip
  <2>1. UNCHANGED <<storeVars, localVars, eventVars, tjob, stage>>
    BY <1>2 DEF Flip, WindowFlips, taskVars
  <2>. QED
    BY <2>1 DEF TypeOK, TasksMatchStages, NoPartialLeft, Path, storeVars, localVars, eventVars
<1>3. CASE Dispatch /\ UNCHANGED <<localVars, tjob, stage>>
  <2>1. UNCHANGED <<storeVars, localVars, eventVars, tjob, stage>>
    BY <1>3 DEF Dispatch
  <2>. QED
    BY <2>1 DEF TypeOK, TasksMatchStages, NoPartialLeft, Path, storeVars, localVars, eventVars
<1>4. ASSUME NEW s \in Slots, PopValidate(s) \/ StartCopy(s), SpawnOn(s),
             UNCHANGED <<storeVars, eventVars>>
      PROVE  TypeOK' /\ TasksMatchStages' /\ NoPartialLeft'
  <2>1. /\ stage[s] = "free" /\ stage'[s] = "start" /\ at[s] = "-" /\ at'[s] = "begin"
        /\ \A t \in Slots : t # s => /\ stage'[t] = stage[t] /\ tjob'[t] = tjob[t]
                                     /\ at'[t] = at[t]
    BY <1>4 DEF PopValidate, StartCopy, SpawnTask, Free, SpawnOn, Goto, TypeOK, PipelineTypeOK,
                TasksMatchStages
  <2>2. TypeOK'
    BY <1>4 DEF TypeOK, SpawnOn, Goto, Places, storeVars, eventVars
  <2>3. TasksMatchStages'
    BY <2>1 DEF TasksMatchStages, CopyPlaces, ValidatePlaces
  <2>4. NoPartialLeft'
    BY <1>4, <2>1, PartialKept DEF PartialPlaces, storeVars
  <2>. QED  BY <2>2, <2>3, <2>4
<1>5. ASSUME NEW s \in Slots, Forget(s)
      PROVE  TypeOK' /\ TasksMatchStages' /\ NoPartialLeft'
  <2>1. /\ UNCHANGED <<storeVars, localVars, eventVars>>
        /\ stage[s] = "forget" /\ stage'[s] = "free" /\ at[s] = "-"
        /\ \A t \in Slots : t # s => stage'[t] = stage[t] /\ tjob'[t] = tjob[t]
    BY <1>5 DEF Forget, ForgetDeferred, TypeOK, PipelineTypeOK, TasksMatchStages
  <2>2. TypeOK'
    BY <2>1 DEF TypeOK, storeVars, localVars, eventVars
  <2>3. TasksMatchStages'
    BY <2>1 DEF TasksMatchStages, CopyPlaces, ValidatePlaces, localVars
  <2>4. NoPartialLeft'
    BY <2>1, PartialKept DEF PartialPlaces, storeVars, localVars
  <2>. QED  BY <2>2, <2>3, <2>4
<1>6. Dispatch => \/ UNCHANGED <<localVars, tjob, stage>>
                  \/ \E s \in Slots : (PopValidate(s) \/ StartCopy(s)) /\ SpawnOn(s)
  BY DEF Dispatch, ExpireStale, CheckWindow, PopNone, PopCopy, ForgetExpired, taskVars
<1>7. Dispatch => UNCHANGED <<storeVars, eventVars>>
  BY DEF Dispatch
<1>. QED  BY <1>1, <1>2, <1>3, <1>4, <1>5, <1>6, <1>7

\* finish_known and the restart.
LEMMA FinishOrRestartInv ==
  ASSUME CacheInv, PipelineTypeOK', RestartMount \/ \E s \in Slots : Finish(s)
  PROVE  TypeOK' /\ TasksMatchStages' /\ NoPartialLeft'
<1> USE DEF CacheInv
<1>1. CASE RestartMount
  <2>1. TypeOK'
    <3>1. disk' \in [Paths -> Files]
      BY <1>1 DEF RestartMount, TypeOK, Files, FileStates, IsCached
    <3>2. rows' \in [Paths -> 0..MaxVersion \cup {NoRow}]
      BY <1>1, CacheIOAssumption DEF RestartMount, TypeOK, IsCached, ZeroFp
    <3>3. 0 \in 0..MaxVersion
      BY CacheIOAssumption
    <3>. QED  BY <1>1, <3>1, <3>2, <3>3 DEF RestartMount, TypeOK, Files, FileStates, Places
  <2>2. TasksMatchStages' /\ NoPartialLeft'
    BY <1>1 DEF RestartMount, Restart, TasksMatchStages, NoPartialLeft, CopyPlaces, ValidatePlaces
  <2>. QED  BY <2>1, <2>2
<1>2. ASSUME NEW s \in Slots, Finish(s)
      PROVE  TypeOK' /\ TasksMatchStages' /\ NoPartialLeft'
  <2>1. /\ UNCHANGED <<evict, storeVars, eventVars>>
        /\ stage'[s] \in {"free", "forget"} /\ at[s] = "done" /\ at'[s] = "-"
        /\ \A t \in Slots : t # s => /\ stage'[t] = stage[t] /\ tjob'[t] = tjob[t]
                                     /\ at'[t] = at[t]
    BY <1>2 DEF Finish, FinishKnown, Goto, TypeOK, PipelineTypeOK
  <2>2. TypeOK'
    <3>1. 0 \in 0..MaxVersion
      BY CacheIOAssumption
    <3>. QED  BY <1>2, <3>1 DEF Finish, Goto, TypeOK, Places, storeVars, eventVars
  <2>3. TasksMatchStages'
    BY <2>1 DEF TasksMatchStages, CopyPlaces, ValidatePlaces
  <2>4. NoPartialLeft'
    BY <2>1, PartialKept DEF PartialPlaces, storeVars
  <2>. QED  BY <2>2, <2>3, <2>4
<1>. QED  BY <1>1, <1>2

\* A task moves on within the part of its function that its stage allows.
LEMMA MoveWithinStage ==
  ASSUME CacheInv, NEW s \in Slots, at[s] # "-", NEW place \in Places, Goto(s, place),
         UNCHANGED <<tjob, stage>>,
         \/ place = "done"
         \/ place \in CopyPlaces /\ at[s] \in CopyPlaces
         \/ place \in ValidatePlaces /\ (at[s] \in ValidatePlaces \/ (at[s] = "begin" /\ Kind(s) = "Validate"))
  PROVE  TasksMatchStages' /\ at' \in [Slots -> Places] /\ at'[s] = place
         /\ \A t \in Slots : t # s => at'[t] = at[t]
<1>1. at' \in [Slots -> Places] /\ at'[s] = place /\ \A t \in Slots : t # s => at'[t] = at[t]
  BY DEF Goto, CacheInv, TypeOK
<1>2. stage[s] \in {"start", "flight"}
  BY TaskHasPath
<1>. QED
  BY <1>1, <1>2 DEF CacheInv, TasksMatchStages, CopyPlaces, ValidatePlaces, Kind

\* The end of a copy that failed.
LEMMA FailCopyInv ==
  ASSUME CacheInv, PipelineTypeOK', NEW s \in Slots, at[s] \in CopyPlaces, FailCopy(s),
         UNCHANGED <<pipelineVars, snap, evict, eventVars>>
  PROVE  TypeOK' /\ TasksMatchStages' /\ NoPartialLeft'
<1> DEFINE p == Path(s)
<1>0. at[s] # "-"
  BY DEF CopyPlaces
<1>1. p \in Paths
  BY <1>0, TaskHasPath
<1>2. partial' = [partial EXCEPT ![p] = NoFile] /\ partial' \in [Paths -> Files]
  BY <1>1 DEF FailCopy, CacheInv, TypeOK, Files, FileStates
<1>3. disk' \in [Paths -> Files]
  <2>1. CASE ~IsCached(p)
    BY <2>1 DEF FailCopy, CacheInv, TypeOK
  <2>2. CASE IsCached(p)
    <3>1. disk[p] \in FileStates
      BY <1>1, <2>2 DEF CacheInv, TypeOK, Files, FileStates, IsCached
    <3>2. [disk[p] EXCEPT !.w = @ \ {s}] \in Files
      BY <3>1 DEF Files, FileStates
    <3>3. disk' = [disk EXCEPT ![p] = [disk[p] EXCEPT !.w = @ \ {s}]]
      BY <2>2 DEF FailCopy
    <3>. QED  BY <3>2, <3>3, <1>1 DEF CacheInv, TypeOK
  <2>. QED  BY <2>1, <2>2
<1>4. UNCHANGED <<tjob, stage, backing, rows>> /\ Goto(s, "done")
  BY DEF pipelineVars, FailCopy
<1>5. /\ TasksMatchStages' /\ at' \in [Slots -> Places]
      /\ \A t \in Slots : t # s => at'[t] = at[t]
  BY <1>0, <1>4, MoveWithinStage DEF Places
<1>6. NoPartialLeft'
  BY <1>1, <1>2, <1>4, <1>5, PartialRemoved DEF CacheInv, TypeOK
<1>7. TypeOK'
  BY <1>2, <1>3, <1>4, <1>5 DEF CacheInv, TypeOK, eventVars
<1>. QED  BY <1>5, <1>6, <1>7

\* What the copied inode may hold is a version or Torn.
LEMMA ClosedFile ==
  ASSUME CacheInv, NEW s \in Slots, Path(s) \in Paths, NEW f \in Files \ {NoFile},
         NEW c \in Written(s, f)
  PROVE  /\ c \in 0..MaxVersion
         /\ [c |-> c, w |-> f.w \ {s}, v |-> f.v] \in Files
<1>1. c \in 0..MaxVersion
  BY CacheIOAssumption DEF CacheInv, TypeOK, Written, Files, FileStates, Versions, Torn
<1>. QED  BY <1>1 DEF Files, FileStates

\* The steps of populate_worker and perform_copy.
LEMMA CopyStepInv ==
  ASSUME CacheInv, PipelineTypeOK', NEW s \in Slots, CopyStep(s)
  PROVE  TypeOK' /\ TasksMatchStages' /\ NoPartialLeft'
<1> DEFINE p == Path(s)
<1>0. at[s] # "-" /\ at[s] \in CopyPlaces \cup {"begin"}
  BY DEF CopyStep, SkipCached, BeginCopy, HasSpace, NoSpace, OpenFails, OpenPartial,
         CopyBytes, CopyError, Verify, CommitFails, Commit, MarkCached, CopyPlaces
<1>1. p \in Paths
  BY <1>0, TaskHasPath
<1>2. CASE SkipCached(s) \/ HasSpace(s) \/ NoSpace(s)
  <2>1. PICK place \in {"done", "open"} :
          /\ Goto(s, place) /\ UNCHANGED <<pipelineVars, storeVars, snap, evict, eventVars>>
          /\ at[s] \notin PartialPlaces /\ (place = "open" => at[s] \in CopyPlaces)
    BY <1>2 DEF SkipCached, HasSpace, NoSpace, PartialPlaces, CopyPlaces
  <2>2. /\ TasksMatchStages' /\ at' \in [Slots -> Places]
        /\ \A t \in Slots : t # s => at'[t] = at[t]
    BY <1>0, <2>1, MoveWithinStage DEF Places, CopyPlaces, pipelineVars
  <2>3. NoPartialLeft'
    BY <2>1, <2>2, PartialKept DEF CacheInv, pipelineVars, storeVars
  <2>. QED  BY <2>1, <2>2, <2>3 DEF CacheInv, TypeOK, storeVars, eventVars
<1>3. CASE BeginCopy(s)
  <2>1. /\ stage[s] = "start" /\ tjob[s][2] \in CopyKinds /\ UNCHANGED tjob
        /\ \A t \in Slots : stage'[t] = IF t = s THEN "flight" ELSE stage[t]
        /\ \A t \in Slots : at'[t] = IF t = s THEN "space" ELSE at[t]
        /\ at' \in [Slots -> Places] /\ at[s] = "begin"
        /\ UNCHANGED <<snap, evict, storeVars, eventVars>>
    BY <1>3 DEF BeginCopy, Promote, Goto, CacheInv, TypeOK, PipelineTypeOK, Places
  <2>2. TasksMatchStages'
    BY <2>1 DEF CacheInv, TasksMatchStages, CopyPlaces, ValidatePlaces
  <2>3. NoPartialLeft'
    BY <2>1, PartialKept DEF CacheInv, PartialPlaces, storeVars
  <2>. QED  BY <2>1, <2>2, <2>3 DEF CacheInv, TypeOK, storeVars, eventVars
<1>4. CASE OpenFails(s) \/ CopyError(s) \/ CommitFails(s)
  BY <1>0, <1>4, FailCopyInv DEF OpenFails, CopyError, CommitFails, CopyPlaces
<1>5. CASE OpenPartial(s)
  <2>1. PICK f \in Files : partial' = [partial EXCEPT ![p] = f]
    <3> DEFINE ver == backing[p].ver
               f0 == IF partial[p] = NoFile
                     THEN [c |-> Torn, w |-> {s}, v |-> {ver}]
                     ELSE [c |-> Torn, w |-> partial[p].w \cup {s}, v |-> partial[p].v \cup {ver}]
    <3>1. ver \in Versions /\ Torn \in 0..MaxVersion
      BY <1>1, CacheIOAssumption DEF CacheInv, TypeOK, Torn
    <3> HIDE DEF ver
    <3>2. f0 \in Files
      BY <1>1, <3>1 DEF CacheInv, TypeOK, Files, FileStates
    <3>3. partial' = [partial EXCEPT ![p] = f0]
      BY <1>5 DEF OpenPartial, ver
    <3>. QED  BY <3>2, <3>3
  <2>2. /\ Goto(s, "copy") /\ at[s] = "open"
        /\ UNCHANGED <<tjob, stage, backing, disk, rows, evict, eventVars>>
        /\ snap' = [snap EXCEPT ![s] = backing[p].ver]
    BY <1>5 DEF OpenPartial, pipelineVars
  <2>3. /\ TasksMatchStages' /\ at' \in [Slots -> Places] /\ at'[s] = "copy"
        /\ \A t \in Slots : t # s => at'[t] = at[t]
    BY <1>0, <2>2, MoveWithinStage DEF Places, CopyPlaces
  <2>4. NoPartialLeft'
    BY <1>1, <2>1, <2>2, <2>3 DEF CacheInv, TypeOK, NoPartialLeft, Path
  <2>5. snap' \in [Slots -> 0..MaxVersion] /\ partial' \in [Paths -> Files]
    BY <1>1, <2>1, <2>2 DEF CacheInv, TypeOK, Versions
  <2>. QED  BY <2>2, <2>3, <2>4, <2>5 DEF CacheInv, TypeOK, eventVars
<1>6. CASE CopyBytes(s)
  <2>1. /\ Goto(s, "verify") /\ at[s] = "copy"
        /\ UNCHANGED <<tjob, stage, backing, rows, snap, evict, eventVars>>
    BY <1>6 DEF CopyBytes, pipelineVars
  <2>2. /\ TasksMatchStages' /\ at' \in [Slots -> Places] /\ at'[s] = "verify"
        /\ \A t \in Slots : t # s => at'[t] = at[t]
    BY <1>0, <2>1, MoveWithinStage DEF Places, CopyPlaces
  <2>3. /\ partial' \in [Paths -> Files] /\ disk' \in [Paths -> Files]
        /\ \A q \in Paths : partial'[q] # NoFile => partial[q] # NoFile
    <3>1. CASE partial[p] # NoFile /\ \E c \in Written(s, partial[p]) :
                 partial' = [partial EXCEPT ![p] = [c |-> c, w |-> partial[p].w \ {s}, v |-> partial[p].v]] /\ UNCHANGED disk
      <4>1. PICK c \in Written(s, partial[p]) :
              partial' = [partial EXCEPT ![p] = [c |-> c, w |-> partial[p].w \ {s}, v |-> partial[p].v]]
        BY <3>1
      <4>2. [c |-> c, w |-> partial[p].w \ {s}, v |-> partial[p].v] \in Files
        BY <1>1, <3>1, ClosedFile DEF CacheInv, TypeOK
      <4>. QED  BY <1>1, <3>1, <4>1, <4>2 DEF CacheInv, TypeOK
    <3>2. CASE disk[p] # NoFile /\ \E c \in Written(s, disk[p]) :
                 disk' = [disk EXCEPT ![p] = [c |-> c, w |-> disk[p].w \ {s}, v |-> disk[p].v]] /\ UNCHANGED partial
      <4>1. PICK c \in Written(s, disk[p]) :
              disk' = [disk EXCEPT ![p] = [c |-> c, w |-> disk[p].w \ {s}, v |-> disk[p].v]]
        BY <3>2
      <4>2. [c |-> c, w |-> disk[p].w \ {s}, v |-> disk[p].v] \in Files
        BY <1>1, <3>2, ClosedFile DEF CacheInv, TypeOK
      <4>. QED  BY <1>1, <3>2, <4>1, <4>2 DEF CacheInv, TypeOK
    <3>3. CASE UNCHANGED <<disk, partial>>
      BY <3>3 DEF CacheInv, TypeOK
    <3>. QED  BY <1>6, <3>1, <3>2, <3>3 DEF CopyBytes
  <2>4. NoPartialLeft'
    BY <2>1, <2>2, <2>3, PartialKept DEF CacheInv, PartialPlaces
  <2>. QED  BY <2>1, <2>2, <2>3, <2>4 DEF CacheInv, TypeOK, eventVars
<1>7. CASE Verify(s)
  <2>1. CASE Changed(s)
    BY <1>7, <2>1, FailCopyInv DEF Verify, CopyPlaces
  <2>2. CASE ~Changed(s)
    <3>1. /\ Goto(s, "commit") /\ at[s] = "verify"
          /\ UNCHANGED <<tjob, stage, backing, disk, partial, rows, evict, callers, dirty>>
          /\ snap' = [snap EXCEPT ![s] = IF backing[p].live THEN backing[p].ver ELSE @]
      BY <1>7, <2>2 DEF Verify, pipelineVars, storeVars, eventVars
    <3>2. /\ TasksMatchStages' /\ at' \in [Slots -> Places] /\ at'[s] = "commit"
          /\ \A t \in Slots : t # s => at'[t] = at[t]
      BY <1>0, <3>1, MoveWithinStage DEF Places, CopyPlaces
    <3>3. NoPartialLeft'
      BY <3>1, <3>2, PartialKept DEF CacheInv, PartialPlaces
    <3>4. snap' \in [Slots -> 0..MaxVersion]
      BY <1>1, <3>1 DEF CacheInv, TypeOK, Versions
    <3>. QED  BY <3>1, <3>2, <3>3, <3>4 DEF CacheInv, TypeOK
  <2>. QED  BY <2>1, <2>2
<1>8. CASE Commit(s)
  <2>1. /\ Goto(s, "mark") /\ at[s] = "commit"
        /\ UNCHANGED <<tjob, stage, backing, rows, snap, evict, eventVars>>
        /\ disk' = [disk EXCEPT ![p] = partial[p]]
        /\ partial' = [partial EXCEPT ![p] = NoFile]
    BY <1>8 DEF Commit, pipelineVars
  <2>2. /\ TasksMatchStages' /\ at' \in [Slots -> Places]
        /\ \A t \in Slots : t # s => at'[t] = at[t]
    BY <1>0, <2>1, MoveWithinStage DEF Places, CopyPlaces
  <2>3. NoPartialLeft'
    BY <1>1, <2>1, <2>2, PartialRemoved DEF CacheInv, TypeOK
  <2>4. disk' \in [Paths -> Files] /\ partial' \in [Paths -> Files]
    BY <1>1, <2>1 DEF CacheInv, TypeOK, Files, FileStates
  <2>. QED  BY <2>1, <2>2, <2>3, <2>4 DEF CacheInv, TypeOK, eventVars
<1>9. CASE MarkCached(s)
  <2>1. /\ Goto(s, "done") /\ at[s] = "mark"
        /\ UNCHANGED <<tjob, stage, backing, disk, partial, snap, evict, eventVars>>
        /\ rows' = [rows EXCEPT ![p] = snap[s]]
    BY <1>9 DEF MarkCached, pipelineVars
  <2>2. /\ TasksMatchStages' /\ at' \in [Slots -> Places]
        /\ \A t \in Slots : t # s => at'[t] = at[t]
    BY <1>0, <2>1, MoveWithinStage DEF Places
  <2>3. NoPartialLeft'
    BY <2>1, <2>2, PartialKept DEF CacheInv, PartialPlaces
  <2>. QED  BY <1>1, <2>1, <2>2, <2>3 DEF CacheInv, TypeOK, eventVars
<1>. QED
  BY <1>2, <1>3, <1>4, <1>5, <1>6, <1>7, <1>8, <1>9 DEF CopyStep

\* The steps of validate_worker.
LEMMA ValidateStepInv ==
  ASSUME CacheInv, PipelineTypeOK', NEW s \in Slots, ValidateStep(s)
  PROVE  TypeOK' /\ TasksMatchStages' /\ NoPartialLeft'
<1> DEFINE p == Path(s)
<1>0. at[s] # "-" /\ at[s] \notin PartialPlaces
  BY DEF ValidateStep, ReadFingerprint, CheckStale, Backfill, DropFile, DropRow, SubmitReplace, PartialPlaces
<1>1. p \in Paths
  BY <1>0, TaskHasPath
<1>2. PICK place \in {"done", "stat", "backfill", "unlink", "unrow", "replace"} :
        /\ Goto(s, place)
        /\ \/ place = "done" \/ at[s] \in ValidatePlaces
           \/ at[s] = "begin" /\ Kind(s) = "Validate"
  BY DEF ValidateStep, ReadFingerprint, CheckStale, Verdict, Backfill, DropFile, DropRow, SubmitReplace,
         ValidatePlaces
<1>3. UNCHANGED <<tjob, stage, partial, backing, evict, callers, dirty>>
  BY DEF ValidateStep, ReadFingerprint, CheckStale, Backfill, DropFile, DropRow, SubmitReplace, SubmitOrDrop,
         Submit, taskVars, pipelineVars, storeVars, eventVars
<1>4. /\ TasksMatchStages' /\ at' \in [Slots -> Places]
      /\ \A t \in Slots : t # s => at'[t] = at[t]
  BY <1>0, <1>2, <1>3, MoveWithinStage DEF Places, ValidatePlaces
<1>5. NoPartialLeft'
  BY <1>0, <1>3, <1>4, PartialKept DEF CacheInv
<1>6. /\ disk' \in [Paths -> Files] /\ rows' \in [Paths -> 0..MaxVersion \cup {NoRow}]
      /\ snap' \in [Slots -> 0..MaxVersion]
  <2>0. CASE ReadFingerprint(s)
    BY <1>1, <2>0 DEF ReadFingerprint, CacheInv, TypeOK, storeVars
  <2>1. CASE CheckStale(s)
    <3>1. backing[p].ver \in 0..MaxVersion /\ 0 \in 0..MaxVersion
      BY <1>1, CacheIOAssumption DEF CacheInv, TypeOK, Versions
    <3>. QED  BY <2>1, <3>1 DEF CheckStale, CacheInv, TypeOK, storeVars
  <2>2. CASE Backfill(s) \/ DropFile(s) \/ DropRow(s)
    BY <1>1, <2>2 DEF Backfill, DropFile, DropRow, CacheInv, TypeOK, Files, FileStates
  <2>3. CASE SubmitReplace(s)
    BY <2>3 DEF SubmitReplace, CacheInv, TypeOK, storeVars
  <2>. QED  BY <2>0, <2>1, <2>2, <2>3 DEF ValidateStep
<1>. QED  BY <1>3, <1>4, <1>5, <1>6 DEF CacheInv, TypeOK

\* Every step preserves the invariant.
LEMMA CacheNextInv == CacheInv /\ [Next]_vars => CacheInv'
<1> SUFFICES ASSUME CacheInv, [Next]_vars PROVE CacheInv'
  OBVIOUS
<1>1. PipelineInv'
  BY SimulatesPipeline, NextInv DEF CacheInv
<1>2. PipelineTypeOK'
  BY <1>1 DEF PipelineInv
<1>3. TypeOK' /\ TasksMatchStages' /\ NoPartialLeft'
  BY <1>2, OutsideInv, PipelineStepInv, FinishOrRestartInv, CopyStepInv, ValidateStepInv DEF Next
<1>. QED  BY <1>1, <1>3 DEF CacheInv

-----------------------------------------------------------------------------
(* The theorems for any number of permits.                                 *)

\* The inductive invariant holds in every state: a task's place in the worker
\* functions agrees with its stage in the pipeline, whatever callers, evictors,
\* the backing store and restarts do.
THEOREM CacheInvariance == Spec => []CacheInv
BY CacheInitInv, CacheNextInv, PTL DEF Spec

\* Pipeline, store, workers, evictors and callers keep their types; no copy
\* stores a fingerprint or content that is no version.
THEOREM CacheTypeCorrect == Spec => []TypeOK
<1>1. CacheInv => TypeOK
  BY DEF CacheInv
<1>. QED  BY <1>1, CacheInvariance, PTL

\* However many copies run at once, fail, are aborted or cut off by a restart:
\* a `.partial` file has a copy that will rename or remove it.
THEOREM PartialsHaveCopies == Spec => []NoPartialLeft
<1>1. CacheInv => NoPartialLeft
  BY DEF CacheInv
<1>. QED  BY <1>1, CacheInvariance, PTL

\* The cache at work on its files takes only steps of the pipeline, so that
\* what is proved of the pipeline holds of the cache.
THEOREM CacheImplementsPipeline == Spec => PipelineSpec
<1>1. Init => PipelineInit
  BY DEF Init
<1>. QED  BY <1>1, SimulatesPipeline, CacheInvariance, PTL DEF Spec, PipelineSpec

-----------------------------------------------------------------------------
(* A single permit.                                                        *)

AtMostOneCopy == \A s, t \in Slots : Copying(s) /\ Copying(t) => s = t

\* The copy under way owns its partial file: it is its only writer until it
\* closes it, and what it then holds is the version read, or that version has
\* been overwritten since.
CopyOwnsPartial ==
  \A s \in Slots : at[s] \in PartialPlaces =>
    LET f == partial[Path(s)]
        ver == backing[Path(s)].ver IN
    /\ f # NoFile /\ f.v = {snap[s]} /\ snap[s] \in 1..ver
    /\ at[s] = "copy" => f.w = {s}
    /\ at[s] # "copy" => f.w = {} /\ (f.c = snap[s] \/ snap[s] < ver)

SerialInv == AtMostOneCopy /\ CopyOwnsPartial /\ PublishedIsClosed /\ TornOnlyIfOverwritten

\* The semaphore gives the permit of a copy back only when its task is over.
LEMMA OneCopyAtATime ==
  ASSUME MaxConcurrentCopies = 1, PipelineInv, AtMostOneCopy, [PipelineNext]_pipelineVars
  PROVE  AtMostOneCopy'
<1> DEFINE C == {s \in Slots : Copying(s)}
<1>1. ASSUME NEW s \in Slots, StartCopy(s) PROVE AtMostOneCopy'
  <2>1. C = {}
    <3>1. ASSUME NEW x, C = {x} PROVE ~PermitFree
      <4>1. Cardinality(C) = 1
        BY <3>1, FS_Singleton
      <4>2. ~(1 < MaxConcurrentCopies)
        OBVIOUS
      <4>. QED  BY <4>1, <4>2 DEF PermitFree
    <3>2. PermitFree
      BY <1>1 DEF StartCopy
    <3>. QED  BY <3>1, <3>2 DEF AtMostOneCopy
  <2>2. \A t \in Slots : t # s => stage'[t] = stage[t] /\ tjob'[t] = tjob[t]
    BY <1>1 DEF StartCopy, SpawnTask, PipelineInv, PipelineTypeOK
  <2>. QED  BY <2>1, <2>2 DEF AtMostOneCopy, Copying, Free
<1>2. ASSUME NEW s \in Slots, PopValidate(s) PROVE AtMostOneCopy'
  <2>1. /\ tjob'[s][2] = "Validate"
        /\ \A t \in Slots : t # s => stage'[t] = stage[t] /\ tjob'[t] = tjob[t]
    BY <1>2 DEF PopValidate, SpawnTask, PipelineInv, PipelineTypeOK
  <2>. QED  BY <2>1 DEF AtMostOneCopy, Copying, Free, CopyKinds
<1>3. ASSUME NEW s \in Slots, Worker(s) PROVE AtMostOneCopy'
  <2>1. /\ stage'[s] = "free" \/ (tjob'[s] = tjob[s] /\ stage[s] # "free")
        /\ \A t \in Slots : t # s => stage'[t] = stage[t] /\ tjob'[t] = tjob[t]
    BY <1>3 DEF Worker, Promote, FinishKnown, ForgetDeferred, PipelineInv, PipelineTypeOK
  <2>. QED  BY <2>1 DEF AtMostOneCopy, Copying, Free
<1>4. CASE Restart
  BY <1>4 DEF Restart, AtMostOneCopy, Copying, Free
<1>5. CASE UNCHANGED <<tjob, stage>>
  BY <1>5 DEF AtMostOneCopy, Copying, Free
<1>6. \/ \E s \in Slots : StartCopy(s) \/ PopValidate(s) \/ Worker(s)
      \/ Restart \/ UNCHANGED <<tjob, stage>>
  BY DEF PipelineNext, Submit, MarkAbort, WindowFlips, Dispatcher, ExpireStale, ForgetExpired,
         CheckWindow, PopNone, PopCopy, taskVars, pipelineVars
<1>. QED  BY <1>1, <1>2, <1>3, <1>4, <1>5, <1>6

\* A copy under way is the only one.
LEMMA OnlyCopy ==
  ASSUME CacheInv, AtMostOneCopy, NEW s \in Slots, at[s] \in CopyPlaces
  PROVE  /\ \A t \in Slots : at[t] \in CopyPlaces => t = s
         /\ at[s] \notin PartialPlaces => partial[Path(s)] = NoFile
<1>1. \A t \in Slots : at[t] \in CopyPlaces => Copying(t)
  BY DEF CacheInv, TasksMatchStages, Copying, Free
<1>2. \A t \in Slots : at[t] \in CopyPlaces => t = s
  BY <1>1 DEF AtMostOneCopy
<1>3. Path(s) \in Paths
  BY TaskHasPath DEF CopyPlaces
<1>4. PartialPlaces \subseteq CopyPlaces
  BY DEF PartialPlaces, CopyPlaces
<1>. QED  BY <1>2, <1>3, <1>4 DEF CacheInv, NoPartialLeft, PartialPlaces

\* The outside world, callers, evictors, the dispatcher, the ends of a task,
\* validations, the restart, and the steps of a copy that has no partial file.
OtherStep ==
  \/ \E p \in Paths : \/ BackingWrite(p) \/ BackingDelete(p) \/ RequestCache(p)
                      \/ RequestValidation(p) \/ WatchDispatch(p) \/ CallAbort(p)
  \/ \E p \in Paths, k \in {"Populate", "Validate"} : CallSubmit(p, k)
  \/ Flip \/ Dispatch \/ RestartMount \/ UNCHANGED vars
  \/ \E s \in Slots : \/ ValidateStep(s) \/ Finish(s) \/ Forget(s) \/ SkipCached(s)
                      \/ BeginCopy(s) \/ HasSpace(s) \/ NoSpace(s) \/ MarkCached(s)
  \/ \E e \in EvictThreads, p \in Paths : EvictFile(e, p)
  \/ \E e \in EvictThreads : EvictRow(e)

OpenPlaces == PartialPlaces \cup {"mark"}

\* What a step may do to the copy under way, to backing and to cached files.
CopiesKept == \A t \in Slots : at'[t] \in OpenPlaces =>
                /\ at'[t] = at[t] /\ tjob'[t] = tjob[t] /\ snap'[t] = snap[t]
                /\ partial'[Path(t)] = partial[Path(t)]
BackingMovesOn == \A p \in Paths : \/ backing'[p] = backing[p]
                                   \/ backing'[p].ver = backing[p].ver + 1
                                   \/ backing'[p].ver = backing[p].ver /\ ~backing'[p].live
ContentKept == \A p \in Paths : disk'[p] # NoFile =>
                 /\ disk[p] # NoFile /\ disk'[p].c = disk[p].c /\ disk'[p].v = disk[p].v
                 /\ disk'[p].w \subseteq disk[p].w

LEMMA OtherFrame ==
  ASSUME CacheInv, OtherStep
  PROVE  CopiesKept /\ BackingMovesOn /\ ContentKept
<1> USE DEF CopiesKept, BackingMovesOn, ContentKept
<1>1. ASSUME NEW p \in Paths, BackingWrite(p) \/ BackingDelete(p)
      PROVE  CopiesKept /\ BackingMovesOn /\ ContentKept
  <2>1. UNCHANGED <<pipelineVars, disk, partial, localVars>>
    BY <1>1 DEF BackingWrite, BackingDelete
  <2>2. backing \in [Paths -> [ver : Versions, live : BOOLEAN]]
    BY DEF CacheInv, TypeOK
  <2>3. CASE BackingWrite(p)
    <3>1. backing' = [backing EXCEPT ![p] = [ver |-> backing[p].ver + 1, live |-> TRUE]]
      BY <2>3 DEF BackingWrite
    <3>. QED  BY <2>1, <2>2, <3>1 DEF pipelineVars, localVars
  <2>4. CASE BackingDelete(p)
    <3>1. backing' = [backing EXCEPT ![p] = [backing[p] EXCEPT !.live = FALSE]]
      BY <2>4 DEF BackingDelete
    <3>2. /\ [backing[p] EXCEPT !.live = FALSE].ver = backing[p].ver
          /\ ~[backing[p] EXCEPT !.live = FALSE].live
      BY <2>2
    <3>. QED  BY <2>1, <2>2, <3>1, <3>2 DEF pipelineVars, localVars
  <2>. QED  BY <1>1, <2>3, <2>4
<1>2. CASE \/ \E p \in Paths : \/ RequestCache(p) \/ RequestValidation(p) \/ WatchDispatch(p)
                               \/ CallAbort(p)
           \/ \E p \in Paths, k \in {"Populate", "Validate"} : CallSubmit(p, k)
           \/ Flip \/ UNCHANGED vars
  <2>1. UNCHANGED <<storeVars, localVars, tjob>>
    BY <1>2 DEF RequestCache, RequestValidation, WatchDispatch, CallAbort, MarkAbort, CallSubmit,
         SubmitOrDrop, Submit, Flip, WindowFlips, taskVars, pipelineVars, vars
  <2>. QED  BY <2>1 DEF storeVars, localVars
<1>3. CASE Dispatch
  <2>1. UNCHANGED <<storeVars, snap>>
    BY <1>3 DEF Dispatch, SpawnOn, localVars
  <2>2. ASSUME NEW s \in Slots, PopValidate(s) \/ StartCopy(s), SpawnOn(s), NEW t \in Slots,
               at'[t] \in OpenPlaces
        PROVE  at'[t] = at[t] /\ tjob'[t] = tjob[t]
    BY <2>2 DEF PopValidate, StartCopy, SpawnTask, SpawnOn, Goto, CacheInv, TypeOK,
                PipelineTypeOK, OpenPlaces, PartialPlaces
  <2>3. \/ UNCHANGED <<at, tjob>>
        \/ \E s \in Slots : (PopValidate(s) \/ StartCopy(s)) /\ SpawnOn(s)
    BY <1>3 DEF Dispatch, ExpireStale, CheckWindow, PopNone, PopCopy, ForgetExpired, taskVars,
                localVars
  <2>. QED  BY <2>1, <2>2, <2>3 DEF storeVars
<1>4. ASSUME NEW s \in Slots, Finish(s) \/ Forget(s)
      PROVE  CopiesKept /\ BackingMovesOn /\ ContentKept
  <2>1. UNCHANGED storeVars
    BY <1>4 DEF Finish, Forget
  <2>2. CASE Finish(s)
    BY <2>1, <2>2 DEF Finish, FinishKnown, Goto, CacheInv, TypeOK, PipelineTypeOK, OpenPlaces,
                      PartialPlaces, storeVars
  <2>3. CASE Forget(s)
    <3>1. at[s] = "-" /\ UNCHANGED <<at, snap>>
      BY <2>3 DEF Forget, ForgetDeferred, CacheInv, TasksMatchStages, localVars
    <3>. QED  BY <2>1, <2>3, <3>1 DEF Forget, ForgetDeferred, CacheInv, TypeOK, PipelineTypeOK,
              OpenPlaces, PartialPlaces, storeVars
  <2>. QED  BY <1>4, <2>2, <2>3
<1>5. ASSUME NEW s \in Slots, \/ ValidateStep(s) \/ SkipCached(s) \/ BeginCopy(s) \/ HasSpace(s)
                              \/ NoSpace(s) \/ MarkCached(s)
      PROVE  CopiesKept /\ BackingMovesOn /\ ContentKept
  <2>1. UNCHANGED tjob
    BY <1>5 DEF ValidateStep, ReadFingerprint, CheckStale, Backfill, DropFile, DropRow, SubmitReplace,
         SubmitOrDrop, Submit, SkipCached, BeginCopy, Promote, HasSpace, NoSpace, MarkCached,
         taskVars, pipelineVars
  <2>2. at'[s] \notin OpenPlaces
    BY <1>5 DEF ValidateStep, ReadFingerprint, CheckStale, Verdict, Backfill, DropFile, DropRow, SubmitReplace,
         SkipCached, BeginCopy, HasSpace, NoSpace, MarkCached, Goto, OpenPlaces, PartialPlaces,
         CacheInv, TypeOK
  <2>3. \A t \in Slots : t # s => at'[t] = at[t] /\ snap'[t] = snap[t]
    BY <1>5 DEF ValidateStep, ReadFingerprint, CheckStale, Backfill, DropFile, DropRow, SubmitReplace,
         SkipCached, BeginCopy, HasSpace, NoSpace, MarkCached, Goto, CacheInv, TypeOK
  <2>4. /\ UNCHANGED <<backing, partial>>
        /\ \A p \in Paths : disk'[p] # NoFile => disk'[p] = disk[p]
    BY <1>5 DEF ValidateStep, ReadFingerprint, CheckStale, Backfill, DropFile, DropRow, SubmitReplace,
         SkipCached, BeginCopy, HasSpace, NoSpace, MarkCached, storeVars, CacheInv, TypeOK
  <2>. QED  BY <2>1, <2>2, <2>3, <2>4
<1>6. CASE \/ \E e \in EvictThreads, p \in Paths : EvictFile(e, p)
           \/ \E e \in EvictThreads : EvictRow(e)
  <2>1. /\ UNCHANGED <<pipelineVars, at, snap, backing, partial>>
        /\ \A p \in Paths : disk'[p] # NoFile => disk'[p] = disk[p]
    BY <1>6 DEF EvictFile, EvictRow, CacheInv, TypeOK
  <2>. QED  BY <2>1 DEF pipelineVars
<1>7. CASE RestartMount
  <2>1. UNCHANGED backing /\ \A t \in Slots : at'[t] \notin OpenPlaces
    BY <1>7 DEF RestartMount, OpenPlaces, PartialPlaces
  <2>2. ASSUME NEW p \in Paths, disk'[p] # NoFile
        PROVE  /\ disk[p] # NoFile /\ disk'[p].c = disk[p].c /\ disk'[p].v = disk[p].v
               /\ disk'[p].w \subseteq disk[p].w
    <3>1. disk[p] # NoFile /\ disk'[p] = [disk[p] EXCEPT !.w = {}]
      BY <1>7, <2>2 DEF RestartMount, IsCached
    <3>2. disk[p] \in FileStates
      BY <3>1 DEF CacheInv, TypeOK, Files
    <3>. QED  BY <3>1, <3>2 DEF FileStates
  <2>. QED  BY <2>1, <2>2
<1>. QED  BY <1>1, <1>2, <1>3, <1>4, <1>5, <1>6, <1>7 DEF OtherStep

\* Steps that leave the copy under way, its partial file and the content of
\* cached files alone, while backing files get newer or stay.
LEMMA SerialFrame ==
  ASSUME CacheInv, TypeOK', SerialInv,
         CopiesKept, BackingMovesOn, ContentKept
  PROVE  CopyOwnsPartial' /\ PublishedIsClosed' /\ TornOnlyIfOverwritten'
<1>1. \A p \in Paths : /\ backing[p].ver \in Nat /\ backing'[p].ver \in Nat
                       /\ disk[p] # NoFile => \A x \in disk[p].v : x \in Nat
  BY DEF CacheInv, TypeOK, Versions, Files, FileStates
<1>0. \A p \in Paths : backing'[p].ver >= backing[p].ver
  BY <1>1 DEF BackingMovesOn
<1>2. CopyOwnsPartial'
  <2>. SUFFICES ASSUME NEW t \in Slots, at'[t] \in PartialPlaces
                PROVE  LET f == partial[Path(t)]
                           ver == backing[Path(t)].ver IN
                       (/\ f # NoFile /\ f.v = {snap[t]} /\ snap[t] \in 1..ver
                        /\ at[t] = "copy" => f.w = {t}
                        /\ at[t] # "copy" => f.w = {} /\ (f.c = snap[t] \/ snap[t] < ver))'
    BY DEF CopyOwnsPartial
  <2>1. /\ at[t] \in PartialPlaces /\ at'[t] = at[t] /\ snap'[t] = snap[t]
        /\ Path(t)' = Path(t) /\ partial'[Path(t)] = partial[Path(t)]
    BY DEF Path, CopiesKept, OpenPlaces
  <2>2. Path(t) \in Paths
    BY <2>1, TaskHasPath DEF PartialPlaces
  <2>3. LET f == partial[Path(t)]
            ver == backing[Path(t)].ver IN
        /\ f # NoFile /\ f.v = {snap[t]} /\ snap[t] \in 1..ver
        /\ at[t] = "copy" => f.w = {t}
        /\ at[t] # "copy" => f.w = {} /\ (f.c = snap[t] \/ snap[t] < ver)
    BY <2>1 DEF SerialInv, CopyOwnsPartial
  <2>. QED  BY <1>0, <1>1, <2>1, <2>2, <2>3
<1>3. PublishedIsClosed'
  BY DEF SerialInv, PublishedIsClosed, IsCached, ContentKept
<1>4. TornOnlyIfOverwritten'
  BY <1>0, <1>1 DEF SerialInv, TornOnlyIfOverwritten, IsCached, ContentKept
<1>. QED  BY <1>2, <1>3, <1>4

\* A copy that failed leaves no copy under way and no content behind.
LEMMA SerialFail ==
  ASSUME CacheInv, TypeOK', SerialInv, NEW s \in Slots, at[s] \in CopyPlaces, FailCopy(s),
         UNCHANGED <<pipelineVars, snap>>
  PROVE  CopyOwnsPartial' /\ PublishedIsClosed' /\ TornOnlyIfOverwritten'
<1>1. Path(s) \in Paths
  BY TaskHasPath DEF CopyPlaces
<1>2. \A t \in Slots : at'[t] \notin OpenPlaces
  BY OnlyCopy DEF SerialInv, FailCopy, Goto, CacheInv, TypeOK, OpenPlaces, PartialPlaces, CopyPlaces
<1>3. ASSUME NEW p \in Paths, disk'[p] # NoFile
      PROVE  /\ disk[p] # NoFile /\ disk'[p].c = disk[p].c /\ disk'[p].v = disk[p].v
             /\ disk'[p].w \subseteq disk[p].w
  <2>1. CASE disk'[p] = disk[p]
    BY <2>1, <1>3
  <2>2. CASE p = Path(s) /\ disk[p] # NoFile
    <3>1. disk[p] \in FileStates
      BY <2>2 DEF CacheInv, TypeOK, Files, FileStates
    <3>2. disk'[p] = [disk[p] EXCEPT !.w = @ \ {s}]
      BY <2>2 DEF FailCopy, IsCached, CacheInv, TypeOK
    <3>. QED  BY <2>2, <3>1, <3>2
  <2>. QED  BY <1>1, <2>1, <2>2 DEF FailCopy, IsCached, CacheInv, TypeOK
<1>4. UNCHANGED backing
  BY DEF FailCopy
<1>. QED
  BY <1>2, <1>3, <1>4, SerialFrame DEF CopiesKept, BackingMovesOn, ContentKept

\* The copy under way, from its open to its rename.
LEMMA SerialCopy ==
  ASSUME CacheInv, TypeOK', SerialInv, NEW s \in Slots,
         \/ OpenFails(s) \/ OpenPartial(s) \/ CopyBytes(s) \/ CopyError(s) \/ Verify(s)
         \/ CommitFails(s) \/ Commit(s)
  PROVE  CopyOwnsPartial' /\ PublishedIsClosed' /\ TornOnlyIfOverwritten'
<1> DEFINE p == Path(s)
           ver == backing[p].ver
<1>1. at[s] \in CopyPlaces /\ at[s] # "-"
  BY DEF OpenFails, OpenPartial, CopyBytes, CopyError, Verify, CommitFails, Commit, CopyPlaces
<1>2. p \in Paths
  BY <1>1, TaskHasPath
<1>3. UNCHANGED <<tjob, backing>> /\ \A t \in Slots : Path(t)' = Path(t)
  BY DEF OpenFails, OpenPartial, CopyBytes, CopyError, Verify, FailCopy, CommitFails, Commit,
         pipelineVars, storeVars, Path
<1>4. \A t \in Slots : at'[t] \in PartialPlaces => t = s
  <2>1. \A t \in Slots : t # s => at'[t] = at[t]
    BY DEF OpenFails, OpenPartial, CopyBytes, CopyError, Verify, FailCopy, CommitFails, Commit,
           Goto, CacheInv, TypeOK
  <2>. QED  BY <1>1, <2>1, OnlyCopy DEF SerialInv, PartialPlaces, CopyPlaces
<1>5. ver \in Nat /\ ver >= 1 /\ (partial[p] # NoFile => partial[p] \in
        FileStates)
  BY <1>2 DEF CacheInv, TypeOK, Versions, Files, FileStates
<1>6. CASE OpenFails(s) \/ CopyError(s) \/ (Verify(s) /\ Changed(s))
           \/ CommitFails(s)
  BY <1>1, <1>6, SerialFail DEF OpenFails, CopyError, Verify, CommitFails
<1>7. CASE OpenPartial(s)
  <2>1. partial[p] = NoFile
    BY <1>1, <1>7, OnlyCopy DEF SerialInv, OpenPartial, PartialPlaces
  <2>2. /\ partial'[p] = [c |-> Torn, w |-> {s}, v |-> {ver}] /\ snap'[s] = ver
        /\ at'[s] = "copy" /\ UNCHANGED disk
    BY <1>2, <1>7, <2>1 DEF OpenPartial, Goto, CacheInv, TypeOK
  <2>3. partial'[p] # NoFile
    BY <1>2, <2>2, CacheIOAssumption DEF CacheInv, TypeOK, FileStates, Torn
  <2>4. CopyOwnsPartial'
    BY <1>3, <1>4, <1>5, <2>2, <2>3 DEF CopyOwnsPartial
  <2>. QED
    BY <1>3, <2>2, <2>4 DEF SerialInv, PublishedIsClosed, TornOnlyIfOverwritten, IsCached
<1>8. CASE CopyBytes(s)
  <2>1. /\ at[s] = "copy" /\ at'[s] = "verify" /\ UNCHANGED snap
    BY <1>8 DEF CopyBytes, Goto, CacheInv, TypeOK
  <2>2. /\ partial[p] # NoFile /\ partial[p].v = {snap[s]} /\ partial[p].w = {s}
        /\ snap[s] \in 1..ver
    BY <2>1 DEF SerialInv, CopyOwnsPartial, PartialPlaces
  <2>3. disk[p] # NoFile => s \notin disk[p].w
    BY <1>2 DEF SerialInv, PublishedIsClosed, IsCached
  <2>4. PICK c \in Written(s, partial[p]) :
          /\ partial' = [partial EXCEPT ![p] = [c |-> c, w |-> partial[p].w \ {s}, v |-> partial[p].v]]
          /\ UNCHANGED disk
    BY <1>8, <2>2, <2>3 DEF CopyBytes
  <2>5. c = snap[s] \/ snap[s] < ver
    BY <1>5, <2>2 DEF Written
  <2>6. /\ partial'[p].c = c /\ partial'[p].w = {} /\ partial'[p].v = {snap[s]}
    BY <1>2, <2>2, <2>4 DEF CacheInv, TypeOK
  <2>7. partial'[p] # NoFile
    <3>1. c \in 0..MaxVersion
      BY <1>2, <2>2, ClosedFile DEF CacheInv, TypeOK
    <3>2. [c |-> c, w |-> partial[p].w \ {s}, v |-> partial[p].v] \in FileStates
      BY <1>5, <2>2, <3>1 DEF FileStates
    <3>. QED  BY <1>2, <2>4, <3>2, CacheIOAssumption DEF CacheInv, TypeOK
  <2>8. CopyOwnsPartial'
    BY <1>3, <1>4, <2>1, <2>2, <2>5, <2>6, <2>7 DEF CopyOwnsPartial
  <2>. QED
    BY <1>3, <2>4, <2>8 DEF SerialInv, PublishedIsClosed, TornOnlyIfOverwritten, IsCached
<1>9. CASE Verify(s) /\ ~Changed(s)
  <2>1. /\ at[s] = "verify" /\ at'[s] = "commit" /\ UNCHANGED <<disk, partial>>
        /\ snap' = [snap EXCEPT ![s] = IF backing[p].live THEN backing[p].ver ELSE @]
    BY <1>9 DEF Verify, Goto, CacheInv, TypeOK, storeVars
  <2>2. snap'[s] = snap[s]
    BY <1>9, <2>1 DEF Changed, CacheInv, TypeOK
  <2>3. CopyOwnsPartial'
    BY <1>3, <1>4, <2>1, <2>2 DEF SerialInv, CopyOwnsPartial, PartialPlaces
  <2>. QED
    BY <1>3, <2>1, <2>3 DEF SerialInv, PublishedIsClosed, TornOnlyIfOverwritten, IsCached
<1>10. CASE Commit(s)
  <2>1. /\ at[s] = "commit" /\ at'[s] = "mark" /\ disk' = [disk EXCEPT ![p] = partial[p]]
    BY <1>10 DEF Commit, Goto, CacheInv, TypeOK
  <2>2. /\ partial[p].w = {} /\ partial[p].v = {snap[s]} /\ snap[s] \in 1..ver
        /\ partial[p].c = snap[s] \/ snap[s] < ver
    BY <2>1 DEF SerialInv, CopyOwnsPartial, PartialPlaces
  <2>3. CopyOwnsPartial'
    BY <1>4, <2>1 DEF CopyOwnsPartial, PartialPlaces
  <2>4. PublishedIsClosed'
    BY <2>1, <2>2 DEF SerialInv, PublishedIsClosed, IsCached, CacheInv, TypeOK
  <2>5. partial[p].c = Torn => snap[s] < ver
    BY <1>5, <2>2 DEF Torn
  <2>6. TornOnlyIfOverwritten'
    BY <1>3, <2>1, <2>2, <2>5 DEF SerialInv, TornOnlyIfOverwritten, IsCached, CacheInv, TypeOK
  <2>. QED  BY <2>3, <2>4, <2>6
<1>. QED  BY <1>6, <1>7, <1>8, <1>9, <1>10

LEMMA SerialNext ==
  ASSUME MaxConcurrentCopies = 1
  PROVE  CacheInv /\ SerialInv /\ [Next]_vars => SerialInv'
<1> SUFFICES ASSUME CacheInv, SerialInv, [Next]_vars PROVE SerialInv'
  OBVIOUS
<1>1. TypeOK'
  BY CacheNextInv DEF CacheInv
<1>2. AtMostOneCopy'
  BY SimulatesPipeline, OneCopyAtATime DEF CacheInv, SerialInv
<1>3. CopyOwnsPartial' /\ PublishedIsClosed' /\ TornOnlyIfOverwritten'
  <2>1. CASE OtherStep
    BY <2>1, <1>1, OtherFrame, SerialFrame
  <2>. QED  BY <1>1, <2>1, SerialCopy DEF Next, CopyStep, OtherStep
<1>. QED  BY <1>2, <1>3 DEF SerialInv

LEMMA SerialInvariance ==
  ASSUME MaxConcurrentCopies = 1
  PROVE  Spec => [](CacheInv /\ SerialInv)
<1>1. Init => SerialInv
  BY DEF Init, PipelineInit, SerialInv, AtMostOneCopy, Copying, Free, CopyOwnsPartial,
         PublishedIsClosed, TornOnlyIfOverwritten, IsCached, PartialPlaces
<1>. QED  BY <1>1, SerialNext, CacheInvariance, PTL DEF Spec

\* With one permit, a file that readers can open is never written to again,
\* crashes, failures and evictions included.
THEOREM PublishedFilesAreClosed ==
  ASSUME MaxConcurrentCopies = 1
  PROVE  Spec => []PublishedIsClosed
<1>1. SerialInv => PublishedIsClosed
  BY DEF SerialInv
<1>. QED  BY <1>1, SerialInvariance, PTL

\* With one permit, a torn cached file was read from a source that has been
\* overwritten: neither a crash nor a failure nor a retry publishes another.
THEOREM TornFilesAreOverwritten ==
  ASSUME MaxConcurrentCopies = 1
  PROVE  Spec => []TornOnlyIfOverwritten
<1>1. SerialInv => TornOnlyIfOverwritten
  BY DEF SerialInv
<1>. QED  BY <1>1, SerialInvariance, PTL

-----------------------------------------------------------------------------
(* A single permit and no restart: a restart gives files without a row a    *)
(* fingerprint that a validation later fills in unseen.                     *)

\* A row holds the fingerprint of a version its file has had.
RowsAreVersions == \A p \in Paths : rows[p] # NoRow => rows[p] \in 1..backing[p].ver

\* The copy under way read a version that is at least as new as the row, and
\* what it has renamed is that version, or that version has been overwritten.
CopyNewerThanRow ==
  \A s \in Slots : at[s] \in OpenPlaces =>
    /\ snap[s] \in 1..backing[Path(s)].ver
    /\ rows[Path(s)] # NoRow => rows[Path(s)] <= snap[s]
    /\ at[s] = "mark" /\ IsCached(Path(s)) =>
         disk[Path(s)].c = snap[s] \/ snap[s] < backing[Path(s)].ver

\* No validation has read a zero fingerprint.
NoBackfill == \A s \in Slots : at[s] # "backfill" /\ (at[s] = "stat" => snap[s] # ZeroFp)

FreshInv == RowsAreVersions /\ CopyNewerThanRow /\ NoBackfill /\ FreshIsIntact

\* Steps that add no row and no content, and start no copy.
LEMMA FreshFrame ==
  ASSUME CacheInv, TypeOK', FreshInv, BackingMovesOn, ContentKept, NoBackfill',
         \A p \in Paths : rows'[p] \in {rows[p], NoRow},
         \A t \in Slots : at'[t] \in OpenPlaces =>
           /\ at[t] \in OpenPlaces /\ (at'[t] = "mark" => at[t] = "mark")
           /\ tjob'[t] = tjob[t] /\ snap'[t] = snap[t]
  PROVE  FreshInv'
<1>1. \A p \in Paths : /\ backing[p].ver \in Nat /\ backing'[p].ver \in Nat
                       /\ rows[p] # NoRow => rows[p] \in Nat
  BY DEF CacheInv, TypeOK, Versions
<1>2. \A p \in Paths : backing'[p].ver >= backing[p].ver
  BY <1>1 DEF BackingMovesOn
<1>3. RowsAreVersions'
  BY <1>1, <1>2 DEF FreshInv, RowsAreVersions
<1>4. CopyNewerThanRow'
  <2>. SUFFICES ASSUME NEW t \in Slots, at'[t] \in OpenPlaces
                PROVE  (/\ snap[t] \in 1..backing[Path(t)].ver
                        /\ rows[Path(t)] # NoRow => rows[Path(t)] <= snap[t]
                        /\ at[t] = "mark" /\ IsCached(Path(t)) =>
                             disk[Path(t)].c = snap[t] \/ snap[t] < backing[Path(t)].ver)'
    BY DEF CopyNewerThanRow
  <2>1. /\ at[t] \in OpenPlaces /\ (at'[t] = "mark" => at[t] = "mark") /\ snap'[t] = snap[t]
        /\ Path(t)' = Path(t)
    BY DEF Path
  <2>2. Path(t) \in Paths
    BY <2>1, TaskHasPath DEF OpenPlaces, PartialPlaces
  <2>3. /\ snap[t] \in 1..backing[Path(t)].ver
        /\ rows[Path(t)] # NoRow => rows[Path(t)] <= snap[t]
        /\ at[t] = "mark" /\ IsCached(Path(t)) =>
             disk[Path(t)].c = snap[t] \/ snap[t] < backing[Path(t)].ver
    BY <2>1 DEF FreshInv, CopyNewerThanRow
  <2>. QED  BY <1>1, <1>2, <2>1, <2>2, <2>3 DEF ContentKept, IsCached
<1>5. FreshIsIntact'
  <2>. SUFFICES ASSUME NEW p \in Paths, backing'[p].live, rows'[p] = backing'[p].ver,
                       disk'[p] # NoFile
                PROVE  disk'[p].c = rows'[p]
    BY DEF FreshIsIntact, IsCached
  <2>1. rows'[p] = rows[p] /\ rows[p] # NoRow
    <3>1. backing'[p].ver \in 0..MaxVersion
      BY DEF TypeOK, Versions
    <3>. QED  BY <3>1, CacheIOAssumption
  <2>2. rows[p] <= backing[p].ver
    BY <1>1, <2>1 DEF FreshInv, RowsAreVersions
  <2>3. backing'[p] = backing[p]
    <3>1. backing[p].ver \in Nat /\ backing'[p].ver <= backing[p].ver
      BY <1>1, <2>1, <2>2
    <3>2. backing'[p].ver # backing[p].ver + 1
      BY <3>1
    <3>. QED  BY <3>2 DEF BackingMovesOn
  <2>. QED  BY <2>1, <2>3 DEF FreshInv, FreshIsIntact, IsCached, ContentKept
<1>. QED  BY <1>3, <1>4, <1>5 DEF FreshInv

\* The steps that change no more than that.
LEMMA FreshQuiet ==
  ASSUME CacheInv, TypeOK', SerialInv, FreshInv, Crashes = FALSE,
         \/ OtherStep /\ ~\E s \in Slots : MarkCached(s)
         \/ \E s \in Slots : \/ OpenFails(s) \/ CopyBytes(s) \/ CopyError(s) \/ Verify(s)
                             \/ CommitFails(s)
  PROVE  FreshInv'
<1>1. CASE OtherStep /\ ~\E s \in Slots : MarkCached(s)
  <2>1. CopiesKept /\ BackingMovesOn /\ ContentKept
    BY <1>1, OtherFrame
  <2>2. ~RestartMount
    BY DEF RestartMount, Restart
  <2>3. ~\E s \in Slots : Backfill(s)
    BY DEF Backfill, FreshInv, NoBackfill
  <2>4. \A p \in Paths : rows'[p] \in {rows[p], NoRow}
    BY <1>1, <2>2, <2>3 DEF OtherStep, BackingWrite, BackingDelete, RequestCache,
       RequestValidation, WatchDispatch, CallAbort, CallSubmit, Flip, Dispatch, vars, ValidateStep,
       ReadFingerprint, CheckStale, DropFile, DropRow, SubmitReplace, Finish, Forget, SkipCached,
       BeginCopy, HasSpace, NoSpace, EvictFile, EvictRow, storeVars, CacheInv, TypeOK
  <2>5. NoBackfill'
    <3>0. ASSUME NEW s \in Slots, ReadFingerprint(s) PROVE NoBackfill'
      <4>1. Path(s) \in Paths
        BY <3>0, TaskHasPath DEF ReadFingerprint
      <4>2. rows[Path(s)] # ZeroFp
        BY <4>1, CacheIOAssumption DEF FreshInv, RowsAreVersions, ZeroFp, CacheInv, TypeOK, Versions
      <4>. QED
        BY <3>0, <4>2 DEF ReadFingerprint, Goto, FreshInv, NoBackfill, CacheInv, TypeOK
    <3>1. ASSUME NEW s \in Slots, CheckStale(s) PROVE NoBackfill'
      <4>1. Verdict(Path(s), snap[s]) \notin {"backfill", "stat"}
        BY <3>1 DEF CheckStale, Verdict, FreshInv, NoBackfill
      <4>. QED  BY <3>1, <4>1 DEF CheckStale, Goto, FreshInv, NoBackfill, CacheInv, TypeOK
    <3>2. ASSUME NEW s \in Slots,
                 \/ DropFile(s) \/ DropRow(s) \/ SubmitReplace(s) \/ Finish(s) \/ Forget(s)
                 \/ SkipCached(s) \/ BeginCopy(s) \/ HasSpace(s) \/ NoSpace(s)
          PROVE  NoBackfill'
      BY <3>2 DEF DropFile, DropRow, SubmitReplace, Finish, Forget, SkipCached, BeginCopy,
         HasSpace, NoSpace, Goto, localVars, FreshInv, NoBackfill, CacheInv, TypeOK
    <3>3. CASE Dispatch
      BY <3>3 DEF Dispatch, SpawnOn, Goto, localVars, FreshInv, NoBackfill, CacheInv, TypeOK
    <3>4. CASE UNCHANGED <<at, snap>>
      BY <3>4 DEF FreshInv, NoBackfill
    <3>5. \/ \E s \in Slots : ReadFingerprint(s) \/ CheckStale(s)
          \/ \E s \in Slots :
                 \/ DropFile(s) \/ DropRow(s) \/ SubmitReplace(s) \/ Finish(s) \/ Forget(s)
                 \/ SkipCached(s) \/ BeginCopy(s) \/ HasSpace(s) \/ NoSpace(s)
          \/ Dispatch \/ UNCHANGED <<at, snap>>
      BY <1>1, <2>2, <2>3 DEF OtherStep, BackingWrite, BackingDelete, RequestCache,
         RequestValidation, WatchDispatch, CallAbort, CallSubmit, Flip, vars, ValidateStep,
         EvictFile, EvictRow, localVars
    <3>. QED  BY <3>0, <3>1, <3>2, <3>3, <3>4, <3>5
  <2>. QED  BY <2>1, <2>4, <2>5, FreshFrame DEF CopiesKept
<1>2. ASSUME NEW s \in Slots, \/ OpenFails(s) \/ CopyBytes(s) \/ CopyError(s) \/ Verify(s)
                              \/ CommitFails(s)
      PROVE  FreshInv'
  <2>1. UNCHANGED <<tjob, backing, rows>>
    BY <1>2 DEF OpenFails, CopyBytes, CopyError, Verify, FailCopy, CommitFails, pipelineVars, storeVars
  <2>2. /\ at'[s] \in {"verify", "commit", "done"} /\ \A t \in Slots : t # s => at'[t] = at[t]
        /\ at'[s] # "done" => at[s] \in PartialPlaces
    BY <1>2 DEF OpenFails, CopyBytes, CopyError, Verify, FailCopy, CommitFails, Goto, CacheInv, TypeOK,
                PartialPlaces
  <2>3. snap' = snap \/ (snap' = [snap EXCEPT ![s] = IF backing[Path(s)].live THEN backing[Path(s)].ver
                                                      ELSE @] /\ ~Changed(s))
    BY <1>2 DEF OpenFails, CopyBytes, CopyError, Verify, CommitFails
  <2>4. \A t \in Slots : snap'[t] = snap[t]
    BY <2>3 DEF Changed, CacheInv, TypeOK
  <2>5. NoBackfill'
    BY <2>2, <2>4 DEF FreshInv, NoBackfill
  <2>6. ContentKept
    <3>1. at[s] \in CopyPlaces /\ at[s] # "-"
      BY <1>2 DEF OpenFails, CopyBytes, CopyError, Verify, CommitFails, CopyPlaces
    <3>2. Path(s) \in Paths
      BY <3>1, TaskHasPath
    <3>3. disk[Path(s)] # NoFile => disk[Path(s)].w = {} /\ disk[Path(s)] \in FileStates
      BY <3>2 DEF SerialInv, PublishedIsClosed, IsCached, CacheInv, TypeOK, Files
    <3>4. CASE UNCHANGED disk
      BY <3>4 DEF ContentKept
    <3>5. CASE disk[Path(s)] # NoFile /\ disk' = [disk EXCEPT ![Path(s)].w = @ \ {s}]
      <4>1. disk' = [disk EXCEPT ![Path(s)] = [disk[Path(s)] EXCEPT !.w = @ \ {s}]]
        BY <3>5
      <4>2. [disk[Path(s)] EXCEPT !.w = @ \ {s}] = disk[Path(s)]
        BY <3>3, <3>5 DEF FileStates
      <4>. QED  BY <4>1, <4>2, <3>2, <3>5 DEF ContentKept, CacheInv, TypeOK
    <3>. QED  BY <1>2, <3>3, <3>4, <3>5 DEF OpenFails, CopyBytes, CopyError, Verify, FailCopy,
              CommitFails, IsCached, storeVars
  <2>. QED
    BY <2>1, <2>2, <2>4, <2>5, <2>6, FreshFrame DEF BackingMovesOn, OpenPlaces, PartialPlaces
<1>. QED  BY <1>1, <1>2

\* The open, the rename and the row of a copy.
LEMMA FreshCopy ==
  ASSUME CacheInv, TypeOK', SerialInv, FreshInv, NEW s \in Slots,
         OpenPartial(s) \/ MarkCached(s) \/ Commit(s)
  PROVE  FreshInv'
<1> DEFINE p == Path(s)
           ver == backing[p].ver
<1>1. at[s] \in CopyPlaces /\ at[s] # "-"
  BY DEF OpenPartial, MarkCached, Commit, CopyPlaces
<1>2. p \in Paths
  BY <1>1, TaskHasPath
<1>3. /\ UNCHANGED <<tjob, backing>> /\ \A t \in Slots : Path(t)' = Path(t)
      /\ \A t \in Slots : t # s => at'[t] = at[t]
  BY DEF OpenPartial, MarkCached, Commit, Goto, CacheInv, TypeOK, pipelineVars, Path
<1>4. \A t \in Slots : at'[t] \in OpenPlaces => t = s
  BY <1>1, <1>3, OnlyCopy DEF SerialInv, OpenPlaces, PartialPlaces, CopyPlaces
<1>5. /\ ver \in Nat /\ ver >= 1
      /\ \A q \in Paths : rows[q] # NoRow => rows[q] \in Nat
      /\ NoRow # ver
  BY <1>2, CacheIOAssumption DEF CacheInv, TypeOK, Versions
<1>6. NoBackfill'
  BY <1>3 DEF FreshInv, NoBackfill, OpenPartial, MarkCached, Commit, Goto, CacheInv, TypeOK
<1>7. CASE OpenPartial(s)
  <2>1. /\ snap'[s] = ver /\ at'[s] = "copy" /\ UNCHANGED <<disk, rows>>
    BY <1>7 DEF OpenPartial, Goto, CacheInv, TypeOK
  <2>2. rows[p] # NoRow => rows[p] <= ver
    BY <1>2, <1>5 DEF FreshInv, RowsAreVersions
  <2>3. CopyNewerThanRow'
    BY <1>3, <1>4, <1>5, <2>1, <2>2 DEF CopyNewerThanRow
  <2>. QED
    BY <1>3, <1>6, <2>1, <2>3 DEF FreshInv, RowsAreVersions, FreshIsIntact, IsCached
<1>8. CASE Commit(s)
  <2>1. /\ at[s] = "commit" /\ at'[s] = "mark" /\ UNCHANGED <<snap, rows>>
        /\ disk' = [disk EXCEPT ![p] = partial[p]]
    BY <1>8 DEF Commit, Goto, CacheInv, TypeOK
  <2>2. partial[p].c = snap[s] \/ snap[s] < ver
    BY <2>1 DEF SerialInv, CopyOwnsPartial, PartialPlaces
  <2>3. snap[s] \in 1..ver /\ (rows[p] # NoRow => rows[p] <= snap[s])
    BY <2>1 DEF FreshInv, CopyNewerThanRow, OpenPlaces, PartialPlaces
  <2>4. \A q \in Paths : disk'[q] = IF q = p THEN partial[p] ELSE disk[q]
    BY <1>2, <2>1 DEF CacheInv, TypeOK
  <2>5. CopyNewerThanRow'
    BY <1>2, <1>3, <1>4, <2>1, <2>2, <2>3, <2>4 DEF CopyNewerThanRow, IsCached
  <2>6. rows[p] = ver => partial[p].c = rows[p]
    BY <1>5, <2>2, <2>3
  <2>7. FreshIsIntact'
    BY <1>3, <2>1, <2>4, <2>6 DEF FreshInv, FreshIsIntact, IsCached
  <2>. QED  BY <1>3, <1>6, <2>1, <2>5, <2>7 DEF FreshInv, RowsAreVersions
<1>9. CASE MarkCached(s)
  <2>1. /\ at[s] = "mark" /\ at'[s] = "done" /\ UNCHANGED disk
        /\ \A q \in Paths : rows'[q] = IF q = p THEN snap[s] ELSE rows[q]
    BY <1>2, <1>9 DEF MarkCached, Goto, CacheInv, TypeOK
  <2>2. /\ snap[s] \in 1..ver
        /\ disk[p] # NoFile => disk[p].c = snap[s] \/ snap[s] < ver
    BY <2>1 DEF FreshInv, CopyNewerThanRow, OpenPlaces, IsCached
  <2>3. CopyNewerThanRow'
    BY <1>4, <2>1 DEF CopyNewerThanRow, OpenPlaces, PartialPlaces
  <2>4. RowsAreVersions'
    BY <1>3, <2>1, <2>2 DEF FreshInv, RowsAreVersions
  <2>5. snap[s] = ver => ~(snap[s] < ver)
    BY <1>5, <2>2
  <2>6. FreshIsIntact'
    BY <1>3, <2>1, <2>2, <2>5 DEF FreshInv, FreshIsIntact, IsCached
  <2>. QED  BY <1>6, <2>3, <2>4, <2>6 DEF FreshInv
<1>. QED  BY <1>7, <1>8, <1>9

\* With one permit, and as long as no restart has adopted files it found without
\* a row: a validation that answers Fresh is right, whatever copies, evictions,
\* validations and writes to the backing file come between.
THEOREM FreshFilesAreIntact ==
  ASSUME MaxConcurrentCopies = 1, Crashes = FALSE
  PROVE  Spec => []FreshIsIntact
<1>1. Init => FreshInv
  BY DEF Init, FreshInv, RowsAreVersions, CopyNewerThanRow, NoBackfill, FreshIsIntact, IsCached,
         OpenPlaces, PartialPlaces
<1>2. CacheInv /\ SerialInv /\ FreshInv /\ [Next]_vars => FreshInv'
  <2> SUFFICES ASSUME CacheInv, SerialInv, FreshInv, [Next]_vars PROVE FreshInv'
    OBVIOUS
  <2>1. TypeOK'
    BY CacheNextInv DEF CacheInv
  <2>2. \/ OtherStep /\ ~\E s \in Slots : MarkCached(s)
        \/ \E s \in Slots : \/ OpenFails(s) \/ CopyBytes(s) \/ CopyError(s) \/ Verify(s)
                            \/ CommitFails(s)
        \/ \E s \in Slots : \/ OpenPartial(s) \/ MarkCached(s)
                            \/ Commit(s)
    BY DEF Next, CopyStep, OtherStep
  <2>. QED  BY <2>1, <2>2, FreshQuiet, FreshCopy
<1>3. FreshInv => FreshIsIntact
  BY DEF FreshInv
<1>. QED  BY <1>1, <1>2, <1>3, SerialInvariance, PTL DEF Spec
=============================================================================

---------------------------- MODULE JobLifecycle ----------------------------
(***************************************************************************)
(* What CacheIO promises for each job, a (path, kind) pair, without its    *)
(* queue, its locks, its dispatcher or its table: a job is idle, queued or *)
(* run by a single worker, and goes round in that order.                   *)
(***************************************************************************)
CONSTANT Jobs
VARIABLE phase

Phases == {"idle", "queued", "running"}

Init == phase = [j \in Jobs |-> "idle"]

Submit(j) == phase[j] = "idle" /\ phase' = [phase EXCEPT ![j] = "queued"]

Start(j) == phase[j] = "queued" /\ phase' = [phase EXCEPT ![j] = "running"]

Finish(j) == phase[j] = "running" /\ phase' = [phase EXCEPT ![j] = "idle"]

\* Jobs whose time to live is over leave the queue, never a worker.
Expire ==
  /\ phase' \in [Jobs -> Phases]
  /\ \A j \in Jobs : phase'[j] # phase[j] => phase[j] = "queued" /\ phase'[j] = "idle"

\* A restart runs nothing: the jobs it remembers are queued, and only
\* Populate jobs are remembered.
Restart ==
  /\ phase' \in [Jobs -> Phases]
  /\ \A j \in Jobs : phase'[j] = "idle" \/ (phase'[j] = "queued" /\ j[2] = "Populate")

Next ==
  \/ \E j \in Jobs : Submit(j) \/ Start(j) \/ Finish(j)
  \/ Expire
  \/ Restart

Spec == Init /\ [][Next]_phase
=============================================================================

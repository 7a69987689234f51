----------------------------- MODULE Discovery ------------------------------
(***************************************************************************)
(* Process discovery (src/src/discovery.rs): the controller that arms and  *)
(* disarms the recording of process activity, the FUSE threads that count  *)
(* operations into the armed session, the drain task of each session, and  *)
(* the process_access table its buckets are flushed to.                    *)
(*                                                                         *)
(* start and stop exclude each other by the start_stop mutex; the drain    *)
(* tasks and the FUSE threads take no lock.  A session is identified by    *)
(* its number, in the order of their starts.  The operations of one        *)
(* process are counted together, whatever their kind; the broadcasts of    *)
(* the status are left out.                                                *)
(***************************************************************************)
EXTENDS Integers, FiniteSetsExt, Functions

CONSTANTS
  Threads,      \* FUSE session threads: one per mount
  MaxSession,   \* bounds the sessions
  MaxBumps,     \* bounds the operations recorded
  MaxNow,       \* bounds the clock, in seconds
  Window        \* discovery.window_days, in the clock's unit

ASSUME DiscoveryAssumption ==
  /\ IsFiniteSet(Threads)
  /\ MaxSession \in Nat /\ MaxBumps \in Nat /\ MaxNow \in Nat /\ Window \in Nat

Sessions == 1..MaxSession
Buckets == 0..MaxNow

VARIABLES
  enabled,     \* the atomic flag
  session,     \* the armed session, 0 for None
  lock,        \* where the holder of start_stop is, "free" if there is none
  started,     \* number of sessions created
  cancelled,   \* sessions whose child token stop has cancelled
  root,        \* root_token is cancelled: the daemon shuts down
  drain,       \* the drain task of each session
  counts,      \* operations counted in each session and not yet swapped out
  bucket,      \* what a drain task has swapped out and not yet written
  table,       \* process_access: the count of each bucket epoch
  now,         \* the clock
  thread,      \* what a FUSE thread has loaded: a session, SawEnabled, or 0 for neither
  bumped,      \* history: operations recorded in each session
  due,         \* history: how many of them were recorded before its cancellation
  pruned,      \* history: operations deleted with old buckets
  lost         \* history: operations whose rows an upsert that failed did not write

discoveryVars == <<enabled, session, lock, started, cancelled, root, drain, counts,
                   bucket, table, now, thread, bumped, due, pruned, lost>>

NoBucket == [epoch |-> 0, count |-> 0]
SawEnabled == -1
DrainStages == {"none", "loop", "write", "final", "disable", "clear", "done"}

DiscoveryTypeOK ==
  /\ enabled \in BOOLEAN /\ session \in 0..MaxSession
  /\ lock \in {"free", "arm", "cancel", "disarm"}
  /\ started \in 0..MaxSession /\ cancelled \subseteq Sessions /\ root \in BOOLEAN
  /\ drain \in [Sessions -> DrainStages]
  /\ counts \in [Sessions -> 0..MaxBumps] /\ bumped \in [Sessions -> 0..MaxBumps]
  /\ due \in [Sessions -> 0..MaxBumps]
  /\ bucket \in [Sessions -> [epoch : Buckets, count : 0..MaxBumps]]
  /\ table \in [Buckets -> 0..MaxBumps] /\ now \in Buckets
  /\ pruned \in 0..MaxBumps /\ lost \in 0..MaxBumps
  /\ thread \in [Threads -> {SawEnabled} \cup 0..MaxSession]

DiscoveryInit ==
  /\ enabled = FALSE /\ session = 0 /\ lock = "free" /\ started = 0
  /\ cancelled = {} /\ root = FALSE
  /\ drain = [s \in Sessions |-> "none"]
  /\ counts = [s \in Sessions |-> 0] /\ bumped = counts /\ due = counts
  /\ bucket = [s \in Sessions |-> NoBucket]
  /\ table = [b \in Buckets |-> 0] /\ now = 0 /\ pruned = 0 /\ lost = 0
  /\ thread = [t \in Threads |-> 0]

countVars == <<counts, bucket, table, now, thread, bumped, pruned, lost>>
DueNow(S) == [s \in Sessions |-> IF s \in S /\ ~root /\ s \notin cancelled THEN bumped[s] ELSE due[s]]

-----------------------------------------------------------------------------
(* start and stop.  A start of an armed controller, and a stop of one that *)
(* is not armed, return at once: they change nothing.                      *)

StartNew ==
  /\ lock = "free" /\ ~enabled /\ started < MaxSession
  /\ started' = started + 1
  /\ session' = started'
  /\ lock' = "arm"
  /\ UNCHANGED <<enabled, cancelled, root, drain, countVars, due>>

StartArm ==
  /\ lock = "arm"
  /\ enabled' = TRUE
  /\ drain' = [drain EXCEPT ![started] = "loop"]
  /\ lock' = "free"
  /\ UNCHANGED <<session, started, cancelled, root, countVars, due>>

StopCancel ==
  /\ lock = "free" /\ enabled
  /\ cancelled' = IF session = 0 THEN cancelled ELSE cancelled \cup {session}
  /\ due' = DueNow({session})
  /\ lock' = "cancel"
  /\ UNCHANGED <<enabled, session, started, root, drain, countVars>>

StopDisarm ==
  /\ lock = "cancel"
  /\ enabled' = FALSE
  /\ lock' = "disarm"
  /\ UNCHANGED <<session, started, cancelled, root, drain, countVars, due>>

StopClear ==
  /\ lock = "disarm"
  /\ session' = 0
  /\ lock' = "free"
  /\ UNCHANGED <<enabled, started, cancelled, root, drain, countVars, due>>

\* The daemon cancels the root token, the parent of every child token.
RootCancel ==
  /\ ~root
  /\ root' = TRUE /\ due' = DueNow(Sessions)
  /\ UNCHANGED <<enabled, session, lock, started, cancelled, drain, countVars>>

-----------------------------------------------------------------------------
(* log_touch and log_open on a FUSE thread.                                *)

controlVars == <<enabled, session, lock, started, cancelled, root, due>>

\* The flag is read before the session, and neither under the lock.
LogChecks(t) ==
  /\ thread[t] = 0 /\ enabled
  /\ thread' = [thread EXCEPT ![t] = SawEnabled]
  /\ UNCHANGED <<controlVars, drain, counts, bucket, table, now, bumped, pruned, lost>>

LogLoad(t) ==
  /\ thread[t] = SawEnabled
  /\ thread' = [thread EXCEPT ![t] = session]
  /\ UNCHANGED <<controlVars, drain, counts, bucket, table, now, bumped, pruned, lost>>

\* bump: one fetch_add.
BumpedTwice(c, s) == [c EXCEPT ![s] = @ + 2]
Bumped(c, s) == [c EXCEPT ![s] = @ + 1]
LogBump(t) ==
  LET s == thread[t] IN
  /\ s \in Sessions /\ SumFunction(bumped) < MaxBumps
  /\ counts' = Bumped(counts, s)
  /\ bumped' = [bumped EXCEPT ![s] = @ + 1]
  /\ thread' = [thread EXCEPT ![t] = 0]
  /\ UNCHANGED <<controlVars, drain, bucket, table, now, pruned, lost>>

-----------------------------------------------------------------------------
(* The drain task of a session.                                            *)

\* The first half of flush_bucket: the epoch, and the counters by swap(0).
SwapOut(s, next) ==
  /\ drain' = [drain EXCEPT ![s] = next]
  /\ bucket' = [bucket EXCEPT ![s] = [epoch |-> now, count |-> counts[s]]]
  /\ counts' = [counts EXCEPT ![s] = 0]
  /\ UNCHANGED <<controlVars, table, now, thread, bumped, pruned, lost>>

\* upsert_process_access adds to the row of the same epoch.
Overwritten(t, b, n) == [t EXCEPT ![b.epoch] = n]
Upserted(t, b, n) == [t EXCEPT ![b.epoch] = @ + n]

DrainTick(s) == drain[s] = "loop" /\ counts[s] > 0 /\ SwapOut(s, "write")

Cancelled(s) == s \in cancelled \/ root

\* On cancellation a last flush, unless there is nothing to flush.
LeaveUnflushed(s) ==
  /\ drain[s] = "loop" /\ Cancelled(s)
  /\ drain' = [drain EXCEPT ![s] = "disable"]
  /\ UNCHANGED <<controlVars, countVars>>
DrainCancelled(s) == drain[s] = "loop" /\ Cancelled(s) /\ SwapOut(s, "final")

\* The second half of flush_bucket.  The rows of a bucket, one per process and
\* kind, are written one by one; an error ends the loop and is ignored.
DrainWrite(s) ==
  /\ drain[s] \in {"write", "final"}
  /\ \E n \in 0..bucket[s].count : /\ table' = Upserted(table, bucket[s], n)
                                    /\ lost' = lost + (bucket[s].count - n)
  /\ bucket' = [bucket EXCEPT ![s] = NoBucket]
  /\ drain' = [drain EXCEPT ![s] = IF @ = "write" THEN "loop" ELSE "disable"]
  /\ UNCHANGED <<controlVars, counts, now, thread, bumped, pruned>>

\* The end of the task: enabled and then session, without the lock.
DrainEnd(s) ==
  /\ \/ /\ drain[s] = "disable" /\ drain' = [drain EXCEPT ![s] = "clear"]
        /\ enabled' = FALSE /\ UNCHANGED session
     \/ /\ drain[s] = "clear" /\ drain' = [drain EXCEPT ![s] = "done"]
        /\ session' = 0 /\ UNCHANGED enabled
  /\ UNCHANGED <<lock, started, cancelled, root, countVars, due>>

-----------------------------------------------------------------------------
(* The table's pruning task, and the clock.                                *)

Old == {b \in Buckets : b < now - Window}
Prune ==
  /\ ~root /\ \E b \in Old : table[b] > 0
  /\ table' = [b \in Buckets |-> IF b \in Old THEN 0 ELSE table[b]]
  /\ pruned' = pruned + SumFunctionOnSet(table, Old)
  /\ UNCHANGED <<controlVars, drain, counts, bucket, now, thread, bumped, lost>>

SecondPasses ==
  /\ now < MaxNow
  /\ now' = now + 1
  /\ UNCHANGED <<controlVars, drain, counts, bucket, table, thread, bumped, pruned, lost>>

DrainRuns(s) == DrainCancelled(s) \/ DrainWrite(s) \/ DrainEnd(s)
Control == StartNew \/ StartArm \/ StopCancel \/ StopDisarm \/ StopClear

DiscoveryNext ==
  \/ Control \/ RootCancel
  \/ \E t \in Threads : LogChecks(t) \/ LogLoad(t) \/ LogBump(t)
  \/ \E s \in Sessions : DrainTick(s) \/ DrainRuns(s)
  \/ Prune \/ SecondPasses

DiscoverySpec == DiscoveryInit /\ [][DiscoveryNext]_discoveryVars

-----------------------------------------------------------------------------
(* What must hold.                                                         *)

\* No operation is counted twice or dropped on its way to the table, although
\* FUSE threads go on counting while a flush swaps the counters and writes
\* (flush_bucket, upsert_process_access): what was recorded is in the
\* counters, in a flush under way, in the table, pruned from it, or in rows
\* that an upsert failed to write (discovery.rs:314 ignores its error).
CountsConserved ==
  SumFunction(bumped) =
    SumFunction(counts) + SumFunction([s \in Sessions |-> bucket[s].count]) + SumFunction(table) + pruned + lost

\* Disarming flushes the in-flight bucket (protocol.rs:44): what a session had
\* recorded when it was cancelled has been handed to the table, written or lost
\* to a failed upsert, when its drain task disarms the controller, whatever
\* the FUSE threads record meanwhile.
LastBucketFlushed ==
  \A s \in Sessions : drain[s] \in {"disable", "clear", "done"}
                       => due[s] <= bumped[s] - counts[s] - bucket[s].count

\* An armed session records until it is stopped or the daemon shuts down
\* (start, discovery.rs:136): nothing else takes it out of the controller.
RecordsUntilStopped ==
  [][enabled /\ session # 0 /\ (session' # session \/ ~enabled') => session \in cancelled' \/ root]_discoveryVars
=============================================================================

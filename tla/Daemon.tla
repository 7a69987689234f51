------------------------------- MODULE Daemon -------------------------------
(***************************************************************************)
(* The life of the daemon (run_daemon in src/src/main.rs, the locks of     *)
(* src/src/utils.rs, the socket of src/src/ipc/server.rs): start, one      *)
(* target after the other, shutdown, failed starts and crashes, with       *)
(* several daemons on one host.  The locks are locals of run_daemon: they  *)
(* are given up when it returns, while the process lives on until tokio's  *)
(* runtime has been dropped, which waits for blocking calls without bound. *)
(*                                                                         *)
(* The kernel's part is external: a flock ends with its file; a mount      *)
(* whose process has died stays, dead, unless the helper of AutoUnmount    *)
(* survives to remove it; mounts over one directory are stacked, and       *)
(* fusermount -uz takes the uppermost away, or fails.  So is tokio's: a    *)
(* task that is told to abort ends later, at an await.  Left out: that the *)
(* kernel may answer a stat of a dead mount from its cache for a second,   *)
(* and that the bind of the socket may fail.                               *)
(***************************************************************************)
EXTENDS Integers, FiniteSetsExt, SequencesExt

CONSTANTS
  Daemons,      \* processes: each may be started again after it has ended
  Instance,     \* instance_name of each
  Dirs,         \* target directories
  Conf,         \* target_directories of each: a sequence of Dirs
  MayCrash,     \* daemons that may crash
  MaxCrashes,   \* bounds the crashes
  MayBlock,     \* daemons whose blocking calls may hang
  Nobody

ASSUME DaemonAssumption ==
  /\ IsFiniteSet(Daemons) /\ IsFiniteSet(Dirs)
  /\ Conf \in [Daemons -> Seq(Dirs)]
  /\ MayCrash \subseteq Daemons /\ MaxCrashes \in Nat /\ MayBlock \subseteq Daemons
  /\ Nobody \notin Daemons /\ "stale" \notin Daemons

Instances == {Instance[d] : d \in Daemons}

VARIABLES
  stage,         \* where each daemon is in run_daemon, or on its way out of main
  next,          \* index of the target it is about to mount
  instanceLock,  \* holder of each instance's lock
  targetLock,    \* holder of each target's lock
  mounted,       \* the stack of mounts over each target
  socket,        \* the socket file of each instance: absent, stale or its listener
  server,        \* the IPC server's task of each daemon
  busy,          \* spawn_blocking work is under way
  crashes        \* number of crashes

daemonVars == <<stage, next, instanceLock, targetLock, mounted, socket, server, busy, crashes>>

Stages == {"down", "validate", "clean", "lock", "mount", "up", "unmount", "drain", "drop",
           "failed", "unlocked", "returned", "released", "exiting"}
Servers == {"none", "binding", "serving", "closing", "bailed", "ended"}
Unlocked == {"down", "validate", "unlocked", "released", "exiting"}
Mounts == [by : Daemons, health : {"live", "dead"}]

DaemonTypeOK ==
  /\ stage \in [Daemons -> Stages]
  /\ next \in [Daemons -> Nat] /\ \A d \in Daemons : next[d] \in 1..(Len(Conf[d]) + 1)
  /\ instanceLock \in [Instances -> Daemons \cup {Nobody}]
  /\ targetLock \in [Dirs -> {d \in Daemons : stage[d] \notin Unlocked} \cup {Nobody}]
  /\ mounted \in [Dirs -> Seq(Mounts)]
  /\ socket \in [Instances -> Daemons \cup {Nobody, "stale"}]
  /\ server \in [Daemons -> Servers]
  /\ busy \in [Daemons -> BOOLEAN]
  /\ crashes \in 0..MaxCrashes

DaemonInit ==
  /\ stage = [d \in Daemons |-> "down"]
  /\ next = [d \in Daemons |-> 1]
  /\ instanceLock = [i \in Instances |-> Nobody]
  /\ targetLock = [t \in Dirs |-> Nobody]
  /\ mounted = [t \in Dirs |-> <<>>]
  /\ socket = [i \in Instances |-> Nobody]
  /\ server = [d \in Daemons |-> "none"]
  /\ busy = [d \in Daemons |-> FALSE]
  /\ crashes = 0

-----------------------------------------------------------------------------
(* The kernel.                                                             *)

Go(d, s) == stage' = [stage EXCEPT ![d] = s]
Server(d, s) == server' = [server EXCEPT ![d] = s]
Target(d) == Conf[d][next[d]]

\* Path::exists of a target: false where a dead mount answers ENOTCONN.
Exists(t) == mounted[t] # <<>> => Last(mounted[t]).health # "dead"

\* find_fscache_mount_holder: the instance of the first line of /proc/mounts
\* for the target, which is the lowest mount of the stack.
Holder(t) == IF mounted[t] = <<>> THEN Nobody ELSE Instance[mounted[t][1].by]

\* fusermount -uz: its status is not looked at, or only logged.
Unmounted(t) == IF mounted[t] = <<>> THEN <<>> ELSE Front(mounted[t])
Fusermount(t) == mounted' \in {[mounted EXCEPT ![t] = Unmounted(t)], mounted}

\* The locks a daemon leaves when its files are closed.
FreedOf(locks, d) == [k \in DOMAIN locks |-> IF locks[k] = d THEN Nobody ELSE locks[k]]

\* A socket file outlives its listener.
SocketLeft(d) == [i \in Instances |-> IF socket[i] = d THEN "stale" ELSE socket[i]]

-----------------------------------------------------------------------------
(* Start.                                                                  *)

\* acquire_instance_lock: a second daemon of the instance gives up at once.
LockIgnored(d) == TRUE
LockFree(d) == instanceLock[Instance[d]] = Nobody
Start(d) ==
  /\ stage[d] = "down" /\ LockFree(d)
  /\ instanceLock' = [instanceLock EXCEPT ![Instance[d]] = d]
  /\ next' = [next EXCEPT ![d] = 1]
  /\ Go(d, "validate")
  /\ UNCHANGED <<targetLock, mounted, socket, server, busy, crashes>>

\* validate_targets: there are targets, each exists and none is named twice.
\* If not, run_daemon returns: there are no tasks and no mounts yet.
Distinct(c) == c # <<>> /\ \A k, l \in DOMAIN c : c[k] = c[l] => k = l
Valid(d) == Distinct(Conf[d]) /\ \A k \in DOMAIN Conf[d] : Exists(Conf[d][k])
Validate(d) ==
  /\ stage[d] = "validate"
  /\ \/ Valid(d) /\ Go(d, "clean") /\ UNCHANGED instanceLock
     \/ ~Valid(d) /\ Go(d, "exiting") /\ instanceLock' = FreedOf(instanceLock, d)
  /\ UNCHANGED <<next, targetLock, mounted, socket, server, busy, crashes>>

\* A mount that a daemon of this instance left behind is removed.
AnyHolder(d) == Holder(Target(d)) # Nobody
OwnHolder(d) == Holder(Target(d)) = Instance[d]
Clean(d) ==
  /\ stage[d] = "clean"
  /\ IF OwnHolder(d) THEN Fusermount(Target(d)) ELSE UNCHANGED mounted
  /\ Go(d, "lock")
  /\ UNCHANGED <<next, instanceLock, targetLock, socket, server, busy, crashes>>

\* acquire_target_lock.
TakenAnyway(d) == TRUE
TargetFree(d) == targetLock[Target(d)] = Nobody
LockTarget(d) ==
  /\ stage[d] = "lock"
  /\ IF TargetFree(d)
     THEN targetLock' = [targetLock EXCEPT ![Target(d)] = d] /\ Go(d, "mount")
     ELSE UNCHANGED targetLock /\ Go(d, "failed")
  /\ UNCHANGED <<next, instanceLock, mounted, socket, server, busy, crashes>>

\* The mount's tasks are created and the target is mounted, or that fails;
\* fusermount too looks at the mount point first.
Mount(d) ==
  LET t == Target(d) IN
  /\ stage[d] = "mount"
  /\ \/ /\ Exists(t)
        /\ mounted' = [mounted EXCEPT ![t] = Append(@, [by |-> d, health |-> "live"])]
        /\ next' = [next EXCEPT ![d] = @ + 1]
        /\ Go(d, IF next[d] = Len(Conf[d]) THEN "up" ELSE "clean")
     \/ Go(d, "failed") /\ UNCHANGED <<mounted, next>>
  /\ UNCHANGED <<instanceLock, targetLock, socket, server, busy, crashes>>

-----------------------------------------------------------------------------
(* The background tasks: they run from before the first target until the   *)
(* drain has timed out or run_daemon drops their JoinSet; then they are    *)
(* told to abort, and each ends when it next waits.                        *)

TasksLive(d) == stage[d] \in {"clean", "lock", "mount", "up", "unmount", "drain", "failed", "unlocked"}
Told(d) == stage[d] \in {"drop", "returned", "released", "exiting"}

\* The IPC server gives up if another answers on the socket,
Connect(d) ==
  /\ TasksLive(d) /\ server[d] = "none"
  /\ Server(d, IF socket[Instance[d]] \in Daemons THEN "bailed" ELSE "binding")
  /\ UNCHANGED <<stage, next, instanceLock, targetLock, mounted, socket, busy, crashes>>

\* else removes what is there and binds.
Bind(d) ==
  /\ server[d] = "binding"
  /\ socket' = [socket EXCEPT ![Instance[d]] = d]
  /\ Server(d, "serving")
  /\ UNCHANGED <<stage, next, instanceLock, targetLock, mounted, busy, crashes>>

\* The token is cancelled: the server says Goodbye and waits 100 ms.  A client
\* may command the shutdown while the daemon still mounts.
StopServing(d) ==
  /\ TasksLive(d) /\ server[d] = "serving"
  /\ Server(d, "closing")
  /\ UNCHANGED <<stage, next, instanceLock, targetLock, mounted, socket, busy, crashes>>

\* It removes the socket file, whoever bound it last.
RemoveSocket(d) ==
  /\ server[d] = "closing"
  /\ socket' = [socket EXCEPT ![Instance[d]] = Nobody]
  /\ Server(d, "ended")
  /\ UNCHANGED <<stage, next, instanceLock, targetLock, mounted, busy, crashes>>

\* It is aborted, and its listener closed.
ServerAborted(d) ==
  /\ Told(d) /\ server[d] \in {"binding", "serving", "closing"}
  /\ socket' = SocketLeft(d)
  /\ Server(d, "ended")
  /\ UNCHANGED <<stage, next, instanceLock, targetLock, mounted, busy, crashes>>

\* Copies and sweeps are handed to blocking threads; an abort does not reach
\* them, and nothing says that a call of the backing store returns.
BlockingBegins(d) ==
  /\ d \in MayBlock /\ ~busy[d] /\ (TasksLive(d) \/ Told(d)) /\ stage[d] # "exiting"
  /\ busy' = [busy EXCEPT ![d] = TRUE]
  /\ UNCHANGED <<stage, next, instanceLock, targetLock, mounted, socket, server, crashes>>
BlockingEnds(d) ==
  /\ busy[d]
  /\ busy' = [busy EXCEPT ![d] = FALSE]
  /\ UNCHANGED <<stage, next, instanceLock, targetLock, mounted, socket, server, crashes>>

-----------------------------------------------------------------------------
(* Shutdown: on a signal or a client's command.                            *)

Signal(d) ==
  /\ stage[d] = "up"
  /\ Go(d, "unmount")
  /\ next' = [next EXCEPT ![d] = 1]
  /\ UNCHANGED <<instanceLock, targetLock, mounted, socket, server, busy, crashes>>

LazyUnmount(d) ==
  /\ stage[d] = "unmount"
  /\ Fusermount(Target(d))
  /\ next' = [next EXCEPT ![d] = @ + 1]
  /\ Go(d, IF next[d] = Len(Conf[d]) THEN "drain" ELSE "unmount")
  /\ UNCHANGED <<instanceLock, targetLock, socket, server, busy, crashes>>

\* The background tasks have ended, or 15 s have passed.
TasksEnded(d) == stage[d] = "drain" /\ server[d] \in {"bailed", "ended"}
Drained(d) ==
  /\ TasksEnded(d)
  /\ Go(d, "drop")
  /\ UNCHANGED <<next, instanceLock, targetLock, mounted, socket, server, busy, crashes>>
NoTimeout(d) == TasksEnded(d)
Elapsed(d) == stage[d] = "drain"
DrainTimeout(d) ==
  /\ Elapsed(d)
  /\ Go(d, "drop")
  /\ UNCHANGED <<next, instanceLock, targetLock, mounted, socket, server, busy, crashes>>

-----------------------------------------------------------------------------
(* run_daemon returns.  A shutdown drops the mounts before the locals; a   *)
(* failed start leaves all to the locals, and the last one goes first: the *)
(* target locks, then the mounts.                                          *)

\* Its sessions are unmounted wherever they are in the stacks: one per target.
Session(d, t, k) == mounted[t][k].by = d /\ mounted[t][k].health = "live"
Serves(d, t) == \E k \in DOMAIN mounted[t] : Session(d, t, k)
MountsDropped(d) == [t \in Dirs |->
  IF Serves(d, t)
  THEN RemoveAt(mounted[t], CHOOSE k \in DOMAIN mounted[t] : Session(d, t, k))
  ELSE mounted[t]]

DropMounts(d) ==
  /\ \/ stage[d] = "drop" /\ Go(d, "returned")
     \/ stage[d] = "unlocked" /\ Go(d, "released")
  /\ mounted' = MountsDropped(d)
  /\ UNCHANGED <<next, instanceLock, targetLock, socket, server, busy, crashes>>

DropTargetLocks(d) ==
  /\ \/ stage[d] = "failed" /\ Go(d, "unlocked")
     \/ stage[d] = "returned" /\ Go(d, "released")
  /\ targetLock' = FreedOf(targetLock, d)
  /\ UNCHANGED <<next, instanceLock, mounted, socket, server, busy, crashes>>

\* The JoinSet and, last, the instance lock.
ReleaseInstance(d) ==
  /\ stage[d] = "released"
  /\ instanceLock' = FreedOf(instanceLock, d)
  /\ Go(d, "exiting")
  /\ UNCHANGED <<next, targetLock, mounted, socket, server, busy, crashes>>

\* main returns and the runtime is dropped: tasks end, blocking calls are
\* waited for.
ProcessEnds(d) ==
  /\ stage[d] = "exiting" /\ ~busy[d]
  /\ socket' = SocketLeft(d)
  /\ Server(d, "none")
  /\ Go(d, "down")
  /\ UNCHANGED <<next, instanceLock, targetLock, mounted, busy, crashes>>

-----------------------------------------------------------------------------
(* A crash at any stage.                                                   *)

\* The mounts of a dead process: removed by AutoUnmount, or left.
Crash(d) ==
  /\ d \in MayCrash /\ stage[d] # "down" /\ crashes < MaxCrashes
  /\ crashes' = crashes + 1
  /\ Go(d, "down")
  /\ instanceLock' = FreedOf(instanceLock, d)
  /\ targetLock' = FreedOf(targetLock, d)
  /\ socket' = SocketLeft(d)
  /\ Server(d, "none")
  /\ busy' = [busy EXCEPT ![d] = FALSE]
  /\ \/ mounted' = MountsDropped(d)
     \/ mounted' = [t \in Dirs |-> [k \in DOMAIN mounted[t] |->
          IF Session(d, t, k) THEN [by |-> d, health |-> "dead"] ELSE mounted[t][k]]]
  /\ UNCHANGED next

Mounted(d) == Mount(d) /\ stage'[d] # "failed"
StartStep(d) == Start(d) \/ Validate(d) \/ Clean(d) \/ LockTarget(d) \/ Mount(d)
TaskStep(d) == Connect(d) \/ Bind(d) \/ StopServing(d) \/ RemoveSocket(d) \/ ServerAborted(d)
               \/ BlockingBegins(d) \/ BlockingEnds(d)
StopStep(d) == LazyUnmount(d) \/ DrainTimeout(d) \/ DropMounts(d) \/ DropTargetLocks(d)
               \/ ReleaseInstance(d) \/ ProcessEnds(d)

DaemonNext ==
  \E d \in Daemons : StartStep(d) \/ TaskStep(d) \/ StopStep(d) \/ Signal(d) \/ Drained(d) \/ Crash(d)

\* A daemon goes on; it is started again when it has failed (fscache.service),
\* and a target that can be mounted is mounted at last.  Nothing is assumed of
\* the tasks and of the blocking calls.
DaemonFairness ==
  \A d \in Daemons : /\ WF_daemonVars(StartStep(d)) /\ WF_daemonVars(StopStep(d))
                     /\ SF_daemonVars(Mounted(d))
DaemonSpec == DaemonInit /\ [][DaemonNext]_daemonVars
DaemonFairSpec == DaemonSpec /\ DaemonFairness

-----------------------------------------------------------------------------
(* What must hold.                                                         *)

\* Two daemons never serve one target (acquire_target_lock, utils.rs:101),
\* whatever starts, failures, shutdowns and crashes overlap; a start that has
\* failed is left out, as it gives up its locks before its mounts.
OneServerPerTarget ==
  \A t \in Dirs : \A d, e \in Daemons :
    Serves(d, t) /\ Serves(e, t) /\ {stage[d], stage[e]} \cap {"failed", "unlocked"} = {} => d = e

\* No daemon takes away the mount that another one serves from: the cleaning
\* of stale mounts (main.rs:331) meets dead ones only, and a shutdown its own.
\* A mount over a dead one is left out: where a failed start had given up its
\* lock, was mounted over and then crashed, its instance's next start finds its
\* own name at the bottom and takes away what lies on top.
OnDeadMount(t) == mounted[t][1].health = "dead"
UnmountsOnlyOwn ==
  [][\A d \in Daemons, t \in Dirs :
       Serves(d, t) /\ ~Serves(d, t)' /\ ~OnDeadMount(t) =>
         stage'[d] # stage[d] \/ next'[d] # next[d]]_daemonVars

\* The IPC server of a daemon that runs is disturbed, so that it gives up or
\* loses its socket file, by nobody but a process of its instance that has
\* given up the instance lock and is not gone: the lock is a local of
\* run_daemon (main.rs:183) and the old listener's task, told to abort, may
\* outlive it.  That case apart it is "normally impossible since the instance
\* lock prevents this" (server.rs:31).
GivesUp(d) == server[d] # "bailed" /\ server'[d] = "bailed"
LosesSocket(d) ==
  LET i == Instance[d] IN socket[i] = d /\ socket'[i] # d /\ server'[d] = "serving"
Leaving(d) == stage[d] = "exiting"
ServerUndisturbed ==
  [][\A d \in Daemons : (GivesUp(d) \/ LosesSocket(d)) /\ ~Leaving(d) =>
       \E e \in Daemons \ {d} : Instance[e] = Instance[d] /\ Leaving(e)]_daemonVars

\* A shutdown gives up its targets, mounts and locks although background tasks
\* may be stuck, as the wait for them is bounded (main.rs:567); the process too
\* is gone in the end unless a blocking call hangs, for which the drop of the
\* runtime waits without bound.
HoldsNothing(d) ==
  /\ \A t \in Dirs : targetLock[t] # d /\ ~Serves(d, t)
  /\ \A i \in Instances : instanceLock[i] # d
ShutdownEnds ==
  \A d \in Daemons : stage[d] = "drain" ~> HoldsNothing(d) /\ (stage[d] = "down" \/ busy[d])

\* A daemon that is started again and again is in service again after a crash:
\* it cleans up the stale mount that the crash has left (main.rs:333).
RestartRecovers == \A d \in Daemons : stage[d] = "down" ~> stage[d] = "up"
=============================================================================

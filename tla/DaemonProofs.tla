---------------------------- MODULE DaemonProofs ----------------------------
(***************************************************************************)
(* Proofs about module Daemon, for every finite set of daemons, instances  *)
(* and target directories, every configuration and every number of         *)
(* crashes: types, OneServerPerTarget, UnmountsOnlyOwn, ServerUndisturbed. *)
(*                                                                         *)
(* The inductive invariant has two parts.  LockInv ties the stages of a    *)
(* daemon to its instance lock, socket and place in the list of targets.   *)
(* StackInv ties the stacks of mounts to the target locks: who serves a    *)
(* target and has not failed holds its lock and lies on top.               *)
(***************************************************************************)
EXTENDS Daemon, CollectionFacts

-----------------------------------------------------------------------------
(* The inductive invariant.                                                *)

Starting == {"clean", "lock", "mount"}
Failing == {"failed", "unlocked"}
Bare == {"down", "validate", "returned", "released", "exiting"}

\* The instance lock is held from the start until run_daemon has returned.
InstanceHeld ==
  \A d \in Daemons : stage[d] \notin {"down", "exiting"} <=> instanceLock[Instance[d]] = d

\* A listener is the server of a daemon of that instance that is not gone.
ListenerRuns ==
  /\ \A d \in Daemons : server[d] # "none" => stage[d] # "down"
  /\ \A i \in Instances : socket[i] \in Daemons =>
       Instance[socket[i]] = i /\ server[socket[i]] \in {"serving", "closing"}

\* Beyond the validation the configuration is valid, and next is one of its
\* targets while there is one to treat.
NextIsTarget ==
  \A d \in Daemons :
    /\ stage[d] \in Starting \cup {"up", "unmount"} => Distinct(Conf[d])
    /\ stage[d] = "validate" => next[d] = 1
    /\ stage[d] \in Starting \cup {"unmount"} => next[d] \in DOMAIN Conf[d]

LockInv == DaemonTypeOK /\ InstanceHeld /\ ListenerRuns /\ NextIsTarget

\* The targets that a daemon has mounted and not yet unmounted.
Done(d, t) ==
  \E k \in DOMAIN Conf[d] :
    /\ Conf[d][k] = t
    /\ \/ stage[d] \in Starting /\ k < next[d]
       \/ stage[d] = "up"
       \/ stage[d] = "unmount" /\ k >= next[d]

\* A daemon has at most one session per target.
OneSession ==
  \A d \in Daemons, t \in Dirs : \A k, l \in DOMAIN mounted[t] :
    Session(d, t, k) /\ Session(d, t, l) => k = l

\* Who serves a target runs, has mounted it, and holds its lock unless the
\* start has failed.
ServersHoldLocks ==
  \A d \in Daemons, t \in Dirs : Serves(d, t) =>
    /\ stage[d] \notin Bare
    /\ stage[d] \notin Failing => targetLock[t] = d
    /\ stage[d] \in Starting => Done(d, t)

\* The session of the lock's holder is the uppermost.
HolderOnTop ==
  \A d \in Daemons, t \in Dirs :
    Serves(d, t) /\ targetLock[t] = d => Session(d, t, Len(mounted[t]))

\* The lock taken on the way.
LocksKept == \A d \in Daemons : stage[d] = "mount" => targetLock[Target(d)] = d

\* What a daemon has mounted it locks; and it serves it, unless it lay over a
\* dead mount and was taken away with it.
DoneIsServed ==
  \A d \in Daemons, t \in Dirs : Done(d, t) =>
    /\ targetLock[t] = d
    /\ Serves(d, t) \/ mounted[t] = <<>> \/ OnDeadMount(t)

StackInv == OneSession /\ ServersHoldLocks /\ HolderOnTop /\ LocksKept /\ DoneIsServed

DaemonInv == LockInv /\ StackInv

LEMMA DaemonInitInv == DaemonInit => DaemonInv
<1> SUFFICES ASSUME DaemonInit PROVE DaemonInv
  OBVIOUS
<1>1. DaemonTypeOK
  <2>1. \A d \in Daemons : 1 \in 1..(Len(Conf[d]) + 1)
    BY DaemonAssumption
  <2>2. <<>> \in Seq(Mounts)
    OBVIOUS
  <2>. QED  BY <2>1, <2>2, DaemonAssumption DEF DaemonInit, DaemonTypeOK, Stages, Servers
<1>2. InstanceHeld /\ ListenerRuns /\ NextIsTarget
  BY DaemonAssumption DEF DaemonInit, InstanceHeld, ListenerRuns, NextIsTarget,
     Instances, Starting
<1>3. \A d \in Daemons, t \in Dirs : ~Serves(d, t) /\ ~Done(d, t)
  BY DEF DaemonInit, Serves, Session, Done, Starting
<1>4. StackInv
  BY <1>3 DEF StackInv, OneSession, ServersHoldLocks, HolderOnTop, LocksKept, DoneIsServed,
     DaemonInit, Serves
<1>. QED  BY <1>1, <1>2, <1>4 DEF DaemonInv, LockInv

-----------------------------------------------------------------------------
(* What the kernel's operations do to a stack of mounts.                   *)

\* Mounts are taken away or die: no new session, none twice, and what is left
\* keeps its place.
Shrinks(t) ==
  /\ mounted'[t] \in Seq(Mounts)
  /\ \A d \in Daemons : Serves(d, t)' => Serves(d, t)
  /\ \A d \in Daemons : \A k, l \in DOMAIN mounted'[t] :
       Session(d, t, k)' /\ Session(d, t, l)' => k = l
  /\ \A d \in Daemons : Serves(d, t)' /\ Session(d, t, Len(mounted[t])) =>
       Session(d, t, Len(mounted[t]))'
  /\ mounted[t] = <<>> \/ OnDeadMount(t) => mounted'[t] = <<>> \/ OnDeadMount(t)'

LEMMA KeptShrinks ==
  ASSUME DaemonInv, NEW t \in Dirs, mounted'[t] = mounted[t]
  PROVE  Shrinks(t) /\ \A d \in Daemons : Serves(d, t)' <=> Serves(d, t)
<1>1. mounted[t] \in Seq(Mounts)
  BY DEF DaemonInv, LockInv, DaemonTypeOK
<1>. QED  BY <1>1 DEF Shrinks, Serves, Session, OnDeadMount, DaemonInv, StackInv, OneSession

\* fusermount -uz takes the uppermost mount away.
LEMMA UnmountShrinks ==
  ASSUME DaemonInv, NEW t \in Dirs, mounted'[t] = Unmounted(t)
  PROVE  /\ Shrinks(t)
         /\ \A d \in Daemons : Serves(d, t) /\ ~Session(d, t, Len(mounted[t])) => Serves(d, t)'
         /\ \A d \in Daemons : Session(d, t, Len(mounted[t])) => ~Serves(d, t)'
<1>1. mounted[t] \in Seq(Mounts)
  BY DEF DaemonInv, LockInv, DaemonTypeOK
<1>2. CASE mounted[t] = <<>>
  <2>1. mounted'[t] = mounted[t]
    BY <1>2 DEF Unmounted
  <2>. QED  BY <2>1, <1>2, KeptShrinks DEF Serves, Session
<1>3. CASE mounted[t] # <<>>
  <2> DEFINE n == Len(mounted[t])
  <2>1. n \in Nat /\ n > 0 /\ DOMAIN mounted[t] = 1..n
    BY <1>1, <1>3
  <2>2. /\ mounted'[t] \in Seq(Mounts) /\ Len(mounted'[t]) = n - 1
        /\ DOMAIN mounted'[t] = 1..(n - 1)
        /\ \A k \in 1..(n - 1) : mounted'[t][k] = mounted[t][k]
    BY <1>1, <1>3, <2>1 DEF Unmounted, Front
  <2>3. \A d \in Daemons : \A k \in 1..(n - 1) : Session(d, t, k)' <=> Session(d, t, k)
    BY <2>2 DEF Session
  <2>4. ASSUME NEW d \in Daemons, Session(d, t, n) PROVE ~Serves(d, t)'
    BY <2>1, <2>2, <2>3, <2>4 DEF Serves, DaemonInv, StackInv, OneSession
  <2>5. ASSUME NEW d \in Daemons, Serves(d, t), ~Session(d, t, n) PROVE Serves(d, t)'
    <3>1. PICK k \in 1..n : Session(d, t, k)
      BY <2>1, <2>5 DEF Serves
    <3>2. k \in 1..(n - 1)
      BY <3>1, <2>1, <2>5
    <3>. QED  BY <3>1, <3>2, <2>2, <2>3 DEF Serves
  <2>6. \A d \in Daemons : Serves(d, t)' => Serves(d, t)
    BY <2>1, <2>2, <2>3 DEF Serves
  <2>7. \A d \in Daemons : \A k, l \in DOMAIN mounted'[t] :
          Session(d, t, k)' /\ Session(d, t, l)' => k = l
    BY <2>1, <2>2, <2>3 DEF DaemonInv, StackInv, OneSession
  <2>8. OnDeadMount(t) => mounted'[t] = <<>> \/ OnDeadMount(t)'
    <3>1. CASE n = 1
      BY <3>1, <2>2
    <3>2. CASE n > 1
      BY <3>2, <2>1, <2>2 DEF OnDeadMount
    <3>3. n \in Nat /\ n > 0
      BY <2>1
    <3> HIDE DEF n
    <3>4. n = 1 \/ n > 1
      BY <3>3
    <3>. QED  BY <3>1, <3>2, <3>4
  <2>9. Shrinks(t)
    BY <1>3, <2>2, <2>4, <2>6, <2>7, <2>8 DEF Shrinks
  <2>. QED  BY <2>4, <2>5, <2>9
<1>. QED  BY <1>2, <1>3

\* The sessions of a daemon that ends leave the stacks.
LEMMA DropShrinks ==
  ASSUME DaemonInv, NEW f \in Daemons, NEW t \in Dirs, mounted' = MountsDropped(f)
  PROVE  /\ Shrinks(t)
         /\ ~Serves(f, t)'
         /\ \A d \in Daemons \ {f} : Serves(d, t) => Serves(d, t)'
<1>1. mounted[t] \in Seq(Mounts)
  BY DEF DaemonInv, LockInv, DaemonTypeOK
<1>2. CASE ~Serves(f, t)
  <2>1. mounted'[t] = mounted[t]
    BY <1>2 DEF MountsDropped
  <2>. QED  BY <1>2, <2>1, KeptShrinks
<1>3. CASE Serves(f, t)
  <2> DEFINE n == Len(mounted[t])
             g == CHOOSE k \in DOMAIN mounted[t] : Session(f, t, k)
  <2>1. n \in Nat /\ n > 0 /\ DOMAIN mounted[t] = 1..n
    BY <1>1, <1>3 DEF Serves
  <2>2. g \in 1..n /\ Session(f, t, g)
    BY <1>3, <2>1 DEF Serves
  <2>3. mounted'[t] = RemoveAt(mounted[t], g)
    BY <1>3 DEF MountsDropped
  <2> HIDE DEF g
  <2>4. /\ mounted'[t] \in Seq(Mounts) /\ Len(mounted'[t]) = n - 1
        /\ \A j \in 1..(n - 1) : mounted'[t][j] = IF j < g THEN mounted[t][j] ELSE mounted[t][j + 1]
    BY <1>1, <2>2, <2>3, RemoveAtElements
  <2>5. DOMAIN mounted'[t] = 1..(n - 1)
    BY <2>4
  <2> DEFINE From(j) == IF j < g THEN j ELSE j + 1
  <2>6. /\ \A j \in 1..(n - 1) : From(j) \in 1..n /\ From(j) # g
        /\ \A j, l \in 1..(n - 1) : From(j) = From(l) => j = l
        /\ \A k \in 1..n : k # g => \E j \in 1..(n - 1) : From(j) = k
    <3>1. ASSUME NEW k \in 1..n, k # g PROVE \E j \in 1..(n - 1) : From(j) = k
      <4>1. CASE k < g
        BY <4>1, <2>1, <2>2
      <4>2. CASE k > g
        <5>1. k - 1 \in 1..(n - 1) /\ From(k - 1) = k
          BY <4>2, <2>1, <2>2
        <5>. QED  BY <5>1
      <4>. QED  BY <4>1, <4>2, <3>1, <2>1, <2>2
    <3>. QED  BY <3>1, <2>1, <2>2
  <2>7. \A d \in Daemons, j \in 1..(n - 1) : Session(d, t, j)' <=> Session(d, t, From(j))
    BY <2>1, <2>2, <2>4 DEF Session
  <2>8. \A d \in Daemons : Serves(d, t)' => \E j \in 1..(n - 1) : Session(d, t, From(j))
    BY <2>5, <2>7 DEF Serves
  <2>9. \A d \in Daemons, k, l \in 1..n : Session(d, t, k) /\ Session(d, t, l) => k = l
    BY <2>1 DEF DaemonInv, StackInv, OneSession
  <2> HIDE DEF From
  <2>10. \A d \in Daemons : Serves(d, t)' => Serves(d, t)
    BY <2>1, <2>6, <2>8 DEF Serves
  <2>11. ~Serves(f, t)'
    BY <2>2, <2>6, <2>8, <2>9
  <2>12. ASSUME NEW d \in Daemons \ {f}, Serves(d, t) PROVE Serves(d, t)'
    <3>1. PICK k \in 1..n : Session(d, t, k)
      BY <2>1, <2>12 DEF Serves
    <3>2. k # g
      BY <2>2, <3>1 DEF Session
    <3>3. PICK j \in 1..(n - 1) : From(j) = k
      BY <3>2, <2>6
    <3>. QED  BY <3>1, <3>3, <2>5, <2>7 DEF Serves
  <2>13. \A d \in Daemons : \A k, l \in DOMAIN mounted'[t] :
           Session(d, t, k)' /\ Session(d, t, l)' => k = l
    BY <2>5, <2>6, <2>7, <2>9
  <2>14. ASSUME NEW d \in Daemons, Serves(d, t)', Session(d, t, n)
         PROVE  Session(d, t, Len(mounted[t]))'
    <3>1. d # f
      BY <2>11, <2>14
    <3>2. n # g
      BY <2>2, <2>14, <3>1 DEF Session
    <3>3. n - 1 \in 1..(n - 1) /\ From(n - 1) = n
      BY <2>1, <2>2, <3>2 DEF From
    <3>. QED  BY <2>4, <2>7, <2>14, <3>3
  <2>15. OnDeadMount(t) => OnDeadMount(t)'
    <3>1. ASSUME OnDeadMount(t) PROVE g # 1
      BY <2>2, <3>1 DEF OnDeadMount, Session
    <3>2. ASSUME g # 1 PROVE mounted'[t][1] = mounted[t][1]
      BY <2>1, <2>2, <2>4, <3>2
    <3>. QED  BY <3>1, <3>2 DEF OnDeadMount
  <2>16. mounted[t] # <<>>
    BY <1>1, <2>1
  <2>17. Shrinks(t)
    BY <2>4, <2>10, <2>13, <2>14, <2>15, <2>16 DEF Shrinks
  <2>. QED  BY <2>11, <2>12, <2>17
<1>. QED  BY <1>2, <1>3

\* The mounts of a crashed daemon that AutoUnmount does not remove are dead.
LEMMA DeathShrinks ==
  ASSUME DaemonInv, NEW f \in Daemons, NEW t \in Dirs,
         mounted'[t] = [k \in DOMAIN mounted[t] |->
           IF Session(f, t, k) THEN [by |-> f, health |-> "dead"] ELSE mounted[t][k]]
  PROVE  /\ Shrinks(t)
         /\ ~Serves(f, t)'
         /\ \A d \in Daemons \ {f} : Serves(d, t) => Serves(d, t)'
<1> DEFINE n == Len(mounted[t])
<1>1. mounted[t] \in Seq(Mounts) /\ n \in Nat /\ DOMAIN mounted[t] = 1..n
  BY DEF DaemonInv, LockInv, DaemonTypeOK
<1>2. \A k \in 1..n : mounted[t][k] \in Mounts
  BY <1>1
<1>3. /\ DOMAIN mounted'[t] = 1..n
      /\ \A k \in 1..n : mounted'[t][k] = IF Session(f, t, k)
                                          THEN [by |-> f, health |-> "dead"] ELSE mounted[t][k]
  BY <1>1
<1>4. mounted'[t] \in Seq(Mounts) /\ Len(mounted'[t]) = n
  <2>1. \A k \in 1..n : mounted'[t][k] \in Mounts
    BY <1>2, <1>3 DEF Mounts
  <2>2. mounted'[t] \in [1..n -> Mounts]
    BY <1>1, <2>1
  <2>3. mounted'[t] \in Seq(Mounts)
    BY <1>1, <2>2, SeqDef
  <2>. QED  BY <1>1, <1>3, <2>3, LenProperties
<1>5. \A d \in Daemons, k \in 1..n : Session(d, t, k)' <=> Session(d, t, k) /\ d # f
  BY <1>3 DEF Session
<1>6. OnDeadMount(t) /\ mounted[t] # <<>> => OnDeadMount(t)'
  <2>1. ASSUME mounted[t] # <<>> PROVE 1 \in 1..n
    BY <1>1, <2>1
  <2>2. ASSUME OnDeadMount(t) PROVE ~Session(f, t, 1)
    BY <2>2 DEF OnDeadMount, Session
  <2>. QED  BY <1>3, <2>1, <2>2 DEF OnDeadMount
<1>7. mounted[t] = <<>> => mounted'[t] = <<>>
  BY <1>1, <1>4
<1>8. \A d \in Daemons : Serves(d, t)' <=> Serves(d, t) /\ d # f
  BY <1>1, <1>3, <1>5 DEF Serves
<1>9. \A d \in Daemons : \A k, l \in DOMAIN mounted'[t] :
        Session(d, t, k)' /\ Session(d, t, l)' => k = l
  BY <1>1, <1>3, <1>5 DEF DaemonInv, StackInv, OneSession
<1>10. ASSUME NEW d \in Daemons, Serves(d, t)', Session(d, t, n)
       PROVE  Session(d, t, Len(mounted[t]))'
  <2>1. n \in 1..n
    BY <1>1, <1>8, <1>10 DEF Serves
  <2>. QED  BY <2>1, <1>4, <1>5, <1>8, <1>10
<1>11. Shrinks(t)
  BY <1>4, <1>6, <1>7, <1>8, <1>9, <1>10 DEF Shrinks
<1>. QED  BY <1>8, <1>11

-----------------------------------------------------------------------------
(* LockInv is preserved.                                                   *)

\* The target a daemon is about to treat.
LEMMA TargetIsDir ==
  ASSUME DaemonInv, NEW d \in Daemons, stage[d] \in Starting \cup {"unmount"}
  PROVE  Target(d) \in Dirs /\ next[d] \in 1..Len(Conf[d]) /\ Len(Conf[d]) \in Nat
<1>1. Conf[d] \in Seq(Dirs) /\ next[d] \in DOMAIN Conf[d]
  BY DaemonAssumption DEF DaemonInv, LockInv, NextIsTarget
<1>. QED  BY <1>1, ElementOfSeq, LenProperties DEF Target

\* Steps that move a daemon only within run_daemon, and touch neither its
\* instance's lock nor its tasks.
LEMMA MoveKeepsLockInv ==
  ASSUME DaemonInv, NEW d \in Daemons, NEW s \in Stages \ {"down", "validate", "exiting"}, NEW m,
         stage[d] \notin {"down", "exiting"}, Go(d, s),
         next' = [next EXCEPT ![d] = m], m \in 1..(Len(Conf[d]) + 1),
         s \in Starting \cup {"up", "unmount"} => Distinct(Conf[d]),
         s \in Starting \cup {"unmount"} => m \in DOMAIN Conf[d],
         targetLock' \in [Dirs -> {e \in Daemons : stage'[e] \notin Unlocked} \cup {Nobody}],
         mounted' \in [Dirs -> Seq(Mounts)],
         UNCHANGED <<instanceLock, socket, server, busy, crashes>>
  PROVE  LockInv'
<1>1. stage' = [stage EXCEPT ![d] = s] /\ stage' \in [Daemons -> Stages]
  BY DEF Go, DaemonInv, LockInv, DaemonTypeOK
<1>2. \A e \in Daemons : next'[e] = IF e = d THEN m ELSE next[e]
  BY DEF DaemonInv, LockInv, DaemonTypeOK
<1>3. DaemonTypeOK'
  <2>1. \A e \in Daemons : next'[e] \in 1..(Len(Conf[e]) + 1)
    BY <1>2 DEF DaemonInv, LockInv, DaemonTypeOK
  <2>2. next' \in [Daemons -> Nat]
    BY DaemonAssumption, LenProperties DEF DaemonInv, LockInv, DaemonTypeOK
  <2>. QED  BY <1>1, <2>1, <2>2 DEF DaemonInv, LockInv, DaemonTypeOK
<1>4. \A e \in Daemons : stage'[e] = IF e = d THEN s ELSE stage[e]
  BY <1>1 DEF DaemonInv, LockInv, DaemonTypeOK
<1>5. InstanceHeld' /\ ListenerRuns'
  BY <1>4 DEF DaemonInv, LockInv, InstanceHeld, ListenerRuns
<1>6. NextIsTarget'
  BY <1>2, <1>4 DEF DaemonInv, LockInv, NextIsTarget
<1>. QED  BY <1>3, <1>5, <1>6 DEF LockInv

\* run_daemon returns, or the process ends.
LEMMA LeaveKeepsLockInv ==
  ASSUME DaemonInv, NEW d \in Daemons, NEW s \in {"down", "exiting"}, stage[d] # "down", Go(d, s),
         instanceLock' = FreedOf(instanceLock, d) \/ (stage[d] = "exiting" /\ UNCHANGED instanceLock),
         \/ s = "exiting" /\ UNCHANGED <<socket, server>>
         \/ socket' = SocketLeft(d) /\ server' = [server EXCEPT ![d] = "none"],
         targetLock' \in [Dirs -> (Daemons \ {d}) \cup {Nobody}],
         \A t \in Dirs : targetLock'[t] \in {targetLock[t], Nobody},
         mounted' \in [Dirs -> Seq(Mounts)], busy' \in [Daemons -> BOOLEAN],
         crashes' \in 0..MaxCrashes, UNCHANGED next
  PROVE  LockInv'
<1>1. stage' = [stage EXCEPT ![d] = s] /\ stage' \in [Daemons -> Stages]
  BY DEF Go, DaemonInv, LockInv, DaemonTypeOK, Stages
<1>2. \A e \in Daemons : stage'[e] = IF e = d THEN s ELSE stage[e]
  BY <1>1 DEF DaemonInv, LockInv, DaemonTypeOK
<1>3. /\ instanceLock' \in [Instances -> Daemons \cup {Nobody}]
      /\ \A e \in Daemons : instanceLock'[Instance[e]] = e <=> instanceLock[Instance[e]] = e /\ e # d
  <2>1. \A e \in Daemons : Instance[e] \in Instances
    BY DEF Instances
  <2>2. CASE instanceLock' = FreedOf(instanceLock, d)
    BY <2>1, <2>2, DaemonAssumption DEF FreedOf, DaemonInv, LockInv, DaemonTypeOK
  <2>3. CASE stage[d] = "exiting" /\ UNCHANGED instanceLock
    BY <2>3 DEF DaemonInv, LockInv, DaemonTypeOK, InstanceHeld
  <2>. QED  BY <2>2, <2>3
<1>4. targetLock' \in [Dirs -> {e \in Daemons : stage'[e] \notin Unlocked} \cup {Nobody}]
  <2>1. ASSUME NEW t \in Dirs
        PROVE  targetLock'[t] \in {e \in Daemons : stage'[e] \notin Unlocked} \cup {Nobody}
    BY <1>2 DEF DaemonInv, LockInv, DaemonTypeOK
  <2>. QED  BY <2>1
<1>5. InstanceHeld'
  <2>1. \A e \in Daemons : stage[e] \notin {"down", "exiting"} <=> instanceLock[Instance[e]] = e
    BY DEF DaemonInv, LockInv, InstanceHeld
  <2>. QED  BY <1>2, <1>3, <2>1 DEF InstanceHeld
<1>6. NextIsTarget'
  BY <1>2 DEF DaemonInv, LockInv, NextIsTarget, Starting
<1>7. /\ socket' \in [Instances -> Daemons \cup {Nobody, "stale"}] /\ server' \in [Daemons -> Servers]
      /\ ListenerRuns'
  <2>1. CASE s = "exiting" /\ UNCHANGED <<socket, server>>
    BY <1>2, <2>1 DEF DaemonInv, LockInv, DaemonTypeOK, ListenerRuns
  <2>2. CASE socket' = SocketLeft(d) /\ server' = [server EXCEPT ![d] = "none"]
    <3>1. /\ socket' \in [Instances -> Daemons \cup {Nobody, "stale"}]
          /\ \A i \in Instances : socket'[i] = IF socket[i] = d THEN "stale" ELSE socket[i]
      BY <2>2 DEF SocketLeft, DaemonInv, LockInv, DaemonTypeOK
    <3>2. /\ server' \in [Daemons -> Servers]
          /\ \A e \in Daemons : server'[e] = IF e = d THEN "none" ELSE server[e]
      BY <2>2 DEF DaemonInv, LockInv, DaemonTypeOK, Servers
    <3>3. \A e \in Daemons : server'[e] # "none" => stage'[e] # "down"
      BY <1>2, <3>2 DEF DaemonInv, LockInv, ListenerRuns
    <3>4. ASSUME NEW i \in Instances, socket'[i] \in Daemons
          PROVE  Instance[socket'[i]] = i /\ server'[socket'[i]] \in {"serving", "closing"}
      <4>1. socket'[i] = socket[i] /\ socket[i] # d
        BY <3>1, <3>4, DaemonAssumption
      <4>. QED  BY <3>2, <3>4, <4>1 DEF DaemonInv, LockInv, ListenerRuns
    <3>. QED  BY <3>1, <3>2, <3>3, <3>4 DEF ListenerRuns
  <2>. QED  BY <2>1, <2>2
<1>8. DaemonTypeOK'
  BY <1>1, <1>3, <1>4, <1>7 DEF DaemonInv, LockInv, DaemonTypeOK
<1>. QED  BY <1>5, <1>6, <1>7, <1>8 DEF LockInv

\* A step of the background tasks.
LEMMA TaskKeepsInv ==
  ASSUME DaemonInv, UNCHANGED <<stage, next, instanceLock, targetLock, mounted, crashes>>,
         server' \in [Daemons -> Servers], busy' \in [Daemons -> BOOLEAN],
         \A e \in Daemons : server'[e] # "none" => stage[e] # "down",
         socket' \in [Instances -> Daemons \cup {Nobody, "stale"}],
         \A i \in Instances : socket'[i] \in Daemons =>
           Instance[socket'[i]] = i /\ server'[socket'[i]] \in {"serving", "closing"}
  PROVE  DaemonInv'
<1>1. DaemonTypeOK' /\ ListenerRuns'
  BY DEF DaemonInv, LockInv, DaemonTypeOK, ListenerRuns
<1>2. InstanceHeld' /\ NextIsTarget'
  BY DEF DaemonInv, LockInv, InstanceHeld, NextIsTarget
<1>3. StackInv'
  BY DEF DaemonInv, StackInv, OneSession, ServersHoldLocks, HolderOnTop, LocksKept,
     DoneIsServed, Done, Serves, Session, Target, OnDeadMount
<1>. QED  BY <1>1, <1>2, <1>3 DEF DaemonInv, LockInv

-----------------------------------------------------------------------------
(* StackInv is preserved, by the kind of step.                             *)

\* Done only looks at the daemon's own stage and place.
LEMMA DoneKept ==
  ASSUME NEW d, NEW t, stage'[d] = stage[d], next'[d] = next[d]
  PROVE  Done(d, t)' <=> Done(d, t)
  BY DEF Done

\* A step of one daemon that leaves mounts and target locks alone.
LEMMA MoveKeepsStackInv ==
  ASSUME DaemonInv, NEW d \in Daemons,
         \A e \in Daemons \ {d} : stage'[e] = stage[e] /\ next'[e] = next[e],
         mounted' = mounted, targetLock' = targetLock,
         \A t \in Dirs : Done(d, t)' => Done(d, t),
         stage'[d] \in Starting => \A t \in Dirs : Serves(d, t) => Done(d, t)',
         stage'[d] \in Bare => stage[d] \in Bare,
         stage[d] \in Failing => stage'[d] \in Failing,
         stage'[d] # "mount"
  PROVE  StackInv'
<1>1. \A e \in Daemons \ {d}, t \in Dirs : Done(e, t)' <=> Done(e, t)
  BY DoneKept
<1>2. \A e \in Daemons, t \in Dirs : Serves(e, t)' <=> Serves(e, t)
  BY DEF Serves, Session
<1>3. OneSession'
  BY DEF DaemonInv, StackInv, OneSession, Session
<1>4. ServersHoldLocks'
  BY <1>1, <1>2 DEF DaemonInv, StackInv, ServersHoldLocks
<1>5. HolderOnTop'
  BY <1>2 DEF DaemonInv, StackInv, HolderOnTop, Session
<1>6. LocksKept'
  BY DEF DaemonInv, StackInv, LocksKept, Target
<1>7. DoneIsServed'
  BY <1>1, <1>2 DEF DaemonInv, StackInv, DoneIsServed, OnDeadMount
<1>. QED  BY <1>3, <1>4, <1>5, <1>6, <1>7 DEF StackInv

\* A daemon gives up locks or sessions: with the last ones it serves nothing.
LEMMA LeaveKeepsStackInv ==
  ASSUME DaemonInv, NEW d \in Daemons, stage'[d] \in Bare \cup {"unlocked"},
         \A e \in Daemons \ {d} : stage'[e] = stage[e] /\ next'[e] = next[e],
         \A t \in Dirs : targetLock'[t] = targetLock[t] \/ (targetLock[t] = d /\ targetLock'[t] = Nobody),
         \A t \in Dirs : /\ Shrinks(t) /\ (stage'[d] \in Bare => ~Serves(d, t)')
                         /\ \A e \in Daemons \ {d} : Serves(e, t) => Serves(e, t)'
  PROVE  StackInv'
<1>1. \A e \in Daemons \ {d}, t \in Dirs : Done(e, t)' <=> Done(e, t)
  BY DoneKept
<1>2. \A t \in Dirs : ~Done(d, t)'
  BY DEF Done, Starting, Bare
<1>3. OneSession'
  BY DEF Shrinks, OneSession
<1>4. ServersHoldLocks'
  BY <1>1 DEF DaemonInv, StackInv, ServersHoldLocks, Shrinks, Bare, Failing, Starting
<1>5. HolderOnTop'
  BY DaemonAssumption DEF DaemonInv, StackInv, HolderOnTop, Shrinks
<1>6. LocksKept'
  <2>1. ASSUME NEW e \in Daemons, stage'[e] = "mount"
        PROVE  targetLock'[Target(e)'] = e
    <3>1. e # d /\ stage[e] = "mount" /\ Target(e)' = Target(e)
      BY <2>1 DEF Target, Bare
    <3>2. targetLock[Target(e)] = e /\ Target(e) \in Dirs
      BY <3>1, TargetIsDir DEF DaemonInv, StackInv, LocksKept, Starting
    <3>. QED  BY <3>1, <3>2
  <2>. QED  BY <2>1 DEF LocksKept
<1>7. DoneIsServed'
  <2>1. ASSUME NEW e \in Daemons, NEW t \in Dirs, Done(e, t)'
        PROVE  /\ targetLock'[t] = e
               /\ Serves(e, t)' \/ mounted'[t] = <<>> \/ OnDeadMount(t)'
    <3>1. e # d /\ Done(e, t)
      BY <1>1, <1>2, <2>1
    <3>. QED  BY <3>1 DEF DaemonInv, StackInv, DoneIsServed, Shrinks
  <2>. QED  BY <2>1 DEF DoneIsServed
<1>. QED  BY <1>3, <1>4, <1>5, <1>6, <1>7 DEF StackInv

-----------------------------------------------------------------------------
(* Every action preserves the invariant.                                   *)

\* What a step of the run does to the stages of the daemons.
LEMMA GoOnly ==
  ASSUME DaemonInv, NEW d \in Daemons, NEW s, Go(d, s)
  PROVE  stage'[d] = s /\ \A e \in Daemons \ {d} : stage'[e] = stage[e]
  BY DEF Go, DaemonInv, LockInv, DaemonTypeOK

\* Locks whose holders keep them.
LEMMA RunningHolders ==
  ASSUME DaemonInv, \A e \in Daemons : stage[e] \notin Unlocked => stage'[e] \notin Unlocked
  PROVE  targetLock \in [Dirs -> {e \in Daemons : stage'[e] \notin Unlocked} \cup {Nobody}]
  BY DEF DaemonInv, LockInv, DaemonTypeOK

LEMMA StartInv ==
  ASSUME DaemonInv, NEW d \in Daemons, Start(d)
  PROVE  DaemonInv'
<1> USE DEF Start
<1>1. /\ stage'[d] = "validate" /\ stage[d] = "down"
      /\ \A e \in Daemons \ {d} : stage'[e] = stage[e]
  BY GoOnly
<1>2. next'[d] = 1 /\ \A e \in Daemons \ {d} : next'[e] = next[e]
  BY DEF DaemonInv, LockInv, DaemonTypeOK
<1>3. Instance[d] \in Instances /\ \A e \in Daemons : Instance[e] \in Instances
  BY DEF Instances
<1>4. DaemonTypeOK'
  <2>1. targetLock \in [Dirs -> {e \in Daemons : stage'[e] \notin Unlocked} \cup {Nobody}]
    BY <1>1, RunningHolders DEF Unlocked
  <2>2. stage' \in [Daemons -> Stages]
    BY DEF Go, Stages, DaemonInv, LockInv, DaemonTypeOK
  <2>3. instanceLock' \in [Instances -> Daemons \cup {Nobody}]
    BY <1>3 DEF DaemonInv, LockInv, DaemonTypeOK
  <2>4. \A e \in Daemons : next'[e] \in 1..(Len(Conf[e]) + 1)
    BY <1>2, DaemonAssumption, LenProperties DEF DaemonInv, LockInv, DaemonTypeOK
  <2>5. next' \in [Daemons -> Nat]
    BY DEF DaemonInv, LockInv, DaemonTypeOK
  <2>. QED  BY <2>1, <2>2, <2>3, <2>4, <2>5 DEF DaemonInv, LockInv, DaemonTypeOK
<1>5. InstanceHeld'
  <2>1. ASSUME NEW e \in Daemons
        PROVE  stage'[e] \notin {"down", "exiting"} <=> instanceLock'[Instance[e]] = e
    <3>1. instanceLock'[Instance[e]] = IF Instance[e] = Instance[d] THEN d ELSE instanceLock[Instance[e]]
      BY <1>3 DEF DaemonInv, LockInv, DaemonTypeOK
    <3>2. stage[e] \notin {"down", "exiting"} <=> instanceLock[Instance[e]] = e
      BY DEF DaemonInv, LockInv, InstanceHeld
    <3>. QED  BY <1>1, <3>1, <3>2, DaemonAssumption DEF LockFree
  <2>. QED  BY <2>1 DEF InstanceHeld
<1>6. ListenerRuns'
  BY <1>1 DEF DaemonInv, LockInv, ListenerRuns
<1>7. NextIsTarget'
  BY <1>1, <1>2 DEF DaemonInv, LockInv, NextIsTarget, Starting
<1>8. StackInv'
  <2>1. \A t \in Dirs : ~Done(d, t)'
    BY <1>1 DEF Done, Starting
  <2>. QED  BY <2>1, <1>1, <1>2, MoveKeepsStackInv DEF Starting, Failing, Bare
<1>. QED  BY <1>4, <1>5, <1>6, <1>7, <1>8 DEF DaemonInv, LockInv

\* A daemon without target locks leaves run_daemon.
LEMMA LeavesUnlocked ==
  ASSUME DaemonInv, NEW d \in Daemons, stage[d] \in Unlocked \ {"down"}, Go(d, "exiting"),
         instanceLock' = FreedOf(instanceLock, d),
         UNCHANGED <<next, targetLock, mounted, socket, server, busy, crashes>>
  PROVE  LockInv'
<1>1. \A t \in Dirs : targetLock[t] # d
  BY DaemonAssumption DEF DaemonInv, LockInv, DaemonTypeOK
<1>2. /\ targetLock' \in [Dirs -> (Daemons \ {d}) \cup {Nobody}]
      /\ mounted' \in [Dirs -> Seq(Mounts)] /\ busy' \in [Daemons -> BOOLEAN]
      /\ crashes' \in 0..MaxCrashes
  BY <1>1 DEF DaemonInv, LockInv, DaemonTypeOK
<1>. QED  BY <1>2, LeaveKeepsLockInv

LEMMA ValidateInv ==
  ASSUME DaemonInv, NEW d \in Daemons, Validate(d)
  PROVE  DaemonInv'
<1>1. /\ stage[d] = "validate" /\ next[d] = 1
      /\ UNCHANGED <<next, targetLock, mounted, socket, server, busy, crashes>>
  BY DEF Validate, DaemonInv, LockInv, NextIsTarget
<1>2. \A t \in Dirs : ~Serves(d, t)
  BY <1>1 DEF DaemonInv, StackInv, ServersHoldLocks, Bare
<1>3. CASE Valid(d) /\ Go(d, "clean") /\ UNCHANGED instanceLock
  <2>1. stage'[d] = "clean" /\ \A e \in Daemons \ {d} : stage'[e] = stage[e] /\ next'[e] = next[e]
    BY <1>1, <1>3, GoOnly
  <2>2. LockInv'
    <3>1. next' = [next EXCEPT ![d] = 1] /\ mounted' \in [Dirs -> Seq(Mounts)]
      BY <1>1 DEF DaemonInv, LockInv, DaemonTypeOK
    <3>2. 1 \in 1..(Len(Conf[d]) + 1)
      BY DaemonAssumption, LenProperties
    <3>3. Distinct(Conf[d]) /\ 1 \in DOMAIN Conf[d]
      <4>1. Conf[d] \in Seq(Dirs)
        BY DaemonAssumption
      <4>2. Conf[d] # <<>> => Len(Conf[d]) > 0 /\ DOMAIN Conf[d] = 1..Len(Conf[d])
        BY <4>1
      <4>. QED  BY <1>3, <4>2 DEF Valid, Distinct
    <3>4. targetLock' \in [Dirs -> {e \in Daemons : stage'[e] \notin Unlocked} \cup {Nobody}]
      BY <1>1, <2>1, RunningHolders DEF Unlocked
    <3>5. "clean" \in Stages \ {"down", "validate", "exiting"}
      BY DEF Stages
    <3>. QED  BY <1>1, <1>3, <3>1, <3>2, <3>3, <3>4, <3>5, MoveKeepsLockInv
  <2>3. StackInv'
    <3>1. \A t \in Dirs : ~Done(d, t)'
      BY <1>1, <2>1, DaemonAssumption, LenProperties DEF Done, Starting
    <3>. QED  BY <1>1, <1>2, <2>1, <3>1, MoveKeepsStackInv DEF Failing, Bare
  <2>. QED  BY <2>2, <2>3 DEF DaemonInv
<1>4. CASE Go(d, "exiting") /\ instanceLock' = FreedOf(instanceLock, d)
  <2>1. stage'[d] = "exiting" /\ \A e \in Daemons \ {d} : stage'[e] = stage[e] /\ next'[e] = next[e]
    BY <1>1, <1>4, GoOnly
  <2>2. \A t \in Dirs : Shrinks(t) /\ \A e \in Daemons : Serves(e, t)' <=> Serves(e, t)
    BY <1>1, KeptShrinks
  <2>3. StackInv'
    BY <1>1, <1>2, <2>1, <2>2, LeaveKeepsStackInv DEF Bare
  <2>4. LockInv'
    BY <1>1, <1>4, LeavesUnlocked DEF Unlocked
  <2>. QED  BY <2>3, <2>4 DEF DaemonInv
<1>. QED  BY <1>3, <1>4 DEF Validate

-----------------------------------------------------------------------------
(* The background tasks.                                                   *)

LEMMA ServerStepInv ==
  ASSUME DaemonInv, NEW d \in Daemons, Connect(d) \/ StopServing(d)
  PROVE  DaemonInv'
<1>1. PICK s \in {"bailed", "binding", "closing"} :
        /\ server' = [server EXCEPT ![d] = s] /\ (s # "closing" => server[d] = "none")
        /\ UNCHANGED <<stage, next, instanceLock, targetLock, mounted, socket, busy, crashes>>
        /\ TasksLive(d)
  BY ZenonT(30) DEF Connect, StopServing, Server
<1>2. /\ server' \in [Daemons -> Servers]
      /\ \A e \in Daemons : server'[e] = IF e = d THEN s ELSE server[e]
  BY <1>1 DEF DaemonInv, LockInv, DaemonTypeOK, Servers
<1>3. \A e \in Daemons : server'[e] # "none" => stage[e] # "down"
  BY <1>1, <1>2 DEF DaemonInv, LockInv, ListenerRuns, TasksLive
<1>4. ASSUME NEW i \in Instances, socket[i] \in Daemons
      PROVE  Instance[socket[i]] = i /\ server'[socket[i]] \in {"serving", "closing"}
  BY <1>1, <1>2, <1>4 DEF DaemonInv, LockInv, ListenerRuns
<1>5. socket' \in [Instances -> Daemons \cup {Nobody, "stale"}] /\ busy' \in [Daemons -> BOOLEAN]
  BY <1>1 DEF DaemonInv, LockInv, DaemonTypeOK
<1>. QED  BY <1>1, <1>2, <1>3, <1>4, <1>5, TaskKeepsInv

LEMMA BindInv ==
  ASSUME DaemonInv, NEW d \in Daemons, Bind(d)
  PROVE  DaemonInv'
<1> DEFINE i == Instance[d]
<1>1. /\ i \in Instances /\ stage[d] # "down"
      /\ socket' = [socket EXCEPT ![i] = d] /\ server' = [server EXCEPT ![d] = "serving"]
      /\ UNCHANGED <<stage, next, instanceLock, targetLock, mounted, busy, crashes>>
  BY DEF Bind, Server, Instances, DaemonInv, LockInv, ListenerRuns
<1>2. /\ server' \in [Daemons -> Servers]
      /\ \A e \in Daemons : server'[e] = IF e = d THEN "serving" ELSE server[e]
  BY <1>1 DEF DaemonInv, LockInv, DaemonTypeOK, Servers
<1>3. /\ socket' \in [Instances -> Daemons \cup {Nobody, "stale"}] /\ busy' \in [Daemons -> BOOLEAN]
      /\ \A j \in Instances : socket'[j] = IF j = i THEN d ELSE socket[j]
  BY <1>1 DEF DaemonInv, LockInv, DaemonTypeOK
<1>4. \A e \in Daemons : server'[e] # "none" => stage[e] # "down"
  BY <1>1, <1>2 DEF DaemonInv, LockInv, ListenerRuns
<1>5. ASSUME NEW j \in Instances, socket'[j] \in Daemons
      PROVE  Instance[socket'[j]] = j /\ server'[socket'[j]] \in {"serving", "closing"}
  BY <1>2, <1>3, <1>5 DEF DaemonInv, LockInv, ListenerRuns
<1>. QED  BY <1>1, <1>2, <1>3, <1>4, <1>5, TaskKeepsInv

\* The server ends: it has removed the socket file, or is aborted.
LEMMA ServerEndInv ==
  ASSUME DaemonInv, NEW d \in Daemons, RemoveSocket(d) \/ ServerAborted(d)
  PROVE  DaemonInv'
<1>1. /\ Instance[d] \in Instances /\ stage[d] # "down" /\ server' = [server EXCEPT ![d] = "ended"]
      /\ UNCHANGED <<stage, next, instanceLock, targetLock, mounted, busy, crashes>>
  BY DEF RemoveSocket, ServerAborted, Server, Instances, DaemonInv, LockInv, ListenerRuns
<1>2. /\ server' \in [Daemons -> Servers]
      /\ \A e \in Daemons : server'[e] = IF e = d THEN "ended" ELSE server[e]
  BY <1>1 DEF DaemonInv, LockInv, DaemonTypeOK, Servers
<1>3. /\ socket' \in [Instances -> Daemons \cup {Nobody, "stale"}] /\ busy' \in [Daemons -> BOOLEAN]
      /\ \A j \in Instances : socket'[j] \in Daemons => socket'[j] = socket[j] /\ socket[j] # d
  <2>1. CASE RemoveSocket(d)
    <3>1. \A j \in Instances : socket'[j] = IF j = Instance[d] THEN Nobody ELSE socket[j]
      BY <2>1 DEF RemoveSocket, DaemonInv, LockInv, DaemonTypeOK
    <3>2. socket' \in [Instances -> Daemons \cup {Nobody, "stale"}] /\ busy' \in [Daemons -> BOOLEAN]
      BY <2>1 DEF RemoveSocket, DaemonInv, LockInv, DaemonTypeOK
    <3>. QED  BY <3>1, <3>2, DaemonAssumption DEF DaemonInv, LockInv, ListenerRuns
  <2>2. CASE ServerAborted(d)
    <3>1. \A j \in Instances : socket'[j] = IF socket[j] = d THEN "stale" ELSE socket[j]
      BY <2>2 DEF ServerAborted, SocketLeft
    <3>2. socket' \in [Instances -> Daemons \cup {Nobody, "stale"}] /\ busy' \in [Daemons -> BOOLEAN]
      BY <2>2 DEF ServerAborted, SocketLeft, DaemonInv, LockInv, DaemonTypeOK
    <3>. QED  BY <3>1, <3>2, DaemonAssumption
  <2>. QED  BY <2>1, <2>2
<1>4. \A e \in Daemons : server'[e] # "none" => stage[e] # "down"
  BY <1>1, <1>2 DEF DaemonInv, LockInv, ListenerRuns
<1>5. ASSUME NEW j \in Instances, socket'[j] \in Daemons
      PROVE  Instance[socket'[j]] = j /\ server'[socket'[j]] \in {"serving", "closing"}
  BY <1>2, <1>3, <1>5 DEF DaemonInv, LockInv, ListenerRuns
<1>. QED  BY <1>1, <1>2, <1>3, <1>4, <1>5, TaskKeepsInv

LEMMA BlockingInv ==
  ASSUME DaemonInv, NEW d \in Daemons, BlockingBegins(d) \/ BlockingEnds(d)
  PROVE  DaemonInv'
<1>1. UNCHANGED <<stage, next, instanceLock, targetLock, mounted, socket, server, crashes>>
  BY DEF BlockingBegins, BlockingEnds
<1>2. busy' \in [Daemons -> BOOLEAN]
  BY DEF BlockingBegins, BlockingEnds, DaemonInv, LockInv, DaemonTypeOK
<1>3. /\ server' \in [Daemons -> Servers] /\ socket' \in [Instances -> Daemons \cup {Nobody, "stale"}]
      /\ \A e \in Daemons : server'[e] # "none" => stage[e] # "down"
      /\ \A i \in Instances : socket'[i] \in Daemons =>
           Instance[socket'[i]] = i /\ server'[socket'[i]] \in {"serving", "closing"}
  BY <1>1 DEF DaemonInv, LockInv, DaemonTypeOK, ListenerRuns
<1>. QED  BY <1>1, <1>2, <1>3, TaskKeepsInv

-----------------------------------------------------------------------------
(* The start, from the first target on.                                    *)

\* A target that a daemon is about to mount is not one that it has mounted.
LEMMA TargetNotDone ==
  ASSUME DaemonInv, NEW d \in Daemons, stage[d] \in Starting
  PROVE  ~Done(d, Target(d)) /\ ~Serves(d, Target(d))
<1>1. Target(d) \in Dirs /\ next[d] \in DOMAIN Conf[d] /\ Distinct(Conf[d])
  BY TargetIsDir DEF DaemonInv, LockInv, NextIsTarget
<1>2. next[d] \in Nat
  BY DEF DaemonInv, LockInv, DaemonTypeOK
<1>3. ~Done(d, Target(d))
  <2>1. SUFFICES ASSUME NEW k \in DOMAIN Conf[d], Conf[d][k] = Target(d), k < next[d]
                 PROVE  FALSE
    BY DEF Done, Starting
  <2>2. k = next[d]
    BY <1>1, <2>1 DEF Distinct, Target
  <2>. QED  BY <1>2, <2>1, <2>2
<1>. QED  BY <1>1, <1>3 DEF DaemonInv, StackInv, ServersHoldLocks

\* The name at the bottom is the daemon's own only if that mount is dead: a
\* live one would be a session of the holder of the instance lock, of its own.
LEMMA CleansDeadOnly ==
  ASSUME DaemonInv, NEW d \in Daemons, stage[d] = "clean", OwnHolder(d),
         mounted[Target(d)] # <<>>
  PROVE  OnDeadMount(Target(d))
<1> DEFINE t == Target(d)
<1>1. t \in Dirs /\ ~Serves(d, t)
  BY TargetIsDir, TargetNotDone DEF Starting
<1>2. mounted[t] \in Seq(Mounts)
  BY <1>1 DEF DaemonInv, LockInv, DaemonTypeOK
<1>3. 1 \in DOMAIN mounted[t] /\ mounted[t][1] \in Mounts
  BY <1>2
<1>4. SUFFICES ASSUME mounted[t][1].health # "dead" PROVE FALSE
  BY DEF OnDeadMount
<1> DEFINE b == mounted[t][1].by
<1>5. b \in Daemons /\ Session(b, t, 1)
  BY <1>3, <1>4 DEF Mounts, Session
<1>6. Serves(b, t) /\ stage[b] \notin {"down", "exiting"}
  BY <1>1, <1>3, <1>5 DEF Serves, DaemonInv, StackInv, ServersHoldLocks, Bare
<1>7. Instance[b] = Instance[d]
  BY DEF OwnHolder, Holder
<1>8. instanceLock[Instance[b]] = b /\ instanceLock[Instance[d]] = d
  BY <1>5, <1>6 DEF DaemonInv, LockInv, InstanceHeld
<1>. QED  BY <1>1, <1>6, <1>7, <1>8

LEMMA CleanInv ==
  ASSUME DaemonInv, NEW d \in Daemons, Clean(d)
  PROVE  DaemonInv'
<1> DEFINE t == Target(d)
<1>1. /\ stage[d] = "clean" /\ stage'[d] = "lock" /\ next' = next /\ targetLock' = targetLock
      /\ \A e \in Daemons \ {d} : stage'[e] = stage[e] /\ next'[e] = next[e]
  BY GoOnly DEF Clean
<1>2. t \in Dirs /\ ~Done(d, t) /\ ~Serves(d, t)
  BY <1>1, TargetIsDir, TargetNotDone DEF Starting
<1>3. /\ \A u \in Dirs \ {t} : mounted'[u] = mounted[u]
      /\ mounted'[t] = mounted[t] \/ (OwnHolder(d) /\ mounted'[t] = Unmounted(t))
      /\ DOMAIN mounted' = Dirs /\ mounted' = [u \in Dirs |-> mounted'[u]]
  BY <1>2 DEF Clean, Fusermount, DaemonInv, LockInv, DaemonTypeOK
<1>4. \A u \in Dirs : Shrinks(u)
  BY <1>2, <1>3, KeptShrinks, UnmountShrinks
<1>5. ASSUME NEW e \in Daemons, NEW u \in Dirs, Serves(e, u)
      PROVE  Serves(e, u)' \/ mounted'[u] = <<>> \/ OnDeadMount(u)'
  <2>1. CASE mounted'[u] = mounted[u]
    BY <1>5, <2>1, KeptShrinks
  <2>2. CASE mounted'[u] # mounted[u]
    <3>1. u = t /\ OwnHolder(d)
      BY <1>3, <2>2
    <3>2. mounted[t] # <<>>
      BY <1>5, <3>1 DEF Serves
    <3>3. OnDeadMount(t)
      BY <1>1, <3>1, <3>2, CleansDeadOnly
    <3>. QED  BY <1>4, <3>1, <3>3 DEF Shrinks
  <2>. QED  BY <2>1, <2>2
<1>6. LockInv'
  <2>1. mounted' \in [Dirs -> Seq(Mounts)]
    BY <1>3, <1>4 DEF Shrinks
  <2>2. targetLock' \in [Dirs -> {e \in Daemons : stage'[e] \notin Unlocked} \cup {Nobody}]
    BY <1>1, RunningHolders DEF Unlocked
  <2>3. next' = [next EXCEPT ![d] = next[d]] /\ next[d] \in 1..(Len(Conf[d]) + 1)
    BY <1>1 DEF DaemonInv, LockInv, DaemonTypeOK
  <2>4. Distinct(Conf[d]) /\ next[d] \in DOMAIN Conf[d]
    BY <1>1 DEF DaemonInv, LockInv, NextIsTarget, Starting
  <2>5. Go(d, "lock") /\ UNCHANGED <<instanceLock, socket, server, busy, crashes>>
    BY DEF Clean
  <2>6. "lock" \in Stages \ {"down", "validate", "exiting"}
    BY DEF Stages
  <2>. QED  BY <1>1, <2>1, <2>2, <2>3, <2>4, <2>5, <2>6, MoveKeepsLockInv
<1>7. StackInv'
  <2>1. \A e \in Daemons, u \in Dirs : Done(e, u)' <=> Done(e, u)
    <3>1. \A u \in Dirs : Done(d, u)' <=> Done(d, u)
      BY <1>1 DEF Done, Starting
    <3>. QED  BY <1>1, <3>1, DoneKept
  <2>2. OneSession'
    BY <1>4 DEF Shrinks, OneSession
  <2>3. ServersHoldLocks'
    BY <1>1, <1>4, <2>1 DEF DaemonInv, StackInv, ServersHoldLocks, Shrinks, Starting, Failing, Bare
  <2>4. HolderOnTop'
    BY <1>1, <1>4 DEF DaemonInv, StackInv, HolderOnTop, Shrinks
  <2>5. LocksKept'
    BY <1>1 DEF DaemonInv, StackInv, LocksKept, Target
  <2>6. DoneIsServed'
    BY <1>1, <1>4, <1>5, <2>1 DEF DaemonInv, StackInv, DoneIsServed, Shrinks
  <2>. QED  BY <2>2, <2>3, <2>4, <2>5, <2>6 DEF StackInv
<1>. QED  BY <1>6, <1>7 DEF DaemonInv

LEMMA LockTargetInv ==
  ASSUME DaemonInv, NEW d \in Daemons, LockTarget(d)
  PROVE  DaemonInv'
<1> DEFINE t == Target(d)
<1>1. /\ stage[d] = "lock" /\ UNCHANGED <<next, instanceLock, mounted, socket, server, busy, crashes>>
      /\ t \in Dirs /\ ~Done(d, t) /\ ~Serves(d, t) /\ Distinct(Conf[d]) /\ next[d] \in DOMAIN Conf[d]
      /\ next[d] \in 1..(Len(Conf[d]) + 1)
  BY TargetIsDir, TargetNotDone
     DEF LockTarget, Starting, DaemonInv, LockInv, NextIsTarget, DaemonTypeOK
<1>2. /\ next' = [next EXCEPT ![d] = next[d]] /\ mounted' \in [Dirs -> Seq(Mounts)]
  BY <1>1 DEF DaemonInv, LockInv, DaemonTypeOK
<1>3. CASE TargetFree(d)
  <2>1. /\ targetLock' = [targetLock EXCEPT ![t] = d] /\ Go(d, "mount") /\ targetLock[t] = Nobody
    BY <1>3 DEF LockTarget, TargetFree
  <2>2. stage'[d] = "mount" /\ \A e \in Daemons \ {d} : stage'[e] = stage[e]
    BY <2>1, GoOnly
  <2>3. \A u \in Dirs : targetLock'[u] = IF u = t THEN d ELSE targetLock[u]
    BY <1>1, <2>1 DEF DaemonInv, LockInv, DaemonTypeOK
  <2>4. LockInv'
    <3>1. targetLock' \in [Dirs -> {e \in Daemons : stage'[e] \notin Unlocked} \cup {Nobody}]
      BY <1>1, <2>1, <2>2, RunningHolders DEF Unlocked
    <3>2. "mount" \in Stages \ {"down", "validate", "exiting"}
      BY DEF Stages
    <3>. QED  BY <1>1, <1>2, <2>1, <3>1, <3>2, MoveKeepsLockInv
  <2>5. \A e \in Daemons, u \in Dirs : Done(e, u)' <=> Done(e, u)
    <3>1. \A u \in Dirs : Done(d, u)' <=> Done(d, u)
      BY <1>1, <2>2 DEF Done, Starting
    <3>. QED  BY <1>1, <2>2, <3>1, DoneKept
  <2>6. \A e \in Daemons, u \in Dirs : Serves(e, u)' <=> Serves(e, u)
    BY <1>1 DEF Serves, Session
  <2>7. OneSession'
    BY <1>1 DEF DaemonInv, StackInv, OneSession, Session
  <2>8. ServersHoldLocks'
    BY <1>1, <2>1, <2>2, <2>3, <2>5, <2>6, DaemonAssumption
       DEF DaemonInv, StackInv, ServersHoldLocks, Starting, Failing, Bare
  <2>9. HolderOnTop'
    BY <1>1, <2>3, <2>6 DEF DaemonInv, StackInv, HolderOnTop, Session
  <2>10. LocksKept'
    <3>1. \A e \in Daemons : Target(e)' = Target(e)
      BY <1>1 DEF Target
    <3>2. ASSUME NEW e \in Daemons, stage'[e] = "mount" PROVE targetLock'[Target(e)'] = e
      <4>1. CASE e = d
        BY <4>1, <1>1, <2>3, <3>1
      <4>2. CASE e # d
        <5>1. stage[e] = "mount"
          BY <2>2, <3>2, <4>2
        <5>2. targetLock[Target(e)] = e /\ Target(e) \in Dirs
          BY <5>1, TargetIsDir DEF DaemonInv, StackInv, LocksKept, Starting
        <5>. QED  BY <2>1, <2>3, <3>1, <5>2, DaemonAssumption
      <4>. QED  BY <4>1, <4>2
    <3>. QED  BY <3>2 DEF LocksKept
  <2>11. DoneIsServed'
    <3>1. ASSUME NEW e \in Daemons, NEW u \in Dirs, Done(e, u)'
          PROVE  /\ targetLock'[u] = e
                 /\ Serves(e, u)' \/ mounted'[u] = <<>> \/ OnDeadMount(u)'
      <4>1. targetLock[u] = e /\ (Serves(e, u) \/ mounted[u] = <<>> \/ OnDeadMount(u))
        BY <2>5, <3>1 DEF DaemonInv, StackInv, DoneIsServed
      <4>2. u # t
        BY <2>1, <4>1, DaemonAssumption
      <4>. QED  BY <1>1, <2>3, <2>6, <4>1, <4>2 DEF OnDeadMount
    <3>. QED  BY <3>1 DEF DoneIsServed
  <2>. QED  BY <2>4, <2>7, <2>8, <2>9, <2>10, <2>11 DEF DaemonInv, StackInv
<1>4. CASE ~TargetFree(d)
  <2>1. targetLock' = targetLock /\ Go(d, "failed")
    BY <1>4 DEF LockTarget
  <2>2. stage'[d] = "failed" /\ \A e \in Daemons \ {d} : stage'[e] = stage[e]
    BY <2>1, GoOnly
  <2>3. LockInv'
    <3>1. targetLock' \in [Dirs -> {e \in Daemons : stage'[e] \notin Unlocked} \cup {Nobody}]
      BY <2>1, <2>2, RunningHolders DEF Unlocked
    <3>2. "failed" \in Stages \ {"down", "validate", "exiting"}
          /\ "failed" \notin Starting \cup {"up", "unmount"}
      BY DEF Stages, Starting
    <3>. QED  BY <1>1, <1>2, <2>1, <3>1, <3>2, MoveKeepsLockInv
  <2>4. StackInv'
    <3>1. \A u \in Dirs : ~Done(d, u)'
      BY <2>2 DEF Done, Starting
    <3>. QED  BY <1>1, <2>1, <2>2, <3>1, MoveKeepsStackInv DEF Starting, Failing, Bare
  <2>. QED  BY <2>3, <2>4 DEF DaemonInv
<1>. QED  BY <1>3, <1>4

\* A step to a stage beyond the mounts that changes only the stage.
LEMMA StageOnlyInv ==
  ASSUME DaemonInv, NEW d \in Daemons, NEW s \in {"failed", "drop"}, Go(d, s),
         stage[d] \in {"mount", "drain"}, s # "failed" => stage[d] = "drain",
         UNCHANGED <<next, instanceLock, targetLock, mounted, socket, server, busy, crashes>>
  PROVE  DaemonInv'
<1>1. stage'[d] = s /\ \A e \in Daemons \ {d} : stage'[e] = stage[e] /\ next'[e] = next[e]
  BY GoOnly
<1>2. LockInv'
  <2>1. targetLock' \in [Dirs -> {e \in Daemons : stage'[e] \notin Unlocked} \cup {Nobody}]
    BY <1>1, RunningHolders DEF Unlocked
  <2>2. /\ next' = [next EXCEPT ![d] = next[d]] /\ next[d] \in 1..(Len(Conf[d]) + 1)
        /\ mounted' \in [Dirs -> Seq(Mounts)]
    BY DEF DaemonInv, LockInv, DaemonTypeOK
  <2>3. s \in Stages \ {"down", "validate", "exiting"} /\ s \notin Starting \cup {"up", "unmount"}
    BY DEF Stages, Starting
  <2>. QED  BY <2>1, <2>2, <2>3, MoveKeepsLockInv
<1>3. StackInv'
  <2>1. \A t \in Dirs : ~Done(d, t)'
    BY <1>1 DEF Done, Starting
  <2>. QED  BY <1>1, <2>1, MoveKeepsStackInv DEF Starting, Failing, Bare
<1>. QED  BY <1>2, <1>3 DEF DaemonInv

\* A new session lies on top of the stack.
LEMMA MountOnTop ==
  ASSUME DaemonInv, NEW d \in Daemons, NEW t \in Dirs, ~Serves(d, t),
         mounted'[t] = Append(mounted[t], [by |-> d, health |-> "live"])
  PROVE  /\ mounted'[t] \in Seq(Mounts)
         /\ \A e \in Daemons : Serves(e, t)' <=> Serves(e, t) \/ e = d
         /\ \A e \in Daemons : \A k, l \in DOMAIN mounted'[t] :
              Session(e, t, k)' /\ Session(e, t, l)' => k = l
         /\ Session(d, t, Len(mounted[t]))'
<1> DEFINE m == [by |-> d, health |-> "live"]
<1>0. mounted[t] \in Seq(Mounts)
  BY DEF DaemonInv, LockInv, DaemonTypeOK
<1>. PICK n \in Nat : n = Len(mounted[t])
  BY <1>0, LenProperties
<1>1. DOMAIN mounted[t] = 1..n /\ m \in Mounts
  BY <1>0, LenProperties DEF Mounts
<1>2. /\ mounted'[t] \in Seq(Mounts) /\ Len(mounted'[t]) = n + 1
      /\ DOMAIN mounted'[t] = 1..(n + 1)
      /\ mounted'[t][n + 1] = m /\ \A k \in 1..n : mounted'[t][k] = mounted[t][k]
  BY <1>0, <1>1, AppendProperties, LenProperties
<1>3. \A e \in Daemons : \A k \in 1..n : Session(e, t, k)' <=> Session(e, t, k)
  BY <1>2 DEF Session
<1>4. \A e \in Daemons : Session(e, t, n + 1)' <=> e = d
  BY <1>2 DEF Session
<1>5. n + 1 \in 1..(n + 1) /\ \A k \in 1..(n + 1) : k \in 1..n \/ k = n + 1
  BY <1>1
<1>6. \A k \in 1..n : k \in 1..(n + 1)
  BY <1>1
<1>7. ASSUME NEW e \in Daemons PROVE Serves(e, t)' <=> Serves(e, t) \/ e = d
  BY <1>1, <1>2, <1>3, <1>4, <1>5, <1>6 DEF Serves
<1>8. \A k \in 1..n : ~Session(d, t, k)
  BY <1>1 DEF Serves
<1>9. ASSUME NEW e \in Daemons, NEW k \in 1..(n + 1), NEW l \in 1..(n + 1),
             Session(e, t, k)', Session(e, t, l)'
      PROVE  k = l
  BY <1>1, <1>3, <1>4, <1>5, <1>8, <1>9 DEF DaemonInv, StackInv, OneSession
<1>10. Session(d, t, Len(mounted[t]))'
  BY <1>2, <1>4
<1>. QED  BY <1>2, <1>7, <1>9, <1>10

LEMMA MountInv ==
  ASSUME DaemonInv, NEW d \in Daemons, Mount(d)
  PROVE  DaemonInv'
<1> DEFINE s == IF next[d] = Len(Conf[d]) THEN "up" ELSE "clean"
<1>. PICK t \in Dirs : t = Target(d)
  BY TargetIsDir DEF Mount, Starting
<1>1. /\ stage[d] = "mount" /\ targetLock[t] = d /\ targetLock' = targetLock
      /\ ~Done(d, t) /\ ~Serves(d, t) /\ Distinct(Conf[d]) /\ next[d] \in DOMAIN Conf[d]
      /\ next[d] \in 1..Len(Conf[d]) /\ Len(Conf[d]) \in Nat /\ DOMAIN Conf[d] = 1..Len(Conf[d])
  BY TargetIsDir, TargetNotDone, DaemonAssumption, LenProperties
     DEF Mount, Starting, DaemonInv, LockInv, NextIsTarget, StackInv, LocksKept
<1>2. CASE Go(d, "failed") /\ UNCHANGED <<mounted, next>>
  BY <1>1, <1>2, StageOnlyInv DEF Mount
<1>3. CASE /\ mounted' = [mounted EXCEPT ![t] = Append(@, [by |-> d, health |-> "live"])]
           /\ next' = [next EXCEPT ![d] = @ + 1] /\ Go(d, s)
  <2>1. stage'[d] = s /\ \A e \in Daemons \ {d} : stage'[e] = stage[e]
    BY <1>3, GoOnly
  <2>2. next'[d] = next[d] + 1 /\ \A e \in Daemons \ {d} : next'[e] = next[e]
    BY <1>3 DEF DaemonInv, LockInv, DaemonTypeOK
  <2>3. /\ mounted'[t] = Append(mounted[t], [by |-> d, health |-> "live"])
        /\ \A u \in Dirs \ {t} : mounted'[u] = mounted[u]
        /\ mounted' = [u \in Dirs |-> mounted'[u]]
    BY <1>1, <1>3 DEF DaemonInv, LockInv, DaemonTypeOK
  <2>4. \A u \in Dirs \ {t} : Shrinks(u) /\ \A e \in Daemons : Serves(e, u)' <=> Serves(e, u)
    BY <2>3, KeptShrinks
  <2>5. /\ mounted'[t] \in Seq(Mounts)
        /\ \A e \in Daemons : Serves(e, t)' <=> Serves(e, t) \/ e = d
        /\ \A e \in Daemons : \A k, l \in DOMAIN mounted'[t] :
              Session(e, t, k)' /\ Session(e, t, l)' => k = l
        /\ Session(d, t, Len(mounted[t]))'
    BY <1>1, <2>3, MountOnTop
  <2>6. LockInv'
    <3>1. mounted' \in [Dirs -> Seq(Mounts)]
      BY <2>3, <2>4, <2>5 DEF Shrinks
    <3>2. targetLock' \in [Dirs -> {e \in Daemons : stage'[e] \notin Unlocked} \cup {Nobody}]
      BY <1>1, <2>1, RunningHolders DEF Unlocked
    <3>3. /\ next' = [next EXCEPT ![d] = next[d] + 1] /\ next[d] + 1 \in 1..(Len(Conf[d]) + 1)
          /\ s \in Starting \cup {"unmount"} => next[d] + 1 \in DOMAIN Conf[d]
      BY <1>1, <1>3 DEF Starting
    <3>4. s \in Stages \ {"down", "validate", "exiting"}
      BY DEF Stages
    <3>5. UNCHANGED <<instanceLock, socket, server, busy, crashes>>
      BY DEF Mount
    <3>. QED  BY <1>1, <1>3, <3>1, <3>2, <3>3, <3>4, <3>5, MoveKeepsLockInv
  <2>7. \A e \in Daemons \ {d}, u \in Dirs : Done(e, u)' <=> Done(e, u)
    BY <2>1, <2>2, DoneKept
  <2>8. ASSUME NEW u \in Dirs PROVE Done(d, u)' <=> Done(d, u) \/ u = t
    <3>1. Done(d, u) <=> \E k \in 1..Len(Conf[d]) : Conf[d][k] = u /\ k < next[d]
      BY <1>1 DEF Done, Starting
    <3>2. Done(d, u)' <=> \E k \in 1..Len(Conf[d]) : Conf[d][k] = u /\ k < next[d] + 1
      BY <1>1, <2>1, <2>2 DEF Done, Starting
    <3>3. \A k \in 1..Len(Conf[d]) : k < next[d] + 1 <=> k < next[d] \/ k = next[d]
      BY <1>1
    <3>. QED  BY <1>1, <3>1, <3>2, <3>3 DEF Target
  <2>9. OneSession'
    <3>1. ASSUME NEW e \in Daemons, NEW u \in Dirs
          PROVE  \A k, l \in DOMAIN mounted'[u] : Session(e, u, k)' /\ Session(e, u, l)' => k = l
      BY <2>4, <2>5 DEF Shrinks
    <3>. QED  BY <3>1 DEF OneSession
  <2>10. ServersHoldLocks'
    <3>1. ASSUME NEW e \in Daemons, NEW u \in Dirs, Serves(e, u)'
          PROVE  /\ stage'[e] \notin Bare
                 /\ stage'[e] \notin Failing => targetLock'[u] = e
                 /\ stage'[e] \in Starting => Done(e, u)'
      <4>1. CASE e = d
        <5>1. Serves(d, u) \/ u = t
          BY <2>4, <2>5, <3>1, <4>1
        <5>2. targetLock[u] = d /\ Done(d, u)'
          BY <1>1, <2>8, <5>1 DEF DaemonInv, StackInv, ServersHoldLocks, Starting, Failing
        <5>. QED  BY <1>1, <2>1, <4>1, <5>2 DEF Bare
      <4>2. CASE e # d
        <5>1. Serves(e, u)
          BY <2>4, <2>5, <3>1, <4>2
        <5>. QED  BY <1>1, <2>1, <2>7, <4>2, <5>1 DEF DaemonInv, StackInv, ServersHoldLocks
      <4>. QED  BY <4>1, <4>2
    <3>. QED  BY <3>1 DEF ServersHoldLocks
  <2>11. HolderOnTop'
    <3>1. ASSUME NEW e \in Daemons, NEW u \in Dirs, Serves(e, u)', targetLock'[u] = e
          PROVE  Session(e, u, Len(mounted[u]))'
      <4>1. CASE u = t
        BY <1>1, <2>5, <3>1, <4>1
      <4>2. CASE u # t
        <5>1. Serves(e, u) /\ targetLock[u] = e
          BY <1>1, <2>4, <3>1, <4>2
        <5>2. Session(e, u, Len(mounted[u]))
          BY <5>1 DEF DaemonInv, StackInv, HolderOnTop
        <5>. QED  BY <2>4, <3>1, <4>2, <5>2 DEF Shrinks
      <4>. QED  BY <4>1, <4>2
    <3>. QED  BY <3>1 DEF HolderOnTop
  <2>12. LocksKept'
    <3>1. \A e \in Daemons \ {d} : Target(e)' = Target(e)
      BY <2>2 DEF Target
    <3>. QED  BY <1>1, <2>1, <3>1 DEF DaemonInv, StackInv, LocksKept
  <2>13. DoneIsServed'
    <3>1. ASSUME NEW e \in Daemons, NEW u \in Dirs, Done(e, u)'
          PROVE  /\ targetLock'[u] = e
                 /\ Serves(e, u)' \/ mounted'[u] = <<>> \/ OnDeadMount(u)'
      <4>1. CASE u = t /\ e = d
        BY <1>1, <2>5, <4>1
      <4>2. CASE ~(u = t /\ e = d)
        <5>1. Done(e, u)
          BY <2>7, <2>8, <3>1, <4>2
        <5>2. targetLock[u] = e /\ (Serves(e, u) \/ mounted[u] = <<>> \/ OnDeadMount(u))
          BY <5>1 DEF DaemonInv, StackInv, DoneIsServed
        <5>3. u # t
          BY <1>1, <4>2, <5>2
        <5>. QED  BY <1>1, <2>4, <5>2, <5>3 DEF Shrinks
      <4>. QED  BY <4>1, <4>2
    <3>. QED  BY <3>1 DEF DoneIsServed
  <2>. QED  BY <2>6, <2>9, <2>10, <2>11, <2>12, <2>13 DEF DaemonInv, StackInv
<1>. QED  BY <1>2, <1>3 DEF Mount

-----------------------------------------------------------------------------
(* The way out of run_daemon, and of the process.                          *)

LEMMA DropTargetLocksInv ==
  ASSUME DaemonInv, NEW d \in Daemons, DropTargetLocks(d)
  PROVE  DaemonInv'
<1>1. PICK s \in {"unlocked", "released"} :
        Go(d, s) /\ stage[d] \in {"failed", "returned"} /\ (s = "released" => stage[d] = "returned")
  BY DEF DropTargetLocks
<1>2. /\ stage'[d] = s
      /\ \A e \in Daemons \ {d} : stage'[e] = stage[e] /\ next'[e] = next[e]
      /\ UNCHANGED <<next, instanceLock, mounted, socket, server, busy, crashes>>
  BY <1>1, GoOnly DEF DropTargetLocks
<1>3. /\ targetLock' \in [Dirs -> Daemons \cup {Nobody}]
      /\ \A t \in Dirs : targetLock'[t] = IF targetLock[t] = d THEN Nobody ELSE targetLock[t]
  BY DEF DropTargetLocks, FreedOf, DaemonInv, LockInv, DaemonTypeOK
<1>4. LockInv'
  <2>1. targetLock' \in [Dirs -> {e \in Daemons : stage'[e] \notin Unlocked} \cup {Nobody}]
    <3>1. \A t \in Dirs : targetLock'[t] \in {e \in Daemons : stage'[e] \notin Unlocked} \cup {Nobody}
      BY <1>2, <1>3 DEF DaemonInv, LockInv, DaemonTypeOK
    <3>. QED  BY <1>3, <3>1
  <2>2. /\ next' = [next EXCEPT ![d] = next[d]] /\ next[d] \in 1..(Len(Conf[d]) + 1)
        /\ mounted' \in [Dirs -> Seq(Mounts)]
    BY <1>2 DEF DaemonInv, LockInv, DaemonTypeOK
  <2>3. s \in Stages \ {"down", "validate", "exiting"} /\ s \notin Starting \cup {"up", "unmount"}
    BY DEF Stages, Starting
  <2>. QED  BY <1>1, <1>2, <2>1, <2>2, <2>3, MoveKeepsLockInv
<1>5. StackInv'
  <2>1. \A t \in Dirs : Shrinks(t) /\ \A e \in Daemons : Serves(e, t)' <=> Serves(e, t)
    BY <1>2, KeptShrinks
  <2>2. s = "released" => \A t \in Dirs : ~Serves(d, t)
    BY <1>1 DEF DaemonInv, StackInv, ServersHoldLocks, Bare
  <2>. QED  BY <1>2, <1>3, <2>1, <2>2, LeaveKeepsStackInv DEF Bare
<1>. QED  BY <1>4, <1>5 DEF DaemonInv

LEMMA DropMountsInv ==
  ASSUME DaemonInv, NEW d \in Daemons, DropMounts(d)
  PROVE  DaemonInv'
<1>1. PICK s \in {"returned", "released"} :
        Go(d, s) /\ stage[d] \in {"drop", "unlocked"} /\ (s = "released" => stage[d] = "unlocked")
  BY DEF DropMounts
<1>2. /\ stage'[d] = s /\ mounted' = MountsDropped(d)
      /\ \A e \in Daemons \ {d} : stage'[e] = stage[e] /\ next'[e] = next[e]
      /\ UNCHANGED <<next, instanceLock, targetLock, socket, server, busy, crashes>>
  BY <1>1, GoOnly DEF DropMounts
<1>3. \A t \in Dirs : /\ Shrinks(t) /\ ~Serves(d, t)'
                      /\ \A e \in Daemons \ {d} : Serves(e, t) => Serves(e, t)'
  BY <1>2, DropShrinks
<1>4. LockInv'
  <2>1. targetLock' \in [Dirs -> {e \in Daemons : stage'[e] \notin Unlocked} \cup {Nobody}]
    BY <1>1, <1>2, RunningHolders DEF Unlocked
  <2>2. /\ next' = [next EXCEPT ![d] = next[d]] /\ next[d] \in 1..(Len(Conf[d]) + 1)
    BY <1>2 DEF DaemonInv, LockInv, DaemonTypeOK
  <2>3. mounted' \in [Dirs -> Seq(Mounts)]
    <3>1. mounted' = [t \in Dirs |-> mounted'[t]]
      BY <1>2 DEF MountsDropped
    <3>. QED  BY <1>3, <3>1 DEF Shrinks
  <2>4. s \in Stages \ {"down", "validate", "exiting"} /\ s \notin Starting \cup {"up", "unmount"}
    BY DEF Stages, Starting
  <2>. QED  BY <1>1, <1>2, <2>1, <2>2, <2>3, <2>4, MoveKeepsLockInv
<1>5. StackInv'
  BY <1>2, <1>3, LeaveKeepsStackInv DEF Bare
<1>. QED  BY <1>4, <1>5 DEF DaemonInv

LEMMA ReleaseInstanceInv ==
  ASSUME DaemonInv, NEW d \in Daemons, ReleaseInstance(d)
  PROVE  DaemonInv'
<1>1. /\ stage[d] = "released" /\ stage'[d] = "exiting" /\ Go(d, "exiting")
      /\ \A e \in Daemons \ {d} : stage'[e] = stage[e] /\ next'[e] = next[e]
      /\ instanceLock' = FreedOf(instanceLock, d)
      /\ UNCHANGED <<next, targetLock, mounted, socket, server, busy, crashes>>
  BY GoOnly DEF ReleaseInstance
<1>2. LockInv'
  BY <1>1, LeavesUnlocked DEF Unlocked
<1>3. \A t \in Dirs : Shrinks(t) /\ \A e \in Daemons : Serves(e, t)' <=> Serves(e, t)
  BY <1>1, KeptShrinks
<1>4. \A t \in Dirs : ~Serves(d, t)
  BY <1>1 DEF DaemonInv, StackInv, ServersHoldLocks, Bare
<1>5. StackInv'
  BY <1>1, <1>3, <1>4, LeaveKeepsStackInv DEF Bare
<1>. QED  BY <1>2, <1>5 DEF DaemonInv

LEMMA ProcessEndsInv ==
  ASSUME DaemonInv, NEW d \in Daemons, ProcessEnds(d)
  PROVE  DaemonInv'
<1>1. /\ stage[d] = "exiting" /\ stage'[d] = "down" /\ Go(d, "down")
      /\ \A e \in Daemons \ {d} : stage'[e] = stage[e] /\ next'[e] = next[e]
      /\ socket' = SocketLeft(d) /\ server' = [server EXCEPT ![d] = "none"]
      /\ UNCHANGED <<next, instanceLock, targetLock, mounted, busy, crashes>>
  BY GoOnly DEF ProcessEnds, Server
<1>3. \A t \in Dirs : targetLock[t] # d
  BY <1>1, DaemonAssumption DEF DaemonInv, LockInv, DaemonTypeOK, Unlocked
<1>4. /\ targetLock' \in [Dirs -> (Daemons \ {d}) \cup {Nobody}]
      /\ mounted' \in [Dirs -> Seq(Mounts)] /\ busy' \in [Daemons -> BOOLEAN]
      /\ crashes' \in 0..MaxCrashes
  BY <1>1, <1>3 DEF DaemonInv, LockInv, DaemonTypeOK
<1>5. LockInv'
  BY <1>1, <1>4, LeaveKeepsLockInv
<1>6. \A t \in Dirs : Shrinks(t) /\ \A e \in Daemons : Serves(e, t)' <=> Serves(e, t)
  BY <1>1, KeptShrinks
<1>7. \A t \in Dirs : ~Serves(d, t)
  BY <1>1 DEF DaemonInv, StackInv, ServersHoldLocks, Bare
<1>8. StackInv'
  BY <1>1, <1>6, <1>7, LeaveKeepsStackInv DEF Bare
<1>. QED  BY <1>5, <1>8 DEF DaemonInv

LEMMA CrashInv ==
  ASSUME DaemonInv, NEW d \in Daemons, Crash(d)
  PROVE  DaemonInv'
<1>1. /\ stage[d] # "down" /\ Go(d, "down") /\ UNCHANGED next
      /\ instanceLock' = FreedOf(instanceLock, d) /\ socket' = SocketLeft(d)
      /\ server' = [server EXCEPT ![d] = "none"]
  BY DEF Crash, Server
<1>2. /\ stage'[d] = "down"
      /\ \A e \in Daemons \ {d} : stage'[e] = stage[e] /\ next'[e] = next[e]
  BY <1>1, GoOnly
<1>3. /\ DOMAIN targetLock' = Dirs /\ targetLock' = [t \in Dirs |-> targetLock'[t]]
      /\ \A t \in Dirs : targetLock'[t] = IF targetLock[t] = d THEN Nobody ELSE targetLock[t]
  BY DEF Crash, FreedOf, DaemonInv, LockInv, DaemonTypeOK
<1>4. /\ mounted' = [t \in Dirs |-> mounted'[t]]
      /\ \A t \in Dirs : /\ Shrinks(t) /\ ~Serves(d, t)'
                         /\ \A e \in Daemons \ {d} : Serves(e, t) => Serves(e, t)'
  <2>1. CASE mounted' = MountsDropped(d)
    <3>1. mounted' = [t \in Dirs |-> mounted'[t]]
      BY <2>1 DEF MountsDropped
    <3>. QED  BY <2>1, <3>1, DropShrinks
  <2>2. CASE mounted' = [t \in Dirs |-> [k \in DOMAIN mounted[t] |->
               IF Session(d, t, k) THEN [by |-> d, health |-> "dead"] ELSE mounted[t][k]]]
    <3>1. /\ mounted' = [t \in Dirs |-> mounted'[t]]
          /\ \A t \in Dirs : mounted'[t] = [k \in DOMAIN mounted[t] |->
               IF Session(d, t, k) THEN [by |-> d, health |-> "dead"] ELSE mounted[t][k]]
      BY <2>2
    <3>. QED  BY <3>1, DeathShrinks
  <2>. QED  BY <2>1, <2>2 DEF Crash
<1>5. LockInv'
  <2>1. mounted' \in [Dirs -> Seq(Mounts)]
    BY <1>4 DEF Shrinks
  <2>2. /\ targetLock' \in [Dirs -> (Daemons \ {d}) \cup {Nobody}]
        /\ \A t \in Dirs : targetLock'[t] \in {targetLock[t], Nobody}
    BY <1>3 DEF DaemonInv, LockInv, DaemonTypeOK
  <2>3. crashes' \in 0..MaxCrashes
    BY DaemonAssumption DEF Crash, DaemonInv, LockInv, DaemonTypeOK
  <2>4. busy' \in [Daemons -> BOOLEAN]
    BY DEF Crash, DaemonInv, LockInv, DaemonTypeOK
  <2>. QED  BY <1>1, <2>1, <2>2, <2>3, <2>4, LeaveKeepsLockInv
<1>6. StackInv'
  BY <1>2, <1>3, <1>4, LeaveKeepsStackInv DEF Bare
<1>. QED  BY <1>5, <1>6 DEF DaemonInv

-----------------------------------------------------------------------------
(* The shutdown.                                                           *)

LEMMA SignalInv ==
  ASSUME DaemonInv, NEW d \in Daemons, Signal(d)
  PROVE  DaemonInv'
<1>1. /\ stage[d] = "up" /\ stage'[d] = "unmount" /\ next'[d] = 1
      /\ \A e \in Daemons \ {d} : stage'[e] = stage[e] /\ next'[e] = next[e]
      /\ UNCHANGED <<instanceLock, targetLock, mounted, socket, server, busy, crashes>>
  BY GoOnly DEF Signal, DaemonInv, LockInv, DaemonTypeOK
<1>2. /\ Distinct(Conf[d]) /\ Conf[d] \in Seq(Dirs) /\ Len(Conf[d]) \in Nat
      /\ DOMAIN Conf[d] = 1..Len(Conf[d])
  BY <1>1, DaemonAssumption, LenProperties DEF DaemonInv, LockInv, NextIsTarget
<1>3. 1 \in DOMAIN Conf[d] /\ 1 \in 1..(Len(Conf[d]) + 1)
  BY <1>2, EmptySeq DEF Distinct
<1>4. LockInv'
  <2>1. targetLock' \in [Dirs -> {e \in Daemons : stage'[e] \notin Unlocked} \cup {Nobody}]
    BY <1>1, RunningHolders DEF Unlocked
  <2>2. next' = [next EXCEPT ![d] = 1] /\ mounted' \in [Dirs -> Seq(Mounts)]
    BY <1>1 DEF Signal, DaemonInv, LockInv, DaemonTypeOK
  <2>3. "unmount" \in Stages \ {"down", "validate", "exiting"}
    BY DEF Stages
  <2>4. Go(d, "unmount")
    BY DEF Signal
  <2>. QED  BY <1>1, <1>2, <1>3, <2>1, <2>2, <2>3, <2>4, MoveKeepsLockInv
<1>5. StackInv'
  <2>1. \A t \in Dirs : Done(d, t)' => Done(d, t)
    BY <1>1 DEF Done, Starting
  <2>. QED  BY <1>1, <2>1, MoveKeepsStackInv DEF Starting, Failing, Bare
<1>. QED  BY <1>4, <1>5 DEF DaemonInv

LEMMA LazyUnmountInv ==
  ASSUME DaemonInv, NEW d \in Daemons, LazyUnmount(d)
  PROVE  DaemonInv'
<1> DEFINE s == IF next[d] = Len(Conf[d]) THEN "drain" ELSE "unmount"
<1>. PICK t \in Dirs : t = Target(d)
  BY TargetIsDir DEF LazyUnmount
<1>1. /\ stage[d] = "unmount" /\ targetLock' = targetLock /\ stage'[d] = s
      /\ \A e \in Daemons \ {d} : stage'[e] = stage[e]
  BY GoOnly DEF LazyUnmount
<1>2. /\ Distinct(Conf[d]) /\ next[d] \in 1..Len(Conf[d]) /\ Len(Conf[d]) \in Nat
      /\ DOMAIN Conf[d] = 1..Len(Conf[d])
  BY <1>1, TargetIsDir, DaemonAssumption, LenProperties
     DEF DaemonInv, LockInv, NextIsTarget
<1>3. next'[d] = next[d] + 1 /\ \A e \in Daemons \ {d} : next'[e] = next[e]
  BY DEF LazyUnmount, DaemonInv, LockInv, DaemonTypeOK
<1>4. /\ mounted'[t] \in {Unmounted(t), mounted[t]}
      /\ \A u \in Dirs \ {t} : mounted'[u] = mounted[u]
      /\ mounted' = [u \in Dirs |-> mounted'[u]]
  BY DEF LazyUnmount, Fusermount, DaemonInv, LockInv, DaemonTypeOK
<1>5. \A u \in Dirs : Shrinks(u)
  BY <1>4, KeptShrinks, UnmountShrinks
<1>6. LockInv'
  <2>1. mounted' \in [Dirs -> Seq(Mounts)]
    BY <1>4, <1>5 DEF Shrinks
  <2>2. targetLock' \in [Dirs -> {e \in Daemons : stage'[e] \notin Unlocked} \cup {Nobody}]
    BY <1>1, RunningHolders DEF Unlocked
  <2>3. /\ next' = [next EXCEPT ![d] = next[d] + 1] /\ next[d] + 1 \in 1..(Len(Conf[d]) + 1)
        /\ s \in Starting \cup {"unmount"} => next[d] + 1 \in DOMAIN Conf[d]
    BY <1>2 DEF LazyUnmount, Starting
  <2>4. s \in Stages \ {"down", "validate", "exiting"}
    BY DEF Stages
  <2>5. Go(d, s) /\ UNCHANGED <<instanceLock, socket, server, busy, crashes>>
    BY DEF LazyUnmount
  <2>. QED  BY <1>1, <1>2, <2>1, <2>2, <2>3, <2>4, <2>5, MoveKeepsLockInv
<1>7. \A e \in Daemons \ {d}, u \in Dirs : Done(e, u)' <=> Done(e, u)
  BY <1>1, <1>3, DoneKept
<1>8. ASSUME NEW u \in Dirs, Done(d, u)' PROVE Done(d, u) /\ u # t
  <2>1. PICK k \in 1..Len(Conf[d]) : Conf[d][k] = u /\ k >= next[d] + 1
    BY <1>1, <1>2, <1>3, <1>8 DEF Done, Starting
  <2>2. k # next[d] /\ k >= next[d]
    BY <1>2, <2>1
  <2>. QED  BY <1>1, <1>2, <2>1, <2>2 DEF Done, Distinct, Target
<1>9. Done(d, t)
  <2>1. next[d] >= next[d]
    BY <1>2
  <2>. QED  BY <1>1, <1>2, <2>1 DEF Done, Target
<1>10. StackInv'
  <2>1. OneSession'
    BY <1>5 DEF Shrinks, OneSession
  <2>2. ServersHoldLocks'
    BY <1>1, <1>5, <1>7 DEF DaemonInv, StackInv, ServersHoldLocks, Shrinks, Starting, Failing, Bare
  <2>3. HolderOnTop'
    BY <1>1, <1>5 DEF DaemonInv, StackInv, HolderOnTop, Shrinks
  <2>4. LocksKept'
    <3>1. \A e \in Daemons \ {d} : Target(e)' = Target(e)
      BY <1>3 DEF Target
    <3>. QED  BY <1>1, <3>1 DEF DaemonInv, StackInv, LocksKept
  <2>5. DoneIsServed'
    <3>1. ASSUME NEW e \in Daemons, NEW u \in Dirs, Done(e, u)'
          PROVE  /\ targetLock'[u] = e
                 /\ Serves(e, u)' \/ mounted'[u] = <<>> \/ OnDeadMount(u)'
      <4>1. Done(e, u) /\ targetLock[u] = e
        BY <1>7, <1>8, <3>1 DEF DaemonInv, StackInv, DoneIsServed
      <4>2. u # t
        BY <1>8, <1>9, <3>1, <4>1 DEF DaemonInv, StackInv, DoneIsServed
      <4>3. Serves(e, u)' <=> Serves(e, u)
        BY <1>4, <4>2, KeptShrinks
      <4>. QED  BY <1>1, <1>5, <4>1, <4>3 DEF DaemonInv, StackInv, DoneIsServed, Shrinks
    <3>. QED  BY <3>1 DEF DoneIsServed
  <2>. QED  BY <2>1, <2>2, <2>3, <2>4, <2>5 DEF StackInv
<1>. QED  BY <1>6, <1>10 DEF DaemonInv

LEMMA DaemonStepInv == DaemonInv /\ [DaemonNext]_daemonVars => DaemonInv'
<1> SUFFICES ASSUME DaemonInv, [DaemonNext]_daemonVars PROVE DaemonInv'
  OBVIOUS
<1>1. CASE UNCHANGED daemonVars
  BY <1>1 DEF daemonVars, DaemonInv, LockInv, StackInv, DaemonTypeOK, InstanceHeld, ListenerRuns,
     NextIsTarget, OneSession, ServersHoldLocks, HolderOnTop, LocksKept,
     DoneIsServed, Done, Serves, Session, Target, OnDeadMount
<1>2. ASSUME NEW d \in Daemons, Start(d) PROVE DaemonInv'
  BY <1>2, StartInv
<1>3. ASSUME NEW d \in Daemons, Validate(d) PROVE DaemonInv'
  BY <1>3, ValidateInv
<1>4. ASSUME NEW d \in Daemons, Clean(d) PROVE DaemonInv'
  BY <1>4, CleanInv
<1>5. ASSUME NEW d \in Daemons, LockTarget(d) PROVE DaemonInv'
  BY <1>5, LockTargetInv
<1>6. ASSUME NEW d \in Daemons, Mount(d) PROVE DaemonInv'
  BY <1>6, MountInv
<1>7. ASSUME NEW d \in Daemons, DropTargetLocks(d) \/ DropMounts(d) PROVE DaemonInv'
  BY <1>7, DropTargetLocksInv, DropMountsInv
<1>8. ASSUME NEW d \in Daemons, ReleaseInstance(d) \/ ProcessEnds(d) \/ Crash(d) PROVE DaemonInv'
  BY <1>8, ReleaseInstanceInv, ProcessEndsInv, CrashInv
<1>9. ASSUME NEW d \in Daemons, LazyUnmount(d) PROVE DaemonInv'
  BY <1>9, LazyUnmountInv
<1>10. ASSUME NEW d \in Daemons, Drained(d) \/ DrainTimeout(d) PROVE DaemonInv'
  BY <1>10, StageOnlyInv DEF Drained, DrainTimeout, TasksEnded, Elapsed
<1>11. ASSUME NEW d \in Daemons, TaskStep(d) PROVE DaemonInv'
  BY <1>11, ServerStepInv, BindInv, ServerEndInv, BlockingInv DEF TaskStep
<1>12. ASSUME NEW d \in Daemons, Signal(d) PROVE DaemonInv'
  BY <1>12, SignalInv
<1>. QED  BY <1>1, <1>2, <1>3, <1>4, <1>5, <1>6, <1>7, <1>8, <1>9, <1>10, <1>11, <1>12
             DEF DaemonNext, StartStep, StopStep

-----------------------------------------------------------------------------
(* The theorems.                                                           *)

\* The invariant holds however starts, failures, shutdowns and crashes overlap.
THEOREM DaemonInvariance == DaemonSpec => []DaemonInv
<1>. QED  BY DaemonInitInv, DaemonStepInv, PTL DEF DaemonSpec

\* Stages, locks, stacks and sockets keep their types; in particular the locks
\* of targets (acquire_target_lock) are held by running daemons only.
THEOREM DaemonTypeCorrect == DaemonSpec => []DaemonTypeOK
<1>1. DaemonInv => DaemonTypeOK
  BY DEF DaemonInv, LockInv
<1>. QED  BY <1>1, DaemonInvariance, PTL

\* A server that gives up because another answers (server.rs:31), or loses its
\* socket file, while its daemon is in run_daemon: a process of its instance is
\* on its way out, past its instance lock (main.rs:183).  For a server that
\* runs, and whoever binds or removes the file, the lock tells them apart.
THEOREM OnlyLeaversDisturb == DaemonSpec => ServerUndisturbed
<1> DEFINE Undisturbed ==
             \A d \in Daemons : (GivesUp(d) \/ LosesSocket(d)) /\ ~Leaving(d) =>
               \E e \in Daemons \ {d} : Instance[e] = Instance[d] /\ Leaving(e)
<1>1. ASSUME DaemonInv, [DaemonNext]_daemonVars PROVE [Undisturbed]_daemonVars
  <2> SUFFICES ASSUME NEW d \in Daemons, GivesUp(d) \/ LosesSocket(d), ~Leaving(d), DaemonNext
               PROVE  \E e \in Daemons \ {d} : Instance[e] = Instance[d] /\ Leaving(e)
    BY <1>1
  <2>0. Instance[d] \in Instances
    BY DEF Instances
  <2>1. ASSUME NEW e \in Daemons \ {d}, Instance[e] = Instance[d], stage[e] # "down", stage[d] # "down"
        PROVE  Leaving(e)
    BY <1>1, <2>1 DEF Leaving, DaemonInv, LockInv, InstanceHeld
  <2>2. server \in [Daemons -> Servers] /\ socket \in [Instances -> Daemons \cup {Nobody, "stale"}]
    BY <1>1 DEF DaemonInv, LockInv, DaemonTypeOK
  <2>3. PICK f \in Daemons : StartStep(f) \/ TaskStep(f) \/ StopStep(f) \/ Signal(f) \/ Drained(f)
                             \/ Crash(f)
    BY DEF DaemonNext
  <2>4. CASE GivesUp(d)
    <3>1. server'[d] = "bailed" /\ server[d] # "bailed"
      BY <2>4 DEF GivesUp
    <3>2. Connect(f)
      BY <2>2, <2>3, <3>1
         DEF StartStep, TaskStep, StopStep, Signal, Drained, Crash, Start, Validate, Clean, LockTarget,
             Mount, Bind, StopServing, RemoveSocket, ServerAborted, BlockingBegins, BlockingEnds,
             LazyUnmount, DrainTimeout, DropMounts, DropTargetLocks, ReleaseInstance, ProcessEnds, Server
    <3>3. f = d /\ socket[Instance[d]] \in Daemons /\ server[d] = "none" /\ stage[d] # "down"
      BY <2>2, <3>1, <3>2 DEF Connect, Server, TasksLive
    <3>4. /\ Instance[socket[Instance[d]]] = Instance[d] /\ socket[Instance[d]] # d
          /\ stage[socket[Instance[d]]] # "down"
      BY <1>1, <2>0, <3>3 DEF DaemonInv, LockInv, ListenerRuns
    <3>. QED  BY <2>1, <3>3, <3>4
  <2>5. CASE LosesSocket(d)
    <3>1. socket[Instance[d]] = d /\ socket'[Instance[d]] # d /\ server'[d] = "serving"
      BY <2>5 DEF LosesSocket
    <3>2. stage[d] # "down"
      BY <1>1, <2>0, <3>1 DEF DaemonInv, LockInv, ListenerRuns
    <3>3. Bind(f) \/ RemoveSocket(f) \/ ServerAborted(f) \/ ProcessEnds(f) \/ Crash(f)
      <4>1. socket' # socket
        BY <3>1
      <4>. QED  BY <2>3, <4>1
         DEF StartStep, TaskStep, StopStep, Signal, Drained, Start, Validate, Clean, LockTarget,
             Mount, Connect, StopServing, BlockingBegins, BlockingEnds,
             LazyUnmount, DrainTimeout, DropMounts, DropTargetLocks, ReleaseInstance
    <3>4. CASE Bind(f) \/ RemoveSocket(f)
      <4>1. Instance[f] = Instance[d] /\ f # d
        BY <2>0, <2>2, <3>1, <3>4 DEF Bind, RemoveSocket, Server
      <4>2. stage[f] # "down"
        BY <1>1, <3>4 DEF Bind, RemoveSocket, DaemonInv, LockInv, ListenerRuns
      <4>. QED  BY <2>1, <3>2, <4>1, <4>2
    <3>5. CASE ServerAborted(f) \/ ProcessEnds(f) \/ Crash(f)
      <4>1. socket' = SocketLeft(f) /\ server'[f] # "serving"
        BY <2>2, <3>5 DEF ServerAborted, ProcessEnds, Crash, Server
      <4>2. f = d
        BY <2>0, <3>1, <4>1 DEF SocketLeft
      <4>. QED  BY <3>1, <4>1, <4>2
    <3>. QED  BY <3>3, <3>4, <3>5
  <2>. QED  BY <2>4, <2>5
<1>2. DaemonSpec => [][Undisturbed]_daemonVars
  BY <1>1, DaemonInvariance, PTL DEF DaemonSpec
<1>. QED  BY <1>2 DEF ServerUndisturbed

\* Two daemons whose starts have not failed never serve one target
\* (acquire_target_lock, utils.rs:101).
THEOREM TargetsHaveOneServer == DaemonSpec => []OneServerPerTarget
<1>1. DaemonInv => OneServerPerTarget
  BY DEF DaemonInv, StackInv, ServersHoldLocks, OneServerPerTarget, Failing
<1>. QED  BY <1>1, DaemonInvariance, PTL

\* A session over no dead mount is taken away by a step of its own daemon only:
\* neither the cleaning of stale mounts (main.rs:331) nor another daemon's
\* shutdown (main.rs:537) unmounts it.
THEOREM SessionsEndByOwnSteps == DaemonSpec => UnmountsOnlyOwn
<1> DEFINE Own == \A d \in Daemons, t \in Dirs :
                    Serves(d, t) /\ ~Serves(d, t)' /\ ~OnDeadMount(t) =>
                      stage'[d] # stage[d] \/ next'[d] # next[d]
<1>1. ASSUME DaemonInv, [DaemonNext]_daemonVars PROVE [Own]_daemonVars
  <2> SUFFICES ASSUME NEW d \in Daemons, NEW t \in Dirs, Serves(d, t), ~Serves(d, t)',
                      ~OnDeadMount(t), DaemonNext, stage'[d] = stage[d], next'[d] = next[d]
               PROVE  FALSE
    BY <1>1
  <2>1. mounted'[t] # mounted[t]
    BY <1>1, KeptShrinks
  <2>2. mounted' # mounted
    BY <2>1
  <2>3. ASSUME NEW f \in Daemons, f # d, DropMounts(f) \/ Crash(f) PROVE FALSE
    <3>1. CASE mounted' = MountsDropped(f)
      BY <1>1, <2>3, <3>1, DropShrinks
    <3>2. CASE mounted' = [u \in Dirs |-> [k \in DOMAIN mounted[u] |->
                 IF Session(f, u, k) THEN [by |-> f, health |-> "dead"] ELSE mounted[u][k]]]
      <4>1. mounted'[t] = [k \in DOMAIN mounted[t] |->
               IF Session(f, t, k) THEN [by |-> f, health |-> "dead"] ELSE mounted[t][k]]
        BY <3>2
      <4>. QED  BY <1>1, <2>3, <4>1, DeathShrinks
    <3>. QED  BY <2>3, <3>1, <3>2 DEF DropMounts, Crash
  <2>4. ASSUME NEW f \in Daemons, Clean(f) PROVE FALSE
    <3>1. stage[f] = "clean" /\ Target(f) \in Dirs
      BY <1>1, <2>4, TargetIsDir DEF Clean, Starting
    <3>2. t = Target(f) /\ OwnHolder(f)
      BY <1>1, <2>1, <2>4, <3>1 DEF Clean, Fusermount, DaemonInv, LockInv, DaemonTypeOK
    <3>3. mounted[t] # <<>>
      BY DEF Serves
    <3>. QED  BY <1>1, <3>1, <3>2, <3>3, CleansDeadOnly
  <2>5. ASSUME NEW f \in Daemons, f # d, Mount(f) PROVE FALSE
    <3>1. stage[f] = "mount" /\ Target(f) \in Dirs /\ ~Serves(f, Target(f))
      BY <1>1, <2>5, TargetIsDir, TargetNotDone DEF Mount, Starting
    <3>2. t = Target(f) /\ mounted'[t] = Append(mounted[t], [by |-> f, health |-> "live"])
      BY <1>1, <2>1, <2>2, <2>5, <3>1 DEF Mount, DaemonInv, LockInv, DaemonTypeOK
    <3>. QED  BY <1>1, <3>1, <3>2, MountOnTop
  <2>6. ASSUME NEW f \in Daemons, f # d, LazyUnmount(f) PROVE FALSE
    <3>1. stage[f] = "unmount" /\ Target(f) \in Dirs /\ next[f] \in DOMAIN Conf[f] /\ next[f] \in Nat
      BY <1>1, <2>6, TargetIsDir DEF LazyUnmount, DaemonInv, LockInv, NextIsTarget, DaemonTypeOK
    <3>2. t = Target(f) /\ mounted'[t] = Unmounted(t)
      BY <1>1, <2>1, <2>6, <3>1 DEF LazyUnmount, Fusermount, DaemonInv, LockInv, DaemonTypeOK
    <3>3. next[f] >= next[f]
      BY <3>1
    <3>4. Done(f, t)
      BY <3>1, <3>2, <3>3 DEF Done, Target
    <3>5. mounted[t] # <<>>
      BY DEF Serves
    <3>6. targetLock[t] = f /\ Serves(f, t)
      BY <1>1, <3>4, <3>5 DEF DaemonInv, StackInv, DoneIsServed
    <3>7. Session(f, t, Len(mounted[t]))
      BY <1>1, <3>6 DEF DaemonInv, StackInv, HolderOnTop
    <3>8. ~Session(d, t, Len(mounted[t]))
      BY <2>6, <3>7 DEF Session
    <3>. QED  BY <1>1, <3>2, <3>8, UnmountShrinks
  <2>7. ASSUME NEW f \in Daemons, StartStep(f) \/ StopStep(f) \/ Crash(f) PROVE f # d \/ Clean(f)
    <3>1. SUFFICES ASSUME f = d, ~Clean(f) PROVE FALSE
      OBVIOUS
    <3>2. next[d] \in Nat
      BY <1>1 DEF DaemonInv, LockInv, DaemonTypeOK
    <3>3. next'[d] # next[d] + 1
      BY <3>2
    <3>4. CASE Mount(d) \/ LazyUnmount(d)
      BY <1>1, <2>2, <3>3, <3>4 DEF Mount, LazyUnmount, DaemonInv, LockInv, DaemonTypeOK
    <3>5. CASE DropMounts(d) \/ Crash(d)
      BY <1>1, <3>5, GoOnly DEF DropMounts, Crash
    <3>6. CASE Start(d) \/ Validate(d) \/ LockTarget(d) \/ DropTargetLocks(d) \/ DrainTimeout(d)
               \/ ReleaseInstance(d) \/ ProcessEnds(d)
      BY <2>2, <3>6
         DEF Start, Validate, LockTarget, DropTargetLocks, DrainTimeout, ReleaseInstance, ProcessEnds
    <3>. QED  BY <2>7, <3>1, <3>4, <3>5, <3>6 DEF StartStep, StopStep
  <2>8. PICK f \in Daemons : StartStep(f) \/ StopStep(f) \/ Crash(f)
    BY <2>2 DEF DaemonNext, TaskStep, Connect, Bind, StopServing, RemoveSocket, ServerAborted,
       BlockingBegins, BlockingEnds, Signal, Drained
  <2>9. CASE DropMounts(f) \/ Crash(f)
    BY <2>3, <2>7, <2>9, <2>4, <2>8
  <2>10. CASE Mount(f) \/ LazyUnmount(f) \/ Clean(f)
    BY <2>4, <2>5, <2>6, <2>7, <2>8, <2>10
  <2>11. CASE Start(f) \/ Validate(f) \/ LockTarget(f) \/ DropTargetLocks(f) \/ DrainTimeout(f)
              \/ ReleaseInstance(f) \/ ProcessEnds(f)
    BY <2>2, <2>11
       DEF Start, Validate, LockTarget, DropTargetLocks, DrainTimeout, ReleaseInstance, ProcessEnds
  <2>. QED  BY <2>8, <2>9, <2>10, <2>11 DEF StartStep, StopStep
<1>2. DaemonSpec => [][Own]_daemonVars
  BY <1>1, DaemonInvariance, PTL DEF DaemonSpec
<1>. QED  BY <1>2 DEF UnmountsOnlyOwn
=============================================================================

--------------------------- MODULE MCHousekeeping ---------------------------
(***************************************************************************)
(* The backing watcher and eviction, which share no state as modelled:     *)
(* part names the one that moves, as in MCServices.  The third part, the   *)
(* policies, does not move: its states are the inputs of the presets.      *)
(***************************************************************************)
EXTENDS BackingWatch, Eviction, Presets, TLC

CONSTANT Focus    \* the parts that are explored
VARIABLE part
housekeepingVars == <<part, backingVars, evictionVars, input>>

Init ==
  /\ part \in Focus /\ BackingWatchInit /\ EvictionInit
  /\ IF part = "policies" THEN PresetsInit ELSE input = NoInput

Next ==
  \/ part = "watch" /\ BackingWatchNext /\ UNCHANGED <<part, evictionVars, input>>
  \/ part = "eviction" /\ EvictionNext /\ UNCHANGED <<part, backingVars, input>>

\* The fairness of BackingWatch.
Fairness ==
  /\ WF_backingVars(part = "watch" /\ Loop) /\ WF_backingVars(part = "watch" /\ TimerFires)
  /\ \A k \in Keys : WF_backingVars(part = "watch" /\ DeadlinePasses(k))

Spec == Init /\ [][Next]_housekeepingVars /\ Fairness

\* The types of the two parts: one LRU entry per watched path, and no row hit
\* later than now.
HousekeepingTypeOK == BackingWatchTypeOK /\ EvictionTypeOK

-----------------------------------------------------------------------------
(* Three files on two mounts, and a budget for two: the maximum is given as   *)
(* zero, so it is half of the drive.                                       *)

CONSTANTS e1, e2, e3, m1, m2, w1, w2

Cached == {e1, e2, e3}
CachedOn == (e1 :> m1) @@ (e2 :> m1) @@ (e3 :> m2)
OneByte == [e \in Cached |-> 1]
OneAndNone == (w1 :> 1) @@ (w2 :> 0)
OnM1 == [w \in {w1, w2} |-> m1]
Configured == [max_size |-> 9, expiry |-> 1]
NoMaximum == [f \in {"max_size"} |-> 0]
HitInTurn == (e1 :> 0) @@ (e2 :> 1) @@ (e3 :> 2)
=============================================================================

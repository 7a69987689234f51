----------------------------- MODULE MCServices -----------------------------
(***************************************************************************)
(* The services beside the pipeline and the FUSE session: process          *)
(* discovery, telemetry and the life of the daemon.  As modelled they      *)
(* share no state, so that nothing is gained from interleaving them: part  *)
(* names the one that moves, and TLC explores one after the other.  Of the *)
(* daemons two move: rivals of two instances that want one target, or      *)
(* heirs, of which one starts when the other has left its instance.        *)
(***************************************************************************)
EXTENDS Discovery, Telemetry, Daemon, TLC

CONSTANTS
  Focus,              \* the parts that are explored
  a1, a2, b1,         \* two daemons of one instance and one of another
  t1, t2              \* targets
VARIABLE part
servicesVars == <<part, discoveryVars, telemetryVars, daemonVars>>

Init == part \in Focus /\ DiscoveryInit /\ TelemetryInit /\ DaemonInit

\* The daemons that are not started.
Resting == [rivals |-> {a2}, heirs |-> {b1}]
DaemonsMove == part \in DOMAIN Resting

Next ==
  \/ part = "discovery" /\ DiscoveryNext /\ UNCHANGED <<part, telemetryVars, daemonVars>>
  \/ part = "telemetry" /\ TelemetryNext /\ UNCHANGED <<part, discoveryVars, daemonVars>>
  \/ /\ DaemonsMove /\ DaemonNext
     /\ \A d \in Daemons \cap Resting[part] : stage'[d] = "down"
     /\ UNCHANGED <<part, discoveryVars, telemetryVars>>

\* The fairness of Telemetry, and of a daemon that stops, for the part that moves.
Fairness ==
  /\ WF_telemetryVars(part = "telemetry" /\ ServerStops)
  /\ \A c \in Clients : WF_telemetryVars(part = "telemetry" /\ Handler(c))
  /\ \A d \in Daemons : WF_daemonVars(DaemonsMove /\ StopStep(d))

Spec == Init /\ [][Next]_servicesVars /\ Fairness

\* The types of the three parts: counters of the code that never exceed what
\* was counted or go below zero, and locks held by running daemons only.
ServicesTypeOK == DiscoveryTypeOK /\ TelemetryTypeOK /\ DaemonTypeOK

\* That a daemon is started again, and can be mounted at last, matters to its
\* recovery only.
RestartFairness ==
  \A d \in Daemons : /\ WF_daemonVars(DaemonsMove /\ StartStep(d))
                     /\ SF_daemonVars(DaemonsMove /\ Mounted(d))
RestartSpec == Spec /\ RestartFairness

-----------------------------------------------------------------------------
(* Two daemons of one instance, and one of another that wants a target of  *)
(* theirs; or one alone.                                                   *)

Hosts == {a1, a2, b1}
HostNames == (a1 :> "A") @@ (a2 :> "A") @@ (b1 :> "B")
HostTargets == (a1 :> <<t1, t2>>) @@ (a2 :> <<t2>>) @@ (b1 :> <<t1>>)
OneHost == {a1}
OneName == a1 :> "A"
OneTarget == a1 :> <<t1>>
=============================================================================

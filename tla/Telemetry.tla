----------------------------- MODULE Telemetry ------------------------------
(***************************************************************************)
(* The IPC server and what it shows (src/src/ipc, src/src/tui): tracing    *)
(* events become messages of a broadcast channel of limited capacity       *)
(* (broadcast_layer.rs); a task keeps the recent log lines (recent_logs.rs);*)
(* one handler per client replays them and forwards the channel            *)
(* (server.rs); the client keeps counters (client.rs, tui/state.rs).       *)
(*                                                                         *)
(* The source of the events is the life of the pipeline's jobs (cache/io.rs)*)
(* as far as it emits any.  The socket to a client is a reliable stream    *)
(* that the client reads at once.                                          *)
(***************************************************************************)
EXTENDS Integers, FiniteSetsExt, SequencesExt

CONSTANTS
  Clients,
  Files,        \* paths of the jobs
  Kinds,        \* kinds of the jobs submitted: a subset of Populate, Replace, Validate
  InfoLogged,   \* console_level lets lines of level INFO through
  ChanCap,      \* capacity of the channel (1024)
  RingCap,      \* RECENT_LOG_CAP (100)
  MaxSent       \* bounds the messages sent

ASSUME TelemetryAssumption ==
  /\ IsFiniteSet(Clients) /\ IsFiniteSet(Files)
  /\ Kinds \subseteq {"Populate", "Replace", "Validate"}
  /\ InfoLogged \in BOOLEAN
  /\ ChanCap \in Nat \ {0} /\ RingCap \in Nat \ {0} /\ MaxSent \in Nat

VARIABLES
  chan,        \* every message sent; the channel keeps the last ChanCap
  ring,        \* the recent log lines, each named by its position in chan
  ringPos,     \* how far the task of the ring has read
  ringLagged,  \* history: that task has skipped messages
  serving,     \* the accept loop runs
  shutdown,    \* the daemon's shutdown token
  client,      \* the handler of each client together with its dashboard
  running,     \* files of mounts whose pipeline has been created
  restored,    \* history: number of jobs found in the database by then
  job,         \* the jobs of the pipeline
  unsaid,      \* jobs enqueued whose CopyQueued is still to be sent
  ticking      \* files whose progress ticker has not yet seen the end of its copy

telemetryVars == <<chan, ring, ringPos, ringLagged, serving, shutdown, client,
                   running, restored, job, unsaid, ticking>>
sourceVars == <<running, restored, job, unsaid, ticking>>
ringVars == <<ring, ringPos, ringLagged>>

Jobs == Files \X (Kinds \cup {"Populate"})
Copies == {j \in Jobs : j[2] # "Validate"}
Positions == 1..MaxSent
JobEvents == {"Queued", "Started", "Progress", "Complete", "Failed"}
Types == JobEvents \cup {"Log", "Goodbye"}
Messages == [type : JobEvents, file : Files] \cup [type : Types \ JobEvents, file : {"none"}]
Message(type) == [type |-> type, file |-> "none"]

Handlers ==
  [at : {"out", "accepted", "replay", "live"},
   from : 0..MaxSent,          \* history: where the subscription began
   pos : 0..MaxSent,           \* how far the receiver has read
   lagged : BOOLEAN,           \* history: it has skipped messages
   replay : Seq(Positions),    \* the snapshot of the ring
   lines : SUBSET Positions,   \* log lines the client was sent
   inFlight : Nat,             \* in_flight_count
   active : SUBSET Files]      \* active_copies
NoHandler == [at |-> "out", from |-> 0, pos |-> 0, lagged |-> FALSE, replay |-> <<>>,
              lines |-> {}, inFlight |-> 0, active |-> {}]

TelemetryTypeOK ==
  /\ chan \in Seq(Messages) /\ Len(chan) <= MaxSent
  /\ ring \in Seq(Positions) /\ Len(ring) <= RingCap
  /\ ringPos \in 0..MaxSent /\ ringLagged \in BOOLEAN
  /\ serving \in BOOLEAN /\ shutdown \in BOOLEAN
  /\ client \in [Clients -> Handlers]
  /\ job \in [Jobs -> {"idle", "queued", "copying"}]
  /\ running \subseteq Files /\ restored \in Nat
  /\ unsaid \subseteq Jobs /\ ticking \subseteq Files

TelemetryInit ==
  /\ chan = <<>> /\ ring = <<>> /\ ringPos = 0 /\ ringLagged = FALSE
  /\ serving = TRUE /\ shutdown = FALSE
  /\ client = [c \in Clients |-> NoHandler]
  /\ running = {} /\ restored = 0
  /\ job = [j \in Jobs |-> "idle"] /\ unsaid = {} /\ ticking = {}

-----------------------------------------------------------------------------
(* on_event: the telemetry message first, then the log line if its level   *)
(* is forwarded.                                                           *)

Sent(type, f, logged) ==
  <<[type |-> type, file |-> f]>> \o IF logged THEN <<Message("Log")>> ELSE <<>>
Emit(type, f, logged) ==
  /\ chan' = chan \o Sent(type, f, logged) /\ Len(chan') <= MaxSent
  /\ UNCHANGED <<ringVars, serving, shutdown, client>>
Quiet == UNCHANGED <<chan, ringVars, serving, shutdown, client>>

\* Any other line of the log.
LogLine ==
  /\ Len(chan) < MaxSent
  /\ chan' = Append(chan, Message("Log"))
  /\ UNCHANGED <<ringVars, serving, shutdown, client, sourceVars>>

\* CacheIO::spawn, later than the IPC server: a deferred job of a file that is
\* found in the database is queued, and no CopyQueued is sent for it.
Spawn(f) ==
  /\ f \notin running
  /\ running' = running \cup {f}
  /\ \/ UNCHANGED <<restored, job>>
     \/ job' = [job EXCEPT ![<<f, "Populate">>] = "queued"] /\ restored' = restored + 1
  /\ Quiet /\ UNCHANGED <<unsaid, ticking>>

\* enqueue sends CopyQueued for a job of any kind, after the mutex is released.
SaysQueuedIfCopied(j) == IF j[2] = "Populate" THEN unsaid \cup {j} ELSE unsaid
SaysQueued(j) == unsaid \cup {j}
Enqueued(j) ==
  /\ j[1] \in running /\ j[2] \in Kinds /\ job[j] = "idle" /\ j \notin unsaid
  /\ job' = [job EXCEPT ![j] = "queued"]
  /\ unsaid' = SaysQueued(j)
  /\ Quiet /\ UNCHANGED <<running, restored, ticking>>

CopyQueued(j) ==
  /\ j \in unsaid
  /\ Emit("Queued", j[1], InfoLogged)
  /\ unsaid' = unsaid \ {j}
  /\ UNCHANGED <<running, restored, job, ticking>>

\* A validation ends, and a queued job expires, without an event.
LeavesSilently(j) ==
  /\ job[j] = "queued"
  /\ job' = [job EXCEPT ![j] = "idle"]
  /\ Quiet /\ UNCHANGED <<running, restored, unsaid, ticking>>

\* populate_worker: no room for the copy, or its start.
NoRoom(j) ==
  /\ job[j] = "queued" /\ j \in Copies
  /\ Emit("Failed", j[1], TRUE)
  /\ job' = [job EXCEPT ![j] = "idle"]
  /\ UNCHANGED <<running, restored, unsaid, ticking>>

CopyStarts(j) ==
  /\ job[j] = "queued" /\ j \in Copies
  /\ Emit("Started", j[1], InfoLogged)
  /\ job' = [job EXCEPT ![j] = "copying"]
  /\ ticking' = ticking \cup {j[1]}
  /\ UNCHANGED <<running, restored, unsaid>>

\* The ticker may be about to send a last progress event when the copy ends.
TickerSends(f) ==
  /\ f \in ticking
  /\ Emit("Progress", f, FALSE)
  /\ ticking' \in {ticking, ticking \ {f}}
  /\ UNCHANGED <<running, restored, job, unsaid>>

CopyEnds(j) ==
  /\ job[j] = "copying"
  /\ Emit("Complete", j[1], InfoLogged) \/ Emit("Failed", j[1], TRUE)
  /\ job' = [job EXCEPT ![j] = "idle"]
  /\ ticking' \in {ticking, ticking \ {j[1]}}
  /\ UNCHANGED <<running, restored, unsaid>>

-----------------------------------------------------------------------------
(* The receivers.  One that is more than ChanCap behind is told so, and    *)
(* goes on with the oldest message there is.                               *)

Behind(pos) == Len(chan) - pos > ChanCap
Oldest == Len(chan) - ChanCap

Pushed(r, i) == IF Len(r) >= RingCap THEN Append(Tail(r), i) ELSE Append(r, i)
PushedAny(i) == Pushed(ring, i)
PushedLog(i) == IF chan[i].type = "Log" THEN Pushed(ring, i) ELSE ring

RingReceives ==
  /\ ringPos < Len(chan)
  /\ IF Behind(ringPos)
     THEN ringPos' = Oldest /\ ringLagged' = TRUE /\ UNCHANGED ring
     ELSE /\ ringPos' = ringPos + 1
          /\ ring' = PushedLog(ringPos')
          /\ UNCHANGED ringLagged
  /\ UNCHANGED <<chan, serving, shutdown, client, sourceVars>>

ClientStep(c, h) ==
  client' = [client EXCEPT ![c] = h] /\ UNCHANGED <<chan, ringVars, serving, sourceVars>>

\* The accept loop subscribes before it spawns the handler.
Accept(c) ==
  /\ serving /\ client[c].at = "out"
  /\ ClientStep(c, [NoHandler EXCEPT !.at = "accepted", !.from = Len(chan), !.pos = Len(chan)])
  /\ UNCHANGED shutdown

\* handle_client: Hello, and the snapshot of the ring.
Snapshot(c) ==
  /\ client[c].at = "accepted"
  /\ ClientStep(c, [client[c] EXCEPT !.at = "replay", !.replay = ring])
  /\ UNCHANGED shutdown

\* The replay is sent, and the discovery status; then the select loop.
SubscribedLate(h) == [h EXCEPT !.at = "live", !.lines = ToSet(h.replay), !.replay = <<>>, !.pos = Len(chan)]
Live(h) == [h EXCEPT !.at = "live", !.lines = ToSet(h.replay), !.replay = <<>>]
Replayed(c) ==
  /\ client[c].at = "replay"
  /\ ClientStep(c, Live(client[c]))
  /\ UNCHANGED shutdown

\* apply_event and push_log.
Decremented(n) == IF n = 0 THEN 0 ELSE n - 1
ProgressInserts(h, m) == h.active \cup {m.file}
ProgressUpdates(h, m) == h.active
Applied(h, m, i) ==
  CASE m.type = "Log"      -> [h EXCEPT !.lines = @ \cup {i}]
    [] m.type = "Queued"   -> [h EXCEPT !.inFlight = @ + 1]
    [] m.type = "Started"  -> [h EXCEPT !.active = @ \cup {m.file}]
    [] m.type = "Progress" -> [h EXCEPT !.active = ProgressUpdates(h, m)]
    [] m.type \in {"Complete", "Failed"} ->
         [h EXCEPT !.inFlight = Decremented(@), !.active = @ \ {m.file}]
    [] OTHER -> h

\* A handler forwards the next message, and ends with a Goodbye.
ForwardsOn(h, m) == h
EndsOnGoodbye(h, m) == IF m.type = "Goodbye" THEN NoHandler ELSE h
Forward(c) ==
  LET h == client[c]
      i == h.pos + 1 IN
  /\ h.at = "live" /\ h.pos < Len(chan)
  /\ ClientStep(c, IF Behind(h.pos)
       THEN [h EXCEPT !.pos = Oldest, !.lagged = TRUE]
       ELSE EndsOnGoodbye(Applied([h EXCEPT !.pos = i], chan[i], i), chan[i]))
  /\ UNCHANGED shutdown

\* The client goes away, detaching or with a Shutdown command; it may come back.
Detach(c) ==
  /\ client[c].at \in {"accepted", "replay", "live"}
  /\ ClientStep(c, NoHandler)
  /\ \/ UNCHANGED shutdown
     \/ client[c].at = "live" /\ shutdown' = TRUE

\* The daemon is told to stop by a signal; the server says Goodbye.
Signalled ==
  /\ ~shutdown
  /\ shutdown' = TRUE
  /\ UNCHANGED <<chan, ringVars, serving, client, sourceVars>>

ServerStops ==
  /\ shutdown /\ serving
  /\ serving' = FALSE
  /\ chan' = Append(chan, Message("Goodbye")) /\ Len(chan') <= MaxSent
  /\ UNCHANGED <<ringVars, shutdown, client, sourceVars>>

Handler(c) == Snapshot(c) \/ Replayed(c) \/ Forward(c)

TelemetryNext ==
  \/ LogLine \/ RingReceives \/ Signalled \/ ServerStops
  \/ \E j \in Jobs : Enqueued(j) \/ CopyQueued(j) \/ LeavesSilently(j) \/ NoRoom(j) \/ CopyStarts(j) \/ CopyEnds(j)
  \/ \E f \in Files : Spawn(f) \/ TickerSends(f)
  \/ \E c \in Clients : Accept(c) \/ Handler(c) \/ Detach(c)

TelemetrySpec == TelemetryInit /\ [][TelemetryNext]_telemetryVars

\* The runtime polls the server and the handlers.
TelemetryFairness ==
  /\ WF_telemetryVars(ServerStops)
  /\ \A c \in Clients : WF_telemetryVars(Handler(c))

-----------------------------------------------------------------------------
(* What must hold.                                                         *)

Logs == {i \in DOMAIN chan : chan[i].type = "Log"}

\* A client misses no log line from its subscription on, those sent while the
\* ring is replayed to it included (handle_client, server.rs:111), unless it
\* was told that it lagged.
NoLineMissed ==
  \A c \in Clients : client[c].at = "live" /\ ~client[c].lagged
                     => Logs \cap (client[c].from + 1)..client[c].pos \subseteq client[c].lines

\* Telemetry does not starve log lines out of the replay buffer
\* (recent_logs.rs:15): as long as its task keeps up, the ring holds the last
\* lines of what the task has read, in order, and a line that is missing is
\* older than RingCap others.
RingKeepsLogs ==
  ~ringLagged =>
    /\ \A k, l \in DOMAIN ring : k < l => ring[k] < ring[l]
    /\ \A k \in DOMAIN ring : ring[k] \in Logs /\ ring[k] <= ringPos
    /\ \A i \in Logs : i <= ringPos =>
         (\E k \in DOMAIN ring : ring[k] = i) \/ (Len(ring) = RingCap /\ i < ring[1])

CaughtUp(c) == client[c].at = "live" /\ ~client[c].lagged /\ client[c].pos = Len(chan)

\* The dashboard of a client that has read everything shows no copy that has
\* ended, although the ticker of a copy may report progress after its end
\* (io.rs:455).
NoPhantomCopy ==
  \A c \in Clients : CaughtUp(c) => \A f \in client[c].active : \E j \in Copies : j[1] = f /\ job[j] = "copying"

\* The in-flight counter of a client that was there from the beginning falls
\* below the copies queued or running by no more than the jobs restored from
\* the database (io.rs:112): they decrease it without having increased it.
\* Each of the other events that decrease it is one job's own.  Jobs whose
\* CopyQueued is still to come do not count.
NeverUndercounts ==
  \A c \in Clients : CaughtUp(c) /\ client[c].from = 0
    => Cardinality({j \in Copies : job[j] # "idle"})
         <= client[c].inFlight + Cardinality(unsaid) + restored

\* After a shutdown every client is let go, one that is still replaying or
\* was accepted just before included: its handler meets the Goodbye, unless
\* so much was sent after it that the handler lagged past it.
EveryClientLeaves ==
  \A c \in Clients : ~serving ~> client[c].at = "out" \/ client[c].lagged
=============================================================================

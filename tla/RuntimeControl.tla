--------------------------- MODULE RuntimeControl ---------------------------
(***************************************************************************)
(* The control plane of a running pipeline (core/runtime/control.rs and    *)
(* runtime_admin.rs): RuntimeControl handles on other tasks queue commands *)
(* for the poll loop, the loop services them and publishes progress, and   *)
(* an operator reads the admin snapshot and its health verdict.            *)
(*                                                                         *)
(* Time is what derive_health can tell of it: an instant is "never",       *)
(* "fresh", or "stale" once it lies more than the stall threshold back.    *)
(***************************************************************************)
EXTENDS Integers, Sequences, SequencesExt, FiniteSets

CONSTANTS
    Embedders,             \* what the loop does, and what the callers ask for
    Tables,                \* tables a snapshot can be requested for
    Callers,               \* tasks that hold a RuntimeControl
    CONTROL_QUEUE_DEPTH,
    MaxElapses,            \* bound: how often the threshold passes
    MaxStarts              \* bound: calls of start

VARIABLES
    embedder,              \* [source, snapshot_tables, confirms, disconnects, events, commands]
    state,                 \* RuntimeState, or Dropped
    stream,                \* the runtime has a stream handle
    snapshot,              \* the runtime has a handle of a bulk snapshot
    driver,                \* the incremental snapshot: [tables, paused]
    published,             \* ControlShared::incremental_snapshot
    queue,                 \* the command channel
    caller,                \* each caller: its command and how far it got
    source_events, in_flight, polled, committed,
    pending_confirmation,
    at,                    \* last_poll_at_ms, last_commit_at_ms, last_source_event_ts_ms
                           \* and last_checkpoint_saved_at_ms
    seen,                  \* history of this run: when a poll, a new batch and a commit last
                           \* completed, and when the batch in flight was delivered
    elapses, starts

events == <<source_events, in_flight, polled, committed, pending_confirmation>>
times == <<at, seen, elapses, starts>>
vars == <<embedder, state, stream, snapshot, driver, published, queue, caller, events, times>>

Never == [k \in {"poll", "commit", "source", "checkpoint"} |-> "never"]
NothingSeen == [k \in {"poll", "batch", "commit", "in_flight"} |-> "never"]
NoSnapshot == [tables |-> {}, paused |-> FALSE]

(* ControlCommand.                                                         *)
Command ==
    [kind : {"RequestSnapshot"}, tables : {{t} : t \in Tables}]
        \cup [kind : {"Pause", "Resume", "StopSnapshot"}, tables : {{}}]

Idle == [stage |-> "idle"]
Asks(command, stage) == [command |-> command, stage |-> stage]

Init ==
    /\ embedder \in Embedders
    /\ state = "Idle" /\ stream = FALSE /\ snapshot = FALSE
    /\ driver = NoSnapshot /\ published = NoSnapshot
    /\ queue = <<>> /\ caller = [c \in Callers |-> Idle]
    /\ source_events = 0 /\ in_flight = 0 /\ polled = 0 /\ committed = 0
    /\ pending_confirmation = FALSE
    /\ at = Never /\ seen = NothingSeen
    /\ elapses = 0 /\ starts = 0

-----------------------------------------------------------------------------
(* start, with reset_run_counters: the instant of the last save outlives a *)
(* run, as the checkpoint does.  A Disabled source has no handle; whether  *)
(* a snapshot is read depends on the checkpoint found.                     *)
Disabled == embedder.source = "disabled"

start ==
    /\ state \in {"Idle", "Stopped"} /\ starts < MaxStarts
    /\ starts' = starts + 1
    /\ state' = "Running" /\ stream' = ~Disabled
    /\ snapshot' \in IF embedder.snapshot_tables THEN BOOLEAN ELSE {FALSE}
    /\ polled' = 0 /\ committed' = 0
    /\ at' = [Never EXCEPT !.checkpoint = at.checkpoint]
    /\ seen' = NothingSeen
    /\ UNCHANGED <<embedder, driver, published, queue, caller, source_events, in_flight,
                   pending_confirmation, elapses>>

stop ==
    /\ state = "Running" /\ in_flight = 0
    /\ state' = "Stopped" /\ stream' = FALSE /\ snapshot' = FALSE
    /\ at' = [at EXCEPT !.source = "never"]
    /\ driver' = NoSnapshot
    /\ UNCHANGED <<embedder, published, queue, caller, events, seen, elapses, starts>>

(* The runtime goes away with its receiver: every caller that waits is     *)
(* answered with an error.                                                 *)
Drops ==
    /\ state = "Stopped"
    /\ state' = "Dropped"
    /\ queue' = <<>>
    /\ caller' = [c \in Callers |-> IF caller[c] = Idle THEN Idle ELSE [caller[c] EXCEPT !.stage = "failed"]]
    /\ UNCHANGED <<embedder, stream, snapshot, driver, published, events, times>>

SourceWrites ==
    /\ polled + source_events < embedder.events
    /\ source_events' = source_events + 1
    /\ UNCHANGED <<embedder, state, stream, snapshot, driver, published, queue, caller, in_flight, polled,
                   committed, pending_confirmation, times>>

(* More than the stall threshold goes by.                                  *)
Older(instant) == IF instant = "fresh" THEN "stale" ELSE instant
Elapses ==
    /\ elapses < MaxElapses
    /\ elapses' = elapses + 1
    /\ at' = [k \in DOMAIN at |-> Older(at[k])]
    /\ seen' = [k \in DOMAIN seen |-> Older(seen[k])]
    /\ UNCHANGED <<embedder, state, stream, snapshot, driver, published, queue, caller, events, starts>>

-----------------------------------------------------------------------------
(* RuntimeControl::dispatch: a bounded channel's send waits for room.      *)
dispatch(c) ==
    /\ caller[c] = Idle
    /\ \E command \in embedder.commands :
          caller' = [caller EXCEPT ![c] = Asks(command, IF state = "Dropped" THEN "failed" ELSE "sending")]
    /\ UNCHANGED <<embedder, state, stream, snapshot, driver, published, queue, events, times>>

Sends(c) ==
    /\ caller[c].stage = "sending"
    /\ Len(queue) < CONTROL_QUEUE_DEPTH
    /\ queue' = Append(queue, c)
    /\ caller' = [caller EXCEPT ![c].stage = "queued"]
    /\ UNCHANGED <<embedder, state, stream, snapshot, driver, published, events, times>>

(* A caller whose own timeout fires stops waiting; a queued command stays  *)
(* queued, one that was still waiting for room is withdrawn.               *)
GivesUp(c) ==
    /\ caller[c].stage \in {"sending", "queued"}
    /\ caller' = [caller EXCEPT ![c].stage = IF caller[c].stage = "queued" THEN "abandoned" ELSE "failed"]
    /\ UNCHANGED <<embedder, state, stream, snapshot, driver, published, queue, events, times>>

(* running_stream_mut.                                                     *)
HasRunningStream == state = "Running" /\ stream

(* request_incremental_snapshot_filtered,                                  *)
(* set_incremental_snapshot_paused and stop_incremental_snapshot.          *)
Applied(d, command) ==
    CASE command.kind = "RequestSnapshot" -> [d EXCEPT !.tables = @ \cup command.tables]
      [] command.kind = "Pause"           -> [d EXCEPT !.paused = TRUE]
      [] command.kind = "Resume"          -> [d EXCEPT !.paused = FALSE]
      [] OTHER                            -> [d EXCEPT !.tables = {}]

(* service_control_commands: apply every queued command in order, answer   *)
(* its caller, and republish progress.                                     *)
service_control_commands ==
    /\ driver' = IF stream THEN FoldLeft(LAMBDA d, c : Applied(d, caller[c].command), driver, queue)
                 ELSE driver
    /\ caller' = [c \in Callers |->
                    IF c \in ToSet(queue)
                    THEN [caller[c] EXCEPT !.stage = IF stream THEN "applied" ELSE "failed"] ELSE caller[c]]
    /\ queue' = <<>>
    /\ published' = driver'

(* poll_event_batch: a batch in flight is delivered again before anything  *)
(* else happens.                                                           *)
Redelivers ==
    /\ state = "Running" /\ in_flight > 0
    /\ seen' = [seen EXCEPT !.poll = "fresh"]
    /\ UNCHANGED <<embedder, state, stream, snapshot, driver, published, queue, caller, events, at, elapses,
                   starts>>

(* retry_pending_confirmation: a stream may accept it this time.           *)
retry_pending_confirmation ==
    pending_confirmation' \in {pending_confirmation, pending_confirmation /\ ~stream}

(* An empty chunk is followed by the hand-over and a poll of the stream.   *)
ReadsSnapshot == snapshot' \in {snapshot, FALSE}

(* Events come from the snapshot, from the stream or from enqueue_event.   *)
HasEvents == (stream \/ Disabled) /\ source_events > 0

PollsBatch ==
    /\ state = "Running" /\ in_flight = 0 /\ HasEvents
    /\ service_control_commands
    /\ retry_pending_confirmation /\ ReadsSnapshot
    /\ in_flight' = source_events /\ source_events' = 0
    /\ polled' = polled + source_events
    /\ at' = [at EXCEPT !.poll = "fresh", !.source = "fresh"]
    /\ seen' = [seen EXCEPT !.poll = "fresh", !.batch = "fresh", !.in_flight = "fresh"]
    /\ UNCHANGED <<embedder, state, stream, committed, elapses, starts>>

(* Mutant of PollsNothing: commands are serviced with a batch only.        *)
PollsNothingUnserviced ==
    /\ state = "Running" /\ in_flight = 0 /\ ~HasEvents
    /\ retry_pending_confirmation /\ ReadsSnapshot
    /\ seen' = [seen EXCEPT !.poll = "fresh"]
    /\ UNCHANGED <<embedder, state, stream, driver, published, queue, caller, source_events, in_flight,
                   polled, committed, at, elapses, starts>>

(* An empty poll leaves last_poll_at_ms alone.                             *)
PollsNothing ==
    /\ state = "Running" /\ in_flight = 0 /\ ~HasEvents
    /\ service_control_commands
    /\ retry_pending_confirmation /\ ReadsSnapshot
    /\ seen' = [seen EXCEPT !.poll = "fresh"]
    /\ UNCHANGED <<embedder, state, stream, source_events, in_flight, polled, committed, at, elapses, starts>>

(* The poll fails: on a chunk or the hand-over, which keeps the handles,   *)
(* or on the stream, when the retry policy gives up and leaves none.       *)
PollFails ==
    /\ state = "Running" /\ in_flight = 0 /\ stream /\ embedder.disconnects
    /\ service_control_commands
    /\ retry_pending_confirmation
    /\ \/ snapshot /\ UNCHANGED <<stream, snapshot>>
       \/ stream' = FALSE /\ snapshot' = FALSE
    /\ UNCHANGED <<embedder, state, source_events, in_flight, polled, committed, times>>

commit_ack ==
    /\ state = "Running" /\ in_flight > 0
    /\ committed' = committed + in_flight
    /\ in_flight' = 0
    /\ pending_confirmation' \in IF embedder.confirms THEN {FALSE} ELSE BOOLEAN
    /\ at' = [at EXCEPT !.commit = "fresh", !.checkpoint = "fresh"]
    /\ seen' = [seen EXCEPT !.commit = "fresh", !.in_flight = "never"]
    /\ UNCHANGED <<embedder, state, stream, snapshot, driver, published, queue, caller, source_events, polled,
                   elapses, starts>>

Polls == Redelivers \/ PollsBatch \/ PollsNothing \/ PollFails
Delivery == SourceWrites \/ Elapses \/ start \/ stop \/ Drops \/ Polls \/ commit_ack
Control == \E c \in Callers : dispatch(c) \/ Sends(c) \/ GivesUp(c)
Next == Delivery \/ Control

(* The embedder goes on polling and acknowledging, and a stopped runtime   *)
(* is started again or dropped.                                            *)
Spec ==
    /\ Init /\ [][Next]_vars
    /\ WF_vars(Polls) /\ WF_vars(commit_ack) /\ WF_vars(start \/ Drops)

-----------------------------------------------------------------------------
(* The admin surface.                                                      *)
Stalled(reason) == [status |-> "stalled", reason |-> reason]
Verdict(status) == [status |-> status, reason |-> "none"]

(* Mutant of derive_health: the age of the last poll is not looked at.     *)
derive_health_any_poll ==
    IF state # "Running" THEN Verdict("not_running")
    ELSE IF pending_confirmation THEN Stalled("confirmation")
    ELSE IF polled > committed /\ at.commit # "fresh" THEN Stalled("consumer")
    ELSE IF at.source # "never" /\ polled > 0 THEN Verdict("healthy") ELSE Verdict("idle")

derive_health ==
    IF state # "Running" THEN Verdict("not_running")
    ELSE IF pending_confirmation THEN Stalled("confirmation")
    ELSE IF at.poll = "stale" THEN Stalled("poll")
    ELSE IF polled > committed /\ at.commit # "fresh" THEN Stalled("consumer")
    ELSE IF at.source # "never" /\ polled > 0 THEN Verdict("healthy") ELSE Verdict("idle")

(* No estimate before the first event of the run.                          *)
estimate_replication_lag_ms == at.source

admin_snapshot ==
    [readiness      |-> state = "Running" /\ (Disabled \/ stream \/ snapshot) /\ ~pending_confirmation,
     liveness       |-> state # "Stopped",
     in_flight      |-> in_flight,
     stream_active  |-> stream,
     snapshot_active |-> snapshot,
     incremental    |-> driver,
     polled         |-> polled,
     committed      |-> committed,
     health         |-> derive_health,
     checkpoint_age_ms  |-> at.checkpoint,
     replication_lag_ms |-> estimate_replication_lag_ms]

(* write_admin_metrics_prometheus: gauges and counters that every scrape   *)
(* has, one series per verdict, and an age only where there is one.        *)
RuntimeSeries ==
    [readiness        |-> IF admin_snapshot.readiness THEN 1 ELSE 0,
     liveness         |-> IF admin_snapshot.liveness THEN 1 ELSE 0,
     in_flight_events |-> admin_snapshot.in_flight,
     events_polled    |-> admin_snapshot.polled,
     events_committed |-> admin_snapshot.committed]

AgeSeries == {age \in {"checkpoint_age_ms", "replication_lag_ms"} : admin_snapshot[age] # "never"}

HealthSeries ==
    [verdict \in {"healthy", "idle", "stalled", "not_running"} |->
        IF admin_snapshot.health.status = verdict THEN 1 ELSE 0]

-----------------------------------------------------------------------------
TypeOK ==
    /\ state \in {"Idle", "Running", "Stopped", "Dropped"}
    /\ Len(queue) <= CONTROL_QUEUE_DEPTH
    /\ driver.tables \subseteq Tables /\ published.tables \subseteq Tables
    /\ committed + in_flight = polled \/ state # "Running"
    /\ DOMAIN at = {"poll", "commit", "source", "checkpoint"}

(* An alert (`rustcdc_runtime_health{verdict="stalled"}`) has a cause: a   *)
(* position is unconfirmed, no new batch came for longer than the          *)
(* threshold, or a batch is out and the run has no recent commit.  It is   *)
(* not always a stall, whatever its reason says: last_poll_at_ms is set by *)
(* a delivery only, so polls of a quiet source look like a blocked loop,   *)
(* and a batch delivered just now counts as neglected after a pause.       *)
Alert == HealthSeries["stalled"] = 1

AlertHasCause ==
    Alert => \/ pending_confirmation
             \/ seen.batch = "stale"
             \/ in_flight > 0 /\ seen.commit # "fresh"

(* A stall is seen: a loop that completes no poll, and a consumer that     *)
(* does not acknowledge, raise the alert once the threshold has passed.    *)
(* A loop that blocks before the first batch of the run does not.          *)
StallIsSeen ==
    state = "Running" =>
        /\ seen.poll = "stale" /\ seen.batch # "never" => Alert
        /\ seen.in_flight = "stale" => Alert

(* Health is not claimed without cause: the two above; a ready runtime has *)
(* a stream to poll, or none by configuration (a snapshot is never left    *)
(* without one). A scrape is consistent across runs: its counters account  *)
(* for what is in flight, a commit shows a checkpoint's age, and a lag is  *)
(* shown of a run that saw an event only.                                  *)
VerdictsAreTrue ==
    /\ AlertHasCause /\ StallIsSeen
    /\ RuntimeSeries.readiness = 1 => stream \/ Disabled
    /\ state = "Running" =>
          RuntimeSeries.events_polled = RuntimeSeries.events_committed + RuntimeSeries.in_flight_events
    /\ RuntimeSeries.events_committed > 0 => "checkpoint_age_ms" \in AgeSeries
    /\ "replication_lag_ms" \in AgeSeries => state = "Running" /\ RuntimeSeries.events_polled > 0

(* A command its caller waits for is answered: applied by a poll that has  *)
(* nothing in flight, or failed when the runtime is dropped.               *)
Waits(c) == caller[c].stage = "queued"
CommandsAnswered == \A c \in Callers : Waits(c) ~> ~Waits(c)
=============================================================================

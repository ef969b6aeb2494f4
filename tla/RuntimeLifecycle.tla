-------------------------- MODULE RuntimeLifecycle --------------------------
(***************************************************************************)
(* CdcRuntime as its embedder drives it (core/runtime.rs,                  *)
(* core/runtime/runtime_lifecycle.rs and the reconnect loop of             *)
(* runtime_poll.rs): start, run_to_completion into a registered sink,      *)
(* stop, force_stop, drain_and_stop and start again.                       *)
(*                                                                         *)
(* Changes are numbered 1..Writes in capture order; the first              *)
(* config.rows are rows of a bulk snapshot.  Events the embedder injects   *)
(* have numbers above Writes and no source position.  Every method takes   *)
(* `&mut self`: at most one is suspended, `call` is its frame, and each    *)
(* await between two effects ends a step.                                  *)
(***************************************************************************)
EXTENDS Integers, Sequences, SequencesExt, FiniteSetsExt

CONSTANTS
    Configs,         \* the configurations an embedder tries
    Writes,          \* bound: source changes
    Injections,      \* bound: events injected
    MaxErrors,       \* bound: failed calls
    MaxStarts        \* bound: calls of start

VARIABLES
    config,                  \* RuntimeConfig and RuntimeOptions
    state,                   \* RuntimeState
    snapshot, stream,        \* the handles' positions, or Closed
    handoff_complete,
    written,                 \* changes in the source
    injected_events,
    pending_source_events,
    pending_delivery,        \* the batch in flight
    seen,                    \* what the idempotency guard remembers
    durable,                 \* the checkpoint: the last source event it covers
    confirmation,            \* pending_confirmation_lsn: "none" or "pending"
    registered_sink,         \* the slot, and what the sink holds
    call,                    \* the suspended method
    returned,                \* what force_stop or drain_and_stop handed back, in order
    dropped,                 \* history: events in a list that an error returned in its place
    injected, errors, starts

handles == <<snapshot, stream, handoff_complete>>
queues == <<injected_events, pending_source_events, pending_delivery, seen>>
results == <<returned, dropped>>
bounds == <<config, injected, errors, starts>>
vars == <<state, handles, written, queues, durable, confirmation, registered_sink, call, results, bounds>>

Closed == -1
Nothing == 0
NoCall == [op |-> "none", stage |-> "none", drained |-> <<>>, attempt |-> 0]
Call(op, stage) == [NoCall EXCEPT !.op = op, !.stage = stage]

-----------------------------------------------------------------------------
(* Configurations.  A retry policy is <<max_retries, initial_delay,        *)
(* max_delay>>, max_retries = Unlimited for None; idempotency is           *)
(* <<capacity, ttl>>, ttl = NoTtl for None.                                *)
Unlimited == -1
NoTtl == -1
None == <<>>

ValidRetry(policy) == policy = None \/ (policy[2] > 0 /\ policy[3] >= policy[2])

ValidIdempotency(options) == options = None \/ (options[1] > 0 /\ options[2] # 0)

(* Options::with_...: every combination of settings a builder can reach.   *)
RuntimeOptions ==
    [max_buffer_size : Nat, connection_retry : Seq(Int), idempotency : Seq(Int),
     transform_error_policy : {"Halt", "Skip"}, dead_letter_handler : BOOLEAN,
     fail_fast : BOOLEAN, sink_close_timeout : BOOLEAN]

RuntimeConfig ==
    [source : {"postgres", "mysql", "mariadb", "sqlserver", "disabled"}, custom : BOOLEAN,
     snapshot_tables : BOOLEAN, incremental_snapshot : BOOLEAN, options : RuntimeOptions,
     rows : Nat,               \* rows of the snapshot tables
     shutdown : SUBSET {"stop", "force_stop", "drain_and_stop"},
     failing : SUBSET {"poll", "load", "sink", "commit", "close", "hang"}]

(* RuntimeSourceConfig::capabilities.                                      *)
Capabilities(source) ==
    IF source = "disabled" THEN {}
    ELSE {"snapshot", "snapshot_checkpoint_resume", "handoff", "ddl_capture", "heartbeat",
          "schema_introspection", "incremental_snapshot"}

(* CdcRuntime::new accepts the configuration.                              *)
New(c) ==
    /\ c.options.max_buffer_size > 0
    /\ ~(c.snapshot_tables /\ c.incremental_snapshot)
    /\ c.options.transform_error_policy = "Skip" => c.options.dead_letter_handler
    /\ c.source # "disabled" /\ c.snapshot_tables =>
          {"snapshot", "handoff"} \subseteq Capabilities(c.source)
    /\ ValidRetry(c.options.connection_retry)
    /\ ValidIdempotency(c.options.idempotency)

HasSource == config.custom \/ config.source # "disabled"
HasGuard == config.options.idempotency # None
MaxBatch == config.options.max_buffer_size

Init ==
    /\ config \in {c \in Configs : New(c)}
    /\ state = "Idle"
    /\ snapshot = Closed /\ stream = Closed /\ handoff_complete = FALSE
    /\ written = config.rows
    /\ injected_events = <<>> /\ pending_source_events = <<>> /\ pending_delivery = <<>>
    /\ seen = {}
    /\ durable = Nothing
    /\ confirmation = "none"
    /\ registered_sink = [slot |-> "registered", open |-> TRUE, unflushed |-> {}, flushed |-> {}]
    /\ call = NoCall
    /\ returned = <<>> /\ dropped = {}
    /\ injected = 0 /\ errors = 0 /\ starts = 0

Fails(what) == what \in config.failing /\ errors < MaxErrors /\ errors' = errors + 1
               /\ UNCHANGED <<config, injected, starts>>

Works == UNCHANGED bounds

-----------------------------------------------------------------------------
(* The source and the embedder's enqueue_event.                            *)
SourceWrites ==
    /\ HasSource /\ written < Writes
    /\ written' = written + 1
    /\ UNCHANGED <<state, handles, queues, durable, confirmation, registered_sink, call, results, bounds>>

enqueue_event ==
    /\ call = NoCall /\ injected < Injections
    /\ Len(injected_events) < MaxBatch
    /\ injected_events' = Append(injected_events, Writes + injected + 1)
    /\ injected' = injected + 1
    /\ UNCHANGED <<state, handles, written, pending_source_events, pending_delivery, seen, durable,
                   confirmation, registered_sink, call, results, config, errors, starts>>

(* The next process registers a fresh sink over the same destination.      *)
register_sink ==
    /\ call = NoCall /\ registered_sink.slot = "none" /\ state = "Stopped" /\ starts < MaxStarts
    /\ registered_sink' = [registered_sink EXCEPT !.slot = "registered", !.open = TRUE, !.unflushed = {}]
    /\ UNCHANGED <<state, handles, written, queues, durable, confirmation, call, results, bounds>>

(* start: which handles are opened, and from where.  A checkpoint inside   *)
(* the snapshot resumes it; incremental mode opens only the stream.        *)
start ==
    /\ call = NoCall /\ state \in {"Idle", "Stopped"} /\ starts < MaxStarts
    /\ registered_sink.slot = "registered"
    /\ IF ~HasSource THEN UNCHANGED handles
       ELSE LET snapshots == config.snapshot_tables /\ durable < config.rows
            IN  /\ snapshot' = IF snapshots THEN durable ELSE Closed
                /\ stream' = Max({durable, config.rows})
                /\ handoff_complete' = ~snapshots
    /\ state' = "Running"
    /\ starts' = starts + 1
    /\ UNCHANGED <<written, queues, durable, confirmation, registered_sink, call, results,
                   config, injected, errors>>

-----------------------------------------------------------------------------
(* run_to_completion and drain_and_stop share the poll and the             *)
(* acknowledgement.  The sink is moved out of its slot for a run.          *)
run_to_completion ==
    /\ call = NoCall /\ state = "Running" /\ registered_sink.slot = "registered"
    /\ registered_sink' = [registered_sink EXCEPT !.slot = "moved"]
    /\ call' = Call("run", "check")
    /\ UNCHANGED <<state, handles, written, queues, durable, confirmation, results, bounds>>

drain_and_stop ==
    /\ call = NoCall /\ state = "Running" /\ "drain_and_stop" \in config.shutdown
    /\ call' = Call("drain", "poll")
    /\ UNCHANGED <<state, handles, written, queues, durable, confirmation, registered_sink, results, bounds>>

(* How a method that polls ends on an error: run_to_completion puts its    *)
(* sink back, drain_and_stop drops what it has drained and acknowledged.   *)
PutBack == IF call.op = "run" THEN [registered_sink EXCEPT !.slot = "registered"] ELSE registered_sink
DropsList == dropped' = dropped \cup ToSet(call.drained) /\ UNCHANGED returned
EndCall == call' = NoCall /\ registered_sink' = PutBack /\ DropsList

(* The token is checked between polls.                                     *)
RunCancelled ==
    /\ call.op = "run" /\ call.stage = "check"
    /\ EndCall
    /\ UNCHANGED <<state, handles, written, queues, durable, confirmation, bounds>>

RunGoesOn ==
    /\ call.op = "run" /\ call.stage = "check"
    /\ call' = [call EXCEPT !.stage = "poll"]
    /\ UNCHANGED <<state, handles, written, queues, durable, confirmation, registered_sink, results, bounds>>

Polling == call.stage = "poll" /\ state = "Running"

(* A batch goes to the sink event by event, or to drain_and_stop's list.   *)
Got(batch) ==
    call' = IF call.op = "drain"
            THEN [call EXCEPT !.stage = "ack", !.drained = @ \o batch, !.attempt = 0]
            ELSE [call EXCEPT !.stage = "send", !.attempt = 0]

GotNothing ==
    call' = [call EXCEPT !.stage = IF call.op = "drain" THEN "stop" ELSE "check", !.attempt = 0]

Redelivers ==
    /\ Polling /\ pending_delivery # <<>>
    /\ Got(pending_delivery)
    /\ UNCHANGED <<state, handles, written, queues, durable, confirmation, registered_sink, results, bounds>>

(* flush_pending_source_events of a queue: cut a batch and deliver it.     *)
Flush(queue) ==
    LET n == Min({Len(queue), MaxBatch})
    IN  /\ pending_delivery' = SubSeq(queue, 1, n)
        /\ pending_source_events' = SubSeq(queue, n + 1, Len(queue))
        /\ IF n = 0 THEN GotNothing ELSE Got(SubSeq(queue, 1, n))

(* What a handle hands over passes the idempotency guard and is queued.    *)
HandOver(events) ==
    /\ seen' = IF HasGuard THEN seen \cup ToSet(events) ELSE seen
    /\ Flush(pending_source_events \o SelectSeq(events, LAMBDA e : e \notin seen))

PollsQueue ==
    /\ Polling /\ pending_delivery = <<>> /\ pending_source_events # <<>>
    /\ Flush(pending_source_events)
    /\ UNCHANGED <<state, handles, written, injected_events, seen, durable, confirmation,
                   registered_sink, results, bounds>>

Unqueued == Polling /\ pending_delivery = <<>> /\ pending_source_events = <<>>

PollsInjected ==
    /\ Unqueued /\ injected_events # <<>>
    /\ HandOver(SubSeq(injected_events, 1, Min({Len(injected_events), MaxBatch})))
    /\ injected_events' = SubSeq(injected_events, Min({Len(injected_events), MaxBatch}) + 1, Len(injected_events))
    /\ UNCHANGED <<state, handles, written, durable, confirmation, registered_sink, results, bounds>>

PollsSnapshot ==
    /\ Unqueued /\ injected_events = <<>> /\ snapshot # Closed /\ snapshot < config.rows
    /\ \E last \in {Min({snapshot + MaxBatch, config.rows})} :
          HandOver([k \in 1..last - snapshot |-> snapshot + k]) /\ snapshot' = last
    /\ UNCHANGED <<state, stream, handoff_complete, written, injected_events, durable, confirmation,
                   registered_sink, results, bounds>>

(* The snapshot has no more rows: hand off, then poll the stream.          *)
HandsOff ==
    /\ Unqueued /\ injected_events = <<>> /\ snapshot = config.rows
    /\ snapshot' = Closed
    /\ handoff_complete' = TRUE
    /\ UNCHANGED <<state, stream, written, queues, durable, confirmation, registered_sink, call,
                   results, bounds>>

Streaming == Unqueued /\ injected_events = <<>> /\ snapshot = Closed

PollsStream ==
    /\ Streaming /\ stream # Closed
    /\ HandOver([k \in 1..written - stream |-> stream + k])
    /\ stream' = written
    /\ UNCHANGED <<state, snapshot, handoff_complete, written, injected_events, durable, confirmation,
                   registered_sink, results, bounds>>

-----------------------------------------------------------------------------
(* What a source's next_events can fail with, and what the reconnect loop  *)
(* makes of it (core/error.rs).  A Context is judged by what it wraps.     *)
SourceErrorKind ==
    {"NetworkTransient", "AuthFailed", "SchemaMismatch", "SlotNotFound", "QuotaExceeded", "Unknown"}

Error ==
    {"SourceError", "TimeoutError", "Backpressure", "ConfigError", "NotImplemented", "Unrecoverable",
     "CheckpointError", "SchemaError", "StateError", "TransformError", "SerializationError", "IoError",
     "ValidationError", "PostCommitConfirmFailed"} \cup SourceErrorKind

SourceErrorKind_is_recoverable(k) == k \in {"NetworkTransient", "QuotaExceeded", "Unknown"}

kind(error) ==
    CASE error \in {"SourceError", "TimeoutError"}     -> "Transient"
      [] error \in SourceErrorKind -> IF SourceErrorKind_is_recoverable(error) THEN "Transient" ELSE "Terminal"
      [] error = "Backpressure"                         -> "Backpressure"
      [] error \in {"ConfigError", "NotImplemented"}    -> "Configuration"
      [] OTHER                                          -> "Terminal"

is_recoverable(error) == kind(error) = "Transient"

(* ConnectionRetryPolicy.  A recoverable error drops the stream and tries  *)
(* to reopen it from the checkpoint; each further try counts.  Any other   *)
(* error, and a checkpoint that cannot be loaded, ends the poll: a stream  *)
(* is never reopened at a guessed position.                                *)
Exhausted ==
    LET policy == config.options.connection_retry
    IN  policy = None \/ (policy[1] # Unlimited /\ call.attempt >= policy[1])

Reopens == stream' = Max({durable, config.rows})

StreamErrs ==
    /\ Streaming /\ stream # Closed /\ Fails("poll")
    /\ \E error \in Error :
          IF ~is_recoverable(error) \/ Exhausted
          THEN EndCall /\ UNCHANGED stream
          ELSE \/ /\ call' = [call EXCEPT !.attempt = @ + 1]
                  /\ Reopens \/ stream' = Closed
                  /\ UNCHANGED <<registered_sink, results>>
               \/ "load" \in config.failing /\ EndCall /\ stream' = Closed
    /\ UNCHANGED <<state, snapshot, handoff_complete, written, queues, durable, confirmation>>

(* Inside the loop with no stream: connect, or start_stream, fails again.  *)
ReconnectFails ==
    /\ Streaming /\ stream = Closed /\ call.attempt > 0 /\ Fails("poll")
    /\ IF Exhausted THEN EndCall
       ELSE call' = [call EXCEPT !.attempt = @ + 1] /\ UNCHANGED <<registered_sink, results>>
    /\ UNCHANGED <<state, handles, written, queues, durable, confirmation>>

Reconnects ==
    /\ Streaming /\ stream = Closed /\ call.attempt > 0
    /\ Reopens
    /\ UNCHANGED <<state, snapshot, handoff_complete, written, queues, durable, confirmation,
                   registered_sink, call, results, bounds>>

ReconnectUnread ==
    /\ Streaming /\ stream = Closed /\ call.attempt > 0 /\ Fails("load")
    /\ EndCall
    /\ UNCHANGED <<state, handles, written, queues, durable, confirmation>>

(* A later poll with no stream answers an empty batch.                     *)
PollsNoStream ==
    /\ Streaming /\ stream = Closed /\ call.attempt = 0
    /\ GotNothing
    /\ UNCHANGED <<state, handles, written, queues, durable, confirmation, registered_sink, results, bounds>>

-----------------------------------------------------------------------------
(* Mutant of SinkFlushes: the batch is acknowledged without a flush.       *)
SinkSkipsFlush ==
    /\ call.stage = "flush"
    /\ call' = [call EXCEPT !.stage = "ack"]
    /\ UNCHANGED <<state, handles, written, queues, durable, confirmation, registered_sink, results, bounds>>

SinkSends ==
    /\ call.stage = "send"
    /\ \/ /\ Works
          /\ registered_sink' = [registered_sink EXCEPT !.unflushed = @ \cup ToSet(pending_delivery)]
          /\ call' = [call EXCEPT !.stage = "flush"]
       \/ /\ Fails("sink")
          /\ \E k \in 0..Len(pending_delivery) - 1 :
                registered_sink' = [PutBack EXCEPT !.unflushed = @ \cup ToSet(SubSeq(pending_delivery, 1, k))]
          /\ call' = NoCall
    /\ UNCHANGED <<state, handles, written, queues, durable, confirmation, results>>

SinkFlushes ==
    /\ call.stage = "flush"
    /\ \/ /\ Works
          /\ registered_sink' = [registered_sink EXCEPT !.unflushed = {}, !.flushed = @ \cup registered_sink.unflushed]
          /\ call' = [call EXCEPT !.stage = "ack"]
          /\ UNCHANGED results
       \/ Fails("sink") /\ EndCall
    /\ UNCHANGED <<state, handles, written, queues, durable, confirmation>>

(* commit_ack of the whole batch.  It may fail before the checkpoint is    *)
(* written, or, when the source refuses the position, after it.            *)
Acknowledged(unconfirmed) ==
    /\ durable' = Max({durable} \cup {e \in ToSet(pending_delivery) : e <= Writes})
    /\ confirmation' = IF unconfirmed THEN "pending" ELSE "none"
    /\ pending_delivery' = <<>>

Proceeds == call' = [call EXCEPT !.stage = IF call.op = "drain" THEN "poll" ELSE "check"]
            /\ UNCHANGED <<registered_sink, results>>

commit_ack ==
    /\ call.stage = "ack"
    /\ \/ Works /\ Acknowledged(FALSE) /\ Proceeds
       \/ Fails("commit") /\ EndCall /\ UNCHANGED <<durable, confirmation, pending_delivery>>
       \/ /\ stream # Closed /\ Fails("commit") /\ Acknowledged(TRUE)
          /\ IF config.options.fail_fast THEN EndCall ELSE Proceeds
    /\ UNCHANGED <<state, handles, written, injected_events, pending_source_events, seen>>

-----------------------------------------------------------------------------
(* stop refuses while anything is uncommitted.                             *)
Uncommitted == Len(pending_delivery) + Len(pending_source_events) + Len(injected_events)

Stops(op) ==
    IF Uncommitted > 0
    THEN call' = NoCall /\ DropsList /\ UNCHANGED state
    ELSE state' = "Stopping" /\ call' = [call EXCEPT !.op = op, !.stage = "close"] /\ UNCHANGED results

stop ==
    /\ call = NoCall /\ "stop" \in config.shutdown /\ state = "Running"
    /\ Stops("stop")
    /\ UNCHANGED <<handles, written, queues, durable, confirmation, registered_sink, bounds>>

StopsDrained ==
    /\ call.op = "drain" /\ call.stage = "stop"
    /\ Stops("drain")
    /\ UNCHANGED <<handles, written, queues, durable, confirmation, registered_sink, bounds>>

(* What force_stop hands back, in delivery order.                          *)
Drained == pending_delivery \o pending_source_events \o injected_events

force_stop ==
    /\ call = NoCall /\ "force_stop" \in config.shutdown /\ state = "Running"
    /\ state' = "Stopping"
    /\ call' = [Call("force_stop", "close") EXCEPT !.drained = Drained]
    /\ pending_delivery' = <<>> /\ pending_source_events' = <<>> /\ injected_events' = <<>>
    /\ UNCHANGED <<handles, written, seen, durable, confirmation, registered_sink, results, bounds>>

(* source.close().await reports nothing and has no timeout: it returns, or *)
(* the shutdown hangs in it, Stopping.                                     *)
SourceCloses ==
    /\ call.stage = "close"
    /\ \/ /\ Works
          /\ snapshot' = Closed /\ stream' = Closed
          /\ state' = "Stopped"
          /\ call' = [call EXCEPT !.stage = "close_sink"]
       \/ /\ Fails("hang")
          /\ call' = [call EXCEPT !.stage = "source_hangs"]
          /\ UNCHANGED <<state, snapshot, stream>>
    /\ UNCHANGED <<handoff_complete, written, queues, durable, confirmation, registered_sink, results>>

(* The sink is taken out of its slot and closed last; close flushes.  When *)
(* it fails the error is the method's result, in place of the drained      *)
(* events.  A close that hangs is an error once the timeout, if one is     *)
(* configured, has passed.                                                 *)
CloseFails ==
    /\ call' = NoCall
    /\ registered_sink' = [registered_sink EXCEPT !.slot = "none", !.unflushed = {}]
    /\ DropsList

SinkCloses ==
    /\ call.stage = "close_sink"
    /\ \/ /\ Works
          /\ call' = NoCall
          /\ registered_sink' = [slot |-> "none", open |-> FALSE, unflushed |-> {},
                                 flushed |-> registered_sink.flushed \cup registered_sink.unflushed]
          /\ returned' = returned \o call.drained
          /\ UNCHANGED dropped
       \/ Fails("close") /\ CloseFails
       \/ /\ Fails("hang")
          /\ call' = [call EXCEPT !.stage = "sink_hangs"]
          /\ UNCHANGED <<registered_sink, results>>
    /\ UNCHANGED <<state, handles, written, queues, durable, confirmation>>

CloseTimesOut ==
    /\ call.stage = "sink_hangs" /\ config.options.sink_close_timeout
    /\ CloseFails
    /\ UNCHANGED <<state, handles, written, queues, durable, confirmation, bounds>>

-----------------------------------------------------------------------------
Polls == \/ Redelivers \/ PollsQueue \/ PollsInjected \/ PollsSnapshot \/ HandsOff \/ PollsStream
         \/ StreamErrs \/ ReconnectFails \/ ReconnectUnread \/ Reconnects \/ PollsNoStream

Proceed == \/ RunGoesOn \/ Polls \/ SinkSends \/ SinkFlushes \/ commit_ack \/ StopsDrained
           \/ SourceCloses \/ SinkCloses \/ CloseTimesOut

Next ==
    \/ SourceWrites \/ enqueue_event \/ register_sink \/ start \/ run_to_completion \/ drain_and_stop
    \/ RunCancelled \/ Proceed \/ stop \/ force_stop

(* A suspended method is polled by its executor until it returns.          *)
Spec == Init /\ [][Next]_vars /\ WF_vars(Proceed)

-----------------------------------------------------------------------------
TypeOK ==
    /\ state \in {"Idle", "Running", "Stopping", "Stopped"}
    /\ snapshot \in {Closed} \cup 0..Writes /\ stream \in {Closed} \cup 0..Writes
    /\ durable \in 0..Writes
    /\ Len(pending_delivery) <= MaxBatch
    /\ registered_sink.slot \in {"registered", "moved", "none"}
    /\ state = "Stopped" => stream = Closed /\ snapshot = Closed

Received == registered_sink.flushed \cup ToSet(returned) \cup ToSet(call.drained)

InHand == ToSet(pending_delivery \o pending_source_events)

(* An event a running runtime's handles have gone past, or would after a   *)
(* restart, is durable at the sink, with the embedder, or still queued:    *)
(* run_sink_loop flushes before it acknowledges, drain_and_stop returns    *)
(* what it commits, force_stop what it discards, and the guard suppresses  *)
(* only what somebody has.  The one exception is a drain_and_stop or a     *)
(* force_stop that failed: its error takes the place of the events it      *)
(* would have handed back, which a drain has already acknowledged and the  *)
(* guard suppresses after a force_stop.                                    *)
NothingSteppedOver ==
    state = "Running" =>
        \A e \in 1..(IF snapshot # Closed THEN snapshot ELSE stream) : e \in Received \cup InHand \cup dropped

(* What force_stop and drain_and_stop hand back is a stream the embedder   *)
(* can apply: source events in capture order, and after a force_stop the   *)
(* injected ones behind them, where poll_event_batch would have put them.  *)
HandedBackInOrder ==
    \A i, j \in DOMAIN call.drained :
        i < j => call.drained[i] < call.drained[j] \/ (call.op = "drain" /\ call.drained[i] > Writes)

(* A shutdown that closes the source and the sink returns, and leaves a    *)
(* state start accepts.  It waits for ever only in the source's close, or  *)
(* in a sink's close that no timeout bounds.                               *)
WaitsForEver == call.stage = "source_hangs" \/ (call.stage = "sink_hangs" /\ ~config.options.sink_close_timeout)
StopBegan == (state = "Stopping" \/ call.stage \in {"close", "close_sink", "sink_hangs"}) /\ ~WaitsForEver
StopEnded == state = "Stopped" \/ WaitsForEver
StopEnds == StopBegan ~> StopEnded
=============================================================================

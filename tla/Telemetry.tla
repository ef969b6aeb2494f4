----------------------------- MODULE Telemetry ------------------------------
(***************************************************************************)
(* The OpenTelemetry collector and tracer (core/otel.rs) behind the        *)
(* runtime's calls to them: deliver_buffered_batch, commit_ack and         *)
(* force_stop record metrics and spans event by event while other threads  *)
(* read them: export_metrics is a read of the state after any step.  The   *)
(* hot counter is an atomic beside a locked table, so recording one event  *)
(* is three steps and reset is two.                                        *)
(*                                                                         *)
(* An event is its trace id, its operation and the latency recorded for    *)
(* it.  The OTLP exporters, attributes and durations are left out.         *)
(***************************************************************************)
EXTENDS Integers, Sequences, FiniteSets, TLC

CONSTANTS
    Feeds,                   \* what the source delivers; Init chooses
    MAX_HISTOGRAM_SAMPLES,
    MaxResets

VARIABLES
    feed,        \* [events, max_buffer_size, resets]
    next,        \* number of events of the feed delivered so far
    pending,     \* the unacknowledged delivery: events and committed prefix
    recording,   \* events of the delivery still to be recorded, and the step
    total,       \* events_processed_total, the atomic
    counters,    \* events_polled by operation, events_committed, errors
    samples,     \* event_processing_duration_ms
    lag_events,  \* the replication_lag_events gauge
    resetting,   \* reset has stored the atomic and not yet cleared the table
    active,      \* active_spans: trace id -> event that started it
    completed,   \* completed_spans: [event, status, error]
    resets,
    history      \* ghost: latencies recorded, events delivered and committed, since reset

vars == <<feed, next, pending, recording, total, counters, samples, lag_events,
          resetting, active, completed, resets, history>>

None == [events |-> <<>>, committed_prefix |-> 0]
Operations == {"insert", "update", "delete"}
Zero == [k \in Operations \union {"committed", "errors"} |-> 0]
Fresh == [latencies |-> <<>>, delivered |-> 0, committed |-> 0]
Min2(a, b) == IF a < b THEN a ELSE b

RECURSIVE SumOver(_, _)
SumOver(f, S) ==
    IF S = {} THEN 0 ELSE LET x == CHOOSE x \in S : TRUE IN f[x] + SumOver(f, S \ {x})

(***************************************************************************)
(* The collector.                                                          *)
(***************************************************************************)
\* A full window loses its oldest quarter.
push_bounded(window, value) ==
    Append(IF Len(window) >= MAX_HISTOGRAM_SAMPLES
           THEN SubSeq(window, MAX_HISTOGRAM_SAMPLES \div 4 + 1, Len(window)) ELSE window, value)

total_events_processed(table) == SumOver(table, Operations)

get_histogram_percentile(window, percentile) ==
    LET sorted == SortSeq(window, LAMBDA a, b : a < b)
        index == (Len(window) * percentile) \div 100
    IN IF window = <<>> THEN <<>> ELSE <<sorted[Min2(index, Len(window) - 1) + 1]>>

(***************************************************************************)
(* The tracer.                                                             *)
(***************************************************************************)
\* A second start under the same id replaces the first span.
trace_event_start(spans, event) == (event.id :> event) @@ spans

\* end_span_with_status: every status but "ok" is an error; an unknown id is
\* ignored.
trace_event_end(tracer, id, status) ==
    IF id \notin DOMAIN tracer.active THEN tracer
    ELSE [active |-> [i \in DOMAIN tracer.active \ {id} |-> tracer.active[i]],
          completed |-> Append(tracer.completed,
             [event |-> tracer.active[id], status |-> status, error |-> status # "ok"])]

EndAll(events, status) ==
    LET f[i \in 0 .. Len(events)] ==
            IF i = 0 THEN [active |-> active, completed |-> completed]
            ELSE trace_event_end(f[i - 1], events[i].id, status)
    IN f[Len(events)]

Tracer(t) == active' = t.active /\ completed' = t.completed

(***************************************************************************)
(* The runtime thread.                                                     *)
(***************************************************************************)
Init ==
    /\ feed \in Feeds
    /\ next = 0 /\ pending = None
    /\ recording = [events |-> <<>>, at |-> "span"]
    /\ total = 0 /\ counters = Zero /\ samples = <<>> /\ lag_events = 0
    /\ resetting = FALSE
    /\ active = <<>> /\ completed = <<>>
    /\ resets = 0 /\ history = Fresh

\* record_replication_lag_metric: the whole delivery counts until it is gone.
record_replication_lag_metric(p) == lag_events' = Len(p.events)

\* deliver_buffered_batch takes at most max_buffer_size events; recording them
\* is the next steps of the same call.
deliver_buffered_batch ==
    /\ pending = None /\ recording.events = <<>> /\ next < Len(feed.events)
    /\ feed.resets = "at_rest" => ~resetting
    /\ LET n == Min2(feed.max_buffer_size, Len(feed.events) - next)
           batch == SubSeq(feed.events, next + 1, next + n)
       IN /\ next' = next + n
          /\ pending' = [events |-> batch, committed_prefix |-> 0]
          /\ recording' = [events |-> batch, at |-> "span"]
    /\ UNCHANGED <<feed, total, counters, samples, lag_events, resetting, active,
                   completed, resets, history>>

\* record_event_processed for one event: the span and the atomic, then the
\* counter of its operation under the lock, then the histogram under the lock.
record_event_processed ==
    /\ recording.events # <<>>
    /\ LET event == Head(recording.events) IN
       CASE recording.at = "span" ->
              /\ active' = trace_event_start(active, event)
              /\ total' = total + 1
              /\ recording' = [recording EXCEPT !.at = "counter"]
              /\ UNCHANGED <<counters, samples, lag_events, history>>
         [] recording.at = "counter" ->
              /\ counters' = [counters EXCEPT ![event.op] = @ + 1]
              /\ recording' = [recording EXCEPT !.at = "histogram"]
              /\ UNCHANGED <<active, total, samples, lag_events, history>>
         [] OTHER ->
              /\ samples' = push_bounded(samples, event.latency_ms)
              /\ history' = [history EXCEPT !.latencies = Append(@, event.latency_ms),
                                            !.delivered = @ + 1]
              /\ recording' = [events |-> Tail(recording.events), at |-> "span"]
              /\ IF Len(recording.events) = 1 THEN record_replication_lag_metric(pending)
                 ELSE UNCHANGED lag_events
              /\ UNCHANGED <<active, total, counters>>
    /\ UNCHANGED <<feed, next, pending, resetting, completed, resets>>

\* The events whose trace ids commit_ack collects.
committed_trace_ids(p, count) ==
    SubSeq(p.events, p.committed_prefix + 1, p.committed_prefix + count)

\* An acknowledgement of the next count events whose durable write succeeded.
commit_ack ==
    /\ pending # None /\ recording.events = <<>>
    /\ feed.resets = "at_rest" => ~resetting
    /\ \E count \in 1 .. Len(pending.events) - pending.committed_prefix :
          LET prefix == pending.committed_prefix + count
              rest == IF prefix >= Len(pending.events) THEN None
                      ELSE [pending EXCEPT !.committed_prefix = prefix]
          IN /\ pending' = rest
             /\ counters' = [counters EXCEPT !["committed"] = @ + count]
             /\ history' = [history EXCEPT !.committed = @ + count]
             /\ Tracer(EndAll(committed_trace_ids(pending, count), "committed"))
             /\ record_replication_lag_metric(rest)
    /\ UNCHANGED <<feed, next, recording, total, samples, resetting, resets>>

\* One whose durable write failed: record_runtime_error, and nothing moves.
CommitFails ==
    /\ pending # None /\ recording.events = <<>> /\ counters["errors"] = 0
    /\ feed.resets = "at_rest" => ~resetting
    /\ counters' = [counters EXCEPT !["errors"] = 1]
    /\ UNCHANGED <<feed, next, pending, recording, total, samples, lag_events,
                   resetting, active, completed, resets, history>>

\* force_stop ends the spans of the uncommitted tail and of what was buffered
\* behind it, whose spans never started.  The runtime does not deliver again.
force_stop ==
    /\ recording.events = <<>>
    /\ pending # None \/ next < Len(feed.events)
    /\ LET tail == SubSeq(pending.events, pending.committed_prefix + 1, Len(pending.events))
           behind == SubSeq(feed.events, next + 1, Len(feed.events))
       IN Tracer(EndAll(tail \o behind, "force_stopped"))
    /\ pending' = None /\ next' = Len(feed.events)
    /\ UNCHANGED <<feed, recording, total, counters, samples, lag_events, resetting, resets, history>>

(***************************************************************************)
(* A test that resets.                                                     *)
(***************************************************************************)
\* reset: the atomic is stored, then the table cleared.  Called at rest, the
\* runtime thread waits for it.
reset ==
    /\ \/ /\ ~resetting /\ resets < MaxResets
          /\ feed.resets = "at_rest" => recording.events = <<>>
          /\ total' = 0 /\ resetting' = TRUE /\ resets' = resets + 1
          /\ UNCHANGED <<counters, samples, lag_events, history>>
       \/ /\ resetting
          /\ counters' = Zero /\ samples' = <<>> /\ lag_events' = 0 /\ resetting' = FALSE
          /\ history' = Fresh
          /\ UNCHANGED <<total, resets>>
    /\ UNCHANGED <<feed, next, pending, recording, active, completed>>

Next ==
    \/ deliver_buffered_batch \/ record_event_processed
    \/ commit_ack \/ CommitFails \/ force_stop \/ reset

Spec == Init /\ [][Next]_vars

(***************************************************************************)
(* Properties.                                                             *)
(***************************************************************************)
\* The collector and the tracer keep their shape.
TypeOK ==
    /\ feed \in Feeds /\ next \in 0 .. Len(feed.events)
    /\ pending.committed_prefix \in 0 .. Len(pending.events)
    /\ Len(samples) <= MAX_HISTOGRAM_SAMPLES /\ resetting \in BOOLEAN

\* Between the steps of the recorder the lock-free total is ahead of the table
\* by the event being recorded and no other; at rest both count the events
\* delivered, and the committed counter the events committed.
TotalsAgree ==
    /\ ~resetting =>
          total - total_events_processed(counters) = IF recording.at = "counter" THEN 1 ELSE 0
    /\ ~resetting /\ recording.at = "span" =>
          total = history.delivered /\ counters["committed"] = history.committed

\* A histogram is the most recent samples: a suffix of everything recorded since
\* the last reset, never less than three quarters of a full window.
SamplesAreRecent ==
    LET n == Len(history.latencies) IN
    /\ samples = SubSeq(history.latencies, n - Len(samples) + 1, n)
    /\ Len(samples) >= Min2(n, MAX_HISTOGRAM_SAMPLES - MAX_HISTOGRAM_SAMPLES \div 4)

\* A percentile is one of the samples, and at least that share of them is not
\* above it.
PercentilesHold ==
    \A p \in {0, 50, 95, 100} :
       LET got == get_histogram_percentile(samples, p) IN
       /\ got = <<>> <=> samples = <<>>
       /\ got # <<>> =>
             100 * Cardinality({i \in DOMAIN samples : samples[i] <= got[1]}) >= p * Len(samples)

\* When no event is being recorded, the open spans are exactly those of the
\* events delivered and not committed, over partial acknowledgements and
\* force_stop, when trace ids are unique.
SpansFollowDelivery ==
    recording.events = <<>> =>
       {active[i] : i \in DOMAIN active} =
          {pending.events[i] : i \in pending.committed_prefix + 1 .. Len(pending.events)}

\* The span of a committed event is not an error.
CommittedIsNotAnError ==
    \A i \in DOMAIN completed : completed[i].status = "committed" => ~completed[i].error

====

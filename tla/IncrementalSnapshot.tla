------------------------ MODULE IncrementalSnapshot ------------------------
(***************************************************************************)
(* IncrementalSnapshotDriver: a StreamHandle that wraps a connector's      *)
(* stream, reads the configured tables chunk by chunk between two          *)
(* watermarks, and hands the chunk rows over between the live events.      *)
(* Around it stands what the runtime does with a returned batch: attach a  *)
(* checkpoint offset to every event, deliver, and make the last            *)
(* persistable offset of an acknowledged prefix durable.                   *)
(*                                                                         *)
(* drive() awaits at three places of a chunk read; `pc` is where it        *)
(* stands, so the database moves between the low watermark, the SELECT and *)
(* the high watermark.  Control requests are serviced between two calls.   *)
(***************************************************************************)
EXTENDS SnapshotSource

CONSTANTS
    InnerBatch   \* most events one inner.next_events() returns

VARIABLES
    tables,      \* Vec<TableProgress>: [name, cursor, is_complete]
    phase,       \* Phase
    pc,          \* where drive() stands
    paused, stopped, generation,
    deferred,    \* live events read past a high watermark, not yet returned
    read,        \* number of log entries the inner stream has returned
    handed,      \* number of log entries drive() has returned (history)
    inflight,    \* the delivered, unacknowledged events with their offsets
    durable,     \* the checkpoint record
    consumer,    \* the downstream table: row id -> row
    seen,        \* identities the idempotency guard remembers
    faults,      \* crashes and reconnects so far
    requests     \* control requests so far

driverVars == <<tables, phase, pc, paused, stopped, generation, deferred, read, handed>>
runtimeVars == <<inflight, durable, consumer, seen>>
budgets == <<faults, requests>>
vars == <<sourceVars, driverVars, runtimeVars, budgets>>

Idle == [at |-> "idle"]
Loop == [at |-> "loop"]
Done == [kind |-> "Done"]
Prepare(i) == [kind |-> "ChunkPrepare", table |-> i]

NoOffset == [none |-> TRUE]
NoState == [none |-> TRUE]

ChunkSize == Max({config.chunk_size, 1})
emit_batch_size == ChunkSize

Live(e) == "xid" \in DOMAIN e

(***************************************************************************)
(* Table progress.                                                         *)
(***************************************************************************)
Fresh(t) == [name |-> t, cursor |-> 0, is_complete |-> FALSE]

Incomplete(ts) == {i \in DOMAIN ts : ~ts[i].is_complete}

next_incomplete_table(ts) == IF Incomplete(ts) = {} THEN 0 ELSE Min(Incomplete(ts))

PhaseFor(ts) ==
    LET i == next_incomplete_table(ts) IN IF i = 0 THEN Done ELSE Prepare(i)

snapshot_state(ts) ==
    [tables |-> ts, paused |-> paused, stopped |-> stopped, generation |-> generation]

(***************************************************************************)
(* Construction from a checkpoint.                                         *)
(***************************************************************************)
Entry(state, t) ==
    LET found == SelectSeq(state.tables, LAMBDA e : e.name = t)
    IN  IF found = <<>> THEN Fresh(t) ELSE found[1]

\* The configured tables with their persisted progress, then the unfinished
\* tables the checkpoint knows and the configuration does not.  A recorded stop
\* seeds neither.
RestoredTables(state) ==
    IF state = NoState THEN [i \in DOMAIN config.tables |-> Fresh(config.tables[i])]
    ELSE IF state.stopped THEN <<>>
    ELSE [i \in DOMAIN config.tables |-> Entry(state, config.tables[i])]
         \o SelectSeq(state.tables,
                      LAMBDA e : ~e.is_complete /\ e.name \notin ToSet(config.tables))

new(record) ==
    LET state == record.state
    IN  /\ tables' = RestoredTables(state)
        /\ phase' = PhaseFor(RestoredTables(state))
        /\ paused' = (state # NoState /\ state.paused)
        /\ stopped' = (state # NoState /\ state.stopped)
        /\ generation' = IF state = NoState THEN 0 ELSE state.generation
        /\ deferred' = <<>>
        /\ pc' = Idle
        /\ read' = record.resume - 1
        /\ handed' = record.resume - 1

(***************************************************************************)
(* Offsets.  A record holds the index of the first log entry a restart is  *)
(* sent again, and the chunk cursors.  A live event carries its own        *)
(* position: PostgreSQL re-sends every transaction that committed at or    *)
(* after the change's own position, MySQL resumes behind the event, SQL    *)
(* Server at the event.                                                    *)
(***************************************************************************)
ResumeAt(e) ==
    CASE IsPostgres -> Min({i \in DOMAIN log : log[i].commit >= e.pos})
      [] IsMysql -> e.idx + 1
      [] IsSqlServer -> e.idx

\* Mutant: the inner position is reported although events are held back.
position_offset_unheld(ts, held, upto) ==
    IF IsSqlServer THEN NoOffset ELSE [resume |-> upto + 1, state |-> snapshot_state(ts)]

\* None while events are held back, and on SQL Server, whose stream has none.
position_offset(ts, held, upto) ==
    IF held # <<>> \/ IsSqlServer THEN NoOffset
    ELSE [resume |-> upto + 1, state |-> snapshot_state(ts)]

OffsetFor(e, ts, held, upto) ==
    IF Live(e) THEN [resume |-> ResumeAt(e), state |-> snapshot_state(ts)]
    ELSE position_offset(ts, held, upto)

(***************************************************************************)
(* What the runtime does with a batch drive() returns.                     *)
(***************************************************************************)
Identity(e) ==
    IF Live(e) THEN <<e.xid, e.row>> ELSE <<e.generation, e.table, e.key, e.row>>

should_process(e) == ~config.guard \/ Identity(e) \notin seen

\* The offsets are taken from the driver as the call left it: table progress ts,
\* held-back events, and the inner stream's position.
Return(batch, ts, held, upto) ==
    LET fresh == SelectSeq(batch, should_process)
    IN  /\ tables' = ts
        /\ deferred' = held
        /\ read' = upto
        /\ handed' = handed + Len(SelectSeq(batch, Live))
        /\ pc' = Idle
        /\ inflight' = [i \in DOMAIN fresh |->
                          [event |-> fresh[i], offset |-> OffsetFor(fresh[i], ts, held, upto)]]
        /\ seen' = IF config.guard THEN seen \union {Identity(e) : e \in ToSet(fresh)} ELSE seen
        /\ UNCHANGED <<sourceVars, durable, consumer, budgets>>

Continue ==
    /\ pc' = Loop
    /\ UNCHANGED <<sourceVars, handed, runtimeVars, budgets>>

(***************************************************************************)
(* One turn of drive()'s loop.                                             *)
(***************************************************************************)
Running(kind) == pc = Loop /\ phase.kind = kind

drain_deferred(ts) ==
    LET n == Min({Len(deferred), emit_batch_size})
    IN  Return(SubSeq(deferred, 1, n), ts, SubSeq(deferred, n + 1, Len(deferred)), read)

\* inner.next_events(): up to InnerBatch events, or none when the wait ends first.
Pollable == 0 .. Min({InnerBatch, Available - read})

Polled(n) == SubSeq(log, read + 1, read + n)

PassThrough ==
    /\ UNCHANGED <<phase, paused, stopped, generation>>
    /\ \/ deferred # <<>> /\ drain_deferred(tables)
       \/ deferred = <<>> /\ \E n \in Pollable : Return(Polled(n), tables, <<>>, read + n)

NextEvents ==
    /\ pc = Idle
    /\ inflight = <<>>
    /\ Continue
    /\ UNCHANGED <<tables, phase, paused, stopped, generation, deferred, read>>

DriveDone ==
    /\ Running("Done")
    /\ PassThrough

DrivePaused ==
    /\ Running("ChunkPrepare")
    /\ paused
    /\ PassThrough

\* drive_chunk_prepare up to its first await: which table, and the low watermark.
ReadLow ==
    /\ Running("ChunkPrepare")
    /\ ~paused
    /\ LET named == phase.table
           i == IF named \in Incomplete(tables) THEN named ELSE next_incomplete_table(tables)
       IN  IF i = 0
           THEN phase' = Done /\ Continue
           ELSE /\ pc' = [at |-> "fetch", table |-> i, low |-> current_position]
                /\ UNCHANGED <<sourceVars, phase, handed, runtimeVars, budgets>>
    /\ UNCHANGED <<tables, paused, stopped, generation, deferred, read>>

FetchChunk ==
    /\ pc.at = "fetch"
    /\ LET t == tables[pc.table]
       IN  pc' = [at |-> "high", table |-> pc.table, low |-> pc.low,
                  chunk |-> fetch_chunk(t.name, t.cursor, ChunkSize)]
    /\ UNCHANGED <<sourceVars, tables, phase, paused, stopped, generation, deferred, read,
                   handed, runtimeVars, budgets>>

\* A chunk row as a Read event of the current generation.
build_snapshot_event(i, r) ==
    [table |-> tables[i].name, key |-> r.key, row |-> r.row, generation |-> generation]

ReadHigh ==
    /\ pc.at = "high"
    /\ IF pc.chunk = <<>>
       THEN /\ tables' = [tables EXCEPT ![pc.table].is_complete = TRUE]
            /\ phase' = PhaseFor(tables')
       ELSE /\ phase' = [kind |-> "ChunkCollect", table |-> pc.table, low |-> pc.low,
                         high |-> current_position, override |-> {},
                         chunk |-> [k \in DOMAIN pc.chunk |-> build_snapshot_event(pc.table, pc.chunk[k])],
                         next_cursor |-> Last(pc.chunk).key]
            /\ UNCHANGED tables
    /\ Continue
    /\ UNCHANGED <<paused, stopped, generation, deferred, read>>

\* A backend read fails: the error leaves drive() with the driver as it was.
PrepareFails ==
    /\ pc.at \in {"fetch", "high"}
    /\ faults < config.faults
    /\ faults' = faults + 1
    /\ pc' = Idle
    /\ UNCHANGED <<sourceVars, tables, phase, paused, stopped, generation, deferred, read,
                   handed, runtimeVars, requests>>

(***************************************************************************)
(* ChunkCollect: classify a batch against the bracket.                     *)
(***************************************************************************)
Membership(e) == event_in_bracket(e, phase.low, phase.high)

\* An in-bracket event of the chunk's table suppresses its chunk row.  What it
\* omits is filled from the chunk's image of the row, which then takes its values.
repair_partial_payload(acc, e) ==
    LET at == {i \in DOMAIN acc.chunk : acc.chunk[i].key = e.key}
        filled(i) == IF e.row.big = Unavailable
                     THEN [e EXCEPT !.row.big = acc.chunk[i].row.big] ELSE e
    IN  IF e.table # tables[phase.table].name \/ Membership(e) # "Inside"
        THEN [acc EXCEPT !.events = Append(@, e)]
        ELSE IF at = {}
        THEN [acc EXCEPT !.events = Append(@, e), !.override = @ \union {e.key}]
        ELSE LET i == Min(at)
             IN  [events |-> Append(acc.events, filled(i)),
                  override |-> acc.override \union {e.key},
                  chunk |-> IF e.row = NoRow THEN acc.chunk
                            ELSE [acc.chunk EXCEPT ![i].row = filled(i).row]]

Collected(batch) ==
    FoldLeft(repair_partial_payload,
             [events |-> <<>>, override |-> phase.override, chunk |-> phase.chunk], batch)

FirstAfter(batch) ==
    LET after == {i \in DOMAIN batch : Membership(batch[i]) = "After"}
    IN  IF after = {} THEN Len(batch) + 1 ELSE Min(after)

WatermarkPassed(batch) ==
    IF batch = <<>> THEN current_position.pos >= phase.high.pos
    ELSE \E e \in ToSet(batch) : e.pos >= phase.high.pos

finalize_collect(chunk, override) ==
    [kind |-> "ChunkEmit", table |-> phase.table, next_cursor |-> phase.next_cursor,
     events |-> SelectSeq(chunk, LAMBDA r : r.key \notin override)]

DriveCollect(n) ==
    LET batch == Polled(n)
        done == Collected(batch)
        split == FirstAfter(batch)
        head == SubSeq(done.events, 1, split - 1)
        passed == WatermarkPassed(batch)
        held == deferred \o SubSeq(done.events, split, Len(batch))
    IN  /\ Running("ChunkCollect")
        /\ phase' = IF passed THEN finalize_collect(done.chunk, done.override)
                    ELSE [phase EXCEPT !.chunk = done.chunk, !.override = done.override]
        /\ UNCHANGED <<paused, stopped, generation>>
        /\ IF head = <<>> /\ passed
           THEN Continue /\ tables' = tables /\ deferred' = held /\ read' = read + n
           ELSE Return(head, tables, held, read + n)

DriveEmit ==
    /\ Running("ChunkEmit")
    /\ phase.events # <<>>
    /\ LET n == Min({Len(phase.events), emit_batch_size})
       IN  /\ phase' = [phase EXCEPT !.events = SubSeq(@, n + 1, Len(@))]
           /\ UNCHANGED <<paused, stopped, generation>>
           /\ Return(SubSeq(phase.events, 1, n), tables, deferred, read)

commit_chunk_progress == [tables EXCEPT ![phase.table].cursor = phase.next_cursor]

\* The chunk is in the consumer's hands: its cursor may become durable.
DriveEmitted ==
    /\ Running("ChunkEmit")
    /\ phase.events = <<>>
    /\ phase' = Prepare(phase.table)
    /\ UNCHANGED <<paused, stopped, generation>>
    /\ IF deferred # <<>>
       THEN drain_deferred(commit_chunk_progress)
       ELSE Continue /\ tables' = commit_chunk_progress /\ UNCHANGED <<deferred, read>>

(***************************************************************************)
(* Control requests, serviced between two polls.                           *)
(***************************************************************************)
Requested ==
    /\ pc = Idle
    /\ requests < config.requests
    /\ requests' = requests + 1

Rewound(ts, names) ==
    [i \in DOMAIN ts |-> IF ts[i].is_complete /\ ts[i].name \in names
                         THEN Fresh(ts[i].name) ELSE ts[i]]

Names(ts) == {ts[i].name : i \in DOMAIN ts}

\* Mutant: a driver parked in Done is not put back on the state machine.
enqueue_tables_parked(names) ==
    LET added == SetToSortSeq(names \ Names(tables), <)
        ts == Rewound(tables, names) \o [i \in DOMAIN added |-> Fresh(added[i])]
        enqueued == ts # tables
    IN  /\ tables' = ts
        /\ generation' = IF enqueued THEN generation + 1 ELSE generation
        /\ stopped' = (stopped /\ ~enqueued)
        /\ UNCHANGED <<pc, phase, paused, deferred, read, handed>>

enqueue_tables(names) ==
    LET added == SetToSortSeq(names \ Names(tables), <)
        ts == Rewound(tables, names) \o [i \in DOMAIN added |-> Fresh(added[i])]
        enqueued == ts # tables
    IN  /\ tables' = ts
        /\ generation' = IF enqueued THEN generation + 1 ELSE generation
        /\ stopped' = (stopped /\ ~enqueued)
        /\ phase' = IF enqueued /\ phase = Done THEN PhaseFor(ts) ELSE phase
        /\ UNCHANGED <<pc, paused, deferred, read, handed>>

RequestSnapshot(names) ==
    /\ Requested
    /\ ~config.rebuild
    /\ enqueue_tables(names)
    /\ UNCHANGED <<sourceVars, runtimeVars, faults>>

\* An operator empties a downstream table and asks for it again, once the
\* previous snapshot of it has finished and nothing is in flight.
RebuildDownstream(t) ==
    /\ Requested
    /\ config.rebuild
    /\ inflight = <<>>
    /\ \E i \in DOMAIN tables : tables[i].name = t /\ tables[i].is_complete
    /\ enqueue_tables({t})
    /\ consumer' = [r \in RowId |-> IF r[1] = t THEN NoRow ELSE consumer[r]]
    /\ UNCHANGED <<sourceVars, inflight, durable, seen, faults>>

set_paused(p) ==
    /\ Requested
    /\ p # paused
    /\ paused' = p
    /\ phase' = IF ~p /\ phase = Done THEN PhaseFor(tables) ELSE phase
    /\ UNCHANGED <<sourceVars, tables, pc, stopped, generation, deferred, read, handed,
                   runtimeVars, faults>>

\* Mutant: a stop forgets the held-back events along with the chunk.
stop_snapshot_drops_held ==
    /\ Requested
    /\ tables' = <<>>
    /\ phase' = Done
    /\ paused' = FALSE
    /\ stopped' = TRUE
    /\ generation' = generation + 1
    /\ deferred' = <<>>
    /\ UNCHANGED <<sourceVars, pc, read, handed, runtimeVars, faults>>

stop_snapshot ==
    /\ Requested
    /\ tables' = <<>>
    /\ phase' = Done
    /\ paused' = FALSE
    /\ stopped' = TRUE
    /\ generation' = generation + 1
    /\ UNCHANGED <<sourceVars, pc, deferred, read, handed, runtimeVars, faults>>

(***************************************************************************)
(* The consumer, and failures.                                             *)
(***************************************************************************)
\* RowWrite: a complete image replaces, a partial one merges into an existing row.
Apply(state, e) ==
    LET old == state[<<e.table, e.key>>]
        partial == e.row.big = Unavailable
    IN  IF partial /\ old = NoRow THEN state
        ELSE [state EXCEPT ![<<e.table, e.key>>] = Written(old, e)]

Applied(n) ==
    FoldLeft(LAMBDA state, d : Apply(state, d.event), consumer, SubSeq(inflight, 1, n))

CommitAck(n) ==
    LET offsets == SelectSeq(SubSeq(inflight, 1, n), LAMBDA d : d.offset # NoOffset)
    IN  /\ n \in DOMAIN inflight
        /\ pc = Idle
        /\ consumer' = Applied(n)
        /\ durable' = IF offsets = <<>> THEN durable ELSE Last(offsets).offset
        /\ inflight' = SubSeq(inflight, n + 1, Len(inflight))
        /\ UNCHANGED <<sourceVars, driverVars, seen, budgets>>

Fault ==
    /\ faults < config.faults
    /\ faults' = faults + 1

\* The process dies after the sink applied n of the delivered events.
Crash(n) ==
    /\ Fault
    /\ n \in 0 .. Len(inflight)
    /\ consumer' = Applied(n)
    /\ inflight' = <<>>
    /\ seen' = {}
    /\ new(durable)
    /\ UNCHANGED <<sourceVars, durable, requests>>

\* A recoverable error inside drive(): the runtime rebuilds the driver from the
\* checkpoint and keeps its idempotency guard.
Reconnect ==
    /\ Fault
    /\ pc # Idle
    /\ new(durable)
    /\ UNCHANGED <<sourceVars, inflight, durable, consumer, seen, requests>>

(***************************************************************************)
(* The specification.                                                      *)
(***************************************************************************)
Init ==
    /\ SourceInit
    /\ tables = RestoredTables(NoState)
    /\ phase = PhaseFor(tables)
    /\ pc = Idle
    /\ paused = FALSE /\ stopped = FALSE /\ generation = 0
    /\ deferred = <<>>
    /\ read = 0 /\ handed = 0
    /\ inflight = <<>>
    /\ durable = [resume |-> 1, state |-> NoState]
    /\ consumer = [r \in RowId |-> NoRow]
    /\ seen = {}
    /\ faults = 0 /\ requests = 0

Drive ==
    \/ NextEvents
    \/ DriveDone
    \/ DrivePaused
    \/ ReadLow
    \/ FetchChunk
    \/ ReadHigh
    \/ \E n \in Pollable : DriveCollect(n)
    \/ DriveEmit
    \/ DriveEmitted

Control ==
    \/ \E names \in SUBSET config.names \ {{}} : RequestSnapshot(names)
    \/ \E t \in config.names : RebuildDownstream(t)
    \/ \E p \in BOOLEAN : set_paused(p)
    \/ stop_snapshot

Ack == \E n \in DOMAIN inflight : CommitAck(n)

Next ==
    \/ SourceNext /\ UNCHANGED <<driverVars, runtimeVars, budgets>>
    \/ Drive
    \/ PrepareFails
    \/ Control
    \/ Ack
    \/ \E n \in 0 .. Len(inflight) : Crash(n)
    \/ Reconnect

Spec == Init /\ [][Next]_vars

\* The runtime keeps polling and the consumer keeps acknowledging.
FairSpec == Spec /\ WF_vars(Drive) /\ WF_vars(Ack)

(***************************************************************************)
(* Properties.                                                             *)
(***************************************************************************)
IsRow(row) == row.a \in Int /\ row.big \in Int

\* Types of the driver's and the runtime's state.
TypeOK ==
    /\ phase.kind \in {"Done", "ChunkPrepare", "ChunkCollect", "ChunkEmit"}
    /\ phase # Done => phase.table \in DOMAIN tables
    /\ \A i \in DOMAIN tables : tables[i].name \in config.names /\ tables[i].cursor \in 0 .. config.keys
    /\ pc.at \in {"idle", "loop", "fetch", "high"}
    /\ read \in 0 .. Len(log)
    /\ durable.resume \in 1 .. Len(log) + 1
    /\ \A r \in RowId : IsRow(consumer[r]) /\ IsRow(rows[r])
    /\ faults \in 0 .. config.faults /\ requests \in 0 .. config.requests

\* Everything the source logged has been delivered and no chunk is pending.
Quiescent ==
    /\ pc = Idle
    /\ inflight = <<>>
    /\ deferred = <<>>
    /\ read = Len(log)
    /\ phase = Done

\* The watermark algorithm's promise: when the snapshot is done and the stream is
\* drained, the consumer's copy of every snapshotted table is the source's, row by
\* row.  No chunk row overwrote a newer live value, no suppressed chunk row left a
\* column behind, no deleted row came back (ChunkCollect and finalize_collect).
ConsumerConverges ==
    Quiescent =>
        \A i \in DOMAIN tables, k \in Key :
            LET r == <<tables[i].name, k>> IN consumer[r] = logged[r]

LiveIndices(events) ==
    LET live == SelectSeq(events, Live) IN [i \in DOMAIN live |-> live[i].idx]

\* The consumer sees one continuous feed: every event the inner stream returned was
\* handed over or is held back, and the live events in flight followed by the
\* held-back ones are the last events of the log read so far, in log order and
\* without a gap (the split at the high watermark, drain_deferred and stop_snapshot).
\* driver.rs:1231 promises it of every chunk.  It holds when one batch drains what is
\* held back, or no chunk follows; a chunk that opens over a remainder lets newer
\* events overtake it (MCHeldBack).
FeedInLogOrder ==
    LET delivered == [i \in DOMAIN inflight |-> inflight[i].event]
        held == LiveIndices(delivered) \o LiveIndices(deferred)
    IN  /\ handed + Len(deferred) = read
        /\ held = [i \in DOMAIN held |-> read - Len(held) + i]

\* A restart loses no row: a row the durable cursors count as delivered is the
\* source's row in the consumer, or a change of it is still to be sent again from
\* the durable position (commit_chunk_progress, position_offset).
CheckpointLosesNoRow ==
    (durable.state # NoState /\ ~config.rebuild) =>
        \A i \in DOMAIN durable.state.tables, k \in Key :
            LET t == durable.state.tables[i]
                r == <<t.name, k>>
            IN  (t.is_complete \/ k <= t.cursor) =>
                    \/ consumer[r] = logged[r]
                    \/ \E j \in durable.resume .. Len(log) : <<log[j].table, log[j].key>> = r

\* No requested table is stranded: unless the operator leaves the snapshot paused,
\* every table in the driver's list is read to its end (next_incomplete_table).
EveryTableIsFinished ==
    <>[](paused \/ \A i \in DOMAIN tables : tables[i].is_complete)
=============================================================================

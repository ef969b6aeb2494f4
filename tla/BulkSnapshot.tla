---------------------------- MODULE BulkSnapshot ----------------------------
(* The blocking snapshot: start() opens a consistent view and a stream,    *)
(* polls read the tables in key order until a chunk comes back empty,      *)
(* perform_handoff joins the stream on, and a restart resumes from the     *)
(* payload the snapshot handle saved.                                      *)
(*                                                                         *)
(* A position is a number of log entries.  A row is its last writer: the   *)
(* log position of the write, 0 for a row that was there from the start.   *)
(* Chunks ask for max_buffer_size rows; max_event_bytes may cut a delivery *)
(* shorter, to `fits` events.  The replica is what a consumer that applies *)
(* each event when it acknowledges it has built.                           *)
EXTENDS Integers, Sequences, SequencesExt, FiniteSetsExt

CONSTANTS
    Deployments,     \* the configurations to consider, see Deployment
    Keys,            \* primary keys, naturals from 1
    MaxWrites,       \* bound: writes the source takes
    MaxCrashes       \* bound: processes that die

Absent == -1
NoCursor == 0
NoPosition == -1
Closed == [open |-> FALSE]

Deployment ==
    [connector       : {"postgres", "mysql", "sqlserver"},
     rows            : Seq(SUBSET Keys),   \* per table, the keys it holds at first
     max_buffer_size : Nat \ {0},
     fits            : Nat \ {0},
     partial_acks    : BOOLEAN,
     writes          : SUBSET {"insert", "update", "delete"},
     start_races     : SUBSET {"opening", "opened"}, \* when start() can meet a write
     slot_exists     : BOOLEAN,            \* PostgreSQL: before the first start()
     peeks           : BOOLEAN,            \* PostgreSQL: WalTransport::SqlPeek
     begin_rejected  : BOOLEAN,            \* SQL Server: BEGIN fails with error 266
     early_crashes   : BOOLEAN]            \* before anything is checkpointed

VARIABLES
    deployment,
    db,              \* per table and key, the row
    log,             \* the source's changes
    slot,            \* PostgreSQL: the slot's confirmed position
    state,           \* "Idle", "opening", "opened", "Running"
    snapshot,        \* the snapshot handle, or Closed
    stream,          \* the stream handle, or Closed
    queue,           \* pending_source_events
    pending_delivery,
    durable,         \* the checkpoint: nothing, a snapshot payload or a stream position
    replica,
    overlooked,      \* history: rows <<table, key>> a start or a crash has stepped over
    crashes

vars == <<deployment, db, log, slot, state, snapshot, stream, queue, pending_delivery, durable,
          replica, overlooked, crashes>>

sourceVars == <<deployment, db, log>>

Is(connector) == deployment.connector = connector
Tables == DOMAIN deployment.rows
LogEnd == Len(log)

Init ==
    /\ deployment \in Deployments
    /\ db = [t \in Tables |-> [k \in Keys |-> IF k \in deployment.rows[t] THEN 0 ELSE Absent]]
    /\ log = <<>>
    /\ slot = IF deployment.slot_exists THEN 0 ELSE NoPosition
    /\ state = "Idle"
    /\ snapshot = Closed
    /\ stream = Closed
    /\ queue = <<>>
    /\ pending_delivery = <<>>
    /\ durable = [kind |-> "none"]
    /\ replica = [t \in Tables |-> [k \in Keys |-> Absent]]
    /\ overlooked = {}
    /\ crashes = 0

(* The application writes a row.                                           *)
Writes(t, k) ==
    LET position == LogEnd + 1
        row(kind) == IF kind = "delete" THEN Absent ELSE position
    IN  /\ LogEnd < MaxWrites
        /\ state \in {"Idle", "Running"} \cup deployment.start_races
        /\ \E kind \in deployment.writes :
              /\ (kind = "insert") <=> (db[t][k] = Absent)
              /\ db' = [db EXCEPT ![t][k] = row(kind)]
              /\ log' = Append(log, [table |-> t, key |-> k, row |-> row(kind),
                                     position |-> position])
        /\ UNCHANGED <<deployment, slot, state, snapshot, stream, queue, pending_delivery, durable,
                       replica, overlooked, crashes>>

-----------------------------------------------------------------------------
(* Starting.  PostgreSQL and MySQL fix the view and then read the log      *)
(* position: MySQL in a statement of its own, PostgreSQL in the first      *)
(* statement of the transaction, whose snapshot need not show a commit     *)
(* that pg_current_wal_lsn already covers.  SQL Server asks for the        *)
(* position first.  connect creates a missing slot.                        *)
query_max_lsn == LogEnd

(* History: the rows of the log entries after `from`, up to `to`.          *)
RowsBetween(from, to) == {<<log[i].table, log[i].key>> : i \in from + 1..to}

Count(rows) == Cardinality({k \in Keys : rows[k] # Absent})

TableSnapshot(rows) ==
    [total_rows |-> Count(rows), rows_processed |-> 0, cursor_position |-> NoCursor,
     is_complete |-> Count(rows) = 0]

(* A new handle, at the first row of the first table.  view_at is history: *)
(* the log position its view was taken at.                                 *)
SnapshotHandle_new(view, watermark) ==
    [view |-> view, view_at |-> LogEnd, watermark |-> watermark, transaction_open |-> ~Is("sqlserver"),
     tables |-> <<>>, current_table |-> 1, emitted_rows |-> 0]

Opens ==
    /\ state = "Idle"
    /\ durable.kind # "stream"
    /\ state' = "opening"
    /\ snapshot' = SnapshotHandle_new(db, IF Is("sqlserver") THEN query_max_lsn ELSE NoPosition)
    /\ slot' = IF slot = NoPosition THEN LogEnd ELSE slot
    /\ UNCHANGED <<sourceVars, stream, queue, pending_delivery, durable, replica, overlooked, crashes>>

total_expected_rows(handle) == MapThenSumSet(LAMBDA t : handle.tables[t].total_rows, Tables)
total_processed(handle) == MapThenSumSet(LAMBDA t : handle.tables[t].rows_processed, Tables)

(* The saved counts, cursors, table and watermark replace the fresh ones;  *)
(* the view stays the new transaction's.                                   *)
resume_from_checkpoint_payload(handle, saved) ==
    [handle EXCEPT !.watermark = saved.watermark, !.view_at = saved.view_at, !.tables = saved.tables,
                   !.current_table = saved.current_table,
                   !.emitted_rows = total_processed(saved)]

(* PostgreSQL derives the current table and refuses another saved one.     *)
derive_current_table_from_progress(tables) ==
    Min({t \in Tables : ~tables[t].is_complete} \cup {Len(tables) + 1})

load_snapshot_tables(view) == [t \in Tables |-> TableSnapshot(view[t])]

(* SNAPSHOT isolation, or SERIALIZABLE where it is not enabled, fixes what *)
(* the transaction reads; where the server rejects BEGIN the snapshot goes *)
(* on without one.                                                         *)
begin_snapshot_transaction == ~deployment.begin_rejected

start_sqlserver_snapshot_internal ==
    [snapshot EXCEPT !.view = db, !.view_at = LogEnd, !.transaction_open = begin_snapshot_transaction,
                     !.tables = load_snapshot_tables(db)]

begin_snapshot_and_collect_table_states ==
    [snapshot EXCEPT !.watermark = LogEnd, !.tables = load_snapshot_tables(snapshot.view)]

StartsSnapshot ==
    LET fresh == IF Is("sqlserver") THEN start_sqlserver_snapshot_internal
                 ELSE begin_snapshot_and_collect_table_states
    IN  /\ state = "opening"
        /\ Is("postgres") /\ durable.kind = "snapshot" =>
              durable.current_table = derive_current_table_from_progress(durable.tables)
        /\ state' = "opened"
        /\ snapshot' = IF durable.kind = "snapshot"
                       THEN resume_from_checkpoint_payload(fresh, durable) ELSE fresh
        /\ UNCHANGED <<sourceVars, slot, stream, queue, pending_delivery, durable, replica,
                       overlooked, crashes>>

(* Mutant of StreamPosition: a resumed stream starts at the end.           *)
StreamPositionAtHead == [start |-> LogEnd, from |-> LogEnd]

(* Where start_stream begins, and where it says it does: a fresh           *)
(* PostgreSQL stream begins at the slot and reports the head, SQL Server   *)
(* begins at the oldest change it retains, MySQL at the head.              *)
StreamPosition ==
    LET resume == CASE durable.kind = "snapshot" -> durable.watermark
                    [] durable.kind = "stream"   -> durable.position
                    [] OTHER                     -> NoPosition
    IN  CASE Is("postgres") -> [start |-> IF resume = NoPosition THEN LogEnd ELSE resume,
                                from |-> Max({slot, resume})]
          [] resume # NoPosition -> [start |-> resume, from |-> resume]
          [] Is("mysql")         -> [start |-> LogEnd, from |-> LogEnd]
          [] OTHER               -> [start |-> 0, from |-> 0]

(* History: what the stream's position lies beyond although the consumer   *)
(* has it neither from the view nor from the stream.  MySQL streams from a *)
(* position read after the view; a resumed stream starts at the saved      *)
(* watermark, which PostgreSQL's first run did not; and a PostgreSQL slot  *)
(* may have been confirmed further than the last acknowledged change.      *)
SteppedOver ==
    CASE durable.kind = "snapshot" -> RowsBetween(durable.view_at, durable.watermark)
      [] durable.kind = "stream"   -> IF Is("postgres") THEN RowsBetween(durable.position, slot) ELSE {}
      [] OTHER -> IF Is("mysql") THEN RowsBetween(snapshot.view_at, snapshot.watermark) ELSE {}

StartsStream ==
    /\ \/ state = "opened"
       \/ state = "Idle" /\ durable.kind = "stream"
    /\ state' = "Running"
    /\ stream' = [start |-> StreamPosition.start, position |-> StreamPosition.from,
                  requeued |-> <<>>]
    /\ overlooked' = overlooked \cup SteppedOver
    /\ UNCHANGED <<sourceVars, slot, snapshot, queue, pending_delivery, durable, replica, crashes>>

-----------------------------------------------------------------------------
(* Polling.                                                                *)
Ascending(keys) ==
    [i \in 1..Cardinality(keys) |-> CHOOSE k \in keys : Cardinality({j \in keys : j <= k}) = i]

(* What a SELECT sees: the transaction's view, or the table as it is now.  *)
View(handle) == IF handle.transaction_open THEN handle.view ELSE db

(* The keys of each table a fetch finds: WHERE (pk) > (cursor).  The loop  *)
(* begins at the current table; only SQL Server skips a complete one.      *)
Unread(handle) ==
    [t \in Tables |->
        IF t < handle.current_table \/ (Is("sqlserver") /\ handle.tables[t].is_complete) THEN {}
        ELSE {k \in Keys : k > handle.tables[t].cursor_position /\ View(handle)[t][k] # Absent}]

(* How much of the chunk is left when the loop comes to table t.           *)
Limit(unread, t) ==
    deployment.max_buffer_size - MapThenSumSet(LAMBDA u : Cardinality(unread[u]), 1..t - 1)

(* The keys of one fetch: ORDER BY pk LIMIT.                               *)
fetch_live_rows(unread, t) ==
    {k \in unread[t] : Cardinality({j \in unread[t] : j <= k}) <= Limit(unread, t)}

(* Table t after the loop: a fetch that finds nothing ends it, and SQL     *)
(* Server also ends it at its counted rows.                                *)
ReadTable(table, keys, ended) ==
    LET processed == table.rows_processed + Cardinality(keys)
    IN  [table EXCEPT !.rows_processed = processed,
                      !.cursor_position = Max({@} \cup keys),
                      !.is_complete = \/ @ \/ ended
                                      \/ Is("sqlserver") /\ keys # {} /\ processed >= table.total_rows]

ReadChunk(handle, unread) ==
    LET keys   == [t \in Tables |-> fetch_live_rows(unread, t)]
        tables == [t \in Tables |->
                      IF t < handle.current_table THEN handle.tables[t]
                      ELSE ReadTable(handle.tables[t], keys[t], Cardinality(unread[t]) < Limit(unread, t))]
        left   == {t \in Tables : /\ t >= handle.current_table
                                  /\ Limit(unread, t) <= 0 \/ ~tables[t].is_complete}
        events == FlattenSeq([t \in Tables |-> [i \in 1..Cardinality(keys[t]) |->
                      LET k == Ascending(keys[t])[i]
                      IN  [table |-> t, key |-> k, row |-> View(handle)[t][k], position |-> NoPosition]]])
    IN  [handle |-> [handle EXCEPT !.tables = tables,
                                   !.current_table = Min(left \cup {Len(tables) + 1}),
                                   !.emitted_rows = @ + Len(events)],
         events |-> events]

is_complete(handle) == \A t \in Tables : handle.tables[t].is_complete

(* The chunk a poll reads, as the set of the one there is.                 *)
next_chunk == IF is_complete(snapshot) THEN {[handle |-> snapshot, events |-> <<>>]}
              ELSE {ReadChunk(snapshot, unread) : unread \in {Unread(snapshot)}}

(* The runtime asks for nothing while a delivery is out, and hands over    *)
(* what it has queued before it asks.                                      *)
Delivers(events) ==
    LET n == Min({deployment.fits, Len(events)})
    IN  /\ pending_delivery' = SubSeq(events, 1, n)
        /\ queue' = SubSeq(events, n + 1, Len(events))

CanPoll == state = "Running" /\ pending_delivery = <<>>

PollsQueue ==
    /\ CanPoll
    /\ queue # <<>>
    /\ Delivers(queue)
    /\ UNCHANGED <<sourceVars, slot, state, snapshot, stream, durable, replica, overlooked, crashes>>

(* History: rows a SQL Server table that ended at its count has left       *)
(* behind.  A row inserted below them after the count (into a table read   *)
(* without a transaction, or while the process was down) took their place. *)
Uncounted(handle) ==
    {<<t, k>> \in Tables \X Keys :
        /\ handle.tables[t].is_complete /\ ~snapshot.tables[t].is_complete
        /\ k > handle.tables[t].cursor_position /\ View(handle)[t][k] # Absent
        /\ <<t, k>> \notin RowsBetween(handle.watermark, LogEnd)}

PollsChunk ==
    /\ CanPoll
    /\ queue = <<>>
    /\ snapshot # Closed
    /\ \E chunk \in next_chunk :
          /\ chunk.events # <<>>
          /\ snapshot' = chunk.handle
          /\ Delivers(chunk.events)
          /\ overlooked' = overlooked \cup Uncounted(chunk.handle)
    /\ UNCHANGED <<sourceVars, slot, state, stream, durable, replica, crashes>>

-----------------------------------------------------------------------------
(* The hand-over.                                                          *)
(* finish: only PostgreSQL, reading its tables live, compares no counts.   *)
finish_postgres_snapshot(handle) == total_processed(handle) = handle.emitted_rows

finish_mysql_snapshot(handle) ==
    /\ total_processed(handle) = handle.emitted_rows
    /\ total_processed(handle) = total_expected_rows(handle)

finish_sqlserver_snapshot(handle) ==
    /\ total_processed(handle) = handle.emitted_rows
    /\ total_processed(handle) = total_expected_rows(handle)

(* The hand-over's test of where the stream began.                         *)
postgres_has_no_gap(handle) == stream.start >= handle.watermark
mysql_has_no_gap(handle) == stream.start <= handle.watermark
sqlserver_has_no_gap(handle) == stream.start <= handle.watermark

(* Keeps, for each key, the last event, at the place of the first.         *)
dedup_overlap_events_by_pk(events) ==
    LET Same(e, f) == e.table = f.table /\ e.key = f.key
        firsts == {i \in DOMAIN events : \A j \in 1..i - 1 : ~Same(events[i], events[j])}
        Final(i) == Max({j \in DOMAIN events : Same(events[i], events[j])})
    IN  [n \in 1..Cardinality(firsts) |-> events[Final(Ascending(firsts)[n])]]

(* What the hand-over puts back in front of the stream, having read it to  *)
(* d.  Its drain loops are bounded by a time budget and a number of polls, *)
(* so d may be anywhere.                                                   *)
Overlap(handle, d) ==
    SelectSeq(SubSeq(log, stream.position + 1, d), LAMBDA e : e.position <= handle.watermark)

Beyond(handle, d) ==
    SelectSeq(SubSeq(log, stream.position + 1, d), LAMBDA e : e.position > handle.watermark)

HandsOver(d, requeued) ==
    /\ stream' = [stream EXCEPT !.position = d, !.requeued = requeued]
    /\ snapshot' = Closed
    /\ UNCHANGED <<sourceVars, state, queue, pending_delivery, durable, replica, crashes>>

(* PostgreSQL confirms the watermark to the slot.  A replication stream    *)
(* that is open goes on where it was; SqlPeek reads from the slot, and     *)
(* with it past what the watermark covers and the view does not show.      *)
postgres_handoff(handle) ==
    /\ finish_postgres_snapshot(handle)
    /\ postgres_has_no_gap(handle)
    /\ slot' = Max({slot, handle.watermark})
    /\ IF deployment.peeks
       THEN /\ HandsOver(Max({stream.position, handle.watermark}), <<>>)
            /\ overlooked' = overlooked \cup RowsBetween(handle.view_at, handle.watermark)
       ELSE HandsOver(stream.position, <<>>) /\ UNCHANGED overlooked

mysql_handoff(handle) ==
    /\ mysql_has_no_gap(handle)
    /\ finish_mysql_snapshot(handle)
    /\ \E d \in stream.position..LogEnd :
          HandsOver(d, dedup_overlap_events_by_pk(Overlap(handle, d)) \o Beyond(handle, d))
    /\ UNCHANGED <<slot, overlooked>>

sqlserver_handoff(handle) ==
    /\ sqlserver_has_no_gap(handle)
    /\ finish_sqlserver_snapshot(handle)
    /\ \E d \in stream.position..LogEnd :
          HandsOver(d, dedup_overlap_events_by_pk(Beyond(handle, d)))
    /\ UNCHANGED <<slot, overlooked>>

perform_handoff ==
    /\ CanPoll
    /\ queue = <<>>
    /\ snapshot # Closed
    /\ \E chunk \in next_chunk :
          /\ chunk.events = <<>>
          /\ \/ Is("postgres") /\ postgres_handoff(chunk.handle)
             \/ Is("mysql") /\ mysql_handoff(chunk.handle)
             \/ Is("sqlserver") /\ sqlserver_handoff(chunk.handle)

(* Streaming: what was put back first, then the log, a few changes at a    *)
(* time.                                                                   *)
PollsStream ==
    /\ CanPoll
    /\ queue = <<>>
    /\ snapshot = Closed
    /\ \/ /\ stream.requeued # <<>>
          /\ Delivers(stream.requeued)
          /\ stream' = [stream EXCEPT !.requeued = <<>>]
       \/ /\ stream.requeued = <<>>
          /\ \E d \in stream.position + 1..LogEnd :
                /\ Delivers(SubSeq(log, stream.position + 1, d))
                /\ stream' = [stream EXCEPT !.position = d]
    /\ UNCHANGED <<sourceVars, slot, state, snapshot, durable, replica, overlooked, crashes>>

-----------------------------------------------------------------------------
(* SnapshotHandle::checkpoint: the handle's own state, now.                *)
Payload ==
    [kind |-> "snapshot", watermark |-> snapshot.watermark, view_at |-> snapshot.view_at, tables |-> snapshot.tables,
     current_table |-> snapshot.current_table]

Applied(rows, events) ==
    FoldLeft(LAMBDA r, e : [r EXCEPT ![e.table][e.key] = e.row], rows, events)

(* The store orders MySQL's and SQL Server's positions, and refuses to go  *)
(* back.                                                                   *)
StoreAccepts(position) ==
    (~Is("postgres") /\ durable.kind = "stream") => durable.position <= position

(* commit_ack: snapshot rows save the snapshot, changes save the position  *)
(* of the last one.                                                        *)
commit_ack(n) ==
    LET accepted == SubSeq(pending_delivery, 1, n)
        position == accepted[n].position
    IN  /\ IF \E i \in 1..n : accepted[i].position = NoPosition
           THEN /\ snapshot # Closed
                /\ durable' = Payload
                /\ slot' = slot
           ELSE /\ StoreAccepts(position)
                /\ durable' = [kind |-> "stream", position |-> position]
                /\ slot' = IF Is("postgres") THEN Max({slot, position}) ELSE slot
        /\ replica' = Applied(replica, accepted)
        /\ pending_delivery' = SubSeq(pending_delivery, n + 1, Len(pending_delivery))
        /\ UNCHANGED <<sourceVars, state, snapshot, stream, queue, overlooked, crashes>>

AckSizes == IF deployment.partial_acks THEN DOMAIN pending_delivery ELSE {Len(pending_delivery)}

Acks == pending_delivery # <<>> /\ \E n \in AckSizes : commit_ack(n)

(* History: rows the saved cursor has gone past that were delivered or     *)
(* queued and not acknowledged.  The payload is the handle's own state, so *)
(* an acknowledgement of some rows of a chunk covers all of them.          *)
CoveredUnacked ==
    {<<e.table, e.key>> : e \in {f \in ToSet(pending_delivery \o queue) :
        /\ f.position = NoPosition /\ durable.kind = "snapshot"
        /\ f.key <= durable.tables[f.table].cursor_position}}

Crashes ==
    /\ state # "Idle"
    /\ durable.kind # "none" \/ deployment.early_crashes
    /\ crashes < MaxCrashes
    /\ crashes' = crashes + 1
    /\ state' = "Idle"
    /\ snapshot' = Closed
    /\ stream' = Closed
    /\ queue' = <<>>
    /\ pending_delivery' = <<>>
    /\ overlooked' = overlooked \cup CoveredUnacked
    /\ UNCHANGED <<sourceVars, slot, durable, replica>>

Runs ==
    \/ Opens
    \/ StartsSnapshot
    \/ StartsStream
    \/ PollsQueue
    \/ PollsChunk
    \/ perform_handoff
    \/ PollsStream
    \/ Acks

Next ==
    \/ \E t \in Tables, k \in Keys : Writes(t, k)
    \/ Runs
    \/ Crashes

Spec == Init /\ [][Next]_vars /\ WF_vars(Runs)

-----------------------------------------------------------------------------
TypeOK ==
    /\ deployment \in Deployments
    /\ state \in {"Idle", "opening", "opened", "Running"}
    /\ slot \in {NoPosition} \cup 0..MaxWrites
    /\ state = "Running" => stream.position \in 0..LogEnd
    /\ snapshot # Closed => snapshot.current_table \in 1..Len(deployment.rows) + 1
    /\ durable.kind \in {"none", "snapshot", "stream"}
    /\ replica \in [Tables -> [Keys -> {Absent} \cup 0..MaxWrites]]

(* After the hand-over, with everything read and acknowledged, the replica *)
(* is the source: no row of the snapshot and no change is missed, and no   *)
(* stale row overwrites a newer one, across crashes (source/mod.rs:724     *)
(* "without opening a gap").  It may differ only in the rows that a start  *)
(* has stepped over (SteppedOver), that SqlPeek skipped at the hand-over   *)
(* (postgres_handoff), that a count left behind (Uncounted) or that a      *)
(* crash took from a chunk the checkpoint covered (CoveredUnacked).        *)
CaughtUp ==
    /\ state = "Running"
    /\ snapshot = Closed
    /\ queue = <<>>
    /\ pending_delivery = <<>>
    /\ stream.requeued = <<>>
    /\ stream.position = LogEnd

Agree == \A t \in Tables, k \in Keys : <<t, k>> \in overlooked \/ replica[t][k] = db[t][k]

NoGap == CaughtUp => Agree

(* The hand-over is an error: MySQL's stream begins after the watermark,   *)
(* or the rows read are not the rows counted, which happens to a SQL       *)
(* Server snapshot without a transaction.                                  *)
HandoffRefused ==
    /\ CanPoll /\ queue = <<>> /\ snapshot # Closed
    /\ \E chunk \in next_chunk :
          /\ chunk.events = <<>>
          /\ \/ Is("mysql") /\ ~mysql_has_no_gap(chunk.handle)
             \/ Is("sqlserver") /\ ~finish_sqlserver_snapshot(chunk.handle)

(* Once the source is quiet and processes stop dying, the snapshot ends    *)
(* and hands over, or the hand-over is refused; the replica becomes and    *)
(* stays the source but for the rows stepped over.                         *)
Converged == Agree \/ HandoffRefused
ReplicaConverges == <>[]Converged
=============================================================================

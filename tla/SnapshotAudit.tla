--------------------------- MODULE SnapshotAudit ----------------------------
(***************************************************************************)
(* The bookkeeping an embedder uses when it runs its own snapshot workers: *)
(* SnapshotProgressTracker, shared by worker threads, the SnapshotProgress *)
(* it persists, and the SnapshotValidator that judges what arrived.        *)
(*                                                                         *)
(* There is one worker per table.  record_chunk_events takes two locks one *)
(* after the other, so the consumer and the thread that persists progress  *)
(* run between them.  A row is <<table, number>>; the cursor token is the  *)
(* number of the last row of the chunk.  The workers' queries, the place   *)
(* progress is stored and the order in which the embedder copies and       *)
(* drains are external.                                                    *)
(***************************************************************************)
EXTENDS Integers, Sequences, FiniteSets, TLC

CONSTANTS
    Setups,       \* the embedders Init chooses from
    MaxCrashes,
    MaxCopies     \* number of times progress is persisted

VARIABLES
    setup,        \* tables, chunk sizes and the embedder's order of work
    worker,       \* table -> [at, chunk, cursor] of its worker
    pending,      \* pending_events
    progress,     \* table_progress
    copy,         \* progress read and not yet stored: a sequence of at most one
    stored,       \* the progress a restart reads
    seen,         \* the validator: table -> [rows_received, received_pks]
    arrived,      \* row -> number of times it reached the consumer
    recorded,     \* table -> rows buffered by this process
    verdict,      \* what finalize said: a sequence of at most one
    copies,
    crashes

vars == <<setup, worker, pending, progress, copy, stored, seen, arrived, recorded,
          verdict, copies, crashes>>

Tables == DOMAIN setup.rows
RowsOf(t) == {t} \X (1 .. setup.rows[t])
AllRows == UNION {RowsOf(t) : t \in Tables}
Min2(a, b) == IF a < b THEN a ELSE b

RECURSIVE Total(_, _)
Total(f, S) == IF S = {} THEN 0 ELSE LET x == CHOOSE x \in S : TRUE IN f[x] + Total(f, S \ {x})

(***************************************************************************)
(* SnapshotProgress.                                                       *)
(***************************************************************************)
TableProgress_new == [row_count |-> 0, chunk_index |-> 0, cursor_token |-> 0,
                      is_complete |-> FALSE]

record_chunk(p, size, cursor) ==
    [p EXCEPT !.row_count = @ + size, !.chunk_index = @ + 1, !.cursor_token = cursor]

is_all_complete(p) == DOMAIN p # {} /\ \A t \in DOMAIN p : p[t].is_complete

(***************************************************************************)
(* SnapshotValidator.                                                      *)
(***************************************************************************)
Unseen == [rows_received |-> 0, received_pks |-> {}]

track_event(s, row) ==
    [s EXCEPT ![row[1]] = [rows_received |-> @.rows_received + 1,
                           received_pks |-> @.received_pks \union {row[2]}]]

TrackAll(s, rows) ==
    LET f[i \in 0 .. Len(rows)] == IF i = 0 THEN s ELSE track_event(f[i - 1], rows[i])
    IN f[Len(rows)]

Duplicates(s) ==
    Total([t \in Tables |-> s[t].rows_received - Cardinality(s[t].received_pks)], Tables)

finalize(s) ==
    LET missing == {t \in Tables : s[t].rows_received < setup.rows[t]}
        extra == {t \in Tables : s[t].rows_received > setup.rows[t]}
    IN [missing |-> missing,
        is_valid |-> missing = {} /\ extra = {} /\ Duplicates(s) = 0]

(***************************************************************************)
(* The process.                                                            *)
(***************************************************************************)
Idle(cursor) == [at |-> "read", chunk |-> <<>>, cursor |-> cursor]

Init ==
    /\ setup \in Setups
    /\ worker = [t \in Tables |-> Idle(0)]
    /\ pending = <<>>
    /\ progress = [t \in Tables |-> TableProgress_new]
    /\ copy = <<>>
    /\ stored = [t \in Tables |-> TableProgress_new]
    /\ seen = [t \in Tables |-> Unseen]
    /\ arrived = [r \in AllRows |-> 0]
    /\ recorded = [t \in Tables |-> 0]
    /\ verdict = <<>>
    /\ copies = 0 /\ crashes = 0

\* A worker reads the rows after its cursor; none left completes the table.
ReadChunk(t) ==
    /\ worker[t].at = "read" /\ ~progress[t].is_complete
    /\ LET from == worker[t].cursor
           to == Min2(from + setup.chunk_size, setup.rows[t])
       IN IF from = to
          THEN progress' = [progress EXCEPT ![t].is_complete = TRUE] /\ UNCHANGED worker
          ELSE /\ worker' = [worker EXCEPT ![t] = [at |-> "first",
                                chunk |-> [i \in 1 .. to - from |-> <<t, from + i>>],
                                cursor |-> to]]
               /\ UNCHANGED progress
    /\ UNCHANGED <<setup, pending, copy, stored, seen, arrived, recorded, verdict,
                   copies, crashes>>

BufferEvents(t) ==
    /\ pending' = pending \o worker[t].chunk
    /\ recorded' = [recorded EXCEPT ![t] = @ + Len(worker[t].chunk)]
    /\ UNCHANGED progress

CountChunk(t) ==
    /\ progress' = [progress EXCEPT ![t] = record_chunk(@, Len(worker[t].chunk), worker[t].cursor)]
    /\ UNCHANGED <<pending, recorded>>

\* record_chunk_events: the events under one lock, then the progress under the
\* other.
record_chunk_events(t) ==
    \/ worker[t].at = "first" /\ BufferEvents(t)
    \/ worker[t].at = "second" /\ CountChunk(t)

RecordChunk(t) ==
    /\ record_chunk_events(t)
    /\ worker' = [worker EXCEPT ![t].at = IF @ = "first" THEN "second" ELSE "read"]
    /\ UNCHANGED <<setup, copy, stored, seen, arrived, verdict, copies, crashes>>

\* get_buffered_events(max_size), each event tracked by the validator.
get_buffered_events ==
    /\ pending # <<>>
    /\ LET n == Min2(Len(pending), setup.max_size)
           got == SubSeq(pending, 1, n)
       IN /\ pending' = SubSeq(pending, n + 1, Len(pending))
          /\ seen' = TrackAll(seen, got)
          /\ arrived' = [r \in AllRows |->
                arrived[r] + Cardinality({i \in DOMAIN got : got[i] = r})]
    /\ UNCHANGED <<setup, worker, progress, copy, stored, recorded, verdict, copies, crashes>>

\* The persisting thread copies the progress; it stores the copy at once, or, when
\* the embedder copies and then drains, after the buffer has been empty.
get_progress ==
    /\ copies < MaxCopies /\ copy = <<>>
    /\ copy' = <<progress>>
    /\ copies' = copies + 1
    /\ UNCHANGED <<setup, worker, pending, progress, stored, seen, arrived, recorded,
                   verdict, crashes>>

Store ==
    /\ copy # <<>>
    /\ setup.order = "copy_then_drain" => pending = <<>>
    /\ stored' = copy[1]
    /\ copy' = <<>>
    /\ UNCHANGED <<setup, worker, pending, progress, seen, arrived, recorded, verdict,
                   copies, crashes>>

\* A new tracker starts empty; the workers resume at the stored cursors, and the
\* tables that were complete are marked so.
Crash ==
    /\ crashes < MaxCrashes /\ verdict = <<>>
    /\ worker' = [t \in Tables |-> Idle(stored[t].cursor_token)]
    /\ progress' = [t \in Tables |->
          [TableProgress_new EXCEPT !.is_complete = stored[t].is_complete,
                                    !.cursor_token = stored[t].cursor_token]]
    /\ pending' = <<>> /\ copy' = <<>>
    /\ recorded' = [t \in Tables |-> 0]
    /\ crashes' = crashes + 1
    /\ UNCHANGED <<setup, stored, seen, arrived, verdict, copies>>

Finalize ==
    /\ verdict = <<>> /\ pending = <<>> /\ is_all_complete(progress)
    /\ verdict' = <<finalize(seen)>>
    /\ UNCHANGED <<setup, worker, pending, progress, copy, stored, seen, arrived,
                   recorded, copies, crashes>>

Next ==
    \/ \E t \in Tables : ReadChunk(t) \/ RecordChunk(t)
    \/ get_buffered_events \/ get_progress \/ Store \/ Crash \/ Finalize

Spec == Init /\ [][Next]_vars

(***************************************************************************)
(* Properties.                                                             *)
(***************************************************************************)
\* The tracker and the validator keep their shape.
TypeOK ==
    /\ setup \in Setups
    /\ \A i \in DOMAIN pending : pending[i] \in AllRows
    /\ \A t \in Tables : progress[t].row_count \in 0 .. setup.rows[t]
    /\ Len(copy) <= 1 /\ Len(verdict) <= 1

\* Progress never counts a row that is not in the buffer or beyond it, at any
\* point between the two locks of record_chunk_events.
ProgressIsBacked == \A t \in Tables : progress[t].row_count <= recorded[t]

\* A snapshot whose workers, consumer and persisting thread interleave, with
\* crashes, ends with every row delivered, when progress is copied before the
\* buffer is drained and stored after.
NoRowLost ==
    setup.order = "copy_then_drain" /\ verdict # <<>> => \A r \in AllRows : arrived[r] >= 1

\* The validator calls valid only a snapshot in which every row of every table
\* arrived exactly once, and it calls such a snapshot valid.
VerdictIsTrue ==
    verdict # <<>> => (verdict[1].is_valid <=> \A r \in AllRows : arrived[r] = 1)

\* A table that lost a row is named in missing_rows.
LossIsNamed ==
    verdict # <<>> => \A r \in AllRows : arrived[r] = 0 => r[1] \in verdict[1].missing

====

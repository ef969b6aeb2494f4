-------------------------- MODULE SnowflakeStream --------------------------
(* The Snowflake connector: a snapshot pinned to one instant, then windows *)
(* of net changes (position, upper] read table by table, and a sink that   *)
(* holds what it was handed.                                               *)
(*                                                                         *)
(* config.rows lists every row that ever exists, [table, key], in the      *)
(* order of METADATA$ROW_ID; config.history[i] = [row, val] is the commit  *)
(* of instant i, which leaves that row with that value or, for Gone,       *)
(* without it; row 0 is a commit to some other table.                      *)
EXTENDS Integers, Sequences, FiniteSetsExt, TLC

CONSTANTS
    Deployments,   \* the histories and consumers explored
    MaxFailures,   \* failed queries explored
    MaxRestarts    \* restarts explored

VARIABLES
    config,      \* rows, history, tables, chunk_size, snapshot, consumer, settled, purge, reopens
    clock,       \* the server's instant
    oldest,      \* the oldest instant time travel still serves
    snapshot,    \* SnowflakeSnapshotHandle, NotOpen or Finished
    pin,         \* snapshot_pin_nanos
    stream,      \* SnowflakeStreamHandle, NotOpen, Reopening or Refused
    handed,      \* events handed over and not acknowledged
    applied,     \* how many of them the sink has written
    sink,        \* <<table, key>> -> the value the sink holds
    checkpoint,  \* the durable position: its form and its instant
    overlooked,  \* history: instants a reopened stream stepped over
    failures, restarts

vars == <<config, clock, oldest, snapshot, pin, stream, handed, applied, sink, checkpoint, overlooked, failures, restarts>>

Gone == 0
None == -1
NotOpen == [is |-> "not open"]
Finished == [is |-> "finished"]
Refused == [is |-> "refused"]
Reopening(position) == [is |-> "reopening", position |-> position]
NoCheckpoint == [form |-> "none", at |-> None]

(***************************************************************************)
(* What the server answers.                                                *)
(***************************************************************************)
RowIds == [r \in DOMAIN config.rows |-> r]
KeyOf(r) == <<config.rows[r].table, config.rows[r].key>>
Keys == {KeyOf(r) : r \in DOMAIN config.rows}
ValueAt(r, i) ==
    LET writes == {k \in 1..i : config.history[k].row = r}
    IN  IF writes = {} THEN Gone ELSE config.history[Max(writes)].val
VersionAt(i) ==
    [k \in Keys |-> Max({Gone} \cup {ValueAt(r, i) : r \in {q \in DOMAIN config.rows : KeyOf(q) = k}})]

(* CHANGES over (from, to]: the rows whose value differs, an update as two *)
(* flagged halves.                                                         *)
Changes(table, from, to) ==
    SelectSeq(RowIds, LAMBDA r : config.rows[r].table = table /\ ValueAt(r, from) # ValueAt(r, to))

(* One chunk of the table as of `at`: keys past the cursor, in key order.  *)
SnapshotChunk(table, at, cursor, limit) ==
    LET past == SelectSeq(RowIds, LAMBDA r : /\ config.rows[r].table = table
                                             /\ config.rows[r].key > cursor
                                             /\ ValueAt(r, at) # Gone)
        inOrder == SortSeq(past, LAMBDA q, r : config.rows[q].key < config.rows[r].key)
    IN  SubSeq(inOrder, 1, IF Len(inOrder) < limit THEN Len(inOrder) ELSE limit)

(***************************************************************************)
(* Events.                                                                 *)
(***************************************************************************)
(* The halves of an update meet in one event; every event of a window      *)
(* carries the end of the window; order is that of the row identities.     *)
EventsFromChanges(rows, from, to) ==
    [k \in DOMAIN rows |->
        [key |-> KeyOf(rows[k]), before |-> ValueAt(rows[k], from),
         after |-> ValueAt(rows[k], to), offset |-> to]]

EventsFromSnapshotRows(rows, at) ==
    [k \in DOMAIN rows |->
        [key |-> KeyOf(rows[k]), before |-> Gone, after |-> ValueAt(rows[k], at), offset |-> at]]

Init ==
    /\ config \in Deployments
    /\ clock = 0 /\ oldest = 0
    /\ snapshot = NotOpen /\ pin = None /\ stream = NotOpen
    /\ handed = <<>> /\ applied = 0
    /\ sink = [k \in Keys |-> Gone]
    /\ checkpoint = NoCheckpoint
    /\ overlooked = {} /\ failures = 0 /\ restarts = 0

Commit ==
    /\ clock < Len(config.history)
    /\ clock' = clock + 1
    /\ UNCHANGED <<config, oldest, snapshot, pin, stream, handed, applied, sink, checkpoint, failures, restarts, overlooked>>

(* Retention passes: nothing before now can be read.                       *)
RetentionPasses ==
    /\ config.purge /\ oldest < clock
    /\ oldest' = clock
    /\ UNCHANGED <<config, clock, snapshot, pin, stream, handed, applied, sink, checkpoint, failures, restarts, overlooked>>

(***************************************************************************)
(* The snapshot.                                                           *)
(***************************************************************************)
StartSnapshot ==
    /\ config.snapshot /\ checkpoint = NoCheckpoint
    /\ snapshot = NotOpen /\ stream = NotOpen
    /\ snapshot' = [is |-> "open", at |-> clock, remaining |-> config.tables, cursor |-> None]
    /\ pin' = clock
    /\ UNCHANGED <<config, clock, oldest, stream, handed, applied, sink, checkpoint, failures, restarts, overlooked>>

(* next_chunk: exhausted tables are passed over; a short chunk ends its    *)
(* table; the cursor is the key of the last row handed over.               *)
NextChunk ==
    /\ snapshot.is = "open" /\ handed = <<>> /\ snapshot.remaining # <<>>
    /\ snapshot.at >= oldest
    /\ LET chunk(k) == SnapshotChunk(snapshot.remaining[k], snapshot.at,
                                     IF k = 1 THEN snapshot.cursor ELSE None, config.chunk_size)
           some == {k \in DOMAIN snapshot.remaining : chunk(k) # <<>>}
       IN  IF some = {}
           THEN snapshot' = [snapshot EXCEPT !.remaining = <<>>, !.cursor = None] /\ UNCHANGED handed
           ELSE LET k == Min(some)
                    short == Len(chunk(k)) < config.chunk_size
                IN  /\ handed' = EventsFromSnapshotRows(chunk(k), snapshot.at)
                    /\ snapshot' =
                          [snapshot EXCEPT
                              !.remaining = SubSeq(@, IF short THEN k + 1 ELSE k, Len(@)),
                              !.cursor = IF short THEN None ELSE config.rows[chunk(k)[Len(chunk(k))]].key]
    /\ applied' = 0
    /\ UNCHANGED <<config, clock, oldest, pin, stream, sink, checkpoint, failures, restarts, overlooked>>

(* A chunk whose instant is out of retention fails, and so does the run.   *)
ChunkRefused ==
    /\ snapshot.is = "open" /\ handed = <<>> /\ snapshot.remaining # <<>>
    /\ snapshot.at < oldest
    /\ snapshot' = Finished /\ stream' = Refused
    /\ UNCHANGED <<config, clock, oldest, pin, handed, applied, sink, checkpoint, failures, restarts, overlooked>>

Finish ==
    /\ snapshot.is = "open" /\ handed = <<>> /\ snapshot.remaining = <<>>
    /\ snapshot' = Finished
    /\ UNCHANGED <<config, clock, oldest, pin, stream, handed, applied, sink, checkpoint, failures, restarts, overlooked>>

(***************************************************************************)
(* The stream.                                                             *)
(***************************************************************************)
StreamAt(position) == [is |-> "open", position |-> position, upper |-> None, read |-> 0, events |-> <<>>]

(* Resume from the record a handle saved, else from the snapshot's pin,    *)
(* else from now, where the consumer's own copy is taken to be current at  *)
(* the first start; a stream that is reopened without a checkpoint steps   *)
(* over what lies between.  The runtime saves the bare offset of an event, *)
(* which does not decode as a record.                                      *)
StartStream ==
    LET from_now == checkpoint = NoCheckpoint /\ pin = None
    IN  /\ stream.is \in {"not open", "reopening"}
        /\ config.snapshot /\ checkpoint = NoCheckpoint => snapshot = Finished
        /\ stream' = CASE checkpoint.form = "record" -> StreamAt(checkpoint.at)
                       [] checkpoint.form = "bare"   -> Refused
                       [] OTHER -> StreamAt(IF from_now THEN clock ELSE pin)
        /\ sink' = IF from_now /\ stream = NotOpen THEN VersionAt(clock) ELSE sink
        /\ overlooked' = IF from_now /\ stream # NotOpen THEN overlooked \cup stream.position + 1..clock
                         ELSE overlooked
        /\ UNCHANGED <<config, clock, oldest, snapshot, pin, handed, applied, checkpoint, failures, restarts>>

Streaming == stream.is = "open" /\ handed = <<>>

(* The window's end is the server's instant; no new instant, no window.    *)
ServerNow ==
    /\ Streaming /\ stream.upper = None /\ clock > stream.position
    /\ stream' = [stream EXCEPT !.upper = clock]
    /\ UNCHANGED <<config, clock, oldest, snapshot, pin, handed, applied, sink, checkpoint, failures, restarts, overlooked>>

ReadTableClosesEarly ==
    /\ Streaming /\ stream.upper # None /\ stream.position >= oldest
    /\ LET table  == config.tables[stream.read + 1]
           events == EventsFromChanges(Changes(table, stream.position, stream.upper),
                                       stream.position, stream.upper)
       IN  IF stream.read + 1 = Len(config.tables) \/ events # <<>>
           THEN stream' = StreamAt(stream.upper) /\ handed' = events
           ELSE stream' = [stream EXCEPT !.read = @ + 1] /\ UNCHANGED handed
    /\ applied' = 0
    /\ UNCHANGED <<config, clock, oldest, snapshot, pin, sink, checkpoint, failures, restarts, overlooked>>

(* One table of the window; the position moves when the last one is read.  *)
ReadTable ==
    /\ Streaming /\ stream.upper # None /\ stream.position >= oldest
    /\ LET table  == config.tables[stream.read + 1]
           events == stream.events \o EventsFromChanges(Changes(table, stream.position, stream.upper),
                                                        stream.position, stream.upper)
       IN  IF stream.read + 1 = Len(config.tables)
           THEN stream' = StreamAt(stream.upper) /\ handed' = events
           ELSE stream' = [stream EXCEPT !.read = @ + 1, !.events = events] /\ UNCHANGED handed
    /\ applied' = 0
    /\ UNCHANGED <<config, clock, oldest, snapshot, pin, sink, checkpoint, failures, restarts, overlooked>>

(* A failed call: what was read of the window is dropped.  With a retry    *)
(* policy the runtime opens the stream again, otherwise the handle is      *)
(* polled again.                                                           *)
Failed == IF config.reopens THEN Reopening(stream.position) ELSE StreamAt(stream.position)

QueryFails ==
    /\ Streaming /\ stream.upper # None /\ failures < MaxFailures
    /\ stream' = Failed
    /\ failures' = failures + 1
    /\ UNCHANGED <<config, clock, oldest, snapshot, pin, handed, applied, sink, checkpoint, overlooked, restarts>>

(* A window that starts out of retention is refused with a SourceError,    *)
(* which counts as transient and is retried like any other failed query.   *)
WindowRefused ==
    /\ Streaming /\ stream.upper # None /\ stream.position < oldest
    /\ stream' = Failed
    /\ UNCHANGED <<config, clock, oldest, snapshot, pin, handed, applied, sink, checkpoint, overlooked, failures, restarts>>

(***************************************************************************)
(* The consumer.                                                           *)
(***************************************************************************)
Written(rows, e) == [rows EXCEPT ![e.key] = e.after]

SinkWrites ==
    /\ applied < Len(handed)
    /\ sink' = Written(sink, handed[applied + 1])
    /\ applied' = applied + 1
    /\ UNCHANGED <<config, clock, oldest, snapshot, pin, stream, handed, checkpoint, failures, restarts, overlooked>>

(* The handle's own save_position, once a window is written as a whole.    *)
SavePosition ==
    /\ config.consumer = "handle" /\ handed # <<>> /\ applied = Len(handed)
    /\ checkpoint' = IF stream.is = "open" THEN [form |-> "record", at |-> stream.position] ELSE checkpoint
    /\ handed' = <<>> /\ applied' = 0
    /\ UNCHANGED <<config, clock, oldest, snapshot, pin, stream, sink, failures, restarts, overlooked>>

(* The runtime's commit of a prefix, which saves the offset of its last    *)
(* event.                                                                  *)
CommitPrefix ==
    /\ config.consumer = "runtime"
    /\ \E n \in 1..applied :
          /\ checkpoint' = IF stream.is = "open" THEN [form |-> "bare", at |-> handed[n].offset] ELSE checkpoint
          /\ handed' = SubSeq(handed, n + 1, Len(handed))
          /\ applied' = applied - n
    /\ UNCHANGED <<config, clock, oldest, snapshot, pin, stream, sink, failures, restarts, overlooked>>

(* The process stops; the sink keeps what it wrote.  A settled consumer    *)
(* stops only when its last write is saved.                                *)
Restart ==
    /\ restarts < MaxRestarts /\ stream.is = "open"
    /\ config.settled => (handed = <<>> /\ checkpoint.at = stream.position)
    /\ stream' = NotOpen /\ snapshot' = NotOpen /\ pin' = None
    /\ handed' = <<>> /\ applied' = 0 /\ restarts' = restarts + 1
    /\ UNCHANGED <<config, clock, oldest, sink, checkpoint, failures, overlooked>>

NextEvents == ServerNow \/ ReadTable \/ WindowRefused
Snapshotting == StartSnapshot \/ NextChunk \/ ChunkRefused \/ Finish
Consume == SinkWrites \/ SavePosition \/ CommitPrefix

Next ==
    \/ Commit \/ RetentionPasses \/ Snapshotting \/ StartStream \/ NextEvents \/ QueryFails
    \/ Consume \/ Restart

Fairness == WF_vars(Snapshotting) /\ WF_vars(StartStream) /\ SF_vars(NextEvents) /\ WF_vars(Consume)

Spec == Init /\ [][Next]_vars /\ Fairness
-----------------------------------------------------------------------------
TypeOK ==
    /\ clock \in 0..Len(config.history) /\ oldest \in 0..clock
    /\ applied \in 0..Len(handed)
    /\ checkpoint.form \in {"none", "record", "bare"} /\ checkpoint.at \in {None} \cup 0..clock
    /\ stream.is = "open" => stream.read < Len(config.tables) /\ stream.position <= clock

(* What the sink holds once it has written everything handed to it.        *)
View ==
    LET after[k \in applied..Len(handed)] ==
            IF k = applied THEN sink ELSE Written(after[k - 1], handed[k])
    IN  after[Len(handed)]

Overlooked == {KeyOf(config.history[i].row) : i \in {k \in overlooked : config.history[k].row # 0}}
Agree(a, b) == \A k \in Keys \ Overlooked : a[k] = b[k]

(* Windows join without a gap or an overlap: with what is handed over      *)
(* written, the sink holds exactly the version of every table at the       *)
(* stream's position, whatever was committed while the tables were read,   *)
(* whichever query failed, and across the end of the snapshot, whose pin   *)
(* is where the stream starts.  What a stream steps over that the runtime  *)
(* reopens, after a failed query, with neither a checkpoint nor a pin      *)
(* (snowflake.rs:439-442) is not in it.                                    *)
SfReplica ==
    /\ stream.is = "open" => Agree(View, VersionAt(stream.position))
    /\ overlooked # {} => config.reopens /\ pin = None

(* The sink holds the last committed version, unless the stream is out of  *)
(* retention, which every further poll reports, or could not resume.       *)
OutOfRetention == stream.is \in {"open", "reopening"} /\ stream.position < oldest
Settled == stream = Refused \/ OutOfRetention \/ Agree(sink, VersionAt(clock))
=============================================================================

-------------------------- MODULE SqlServerStream --------------------------
(* The SQL Server change stream: the CDC change tables filled by the       *)
(* server's capture job, the handle that reads them in windows of LSNs     *)
(* with a row cap per capture instance, and the consumer: the runtime,     *)
(* whose checkpoint is the LSN of the last event it acknowledged, or a     *)
(* caller of the handle's own save_position.                               *)
(*                                                                         *)
(* A change row is [inst, lsn, seq, op]; `'all update old'` writes an      *)
(* update as two rows, op 3 (before) and op 4 (after), of one lsn and seq. *)
EXTENDS Integers, Sequences, SequencesExt, FiniteSetsExt, TLC

CONSTANTS
    Deployments,      \* the tables and workloads explored
    MaxEventsPerPoll, \* max_events_per_poll
    MaxFailures,      \* failed queries whose handle is polled again
    MaxRestarts       \* crashes and lost connections explored

VARIABLES
    config,      \* the deployment: the change rows, what operators do, the consumer
    harvested,   \* fn_cdc_get_max_lsn: what the capture job has harvested
    min_lsn,     \* fn_cdc_get_min_lsn of every capture instance that exists
    columns,     \* the version of the table behind every capture instance
    truncated,   \* the shadow table: [id, lsn] of TRUNCATEs not yet consumed
    handle,      \* SqlServerStreamHandle, NoHandle, or Refused
    handed,      \* events returned by next_events and not yet acknowledged
    checkpoint,  \* the durable position: an LSN or a cursor inside it
    acked,       \* what the consumer has acknowledged
    overlooked,  \* history: changes a step left behind, unread
    failures, restarts

server == <<config, harvested, min_lsn, columns>>
consumer == <<checkpoint, acked>>
history == <<overlooked, failures, restarts>>
vars == <<server, truncated, handle, handed, consumer, history>>

AtLsn(lsn) == [lsn |-> lsn, seq |-> 0, op |-> 0]
NoCheckpoint == AtLsn(-1)
NoHandle == [open |-> FALSE, refused |-> FALSE]
Refused == [open |-> FALSE, refused |-> TRUE]
NoCursor == [lsn |-> 0, seq |-> 0, op |-> 0]
Head1(s, n) == SubSeq(s, 1, IF n < Len(s) THEN n ELSE Len(s))

Rows == {config.rows[k] : k \in DOMAIN config.rows}
Harvested == {r \in Rows : r.lsn <= harvested}
Instances == DOMAIN min_lsn
LastLsn == Max({0} \cup {r.lsn : r \in Rows})

(* What the table filters let out of the database: the tables of the       *)
(* include list, or without one those the exclude list does not name.      *)
table_is_allowed(inst) ==
    IF config.included # {} THEN inst \in config.included ELSE inst \notin config.excluded
capture_instance_is_selected(inst) == table_is_allowed(inst)

(* The order of the change tables: commit LSN, then seqval, then operation.*)
CursorLe(a, b) ==
    \/ a.lsn < b.lsn
    \/ a.lsn = b.lsn /\ a.seq < b.seq
    \/ a.lsn = b.lsn /\ a.seq = b.seq /\ a.op <= b.op
CursorOf(r) == [lsn |-> r.lsn, seq |-> r.seq, op |-> r.op]

(***************************************************************************)
(* Reading one window.                                                     *)
(***************************************************************************)
(* The poll query for one instance: the rows of [from, to] strictly past   *)
(* the cursor, in order, the first max_events_per_poll of them.            *)
CdcPoll(inst, from, to, cursor) ==
    Head1(SelectSeq(config.rows, LAMBDA r :
              /\ r.inst = inst /\ r.lsn <= harvested
              /\ r.lsn \in from..to /\ ~CursorLe(r, cursor)), MaxEventsPerPoll)

(* Where an instance is read from: its floor when it begins inside the     *)
(* window.                                                                 *)
WindowStart(h, inst) ==
    IF h.metas[inst].capture_floor > h.lsn_start THEN h.metas[inst].capture_floor ELSE h.lsn_start

(* An empty window, or one that ends below the floor, is not queried.      *)
Skips(h, inst) == h.lsn_start > h.lsn_end \/ WindowStart(h, inst) > h.lsn_end

FetchChanges(h, inst) ==
    IF Skips(h, inst) THEN <<>> ELSE CdcPoll(inst, WindowStart(h, inst), h.lsn_end, h.cursor)

(* The server refuses a start below its minimum, and the classifier reads  *)
(* that as purged; a start above what is captured returns nothing.         *)
OutOfRetention(h, inst) ==
    inst \in Instances /\ ~Skips(h, inst) /\ WindowStart(h, inst) < min_lsn[inst]

(* An instance that was disabled since the metas were read is an error.    *)
Vanished(h, inst) == inst \notin Instances /\ ~Skips(h, inst)

(* The lowest last row of the instances whose page came back full.         *)
TruncationCursor(pages) ==
    LET full == {CursorOf(pages[i][Len(pages[i])]) :
                    i \in {j \in DOMAIN pages : Len(pages[j]) >= MaxEventsPerPoll}}
    IN  IF full = {} THEN NoCursor
        ELSE CHOOSE c \in full : \A d \in full : CursorLe(c, d)

MergedUncut(pages, cut) ==
    SelectSeq(config.rows, LAMBDA r : \E i \in DOMAIN pages : \E k \in DOMAIN pages[i] : pages[i][k] = r)

(* All pages in one order, cut at the truncation cursor.                   *)
Merged(pages, cut) ==
    SelectSeq(config.rows, LAMBDA r :
        /\ \E i \in DOMAIN pages : \E k \in DOMAIN pages[i] : pages[i][k] = r
        /\ cut = NoCursor \/ CursorLe(r, cut))

BuildEvent(r, before) == [row |-> r, before |-> before, offset |-> r.lsn]

(* Before-images wait for their after-image, across polls if need be.      *)
MapChanges(befores, rows) ==
    LET key(r)  == <<r.lsn, r.seq>>
        keys(op) == {key(rows[k]) : k \in {j \in DOMAIN rows : rows[j].op = op}}
        known   == befores \cup keys(3)
        mapped  == SelectSeq(rows, LAMBDA r : r.op # 3)
    IN  [befores |-> known \ keys(4),
         events  |-> [k \in DOMAIN mapped |->
             BuildEvent(mapped[k], mapped[k].op = 1 \/ (mapped[k].op = 4 /\ key(mapped[k]) \in known))]]

(***************************************************************************)
(* The window.                                                             *)
(***************************************************************************)
(* A window that was read moves its start past its end; an empty one keeps *)
(* its start.  The end is never past what is harvested.                    *)
NextWindow(start, end, max) == IF start > end THEN <<start, max>> ELSE <<end + 1, max>>

AdvanceWindow(h) ==
    LET w == NextWindow(h.lsn_start, h.lsn_end, harvested)
    IN  [h EXCEPT !.lsn_start = w[1], !.lsn_end = w[2],
                  !.cursor = NoCursor, !.pending_cursor = NoCursor]

SettleAlwaysAdvances(h) == AdvanceWindow(h)
SettleDrainedWindow(h) ==
    IF h.pending_cursor # NoCursor
    THEN [h EXCEPT !.cursor = h.pending_cursor, !.pending_cursor = NoCursor]
    ELSE AdvanceWindow(h)

(* One page leaves the buffer; the last one settles the window.            *)
DrainPage(h) ==
    LET page == Head1(h.buffer, MaxEventsPerPoll)
        rest == SubSeq(h.buffer, Len(page) + 1, Len(h.buffer))
        kept == [h EXCEPT !.buffer = rest]
    IN  <<page, IF rest = <<>> THEN SettleDrainedWindow(kept) ELSE kept>>

(* Unconsumed TRUNCATEs up to the end of the window join the changes, each *)
(* behind the changes of its LSN.                                          *)
PendingTruncates(h) == SelectSeq(truncated, LAMBDA t : t.lsn <= h.lsn_end)
BuildTruncate(t) == [row |-> [inst |-> t.inst, lsn |-> t.lsn, seq |-> 0, op |-> 0],
                     before |-> FALSE, offset |-> t.lsn]
TruncateEvents(h) ==
    LET wanted == SelectSeq(PendingTruncates(h), LAMBDA t : table_is_allowed(t.inst))
    IN  [k \in DOMAIN wanted |-> BuildTruncate(wanted[k])]

(* All of them are consumed, those of excluded tables too.                 *)
mark_truncate_events_consumed(h) == SelectSeq(truncated, LAMBDA t : t.lsn > h.lsn_end)
SortByOffset(events) == SortSeq(events, LAMBDA d, e : d.offset < e.offset)

(***************************************************************************)
(* Capture instances, schema events and the start of a stream.             *)
(***************************************************************************)
(* cdc.change_tables lists every capture instance with its minimum; the    *)
(* filters decide which of them the stream knows of.                       *)
load_capture_metas ==
    [i \in {j \in Instances : capture_instance_is_selected(j)} |->
        [capture_floor |-> min_lsn[i], columns |-> columns[i]]]

(* A known instance keeps the floor it was first seen with.                *)
retain_known_capture_floors(known, refreshed) ==
    [i \in DOMAIN refreshed |->
        IF i \in DOMAIN known THEN [refreshed[i] EXCEPT !.capture_floor = known[i].capture_floor]
        ELSE refreshed[i]]

(* DROP for an instance that is gone, CREATE for a new one, ALTER for one  *)
(* whose table changed, all placed at the end of the current window.       *)
Ddl == [DROP_TABLE |-> 7, ALTER_TABLE |-> 8, CREATE_TABLE |-> 9]
SchemaEvents(h) ==
    LET known   == DOMAIN h.metas
        next    == DOMAIN load_capture_metas
        told(ddl_type, insts) == {[inst |-> i, op |-> Ddl[ddl_type]] : i \in insts}
        altered == {i \in known \cap next : load_capture_metas[i].columns # h.metas[i].columns}
        events  == SetToSeq(told("DROP_TABLE", known \ next))
                      \o SetToSeq(told("CREATE_TABLE", next \ known) \cup told("ALTER_TABLE", altered))
    IN  [k \in DOMAIN events |->
            [row |-> [inst |-> events[k].inst, lsn |-> h.lsn_end, seq |-> k, op |-> events[k].op],
             before |-> FALSE, offset |-> h.lsn_end]]

(* The least minimum of the instances the stream reads.                    *)
query_min_lsn == Min({min_lsn[i] : i \in DOMAIN load_capture_metas})

(* A position saved inside a window is resumed behind its cursor.          *)
OpenStream(start) ==
    [open |-> TRUE, refused |-> FALSE, metas |-> load_capture_metas, looping |-> FALSE,
     lsn_start |-> start.lsn, lsn_end |-> IF harvested < start.lsn THEN start.lsn ELSE harvested,
     cursor |-> IF start.seq # 0 THEN start ELSE NoCursor, read_again |-> start,
     pending_cursor |-> NoCursor, buffer |-> <<>>, befores |-> {}]

Init ==
    /\ config \in Deployments
    /\ harvested = 0
    /\ min_lsn = [i \in config.instances |-> 0]
    /\ columns = [i \in config.instances |-> 1]
    /\ truncated = <<>>
    /\ handle = NoHandle
    /\ handed = <<>>
    /\ checkpoint = NoCheckpoint
    /\ acked = {}
    /\ overlooked = {}
    /\ failures = 0 /\ restarts = 0

(* What the change tables hold of the selected tables and the consumer has *)
(* not acknowledged.                                                       *)
UnackedRows ==
    {r \in Harvested : r.op # 3 /\ table_is_allowed(r.inst) /\ r.inst \in Instances /\ r \notin acked}
CaughtUp == handle.open /\ UnackedRows = {} /\ handed = <<>> /\ handle.lsn_start > handle.lsn_end

(* The capture job harvests the next transaction.                          *)
Harvest ==
    /\ harvested < LastLsn
    /\ LET touched == {r.inst : r \in {s \in Rows : s.lsn = harvested + 1}}
       IN  /\ touched \subseteq Instances
           /\ config.quiet_ddl => (handle.open /\ {i \in touched : table_is_allowed(i)} \subseteq DOMAIN handle.metas)
    /\ harvested' = harvested + 1
    /\ UNCHANGED <<config, min_lsn, columns, truncated, handle, handed, consumer, history>>

(* sp_cdc_enable_table on a further table, which holds nothing yet.        *)
EnableTable ==
    \E i \in config.late \ Instances :
        /\ config.quiet_ddl => CaughtUp
        /\ \A r \in Harvested : r.inst # i
        /\ min_lsn' = [j \in Instances \cup {i} |-> IF j = i THEN harvested ELSE min_lsn[j]]
        /\ columns' = [j \in Instances \cup {i} |-> IF j = i THEN 1 ELSE columns[j]]
        /\ UNCHANGED <<config, harvested, truncated, handle, handed, consumer, history>>

(* sp_cdc_disable_table: the change table goes with what it holds.         *)
DisableTable ==
    \E i \in config.disabled \cap Instances :
        /\ harvested = LastLsn
        /\ min_lsn' = Restrict(min_lsn, Instances \ {i})
        /\ columns' = Restrict(columns, Instances \ {i})
        /\ UNCHANGED <<config, harvested, truncated, handle, handed, consumer, history>>

(* The table behind an instance is renamed or gets another key.            *)
AlterTable ==
    \E i \in config.altered \cap Instances :
        /\ columns[i] = 1
        /\ columns' = [columns EXCEPT ![i] = 2]
        /\ UNCHANGED <<config, harvested, min_lsn, truncated, handle, handed, consumer, history>>

(* The cleanup job drops what an instance holds below an LSN.  Explored    *)
(* once something is checkpointed: until then a start reads what is left.  *)
Cleanup ==
    \E i \in config.cleanup \cap Instances :
        /\ checkpoint # NoCheckpoint /\ min_lsn[i] < harvested
        /\ min_lsn' = [min_lsn EXCEPT ![i] = harvested]
        /\ UNCHANGED <<config, harvested, columns, truncated, handle, handed, consumer, history>>

(* A TRUNCATE: the trigger notes it with the maximum LSN of that moment.   *)
TruncateTable ==
    \E t \in config.truncates :
        /\ harvested = t.lsn
        /\ truncated' = Append(truncated, t)
        /\ config' = [config EXCEPT !.truncates = @ \ {t}]
        /\ UNCHANGED <<harvested, min_lsn, columns, handle, handed, consumer, history>>

(* A checkpoint below the least of the minimums is refused; without one    *)
(* the stream starts at that least minimum.  The floors are those of this  *)
(* moment, so what cleanup took from another instance is never missed.     *)
Purged == {r \in UnackedRows : r.lsn < min_lsn[r.inst]}

StartStream ==
    LET start == IF checkpoint = NoCheckpoint THEN AtLsn(query_min_lsn) ELSE checkpoint
    IN  /\ handle = NoHandle /\ handed = <<>>
        /\ IF start.lsn < query_min_lsn
           THEN handle' = Refused /\ UNCHANGED overlooked
           ELSE handle' = OpenStream(start) /\ overlooked' = overlooked \cup Purged
        /\ UNCHANGED <<server, truncated, handed, consumer, failures, restarts>>

(***************************************************************************)
(* next_events.                                                            *)
(***************************************************************************)
Polling(looping) == handle.open /\ handed = <<>> /\ handle.looping = looping

(* Schema events go first; then a buffer that still holds events; else the *)
(* call enters the loop that fills the buffer.                             *)
RefreshMetas ==
    /\ Polling(FALSE)
    /\ LET events == SchemaEvents(handle)
           page   == DrainPage(handle)
       IN  IF events # <<>>
           THEN /\ handle' = [handle EXCEPT !.metas = retain_known_capture_floors(@, load_capture_metas)]
                /\ handed' = Head1(events, MaxEventsPerPoll)
           ELSE IF handle.buffer # <<>>
           THEN handed' = page[1] /\ handle' = page[2]
           ELSE handle' = [handle EXCEPT !.looping = TRUE] /\ UNCHANGED handed
    /\ UNCHANGED <<server, truncated, consumer, history>>

Pages == [i \in DOMAIN handle.metas |-> FetchChanges(handle, i)]
Readable == \A i \in DOMAIN handle.metas : ~OutOfRetention(handle, i) /\ ~Vanished(handle, i)

FillWindow ==
    /\ Polling(TRUE) /\ Readable
    /\ \E pages \in {Pages} : \E cut \in {TruncationCursor(pages)} :
       \E mapped \in {MapChanges(handle.befores, Merged(pages, cut))} :
       \E buffer \in {SortByOffset(mapped.events \o TruncateEvents(handle))} :
       \E page \in {DrainPage([handle EXCEPT !.buffer = buffer, !.befores = mapped.befores,
                                             !.pending_cursor = cut, !.looping = FALSE])} :
          /\ \E i \in DOMAIN pages : pages[i] # <<>>
          /\ handed' = page[1] /\ handle' = page[2]
    /\ truncated' = mark_truncate_events_consumed(handle)
    /\ UNCHANGED <<server, consumer, history>>

(* Nothing in the window: truncates alone are returned; otherwise the      *)
(* window moves and the call returns empty at its deadline or looks again. *)
(* A stream opened above the harvested maximum reads one LSN that is not   *)
(* there yet, and moves past it.                                           *)
EmptyWindow ==
    /\ Polling(TRUE) /\ Readable
    /\ \A i \in DOMAIN Pages : Pages[i] = <<>>
    /\ handed' = TruncateEvents(handle)
    /\ truncated' = mark_truncate_events_consumed(handle)
    /\ \E looping \in BOOLEAN :
          /\ handed' # <<>> => ~looping
          /\ handle' = [AdvanceWindow(handle) EXCEPT !.looping = looping]
    /\ overlooked' = overlooked \cup {r \in Rows : r.lsn > harvested /\ r.lsn \in handle.lsn_start..handle.lsn_end}
    /\ UNCHANGED <<server, consumer, failures, restarts>>

(* Changes that were not read are gone: the stream stops for good.         *)
WindowPurged ==
    /\ Polling(TRUE) /\ \E i \in DOMAIN handle.metas : OutOfRetention(handle, i)
    /\ handle' = Refused
    /\ UNCHANGED <<server, truncated, handed, consumer, history>>

(***************************************************************************)
(* A query of next_events fails.  With a retry policy the runtime drops    *)
(* the handle and opens another; without one, or once it is exhausted, the *)
(* error goes to the caller and the next poll finds the handle as it is.   *)
(***************************************************************************)
Fails(h) == handle' = IF config.keeps_handle THEN [h EXCEPT !.looping = FALSE] ELSE NoHandle

FetchFails ==
    /\ Polling(TRUE) /\ \E i \in DOMAIN handle.metas : Vanished(handle, i)
    /\ Fails(handle)
    /\ UNCHANGED <<server, truncated, handed, consumer, history>>

QueryFails ==
    /\ config.keeps_handle /\ failures < MaxFailures
    /\ failures' = failures + 1
    /\ UNCHANGED <<server, handed, consumer, restarts>>

(* The TRUNCATEs cannot be fetched or marked.  The rows are buffered, the  *)
(* cut is not parked: the drained buffer will settle the window as if it   *)
(* had been read to its end.                                               *)
TruncateFetchFails ==
    /\ Polling(TRUE) /\ Readable /\ QueryFails
    /\ \E pages \in {Pages} : \E cut \in {TruncationCursor(pages)} :
       \E mapped \in {MapChanges(handle.befores, Merged(pages, cut))} :
          /\ \E i \in DOMAIN pages : pages[i] # <<>>
          /\ Fails([handle EXCEPT !.buffer = mapped.events, !.befores = mapped.befores])
          /\ overlooked' = overlooked \cup
                {r \in UnackedRows : /\ cut # NoCursor /\ mapped.events # <<>>
                                     /\ r.lsn \in handle.lsn_start..handle.lsn_end /\ ~CursorLe(r, cut)}
    /\ UNCHANGED truncated

(* The window cannot be advanced once its last page is taken out, in any   *)
(* of the three places that do so: the page is dropped and the window read *)
(* again.  Its TRUNCATEs are consumed all the same.                        *)
AdvanceFails ==
    /\ QueryFails
    /\ UNCHANGED overlooked
    /\ \/ /\ Polling(FALSE) /\ SchemaEvents(handle) = <<>>
          /\ Len(handle.buffer) \in 1..MaxEventsPerPoll /\ handle.pending_cursor = NoCursor
          /\ Fails([handle EXCEPT !.buffer = <<>>, !.read_again = handle.cursor])
          /\ UNCHANGED truncated
       \/ /\ Polling(TRUE) /\ Readable
          /\ \E pages \in {Pages} : \E mapped \in {MapChanges(handle.befores, Merged(pages, NoCursor))} :
                /\ TruncationCursor(pages) = NoCursor
                /\ Len(mapped.events) + Len(TruncateEvents(handle)) <= MaxEventsPerPoll
                /\ Fails([handle EXCEPT !.befores = mapped.befores, !.read_again = handle.cursor])
          /\ truncated' = mark_truncate_events_consumed(handle)

(***************************************************************************)
(* The consumer and its crashes.                                           *)
(***************************************************************************)
(* A prefix is acknowledged when the store takes its LSN, which may not go *)
(* backwards.                                                              *)
Acknowledge ==
    /\ config.consumer = "runtime"
    /\ \E n \in 1..Len(handed) :
          /\ handed[n].offset >= checkpoint.lsn
          /\ checkpoint' = AtLsn(handed[n].offset)
          /\ acked' = acked \cup {handed[k].row : k \in 1..n}
          /\ handed' = SubSeq(handed, n + 1, Len(handed))
    /\ UNCHANGED <<server, truncated, handle, history>>

(* Once everything handed over is processed, the handle saves the cursor   *)
(* it resumes from, or the start of its window.                            *)
SavePosition ==
    /\ config.consumer = "handle" /\ handed # <<>>
    /\ checkpoint' = IF handle.cursor # NoCursor THEN handle.cursor ELSE AtLsn(handle.lsn_start)
    /\ acked' = acked \cup {handed[k].row : k \in DOMAIN handed}
    /\ handed' = <<>>
    /\ UNCHANGED <<server, truncated, handle, history>>

(* The process dies, or a failed query makes the runtime reconnect; an     *)
(* operator may start it again after a refusal.                            *)
Crash ==
    /\ restarts < (IF config.restarts THEN MaxRestarts ELSE 0)
    /\ handle # NoHandle
    /\ handle' = NoHandle /\ handed' = <<>> /\ restarts' = restarts + 1
    /\ UNCHANGED <<server, truncated, consumer, overlooked, failures>>

NextEvents == RefreshMetas \/ FillWindow \/ EmptyWindow \/ WindowPurged \/ FetchFails
Consume == Acknowledge \/ SavePosition

Next ==
    \/ Harvest \/ EnableTable \/ DisableTable \/ AlterTable \/ Cleanup \/ TruncateTable
    \/ StartStream \/ NextEvents \/ TruncateFetchFails \/ AdvanceFails \/ Consume \/ Crash

Fairness == WF_vars(StartStream) /\ WF_vars(NextEvents) /\ WF_vars(Consume)

Spec == Init /\ [][Next]_vars /\ Fairness

(***************************************************************************)
(* Properties.                                                             *)
(***************************************************************************)
TypeOK ==
    /\ harvested \in 0..LastLsn
    /\ checkpoint.lsn \in -1..LastLsn + 1
    /\ overlooked \subseteq Rows
    /\ handle.open =>
          /\ handle.lsn_end <= LastLsn + 1 /\ handle.lsn_start <= LastLsn + 2
          /\ handle.pending_cursor # NoCursor => handle.buffer # <<>>
    /\ Len(handed) <= MaxEventsPerPoll
    /\ failures \in 0..MaxFailures /\ restarts \in 0..MaxRestarts

Delivered == {handed[k].row : k \in DOMAIN handed}
                \cup (IF handle.open THEN {handle.buffer[k].row : k \in DOMAIN handle.buffer} ELSE {})

(* What the open stream will still read of an instance: past its window's  *)
(* end, or inside the window past the resume point its buffer leaves.      *)
StillToRead(r) ==
    /\ r.inst \in DOMAIN handle.metas => r.lsn >= WindowStart(handle, r.inst)
    /\ r.lsn >= handle.lsn_start
    /\ r.lsn <= handle.lsn_end =>
          IF handle.pending_cursor # NoCursor THEN ~CursorLe(r, handle.pending_cursor)
          ELSE handle.buffer = <<>> /\ ~CursorLe(r, handle.cursor)

(* Where a restart would read on from: an LSN is read again as a whole, a  *)
(* cursor is not.                                                          *)
Resumed(r) == IF checkpoint.seq = 0 THEN r.lsn >= checkpoint.lsn ELSE ~CursorLe(r, checkpoint)

(* No change is stepped over: whatever the capture job harvested and the   *)
(* consumer has not acknowledged is at or past the durable position, and,  *)
(* while the stream is open, is handed over, buffered or still to be read. *)
(* It rests on the resume point parked until the buffer is drained, on the *)
(* window start that an empty window keeps, and on floors that a refresh   *)
(* does not move.  Exactly three steps leave changes behind (overlooked):  *)
(* a start whose position is below the minimum of one instance and not     *)
(* below the least of them (stream_start.rs:20-29), a failed fetch of      *)
(* TRUNCATEs after a cut page on a handle that is polled again             *)
(* (sqlserver.rs:939), and a start one past the harvested maximum, which   *)
(* only save_position leads to (stream_start.rs:66).  With one capture     *)
(* instance, the runtime's checkpoints and reopened handles, none of them  *)
(* happens.                                                                *)
SsNothingLost ==
    /\ \A r \in UnackedRows \ overlooked :
          /\ checkpoint # NoCheckpoint => Resumed(r)
          /\ handle.open => r \in Delivered \/ StillToRead(r)
    /\ overlooked # {} =>
          \/ config.consumer = "handle" \/ config.keeps_handle
          \/ Cardinality(config.instances \cup config.late) > 1

(* The tables are merged into one order: nothing is handed over or         *)
(* buffered while a change that precedes it is unread in some change       *)
(* table, which is why pages are cut at the lowest full page.              *)
SsOneOrder ==
    handle.open =>
        \A e \in Delivered : \A r \in Harvested :
            (e.op \in 1..4 /\ StillToRead(r)) => ~CursorLe(r, e)

(* Nothing of a table the filters exclude leaves the database: no change,  *)
(* no TRUNCATE and no schema event (source/sqlserver.rs:668 "An exclusion  *)
(* is an instruction about what may leave the database").                  *)
SsOnlySelected == \A e \in Delivered : table_is_allowed(e.inst)

(* An UPDATE carries its before image, also when the two rows of it are    *)
(* read in different polls or the stream restarts between them.  Only a    *)
(* cursor between the two rows that is read from a second time separates   *)
(* them, because the before image was in memory and is gone: a cursor that *)
(* save_position saved, or the one a handle still has when the query that  *)
(* advances its window failed (stream_window.rs:46).                       *)
SsUpdatesWhole ==
    \A k \in DOMAIN handed :
        LET r == handed[k].row IN
        r.op = 4 => handed[k].before \/ (handle.open /\ handle.read_again = [lsn |-> r.lsn, seq |-> r.seq, op |-> 3])

(* Everything harvested is acknowledged or was left behind, unless the     *)
(* stream has stopped because the server purged what it had not read.      *)
Settled == handle.refused \/ UnackedRows \subseteq overlooked
====

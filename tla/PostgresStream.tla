--------------------------- MODULE PostgresStream ---------------------------
(* The PostgreSQL change stream: a replication slot on the server, the two *)
(* transports that read it (SqlPeek re-reads the slot with every poll,     *)
(* StreamingReplication holds a socket), the handle that reassembles       *)
(* transactions, and the consumer that acknowledges them.                  *)
(*                                                                         *)
(* Item i of the log is a transaction whose changes carry the LSN 2i - 1   *)
(* and whose COMMIT ends at 2i.  A change is a "row" of a captured table,  *)
(* a "skip" (a table the filters exclude), a "truncate" of two captured    *)
(* tables or a "relation": the RELATION message of the captured table,     *)
(* with its shape, which pgoutput sends ahead of the changes that need it. *)
(* An aborted transaction takes log space and sends nothing.               *)
EXTENDS Integers, Sequences, FiniteSetsExt

CONSTANTS
    Deployments,            \* the settings and workloads explored
    MAX_TRACKED_TX_ENDS,    \* transaction ends the handle remembers
    MaxEventsPerPoll,       \* max_events_per_poll, the ceiling of the peek window
    MaxRestarts             \* crashes and lost connections explored

VARIABLES
    config,       \* the deployment: transport, idle_advance, decodable, resumes, log
    written,      \* items of the log the server has written
    slot,         \* confirmed_flush_lsn of the replication slot
    handle,       \* the open stream handle, or NoHandle
    caught_up,    \* the last poll completed and returned no rows
    handed,       \* events returned by next_events and not yet acknowledged
    checkpoint,   \* the durable LSN, or NoLsn
    confirming,   \* an LSN saved durably and not yet confirmed to the source, or NoLsn
    acked,        \* transactions the consumer has acknowledged
    restarts

vars == <<config, written, slot, handle, caught_up, handed, checkpoint, confirming, acked, restarts>>

NoHandle == [open |-> FALSE]
NoLsn == -1
NoXid == 0
NoShape == 0
NoTx == 0

ChangeLsn(i) == 2 * i - 1
EndLsn(i) == 2 * i
WalLsn == EndLsn(written)

Items == 1..config.items
ChangesOf(message) == CASE message.kind = "row" -> 1
                        [] message.kind = "truncate" -> 2
                        [] OTHER -> 0

(* What pgoutput sends for items first..last: BEGIN, changes, COMMIT each, *)
(* nothing for an item that aborted.                                       *)
MessagesBetween(first, last) == SelectSeq(config.log, LAMBDA m : m.tx \in first..last)

ChangeCount(i) ==
    LET own == MessagesBetween(i, i)
        sum[k \in 0..Len(own)] == IF k = 0 THEN 0 ELSE sum[k - 1] + ChangesOf(own[k])
    IN  sum[Len(own)]
Visible(i) == ChangeCount(i) > 0

(* The first item whose COMMIT ends past an LSN: where the server starts.  *)
FirstPast(lsn) == lsn \div 2 + 1

(***************************************************************************)
(* Decoding.  The handle buffers the events of the open transaction and    *)
(* releases them at its COMMIT.                                            *)
(***************************************************************************)
Event(h, m, seq) ==
    [tx |-> m.tx, seq |-> seq, lsn |-> ChangeLsn(m.tx), schema |-> m.kind = "relation",
     has_tx |-> h.current_xid # NoXid,
     event_index |-> Len(h.partial_tx_events), total_events |-> -1]

NextSeq(h) == Len(h.partial_tx_events) + 1

OnBegin(h, m) == [h EXCEPT !.current_xid = m.tx, !.partial_tx_events = <<>>]

OnRow(h, m) ==
    [h EXCEPT !.partial_tx_events = Append(@, Event(h, m, NextSeq(h)))]

(* The shape is cached.  One that differs from the shape cached before is  *)
(* a schema change: part of the open transaction, with its metadata, or,   *)
(* outside of one, released at once without.                               *)
OnRelation(h, m) ==
    LET changed == h.relation \notin {NoShape, m.shape}
        cached  == [h EXCEPT !.relation = m.shape]
        event   == Event(h, m, NextSeq(h))
    IN  IF ~changed THEN cached
        ELSE IF h.current_xid # NoXid THEN [cached EXCEPT !.partial_tx_events = Append(@, event)]
        ELSE [cached EXCEPT !.committed = Append(@, event)]

(* One event per truncated table, all built before any is buffered.        *)
OnTruncate(h, m) ==
    [h EXCEPT !.partial_tx_events =
        @ \o [k \in 1..2 |-> Event(h, m, NextSeq(h) + k - 1)]]

OnCommitKeepsEvents(h, m) ==
    [h EXCEPT !.committed = @ \o h.partial_tx_events, !.lsn_position = EndLsn(m.tx)]
OnCommit(h, m) ==
    LET total == Len(h.partial_tx_events)
        ends  == IF h.current_xid = NoXid THEN h.committed_tx_ends
                 ELSE Append(h.committed_tx_ends, [tx |-> h.current_xid, end_lsn |-> EndLsn(m.tx)])
        kept  == IF Len(ends) > MAX_TRACKED_TX_ENDS
                 THEN SubSeq(ends, Len(ends) - MAX_TRACKED_TX_ENDS + 1, Len(ends)) ELSE ends
    IN  [h EXCEPT !.lsn_position = EndLsn(m.tx),
                  !.committed_tx_ends = kept,
                  !.committed = @ \o [k \in 1..total |->
                        IF h.partial_tx_events[k].has_tx
                        THEN [h.partial_tx_events[k] EXCEPT !.total_events = total]
                        ELSE h.partial_tx_events[k]],
                  !.partial_tx_events = <<>>,
                  !.current_xid = NoXid]

OnMessage(h, m) ==
    CASE m.kind = "begin"    -> OnBegin(h, m)
      [] m.kind = "row"      -> OnRow(h, m)
      [] m.kind = "relation" -> OnRelation(h, m)
      [] m.kind = "truncate" -> OnTruncate(h, m)
      [] m.kind = "skip"     -> h
      [] m.kind = "commit"   -> OnCommit(h, m)

ProcessMessages(h, messages) ==
    LET after[k \in 0..Len(messages)] ==
            IF k = 0 THEN h ELSE OnMessage(after[k - 1], messages[k])
    IN  after[Len(messages)]

(***************************************************************************)
(* Positions.                                                              *)
(***************************************************************************)
(* pg_replication_slot_advance, again for the position confirmed last: an  *)
(* idle advance may have put a later commit there.                         *)
PeekConfirmLsn(h, lsn) == IF lsn < h.confirmed_lsn THEN slot ELSE Max({slot, lsn})

(* The applied position goes out in a status update when it has advanced.  *)
StreamConfirmLsn(h, lsn) == IF lsn > h.confirmed_lsn THEN Max({slot, lsn}) ELSE slot

ConfirmLsn(h, lsn) ==
    /\ slot' = IF config.transport = "SqlPeek" THEN PeekConfirmLsn(h, lsn)
                                              ELSE StreamConfirmLsn(h, lsn)
    /\ handle' = [h EXCEPT !.confirmed_lsn = Max({@, lsn})]

(* A commit's end is the only position a restart may use; an event whose   *)
(* transaction is no longer remembered falls back to its own LSN.          *)
ResumeOffsetFor(h, e) ==
    LET ends == {h.committed_tx_ends[k].end_lsn :
                    k \in {k \in DOMAIN h.committed_tx_ends : h.committed_tx_ends[k].tx = e.tx}}
    IN  IF e.has_tx /\ ends # {} THEN Max(ends) ELSE e.lsn

(***************************************************************************)
(* The two transports.                                                     *)
(***************************************************************************)
(* The peek returns whole transactions past the slot, stopping after the   *)
(* one that reaches the requested number of rows.                          *)
PeekEnd(window) ==
    LET first  == FirstPast(slot)
        enough == {i \in first..written : Len(MessagesBetween(first, i)) >= window}
    IN  IF enough = {} THEN written ELSE Min(enough)

PeekTimesOut == config.transport = "SqlPeek" /\ handle.peek_window > config.decodable
                /\ Len(MessagesBetween(FirstPast(slot), written)) > config.decodable

Peeked(window) == MessagesBetween(FirstPast(slot), PeekEnd(window))

(* The messages of this connection the server has sent and nobody read.    *)
Unread == LET sent == MessagesBetween(handle.first, written)
          IN  SubSeq(sent, handle.read + 1, Len(sent))

(* The write position a keepalive reports: the end of the last item sent.  *)
SentLsn ==
    LET done == {i \in (handle.first - 1)..written :
                    Len(MessagesBetween(handle.first, i)) <= handle.read}
    IN  EndLsn(Max(done))

Grow(window) == Min({2 * window, MaxEventsPerPoll})
ShrinkNever(window) == window
Shrink(window) == Max({window \div 2, 1})

(***************************************************************************)
(* The server.                                                             *)
(***************************************************************************)
Init ==
    /\ config \in Deployments
    /\ written = config.backlog
    /\ slot = 0
    /\ handle = NoHandle
    /\ caught_up = FALSE
    /\ handed = <<>>
    /\ checkpoint = IF config.resumes THEN 0 ELSE NoLsn
    /\ confirming = NoLsn
    /\ acked = {}
    /\ restarts = 0

ServerWrites ==
    /\ written < config.items
    /\ written' = written + 1
    /\ UNCHANGED <<config, slot, handle, caught_up, handed, checkpoint, confirming, acked, restarts>>

(***************************************************************************)
(* Starting a stream: a handle with nothing buffered, at the ceiling of    *)
(* the peek window, which reads from item `first`.                         *)
(***************************************************************************)
NewHandle(position, confirmed, first) ==
    [open              |-> TRUE,
     lsn_position      |-> position,
     confirmed_lsn     |-> confirmed,
     current_xid       |-> NoXid,
     relation          |-> NoShape,
     partial_tx_events |-> <<>>,
     committed_tx_ends |-> <<>>,
     committed         |-> <<>>,
     peek_window       |-> MaxEventsPerPoll,
     server_wal_end    |-> confirmed,
     first             |-> first,
     read              |-> 0]

(***************************************************************************)
(* A stored checkpoint ahead of the slot is repaired                       *)
(* before the first peek; streaming names it in START_REPLICATION.  With   *)
(* no checkpoint the position is the server's and nothing is confirmed.    *)
(***************************************************************************)
StartStream ==
    LET resuming == checkpoint # NoLsn
        peeks    == config.transport = "SqlPeek"
        start    == IF resuming THEN checkpoint ELSE 0
    IN  /\ ~handle.open
        /\ slot' = IF resuming /\ peeks THEN Max({slot, checkpoint}) ELSE slot
        /\ handle' = NewHandle(IF resuming THEN checkpoint ELSE WalLsn, start,
                               FirstPast(Max({slot, start})))
        /\ caught_up' = FALSE
        /\ UNCHANGED <<config, written, handed, checkpoint, confirming, acked, restarts>>

(***************************************************************************)
(* next_events, one turn of its loop.  The runtime polls again only when   *)
(* the events of the last poll are acknowledged.                           *)
(***************************************************************************)
Polling == handle.open /\ handed = <<>> /\ ~caught_up

(* Rows arrived.  Events are returned; rows with none of interest still    *)
(* move the slot, or the next peek would return them again.                *)
TakeRows(h, messages) ==
    LET processed == ProcessMessages(h, messages)
        quiet     == [processed EXCEPT !.committed = <<>>]
    IN  /\ IF processed.committed = <<>> /\ processed.lsn_position > h.lsn_position
           THEN ConfirmLsn(quiet, processed.lsn_position)
           ELSE handle' = quiet /\ UNCHANGED slot
        /\ handed' = processed.committed
        /\ caught_up' = FALSE
        /\ UNCHANGED <<config, written, checkpoint, confirming, acked, restarts>>

PeekRows ==
    /\ Polling /\ config.transport = "SqlPeek" /\ ~PeekTimesOut
    /\ Peeked(handle.peek_window) # <<>>
    /\ TakeRows([handle EXCEPT !.peek_window = Grow(@)], Peeked(handle.peek_window))

StreamRows ==
    /\ Polling /\ config.transport = "StreamingReplication"
    /\ \E n \in 1..Min({handle.peek_window, Len(Unread)}) :
          TakeRows([handle EXCEPT !.read = @ + n,
                                  !.server_wal_end = Max({@, ChangeLsn(Unread[n].tx)})],
                   SubSeq(Unread, 1, n))

PeekTimedOut ==
    /\ Polling /\ PeekTimesOut
    /\ handle' = [handle EXCEPT !.peek_window = Shrink(@)]
    /\ UNCHANGED <<config, written, slot, caught_up, handed, checkpoint, confirming, acked, restarts>>

(* A poll that completed with nothing: the slot looks caught up.  On the   *)
(* socket the records may simply not have arrived, and a keepalive may     *)
(* have.                                                                   *)
NoRows ==
    /\ Polling /\ ~PeekTimesOut
    /\ config.transport = "SqlPeek" => Peeked(handle.peek_window) = <<>>
    /\ caught_up' = TRUE
    /\ handle' \in {handle,
                    IF config.transport = "SqlPeek" THEN handle
                    ELSE [handle EXCEPT !.server_wal_end = Max({@, SentLsn})]}
    /\ UNCHANGED <<config, written, slot, handed, checkpoint, confirming, acked, restarts>>

(* SqlPeek asks the server for its write position in a second query;       *)
(* streaming uses the position it was last told.                           *)
IdleAdvanceTo(lsn) ==
    IF lsn > handle.confirmed_lsn THEN ConfirmLsn(handle, lsn) ELSE UNCHANGED <<slot, handle>>
PeekIdleAdvance == IdleAdvanceTo(WalLsn)
StreamIdleAdvance == IdleAdvanceTo(handle.server_wal_end)

(* The idle interval has passed.                                           *)
IdleAdvance ==
    /\ handle.open /\ caught_up /\ config.idle_advance
    /\ IF config.transport = "SqlPeek" THEN PeekIdleAdvance ELSE StreamIdleAdvance
    /\ caught_up' = FALSE
    /\ UNCHANGED <<config, written, handed, checkpoint, confirming, acked, restarts>>

IdleNotDue ==
    /\ handle.open /\ caught_up
    /\ caught_up' = FALSE
    /\ UNCHANGED <<config, written, slot, handle, handed, checkpoint, confirming, acked, restarts>>

(* While it waits, and when a keepalive asks, the socket reports again the *)
(* position last applied: the report at the start of a connection, or one  *)
(* the server never saw.                                                   *)
SendStatusUpdate ==
    /\ handle.open /\ config.transport = "StreamingReplication" /\ handed = <<>>
    /\ slot' = Max({slot, handle.confirmed_lsn})
    /\ UNCHANGED <<config, written, handle, caught_up, handed, checkpoint, confirming, acked, restarts>>

(***************************************************************************)
(* The consumer acknowledges whole transactions; the checkpoint is saved,  *)
(* then the source is told.                                                *)
(***************************************************************************)
EndsTransaction(n) == n = Len(handed) \/ handed[n].tx # handed[n + 1].tx

Acknowledge ==
    \E n \in {n \in DOMAIN handed : EndsTransaction(n)} :
        /\ handle.open /\ confirming = NoLsn
        /\ checkpoint' = ResumeOffsetFor(handle, handed[n])
        /\ confirming' = checkpoint'
        /\ acked' = acked \cup {handed[k].tx : k \in 1..n}
        /\ handed' = SubSeq(handed, n + 1, Len(handed))
        /\ UNCHANGED <<config, written, slot, handle, caught_up, restarts>>

ConfirmSaved ==
    /\ handle.open /\ confirming # NoLsn
    /\ ConfirmLsn([handle EXCEPT !.committed_tx_ends =
                        SelectSeq(@, LAMBDA t : t.end_lsn > confirming)], confirming)
    /\ confirming' = NoLsn
    /\ UNCHANGED <<config, written, caught_up, handed, checkpoint, acked, restarts>>

(* The process dies or the connection is lost, at any moment.              *)
Crash ==
    /\ handle.open /\ restarts < MaxRestarts
    /\ restarts' = restarts + 1
    /\ handle' = NoHandle
    /\ handed' = <<>>
    /\ confirming' = NoLsn
    /\ caught_up' = FALSE
    /\ UNCHANGED <<config, written, slot, checkpoint, acked>>

AllAcknowledged == \A i \in Items : Visible(i) => i \in acked

(* Nothing left to write or deliver: the stream idles.                     *)
Idle ==
    /\ written = config.items /\ AllAcknowledged
    /\ UNCHANGED vars

Next ==
    \/ ServerWrites \/ StartStream
    \/ PeekRows \/ StreamRows \/ PeekTimedOut \/ NoRows \/ IdleAdvance \/ IdleNotDue
    \/ SendStatusUpdate
    \/ Acknowledge \/ ConfirmSaved \/ Crash \/ Idle

(* The runtime's loop keeps starting, polling, acknowledging and           *)
(* confirming, and what the server sent keeps arriving; the server owes    *)
(* no write and the idle timer owes no tick.                               *)
Fairness ==
    /\ WF_vars(StartStream) /\ WF_vars(PeekRows) /\ SF_vars(StreamRows) /\ WF_vars(PeekTimedOut)
    /\ WF_vars(IdleNotDue) /\ WF_vars(Acknowledge) /\ WF_vars(ConfirmSaved)
    /\ WF_vars(ServerWrites) /\ WF_vars(SendStatusUpdate)

Spec == Init /\ [][Next]_vars /\ Fairness
-----------------------------------------------------------------------------
TypeOK ==
    /\ config \in Deployments
    /\ written \in 0..config.items
    /\ slot \in 0..EndLsn(config.items)
    /\ checkpoint \in {NoLsn} \cup 0..EndLsn(config.items)
    /\ confirming \in {NoLsn, checkpoint}
    /\ acked \subseteq Items
    /\ handle.open => handle.peek_window \in 1..MaxEventsPerPoll
    /\ restarts \in 0..MaxRestarts

(* No committed change is ever out of reach: a transaction with a captured *)
(* change is acknowledged, or a restart at this moment would receive it,   *)
(* because neither the slot nor the durable checkpoint has passed its end. *)
PgNothingLost ==
    \A i \in 1..written :
        Visible(i) /\ i \notin acked
            => EndLsn(i) > slot /\ EndLsn(i) > checkpoint

(* next_events hands out whole transactions, in commit order, each event   *)
(* once, and numbers their events, a schema change among them, with the    *)
(* size of the transaction it hands out, wherever the polls cut the        *)
(* message stream.                                                         *)
PgWholeTransactions ==
    \A n \in DOMAIN handed :
        LET own == {k \in DOMAIN handed : handed[k].tx = handed[n].tx}
        IN  /\ handed[n].total_events = IF handed[n].has_tx THEN Max({handed[k].seq : k \in own}) ELSE -1
            /\ IF n > 1 /\ handed[n - 1].tx = handed[n].tx
               THEN handed[n].seq = handed[n - 1].seq + 1
               ELSE handed[n].seq = 1 /\ (n > 1 => handed[n - 1].tx < handed[n].tx)
            /\ Cardinality({k \in own : ~handed[k].schema}) = ChangeCount(handed[n].tx)

(* Every committed captured change is acknowledged and the slot is past    *)
(* it, so that the server can reclaim its WAL.                             *)
Settled == AllAcknowledged /\ \A i \in acked : slot >= ChangeLsn(i)
=============================================================================

------------------------------ MODULE Delivery ------------------------------
(***************************************************************************)
(* The delivery path of CdcRuntime (core/runtime/): a source log, the      *)
(* poll loop with its queues and idempotency guard, the commit barrier,    *)
(* the checkpoint store, the source-side confirmation, and an embedder     *)
(* that polls, acknowledges, retries, stops, restarts and crashes.         *)
(*                                                                         *)
(* Events are numbered in capture order.  Events 1..SnapshotRows are rows  *)
(* of a bulk snapshot, the rest are changes in the log.  A position is a   *)
(* natural number: change i sits at Lsn(i), and its transaction lies       *)
(* between StartLsn(i) and EndLsn(i).                                      *)
(*                                                                         *)
(* The connectors differ in what an event's position means to a stream     *)
(* that resumes there.  PostgreSQL: the slot sends again every transaction *)
(* that ends past it, and the handle turns an event's own position into    *)
(* its transaction's end.  MySQL: every event of a transaction carries the *)
(* commit position, and the stream resumes after it (Snowflake's windows   *)
(* behave alike).  SQL Server: every event carries its transaction's LSN,  *)
(* and the window opened there includes it.                                *)
(*                                                                         *)
(* Methods take `&mut self`, so at most one call is active.  A commit_ack  *)
(* has three awaits (snapshot checkpoint, barrier save, confirmation) and  *)
(* `call` is its frame; a poll's effects are all after its last await, so  *)
(* each way through poll_event_batch is one action.                        *)
(***************************************************************************)
EXTENDS BarrierRecords, BatchCut, SequencesExt

CONSTANTS
    Deployments,     \* the deployments considered
    MaxFaults,       \* bound: failed calls, disconnects and crashes
    MaxRestarts      \* bound: forced stops, and processes replaced after a stop

(* An event of the log: its transaction, NoTx for a snapshot row, and the  *)
(* first and last events of that transaction.                              *)
Captured == [tx : Nat, first : Nat, last : Nat]

(* A deployment: the source and its log, the runtime's options and what    *)
(* the embedder does with the runtime.                                     *)
Deployment ==
    [connector         : {"postgres", "mysql", "sqlserver"},
     sql_peek          : BOOLEAN,   \* WalTransport::SqlPeek: reads are non-consuming
     log               : Seq(Captured),
     snapshot_rows     : Nat,       \* how many of the log's events are bulk-snapshot rows
     max_poll          : Nat,       \* events one next_events returns at most
     has_checkpoint    : BOOLEAN,   \* the store holds a position before the first start
     options           : RuntimeOptions,
     idempotency_guard : BOOLEAN,   \* RuntimeOptions::idempotency_guard
     partial_acks      : BOOLEAN,   \* the embedder uses AckToken::accept_prefix
     poll_errors       : BOOLEAN,   \* a poll may fail after the source handed events over
     retries_polls     : BOOLEAN,   \* the embedder polls again after a failed poll
     force_stops       : BOOLEAN,   \* the embedder calls force_stop, then start
     retries_exhaust   : BOOLEAN]   \* ConnectionRetryPolicy gives up, or the store cannot be read

ASSUME DeliveryConstants ==
    /\ Deployments \subseteq Deployment
    /\ \A d \in Deployments :
          /\ d.sql_peek => d.connector = "postgres"
          /\ d.snapshot_rows <= Len(d.log)
          /\ \A i \in DOMAIN d.log :
                /\ d.log[i].tx = NoTx <=> i <= d.snapshot_rows
                /\ d.log[i].tx # NoTx =>
                      {j \in DOMAIN d.log : d.log[j].tx = d.log[i].tx} = d.log[i].first..d.log[i].last
    /\ MaxFaults \in Nat
    /\ MaxRestarts \in Nat

VARIABLES
    config,                   \* the deployment
    written,                  \* how much of the log exists
    confirmed,                \* the slot's confirmed_flush_lsn
    durable,                  \* the checkpoint store: [offset, count]
    state,                    \* RuntimeState
    snapshot,                 \* the snapshot handle's cursor, or Closed
    stream,                   \* the stream handle's read position, or Closed
    committed_tx_ends,        \* transactions whose end the stream handle remembers
    pending_source_events,
    buffered_events,
    pending_delivery,
    delivered_not_committed,
    next_delivery_id,
    pending_records,          \* CommitBarrier::pending_records
    committed_event_count,    \* CommitBarrier::committed_event_count
    seen,                     \* what the idempotency guard remembers
    pending_confirmation_lsn,
    unconfirmed_stall_polls,
    call,                     \* the suspended commit_ack
    tokens,                   \* ack tokens the embedder holds
    last_poll,                \* outcome of the last poll_event_batch
    polled,                   \* history: events a source handle has handed over
    dropped,                  \* history: events a failed poll dropped before polling went on
    acked,                    \* history: events the embedder has acknowledged
    faults,
    restarts

sourceVars == <<written, confirmed>>
handleVars == <<snapshot, stream, committed_tx_ends>>
queueVars == <<pending_source_events, buffered_events>>
deliveryVars == <<pending_delivery, delivered_not_committed, next_delivery_id>>
barrierVars == <<pending_records, committed_event_count>>
guardVars == <<seen, unconfirmed_stall_polls>>
boundVars == <<config, faults, restarts>>
vars == <<sourceVars, durable, state, handleVars, queueVars, deliveryVars, barrierVars,
          guardVars, pending_confirmation_lsn, call, tokens, last_poll, polled, dropped, acked,
          boundVars>>

-----------------------------------------------------------------------------
Closed == -1
NoLsn == -1
NoDelivery == [delivery_id |-> 0, events |-> <<>>, committed_prefix |-> 0, ack_epoch |-> 0]
NoCall == [stage |-> "none", count |-> 0, lsn |-> NoLsn]
UNCONFIRMED_STALL_POLL_LIMIT == 3

Connector == config.connector

Postgres == Connector = "postgres"

NumEvents == Len(config.log)

SnapshotRows == config.snapshot_rows

IsSnapshotRow(i) == i <= SnapshotRows

Lsn(i) == 2 * i

TxLast(i) == config.log[i].last

ClosesTx(i) == i = TxLast(i)

EndLsn(i) == Lsn(TxLast(i)) + 1

StartLsn(i) == Lsn(config.log[i].first) - 1

(* A stream reads on from the events whose filter position lies past its   *)
(* own: whole transactions, or single rows of a window.                    *)
WholeTransactions == Connector \in {"postgres", "mysql"}

FilterLsn(i) == IF WholeTransactions /\ ~IsSnapshotRow(i) THEN EndLsn(i) ELSE Lsn(i)

(* Mutants of StreamStart: the saved position is not used, or the stream   *)
(* starts at the head of the log.                                          *)
StreamStartAtHead(offset) == Lsn(written) + 1

StreamStartIgnoringCheckpoint(offset) == IF Postgres THEN confirmed ELSE Lsn(SnapshotRows)

(* Where a stream started from this checkpoint begins.  With no checkpoint *)
(* and no snapshot watermark, PostgreSQL starts from its slot, SQL Server  *)
(* from the oldest retained change, and MySQL from the head of the log.    *)
StreamStart(offset) ==
    LET requested == CASE offset > Lsn(SnapshotRows) -> offset
                       [] SnapshotRows > 0           -> Lsn(SnapshotRows)
                       [] offset # NoOffset          -> offset
                       [] Connector = "mysql"        -> Lsn(written) + 1
                       [] OTHER                      -> 0
    IN  IF Postgres /\ requested < confirmed THEN confirmed ELSE requested

(* The cursor of the snapshot handle start() opens, if it opens one.       *)
SnapshotStart(offset) ==
    CASE SnapshotRows = 0 \/ offset > Lsn(SnapshotRows) -> Closed
      [] offset = NoOffset -> 0
      [] OTHER -> offset \div 2

(* The events a process started from the durable state would capture.      *)
Resent(i) ==
    IF IsSnapshotRow(i)
    THEN SnapshotStart(durable.offset) # Closed /\ i > SnapshotStart(durable.offset)
    ELSE FilterLsn(i) > StreamStart(durable.offset)

CutEvent(i) ==
    [tx |-> config.log[i].tx, bytes |-> 1, final |-> ~IsSnapshotRow(i) /\ ClosesTx(i)]

CutEvents(events) == [k \in DOMAIN events |-> CutEvent(events[k])]

ToSeq(first, last) == [k \in 1..last - first + 1 |-> first + k - 1]

Uncommitted(delivery) ==
    SubSeq(delivery.events, delivery.committed_prefix + 1, Len(delivery.events))

Token(delivery) ==
    [delivery_id |-> delivery.delivery_id, epoch |-> delivery.ack_epoch,
     events |-> Uncommitted(delivery)]

Fault == faults < MaxFaults /\ faults' = faults + 1 /\ UNCHANGED <<config, restarts>>

NoFault == UNCHANGED boundVars

Init ==
    /\ config \in Deployments
    /\ written = SnapshotRows
    /\ confirmed = Lsn(SnapshotRows)
    /\ durable = [offset |-> IF config.has_checkpoint THEN 0 ELSE NoOffset, count |-> 0]
    /\ state = "Idle"
    /\ snapshot = Closed
    /\ stream = Closed
    /\ committed_tx_ends = {}
    /\ pending_source_events = <<>>
    /\ buffered_events = <<>>
    /\ pending_delivery = NoDelivery
    /\ delivered_not_committed = 0
    /\ next_delivery_id = 1
    /\ pending_records = <<>>
    /\ committed_event_count = 0
    /\ seen = {}
    /\ pending_confirmation_lsn = NoLsn
    /\ unconfirmed_stall_polls = 0
    /\ call = NoCall
    /\ tokens = {}
    /\ last_poll = "none"
    /\ polled = {}
    /\ dropped = {}
    /\ acked = {}
    /\ faults = 0
    /\ restarts = 0

-----------------------------------------------------------------------------
(* The source: a transaction commits, all its changes at once.             *)
TransactionCommits ==
    /\ written < NumEvents
    /\ written' = TxLast(written + 1)
    /\ UNCHANGED <<confirmed, durable, state, handleVars, queueVars, deliveryVars, barrierVars,
                   guardVars, pending_confirmation_lsn, call, tokens, last_poll, polled,
                   dropped, acked, boundVars>>

(* start_stream: the handle's first position.  Under SqlPeek the slot is   *)
(* advanced to a checkpoint that is ahead of it.                           *)
OpenStream ==
    /\ stream' = StreamStart(durable.offset)
    /\ committed_tx_ends' = {}
    /\ confirmed' = IF Postgres /\ config.sql_peek THEN StreamStart(durable.offset) ELSE confirmed

start ==
    /\ state \in {"Idle", "Stopped"}
    /\ pending_records = <<>>
    /\ committed_event_count' = durable.count
    /\ OpenStream
    /\ snapshot' = SnapshotStart(durable.offset)
    /\ state' = "Running"
    /\ last_poll' = "none"
    /\ UNCHANGED <<written, durable, queueVars, deliveryVars, pending_records, guardVars,
                   pending_confirmation_lsn, call, tokens, polled, dropped, acked, boundVars>>

-----------------------------------------------------------------------------
(* poll_event_batch.  A call with stage "poll" is one that has retried the *)
(* pending confirmation, or reconnected, and is about to go on.            *)
PollCall == [stage |-> "poll", count |-> 0, lsn |-> NoLsn]

EmbedderPolls ==
    /\ state = "Running"
    /\ last_poll = "error" => config.retries_polls

(* An unacknowledged batch is delivered again, under a fresh token.        *)
RedeliverPending ==
    /\ EmbedderPolls
    /\ call = NoCall
    /\ pending_delivery # NoDelivery
    /\ tokens' = tokens \cup {Token(pending_delivery)}
    /\ last_poll' = "batch"
    /\ UNCHANGED <<sourceVars, durable, state, handleVars, queueVars, deliveryVars, barrierVars,
                   guardVars, pending_confirmation_lsn, call, polled, dropped, acked, boundVars>>

(* StreamHandle::confirm_lsn.  The slot never moves backwards, and the     *)
(* handle forgets the transaction ends it has confirmed.                   *)
ConfirmLsn(lsn) ==
    /\ confirmed' = Max({confirmed, lsn})
    /\ committed_tx_ends' = {i \in committed_tx_ends : EndLsn(i) > lsn}

MustRetryConfirmation ==
    call = NoCall /\ pending_confirmation_lsn # NoLsn /\ stream # Closed

retry_pending_confirmation ==
    /\ EmbedderPolls
    /\ pending_delivery = NoDelivery
    /\ MustRetryConfirmation
    /\ \/ /\ ConfirmLsn(pending_confirmation_lsn)
          /\ pending_confirmation_lsn' = NoLsn
          /\ unconfirmed_stall_polls' = 0
          /\ NoFault
       \/ /\ Fault
          /\ UNCHANGED <<confirmed, committed_tx_ends, pending_confirmation_lsn,
                         unconfirmed_stall_polls>>
    /\ call' = PollCall
    /\ UNCHANGED <<written, durable, state, snapshot, stream, queueVars, deliveryVars, barrierVars,
                   seen, tokens, last_poll, polled, dropped, acked>>

(* The rest of a poll that found nothing in flight.                        *)
PollProceeds ==
    /\ EmbedderPolls
    /\ call \in {NoCall, PollCall}
    /\ pending_delivery = NoDelivery
    /\ ~MustRetryConfirmation
    /\ call' = NoCall
    /\ UNCHANGED <<written, confirmed, durable, state, committed_event_count, acked,
                   pending_confirmation_lsn>>

PollFails ==
    /\ last_poll' = "error"
    /\ UNCHANGED <<deliveryVars, tokens>>

(* The events are in no queue any more, and the runtime is polled again.   *)
Drop(events) == dropped' = IF config.retries_polls THEN dropped \cup ToSet(events) ELSE dropped

(* deliver_buffered_batch.                                                 *)
Deliver(events) ==
    LET delivery == [delivery_id |-> next_delivery_id, events |-> events,
                     committed_prefix |-> 0, ack_epoch |-> 0]
    IN  IF events = <<>>
        THEN last_poll' = "empty" /\ UNCHANGED <<deliveryVars, tokens>>
        ELSE /\ last_poll' = "batch"
             /\ pending_delivery' = delivery
             /\ delivered_not_committed' = delivered_not_committed + Len(events)
             /\ next_delivery_id' = next_delivery_id + 1
             /\ tokens' = tokens \cup {Token(delivery)}

(* Mutant of resume_offset_for: always at the event itself.                *)
ResumeAtEvent(i, tx_ends) == Lsn(i)

(* resume_offset_for: PostgreSQL's is the end of the event's transaction   *)
(* while the handle remembers it; the others use the event's position.     *)
resume_offset_for(i, tx_ends) ==
    CASE Connector = "mysql"     -> EndLsn(i)
      [] Connector = "sqlserver" -> StartLsn(i)
      [] OTHER                   -> IF TxLast(i) \in tx_ends THEN EndLsn(i) ELSE Lsn(i)

(* The barrier records buffer_and_deliver adds.  Rows of a bulk snapshot   *)
(* carry no offset.                                                        *)
Records(events, tx_ends) ==
    [k \in DOMAIN events |->
        [event    |-> events[k],
         offset   |-> IF IsSnapshotRow(events[k]) THEN NoOffset
                      ELSE resume_offset_for(events[k], tx_ends),
         accepted |-> FALSE]]

(* flush_pending_source_events: cut a chunk, add its records, deliver it.  *)
(* An event that fails validation ends the call: the events before it stay *)
(* buffered, the rest of the chunk is gone.                                *)
Flush(queue, tx_ends) ==
    \E n \in {BatchLen(config.options, CutEvents(queue), config.options.max_buffer_size - Len(pending_records))} :
    LET buffer(k) == pending_records' = pending_records \o Records(SubSeq(queue, 1, k), tx_ends)
    IN  /\ pending_source_events' = SubSeq(queue, n + 1, Len(queue))
        /\ \/ /\ buffer(n)
              /\ Deliver(SubSeq(queue, 1, n))
              /\ UNCHANGED <<buffered_events, dropped>>
              /\ NoFault
           \/ /\ config.poll_errors
              /\ Fault
              /\ \E invalid \in 1..n :
                    /\ buffer(invalid - 1)
                    /\ buffered_events' = SubSeq(queue, 1, invalid - 1)
                    /\ Drop(SubSeq(queue, invalid, n))
              /\ PollFails

(* The guard passes on the events it does not remember, in their order.    *)
Unseen(events) ==
    LET kept[k \in 0..Len(events)] ==
            IF k = 0 THEN <<>>
            ELSE IF events[k] \in seen THEN kept[k - 1] ELSE Append(kept[k - 1], events[k])
    IN  kept[Len(events)]

(* What happens to events a source handle has handed over: schema history, *)
(* idempotency guard, transforms, queue, flush.  Each stage can fail, and  *)
(* the handle's position has already moved.                                *)
HandOver(events, tx_ends) ==
    LET fresh == IF config.idempotency_guard THEN Unseen(events) ELSE events
        suppressed == fresh = <<>> /\ pending_confirmation_lsn # NoLsn
        stall_polls == IF suppressed THEN unconfirmed_stall_polls + 1
                       ELSE IF fresh # <<>> THEN 0 ELSE unconfirmed_stall_polls
        guard == /\ seen' = IF config.idempotency_guard THEN seen \cup ToSet(events) ELSE seen
                 /\ unconfirmed_stall_polls' = IF config.idempotency_guard THEN stall_polls
                                               ELSE unconfirmed_stall_polls
        exhausted == suppressed /\ stall_polls >= UNCONFIRMED_STALL_POLL_LIMIT
        discard == PollFails /\ UNCHANGED <<queueVars, pending_records>>
    IN  /\ polled' = polled \cup ToSet(events)
        /\ \/ /\ config.poll_errors
              /\ Fault
              /\ UNCHANGED guardVars
              /\ discard
              /\ Drop(events)
           \/ /\ exhausted
              /\ guard
              /\ discard
              /\ UNCHANGED dropped
              /\ NoFault
           \/ /\ config.poll_errors
              /\ ~exhausted
              /\ Fault
              /\ guard
              /\ discard
              /\ Drop(fresh)
           \/ /\ ~exhausted
              /\ guard
              /\ \E queue \in {pending_source_events \o fresh} : Flush(queue, tx_ends)

-----------------------------------------------------------------------------
PollBuffered ==
    /\ PollProceeds
    /\ buffered_events # <<>>
    /\ Deliver(buffered_events)
    /\ buffered_events' = <<>>
    /\ UNCHANGED <<handleVars, pending_source_events, pending_records, guardVars, polled, dropped, boundVars>>

QueueLen == BatchLen(config.options, CutEvents(pending_source_events), config.options.max_buffer_size - Len(pending_records))

PollQueue ==
    /\ PollProceeds
    /\ buffered_events = <<>>
    /\ QueueLen > 0
    /\ Flush(pending_source_events, committed_tx_ends)
    /\ UNCHANGED <<handleVars, guardVars, polled>>

(* The queue is empty or withheld, so the poll goes on to the source.      *)
PollReachesSource ==
    /\ PollProceeds
    /\ buffered_events = <<>>
    /\ QueueLen = 0

PollSnapshot(k) ==
    /\ PollReachesSource
    /\ snapshot # Closed
    /\ k <= config.options.max_buffer_size
    /\ snapshot + k <= SnapshotRows
    /\ snapshot' = snapshot + k
    /\ HandOver(ToSeq(snapshot + 1, snapshot + k), committed_tx_ends)
    /\ UNCHANGED <<stream, committed_tx_ends>>

(* A snapshot with no rows left is handed off to the stream.               *)
PollReachesStream ==
    /\ PollReachesSource
    /\ snapshot \in {Closed, SnapshotRows}
    /\ snapshot' = Closed

ReadPosition == IF config.sql_peek THEN confirmed ELSE stream

Available == {i \in SnapshotRows + 1..written : FilterLsn(i) > ReadPosition}

(* StreamHandle::next_events returns the next k events.                    *)
PollStream(k) ==
    LET first == Min(Available)
        last == first + k - 1
    IN  /\ PollReachesStream
        /\ stream # Closed
        /\ Available # {}
        /\ last <= written
        /\ WholeTransactions => ClosesTx(last)
        /\ stream' = FilterLsn(last)
        /\ committed_tx_ends' = committed_tx_ends \cup
                (IF Postgres THEN {TxLast(i) : i \in first..last} ELSE {})
        /\ HandOver(ToSeq(first, last), committed_tx_ends')

PollNothing ==
    /\ PollReachesStream
    /\ stream = Closed \/ Available = {}
    /\ last_poll' = "empty"
    /\ UNCHANGED <<stream, committed_tx_ends, queueVars, deliveryVars, pending_records, guardVars,
                   tokens, polled, dropped, boundVars>>

(* A recoverable stream error: the handle is dropped and a new one opened  *)
(* from the durable checkpoint, then the same poll goes on.                *)
Reconnects ==
    /\ EmbedderPolls
    /\ call \in {NoCall, PollCall}
    /\ pending_delivery = NoDelivery
    /\ ~MustRetryConfirmation
    /\ buffered_events = <<>>
    /\ QueueLen = 0
    /\ snapshot \in {Closed, SnapshotRows}
    /\ stream # Closed
    /\ Fault
    /\ snapshot' = Closed
    /\ OpenStream
    /\ call' = PollCall
    /\ UNCHANGED <<written, durable, state, queueVars, deliveryVars, barrierVars, guardVars,
                   pending_confirmation_lsn, tokens, last_poll, polled, dropped, acked>>

(* The retry budget is exhausted, or the checkpoint cannot be loaded: the  *)
(* poll fails and no handle is left.                                       *)
ReconnectFails ==
    /\ config.retries_exhaust
    /\ PollReachesStream
    /\ stream # Closed
    /\ Fault
    /\ stream' = Closed
    /\ committed_tx_ends' = {}
    /\ PollFails
    /\ UNCHANGED <<queueVars, pending_records, guardVars, polled, dropped>>

(* A snapshot query fails, or the stream fails with an error that is not   *)
(* recoverable: the handles stay as they are.                              *)
SourceFails ==
    /\ PollReachesSource
    /\ stream # Closed
    /\ Fault
    /\ PollFails
    /\ UNCHANGED <<handleVars, queueVars, pending_records, guardVars, polled, dropped>>

-----------------------------------------------------------------------------
(* Mutant of committed_confirmation_lsn: everything read is confirmed.     *)
ConfirmReadPosition(events) == IF Postgres THEN stream ELSE NoLsn

committed_confirmation_lsn(events) ==
    LET last == events[Len(events)]
    IN  IF Postgres /\ ~IsSnapshotRow(last)
        THEN resume_offset_for(last, committed_tx_ends) ELSE NoLsn

(* commit_ack: a token is good for the delivery and the epoch it was       *)
(* issued at.  Committing n of its events suspends in the snapshot         *)
(* checkpoint when one of them is a snapshot row, else in the barrier.     *)
commit_ack(token, n) ==
    LET prefix == SubSeq(Uncommitted(pending_delivery), 1, n)
        snapshot_rows == {i \in ToSet(prefix) : IsSnapshotRow(i)}
    IN  /\ call = NoCall
        /\ pending_delivery # NoDelivery
        /\ token.delivery_id = pending_delivery.delivery_id
        /\ token.epoch = pending_delivery.ack_epoch
        /\ n <= delivered_not_committed
        /\ n <= Len(Uncommitted(pending_delivery))
        /\ snapshot_rows # {} => snapshot # Closed
        /\ acked' = acked \cup ToSet(SubSeq(token.events, 1, n))
        /\ call' = [stage |-> IF snapshot_rows # {} THEN "snapshot" ELSE "barrier",
                    count |-> n, lsn |-> committed_confirmation_lsn(prefix)]
        /\ UNCHANGED <<sourceVars, durable, state, handleVars, queueVars, deliveryVars,
                       barrierVars, guardVars, pending_confirmation_lsn, tokens, last_poll,
                       polled, dropped, boundVars>>

(* The store (external): counts never fall, a count never names two        *)
(* positions, and the positions it can order never fall.                   *)
StoreAccepts(record) ==
    /\ durable.count <= record.count
    /\ durable.count = record.count => durable.offset = record.offset
    /\ ~Postgres => durable.offset <= record.offset

(* SnapshotHandle::checkpoint saves the handle's own cursor.               *)
SnapshotRecord ==
    [offset |-> Lsn(snapshot), count |-> committed_event_count + call.count]

SaveSnapshotCheckpoint ==
    /\ call.stage = "snapshot"
    /\ StoreAccepts(SnapshotRecord)
    /\ durable' = SnapshotRecord
    /\ call' = [call EXCEPT !.stage = "barrier"]
    /\ UNCHANGED <<sourceVars, state, handleVars, queueVars, deliveryVars, barrierVars, guardVars,
                   pending_confirmation_lsn, tokens, last_poll, polled, dropped, acked, boundVars>>

(* What accept_and_commit saves, if the accepted prefix has a position.    *)
AcceptedRecords == MarkAccepted(pending_records, call.count)

BarrierRecord ==
    [offset |-> LastPersistable(AcceptedRecords, call.count),
     count  |-> committed_event_count + call.count]

(* Mutant of FinishCommit: committed events stay counted as delivered.     *)
FinishCommitUncounted ==
    /\ pending_delivery' = NoDelivery
    /\ call' = NoCall
    /\ UNCHANGED <<delivered_not_committed, next_delivery_id>>

(* The end of commit_prefix: the committed events leave the delivery and   *)
(* its outstanding token is spent.                                         *)
FinishCommit ==
    LET delivery == [pending_delivery EXCEPT !.committed_prefix = @ + call.count,
                                             !.ack_epoch = @ + 1]
    IN  /\ delivered_not_committed' = delivered_not_committed - call.count
        /\ pending_delivery' = IF Uncommitted(delivery) = <<>> THEN NoDelivery ELSE delivery
        /\ call' = NoCall
        /\ UNCHANGED next_delivery_id

SaveBarrier ==
    /\ call.stage = "barrier"
    /\ IF BarrierRecord.offset = NoOffset
       THEN UNCHANGED durable
       ELSE StoreAccepts(BarrierRecord) /\ durable' = BarrierRecord
    /\ committed_event_count' = committed_event_count + call.count
    /\ pending_records' = Drain(AcceptedRecords, call.count)
    /\ IF call.lsn # NoLsn /\ stream # Closed
       THEN call' = [call EXCEPT !.stage = "confirm"] /\ UNCHANGED deliveryVars
       ELSE FinishCommit
    /\ UNCHANGED <<sourceVars, state, handleVars, queueVars, guardVars, pending_confirmation_lsn,
                   tokens, last_poll, polled, dropped, acked, boundVars>>

InFlightRecord == IF call.stage = "snapshot" THEN SnapshotRecord ELSE BarrierRecord

Saving ==
    \/ call.stage = "snapshot"
    \/ call.stage = "barrier" /\ BarrierRecord.offset # NoOffset

(* A save that fails may have reached the disk.                            *)
MaybeSaved ==
    \/ UNCHANGED durable
    \/ Saving /\ StoreAccepts(InFlightRecord) /\ durable' = InFlightRecord

(* commit_ack returns the error and leaves everything as it found it.      *)
SaveFails ==
    /\ Saving
    /\ \/ Fault /\ MaybeSaved
       \/ ~StoreAccepts(InFlightRecord) /\ UNCHANGED durable /\ NoFault
    /\ call' = NoCall
    /\ UNCHANGED <<sourceVars, state, handleVars, queueVars, deliveryVars, barrierVars, guardVars,
                   pending_confirmation_lsn, tokens, last_poll, polled, dropped, acked>>

(* The post-commit confirmation.  Its failure is remembered for the next   *)
(* poll; the commit stands whatever PostCommitSourceConfirmPolicy says.    *)
ConfirmToSource ==
    /\ call.stage = "confirm"
    /\ \/ /\ ConfirmLsn(call.lsn)
          /\ pending_confirmation_lsn' = NoLsn
          /\ unconfirmed_stall_polls' = 0
          /\ NoFault
       \/ /\ Fault
          /\ pending_confirmation_lsn' = call.lsn
          /\ UNCHANGED <<confirmed, committed_tx_ends, unconfirmed_stall_polls>>
    /\ FinishCommit
    /\ UNCHANGED <<written, durable, state, snapshot, stream, queueVars, barrierVars, seen, tokens,
                   last_poll, polled, dropped, acked>>

-----------------------------------------------------------------------------
CloseHandles ==
    /\ snapshot' = Closed
    /\ stream' = Closed
    /\ committed_tx_ends' = {}

(* stop refuses while anything is uncommitted or queued.  An embedder that *)
(* does not retry a failed poll discards the runtime instead.              *)
stop ==
    /\ EmbedderPolls
    /\ call = NoCall
    /\ pending_records = <<>>
    /\ pending_source_events = <<>>
    /\ state' = "Stopped"
    /\ pending_delivery' = NoDelivery
    /\ delivered_not_committed' = 0
    /\ CloseHandles
    /\ UNCHANGED <<sourceVars, durable, queueVars, next_delivery_id, barrierVars, guardVars,
                   pending_confirmation_lsn, call, tokens, last_poll, polled, dropped,
                   acked, boundVars>>

(* force_stop hands everything in memory back, for the embedder to replay. *)
force_stop ==
    /\ config.force_stops
    /\ restarts < MaxRestarts
    /\ restarts' = restarts + 1
    /\ state = "Running"
    /\ call = NoCall
    /\ state' = "Stopped"
    /\ pending_delivery' = NoDelivery
    /\ delivered_not_committed' = 0
    /\ pending_source_events' = <<>>
    /\ buffered_events' = <<>>
    /\ pending_records' = <<>>
    /\ CloseHandles
    /\ UNCHANGED <<sourceVars, durable, next_delivery_id, committed_event_count, guardVars,
                   pending_confirmation_lsn, call, tokens, last_poll, polled, dropped,
                   acked, config, faults>>

(* The process exits after stop, or dies wherever it was, and another one  *)
(* takes its place.                                                        *)
ProcessRestarts ==
    /\ state # "Idle"
    /\ \/ /\ state = "Stopped"
          /\ restarts < MaxRestarts
          /\ restarts' = restarts + 1
          /\ UNCHANGED <<config, faults>>
       \/ /\ state # "Stopped"
          /\ Fault
    /\ MaybeSaved
    /\ state' = "Idle"
    /\ CloseHandles
    /\ pending_source_events' = <<>>
    /\ buffered_events' = <<>>
    /\ pending_delivery' = NoDelivery
    /\ delivered_not_committed' = 0
    /\ next_delivery_id' = 1
    /\ pending_records' = <<>>
    /\ committed_event_count' = 0
    /\ seen' = {}
    /\ pending_confirmation_lsn' = NoLsn
    /\ unconfirmed_stall_polls' = 0
    /\ call' = NoCall
    /\ tokens' = {}
    /\ last_poll' = "none"
    /\ UNCHANGED <<sourceVars, polled, acked>>
    /\ dropped' = {i \in dropped : ~Resent(i)'}

Poll ==
    \/ RedeliverPending
    \/ retry_pending_confirmation
    \/ PollBuffered
    \/ PollQueue
    \/ \E k \in 1..config.max_poll : PollSnapshot(k)
    \/ \E k \in 1..config.max_poll : PollStream(k)
    \/ PollNothing

AckSizes(token) == IF config.partial_acks THEN 1..Len(token.events) ELSE {Len(token.events)}

Ack == \E token \in tokens : \E n \in AckSizes(token) : commit_ack(token, n)

AckWhole == \E token \in tokens : commit_ack(token, Len(token.events))

Next ==
    \/ TransactionCommits
    \/ start
    \/ Poll
    \/ Reconnects
    \/ ReconnectFails
    \/ SourceFails
    \/ Ack
    \/ SaveSnapshotCheckpoint
    \/ SaveBarrier
    \/ SaveFails
    \/ ConfirmToSource
    \/ stop
    \/ force_stop
    \/ ProcessRestarts

Spec == Init /\ [][Next]_vars

(* The embedder starts the runtime, keeps polling and, again and again,    *)
(* acknowledges all it was given: a smaller prefix than one whose save     *)
(* reached the disk is refused for ever.  The executor resumes suspended   *)
(* calls; committed transactions are eventually visible.  stop and start   *)
(* may repeat for ever, so polling and acknowledging are only possible     *)
(* again and again.                                                        *)
FairSpec ==
    /\ Spec
    /\ WF_vars(TransactionCommits)
    /\ WF_vars(start)
    /\ SF_vars(Poll)
    /\ SF_vars(AckWhole)
    /\ WF_vars(SaveSnapshotCheckpoint \/ SaveBarrier \/ ConfirmToSource \/ SaveFails)

-----------------------------------------------------------------------------
TypeOK ==
    /\ written \in SnapshotRows..NumEvents
    /\ confirmed \in Nat
    /\ durable \in [offset : Offset, count : Nat]
    /\ state \in {"Idle", "Running", "Stopped"}
    /\ snapshot \in 0..SnapshotRows \cup {Closed}
    /\ stream \in Nat \cup {Closed}
    /\ committed_tx_ends \subseteq 1..NumEvents
    /\ {pending_source_events, buffered_events, pending_delivery.events} \subseteq Seq(1..NumEvents)
    /\ pending_records \in Seq(PendingRecord)
    /\ Len(pending_records) <= config.options.max_buffer_size
    /\ seen \cup dropped \subseteq polled
    /\ unconfirmed_stall_polls \in Nat
    /\ call.stage \in {"none", "poll", "snapshot", "barrier", "confirm"}

(* The deployments in which the runtime keeps its delivery guarantees.     *)
(* A guard that outlives a forced stop is switched off, and a peeking slot *)
(* has one.                                                                *)
(* MySQL has a position to start from.  Snapshot rows are acknowledged     *)
(* batch by batch.  A position in the middle of a transaction is never     *)
(* acknowledged: on PostgreSQL and MySQL transactions have one row, or fit *)
(* the buffer with at most one event to spare in a hand-over, are kept     *)
(* whole and acknowledged whole; on SQL Server nothing is withheld.        *)
SoundDeployment(d) ==
    /\ d.force_stops => ~d.idempotency_guard
    /\ d.sql_peek => d.idempotency_guard
    /\ d.connector = "mysql" => d.has_checkpoint \/ d.snapshot_rows > 0
    /\ d.snapshot_rows > 0 => ~d.partial_acks /\ d.options.max_event_bytes = NoLimit
    /\ d.connector = "sqlserver" => d.options.transaction_boundary = "Split"
    /\ d.connector # "sqlserver" =>
          \/ \A i \in DOMAIN d.log : d.log[i].tx # NoTx => d.log[i].first = d.log[i].last
          \/ /\ d.options.transaction_boundary = "PreserveTransactions"
             /\ d.options.max_event_bytes = NoLimit
             /\ d.max_poll <= d.options.max_buffer_size + 1
             /\ ~d.partial_acks
             /\ \A i \in DOMAIN d.log :
                   d.log[i].tx # NoTx => d.log[i].last - d.log[i].first < d.options.max_buffer_size

(* At-least-once (architecture.md:440): an event the source handed over    *)
(* and the embedder has not acknowledged would be captured again by a      *)
(* process started now from the store and the slot.                        *)
NothingIsLost == \A i \in polled \ acked : Resent(i)

(* At-least-once as a specification: the events a restart would capture    *)
(* again only ever lose acknowledged events, and never regain one.         *)
(* Excepted are the events a failed poll dropped in a runtime that is      *)
(* polled again: its stream moves past them.  A restart that still         *)
(* captures them ends the exception.                                       *)
Contract == INSTANCE AtLeastOnce
                WITH Events <- UNION {DOMAIN d.log : d \in Deployments},
                     captured <- polled,
                     replayable <- {i \in 1..written : Resent(i)} \cup dropped

ImplementsAtLeastOnce == Contract!Spec

(* No source confirmation beyond checkpointed progress                     *)
(* (architecture.md:55): the slot never releases what the store does not   *)
(* cover.                                                                  *)
ConfirmedWithinCheckpoint == confirmed <= Max({durable.offset, Lsn(SnapshotRows)})

(* The barrier's queue is exactly what commit_ack may still commit: the    *)
(* uncommitted part of the delivery, then what is buffered behind it.      *)
(* commit_prefix counts on it, it acknowledges records by number.          *)
BarrierMatchesDelivery ==
    call.stage # "confirm" =>
        /\ [k \in DOMAIN pending_records |-> pending_records[k].event]
             = Uncommitted(pending_delivery) \o buffered_events
        /\ delivered_not_committed = Len(Uncommitted(pending_delivery))

(* A durable checkpoint never moves the stream position backwards          *)
(* (architecture.md:61).                                                   *)
CheckpointNeverMovesBack == [][durable'.offset >= durable.offset]_vars

(* Until something fails, nothing acknowledged is delivered again, across  *)
(* any number of clean restarts (README.md:216), on the connectors that    *)
(* resume past the last acknowledged transaction.                          *)
CleanRestartDeliversNothing ==
    [][(/\ WholeTransactions
        /\ faults' = 0
        /\ pending_delivery'.delivery_id > pending_delivery.delivery_id)
        => ToSet(pending_delivery'.events) \cap acked = {}]_vars

(* Every change the source commits is eventually acknowledged, whatever    *)
(* finite number of disconnects, failed saves and confirmations and        *)
(* crashes happens.  Excepted are polls that fail past the hand-over,      *)
(* reconnects that give up, and SQL Server, whose stream rereads its last  *)
(* transaction at each start: an embedder that stops after every poll gets *)
(* no further there.                                                       *)
EveryEventIsAcknowledged ==
    WholeTransactions /\ ~config.poll_errors /\ ~config.retries_exhaust
        => <>(acked = 1..NumEvents)
=============================================================================

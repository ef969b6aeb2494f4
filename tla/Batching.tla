------------------------------ MODULE Batching ------------------------------
(***************************************************************************)
(* The runtime's source queue as a process: a source hands over events in  *)
(* log order, the runtime cuts batches off the queue, and the consumer     *)
(* acknowledges them, whole or in part, before the next cut.               *)
(*                                                                         *)
(* poll_event_batch only reaches the source when nothing is in flight and  *)
(* a flush of the queue produced no batch, so a hand-over happens with an  *)
(* empty or a withheld queue.                                              *)
(***************************************************************************)
EXTENDS BatchCut

CONSTANTS
    Scenarios,         \* the options and source logs (of [tx, bytes]) considered
    TotalsDeclared,    \* the connector fills in TransactionMetadata::total_events
    WholeTransactions, \* the connector hands over whole transactions only
    MaxHandOver        \* bound: events one next_events call returns

ASSUME BatchingConstants ==
    /\ \A s \in Scenarios : s.options \in RuntimeOptions /\ s.log \in Seq([tx : Nat, bytes : Nat])
    /\ TotalsDeclared \in BOOLEAN
    /\ WholeTransactions \in BOOLEAN
    /\ MaxHandOver \in Nat

VARIABLES
    options,                \* RuntimeOptions, fixed when the runtime is built
    log,                    \* the source log of this behaviour
    pending_source_events,
    in_flight,              \* the delivered batch's unacknowledged events
    received,               \* how many events of the log were handed over
    batches                 \* history: every batch delivered, in order

vars == <<options, log, pending_source_events, in_flight, received, batches>>

(* Event i closes its transaction in the source log.                       *)
ClosesTx(i) == \A j \in i + 1..Len(log) : log[j].tx # log[i].tx

(* The event as the connector delivers it.                                 *)
Event(i) ==
    [id |-> i, tx |-> log[i].tx, bytes |-> log[i].bytes,
     final |-> TotalsDeclared /\ log[i].tx # NoTx /\ ClosesTx(i)]

Events(first, last) == [k \in 1..last - first + 1 |-> Event(first + k - 1)]

Init ==
    /\ \E s \in Scenarios : options = s.options /\ log = s.log
    /\ pending_source_events = <<>>
    /\ in_flight = <<>>
    /\ received = 0
    /\ batches = <<>>

(* Mutant of Flush: the trimmed tail is not put back on the queue.         *)
FlushDroppingTail(queue) ==
    LET n == BatchLen(options, queue, options.max_buffer_size)
    IN  /\ pending_source_events' = SubSeq(queue, CutLen(options, queue, options.max_buffer_size) + 1, Len(queue))
        /\ in_flight' = SubSeq(queue, 1, n)
        /\ batches' = IF n = 0 THEN batches ELSE Append(batches, SubSeq(queue, 1, n))

(* flush_pending_source_events on a queue, with the barrier empty.         *)
Flush(queue) ==
    LET n == BatchLen(options, queue, options.max_buffer_size)
    IN  /\ pending_source_events' = SubSeq(queue, n + 1, Len(queue))
        /\ in_flight' = SubSeq(queue, 1, n)
        /\ batches' = IF n = 0 THEN batches ELSE Append(batches, SubSeq(queue, 1, n))

(* poll_event_batch with events already queued and not withheld.           *)
PollQueue ==
    /\ in_flight = <<>>
    /\ BatchLen(options, pending_source_events, options.max_buffer_size) > 0
    /\ Flush(pending_source_events)
    /\ UNCHANGED <<options, log, received>>

(* poll_event_batch falling through to the source for k more events.       *)
PollSource(k) ==
    /\ in_flight = <<>>
    /\ BatchLen(options, pending_source_events, options.max_buffer_size) = 0
    /\ received + k <= Len(log)
    /\ WholeTransactions => ClosesTx(received + k)
    /\ received' = received + k
    /\ Flush(pending_source_events \o Events(received + 1, received + k))
    /\ UNCHANGED <<options, log>>

(* commit_ack of the first n events in flight.                             *)
commit_ack(n) ==
    /\ n <= Len(in_flight)
    /\ in_flight' = SubSeq(in_flight, n + 1, Len(in_flight))
    /\ UNCHANGED <<options, log, pending_source_events, received, batches>>

Next ==
    \/ PollQueue
    \/ \E k \in 1..MaxHandOver : PollSource(k)
    \/ \E n \in 1..options.max_buffer_size : commit_ack(n)

Spec == Init /\ [][Next]_vars

(* The embedder keeps polling and acknowledging, and the source hands over *)
(* what it has.                                                            *)
FairSpec == Spec /\ WF_vars(Next)

-----------------------------------------------------------------------------
Concat(seqs) ==
    LET joined[k \in 0..Len(seqs)] == IF k = 0 THEN <<>> ELSE joined[k - 1] \o seqs[k]
    IN  joined[Len(seqs)]

(* Cutting, trimming and pushing back neither lose, repeat nor reorder:    *)
(* the delivered batches followed by the queue are what was received.      *)
QueueConserved ==
    Concat(batches) \o pending_source_events = Events(1, received)

(* A batch never exceeds max_buffer_size, and exceeds max_event_bytes only *)
(* when its single event does.                                             *)
BatchesWithinBudget ==
    \A b \in DOMAIN batches :
        /\ Len(batches[b]) <= options.max_buffer_size
        /\ \/ options.max_event_bytes = NoLimit
           \/ Len(batches[b]) = 1
           \/ ChunkBytes(batches[b])[Len(batches[b])] <= options.max_event_bytes

(* PreserveTransactions (runtime.rs:176): a batch ends inside a            *)
(* transaction only when that transaction alone fills it, the one case     *)
(* the documentation excepts, or when more is queued than fits the batch:  *)
(* an event of a later transaction, anywhere in the queue, then counts as  *)
(* proof that the cut one has ended (runtime_poll.rs:754).  What is left   *)
(* of it is at least all there, first in the queue.                        *)
BatchesEndOnBoundary ==
    [][\/ options.transaction_boundary = "Split"
       \/ batches' = batches
       \/ LET batch == batches'[Len(batches')]
              last == batch[Len(batch)]
              rest == pending_source_events'
          IN  \/ last.tx = NoTx
              \/ ClosesTx(last.id)
              \/ /\ Len(batch) >= options.max_buffer_size
                 /\ \A i \in DOMAIN batch : batch[i].tx = last.tx
              \/ /\ Len(batch) >= options.max_buffer_size
                 /\ \E k \in DOMAIN rest :
                       /\ k > 1
                       /\ rest[k].tx # last.tx
                       /\ \A i \in 1..k - 1 : rest[i].tx = last.tx]_vars

(* Withholding cannot wedge (runtime_poll.rs:717): every event is          *)
(* eventually delivered and acknowledged.                                  *)
EverythingIsDelivered ==
    <>(received = Len(log) /\ pending_source_events = <<>> /\ in_flight = <<>>)
=============================================================================

------------------------------ MODULE BatchCut ------------------------------
(***************************************************************************)
(* How the runtime cuts a batch off its queue of source events             *)
(* (flush_pending_source_events and trim_to_transaction_boundary,          *)
(* core/runtime/runtime_poll.rs).                                          *)
(*                                                                         *)
(* What the cut reads of an event: its transaction id (NoTx for a snapshot *)
(* row), whether its metadata declares it the final event of its           *)
(* transaction, and its estimated size.                                    *)
(***************************************************************************)
EXTENDS Integers, Sequences

NoTx == 0

NoLimit == 0

(* The RuntimeOptions the cut depends on.                                  *)
RuntimeOptions ==
    [max_buffer_size      : Nat \ {0},
     max_event_bytes      : Nat,
     transaction_boundary : {"Split", "PreserveTransactions"}]

Least(a, b) == IF a <= b THEN a ELSE b

(* chunk_bytes after the first k events of the queue.                      *)
ChunkBytes(queue) ==
    LET bytes[k \in 0..Len(queue)] == IF k = 0 THEN 0 ELSE bytes[k - 1] + queue[k].bytes
    IN  bytes

(* Mutant of Fits: the budget is tested before the event is counted.       *)
FitsBefore(options, queue, k) ==
    \/ k = 1
    \/ options.max_event_bytes = NoLimit
    \/ ChunkBytes(queue)[k - 1] <= options.max_event_bytes

(* The k-th event still fits the byte budget; the first one always does.   *)
Fits(options, queue, k) ==
    \/ k = 1
    \/ options.max_event_bytes = NoLimit
    \/ ChunkBytes(queue)[k] <= options.max_event_bytes

(* The loop of flush_pending_source_events: fill the free capacity, stop   *)
(* before the byte budget is exceeded.                                     *)
CutLen(options, queue, available) ==
    LET limit == Least(available, Len(queue))
    IN  CHOOSE k \in 0..limit :
            /\ \A j \in 1..k : Fits(options, queue, j)
            /\ k < limit => ~Fits(options, queue, k + 1)

(* Mutant of KnownEnded: an empty queue is taken for the transaction's end. *)
EndedWhenQueueEmpty(last, rest) ==
    last.final \/ rest = <<>> \/ \E i \in DOMAIN rest : rest[i].tx # last.tx

(* The two signals that count as proof that the chunk's last transaction   *)
(* has ended: its metadata says so, or anything queued behind the cut      *)
(* belongs to another transaction.                                         *)
KnownEnded(last, rest) ==
    \/ last.final
    \/ \E i \in DOMAIN rest : rest[i].tx # last.tx

(* Mutant of MustSplit: a transaction is never split.                      *)
NeverSplit(options, chunk) == FALSE

(* One transaction fills the batch by itself: it cannot be withheld.       *)
MustSplit(options, chunk) ==
    /\ \A i \in DOMAIN chunk : chunk[i].tx = chunk[Len(chunk)].tx
    /\ Len(chunk) >= options.max_buffer_size

(* Mutant of TrimLen: the policy is ignored.                               *)
TrimNothing(options, chunk, rest) == Len(chunk)

(* trim_to_transaction_boundary: how many events of the chunk are kept;    *)
(* the others go back to the front of the queue.                           *)
TrimLen(options, chunk, rest) ==
    LET last == chunk[Len(chunk)]
        others == {i \in DOMAIN chunk : chunk[i].tx # last.tx}
    IN  IF \/ options.transaction_boundary = "Split"
           \/ chunk = <<>>
           \/ last.tx = NoTx
           \/ KnownEnded(last, rest)
           \/ MustSplit(options, chunk)
        THEN Len(chunk)
        ELSE IF others = {} THEN 0 ELSE CHOOSE i \in others : \A j \in others : j <= i

(* How many queued events the next batch delivers.                         *)
BatchLen(options, queue, available) ==
    LET cut == CutLen(options, queue, available)
    IN  TrimLen(options, SubSeq(queue, 1, cut), SubSeq(queue, cut + 1, Len(queue)))
=============================================================================

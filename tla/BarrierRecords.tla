--------------------------- MODULE BarrierRecords ---------------------------
(***************************************************************************)
(* The record queue of rustcdc's CommitBarrier (checkpoint/barrier.rs) as  *)
(* operators: what a batch acknowledgement marks, which prefix becomes     *)
(* durable and at which position, and how a failed call is undone.  The    *)
(* barrier's own state machine (CommitBarrier) and the delivery runtime    *)
(* (Delivery) are both built on them.                                      *)
(*                                                                         *)
(* A record is [event, offset, accepted].  The code holds an opaque        *)
(* `Option<Box<dyn Offset>>`; here an offset is a natural number and       *)
(* NoOffset is None.  `event` names the delivered event and is there for   *)
(* the properties: no operator reads it.                                   *)
(***************************************************************************)
EXTENDS Integers, Sequences, FiniteSets

NoOffset == -1

Offset == Nat \cup {NoOffset}

PendingRecord == [event : Nat, offset : Offset, accepted : BOOLEAN]

Accepted(records) == {i \in DOMAIN records : records[i].accepted}

Unaccepted(records) == {i \in DOMAIN records : ~records[i].accepted}

(* The records the loop of notify_consumer_accepted marks.  The loop       *)
(* decrements a u64 before it tests it for zero, so a count of zero wraps  *)
(* in a release build and the loop runs over every unaccepted record.      *)
NextUnaccepted(records, count) ==
    IF count = 0
    THEN Unaccepted(records)
    ELSE {i \in Unaccepted(records) :
            Cardinality({j \in Unaccepted(records) : j <= i}) <= count}

WithAcceptance(records, indices, accepted) ==
    [i \in DOMAIN records |->
        IF i \in indices THEN [records[i] EXCEPT !.accepted = accepted] ELSE records[i]]

MarkAccepted(records, count) ==
    WithAcceptance(records, NextUnaccepted(records, count), TRUE)

(* Mutant of UndoAccepted: the marks are taken back from the front.        *)
UndoFromFront(records, previously_accepted, count) ==
    WithAcceptance(records, {i \in DOMAIN records : i <= count}, FALSE)

(* accept_and_commit's undo: `skip(previously_accepted).take(event_count)`. *)
UndoAccepted(records, previously_accepted, count) ==
    WithAcceptance(records,
        {i \in DOMAIN records : previously_accepted < i /\ i <= previously_accepted + count},
        FALSE)

(* The contiguous accepted prefix: `take_while(|record| record.accepted)`. *)
CommitLen(records) ==
    CHOOSE k \in 0..Len(records) :
        /\ \A i \in 1..k : records[i].accepted
        /\ k < Len(records) => ~records[k + 1].accepted

(* Mutant of LastPersistable: the position of the whole queue.             *)
LastOfQueue(records, commit_len) ==
    LET persistable == {i \in DOMAIN records : records[i].offset # NoOffset}
    IN  IF persistable = {}
        THEN NoOffset
        ELSE records[CHOOSE i \in persistable : \A j \in persistable : j <= i].offset

(* The last position in the prefix: `take(commit_len).rev().find_map(..)`.  *)
LastPersistable(records, commit_len) ==
    LET persistable == {i \in 1..commit_len : records[i].offset # NoOffset}
    IN  IF persistable = {}
        THEN NoOffset
        ELSE records[CHOOSE i \in persistable : \A j \in persistable : j <= i].offset

Drain(records, commit_len) == SubSeq(records, commit_len + 1, Len(records))
=============================================================================

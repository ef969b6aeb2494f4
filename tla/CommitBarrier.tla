---------------------------- MODULE CommitBarrier ----------------------------
(***************************************************************************)
(* rustcdc's commit barrier (checkpoint/barrier.rs) against a checkpoint   *)
(* store that can fail and a process that can die.                         *)
(*                                                                         *)
(* Every method takes `&mut self`, so calls never overlap; the one await   *)
(* inside a call is the store's save.  `call` is the stack frame of the    *)
(* accept_and_commit or commit that is suspended there, and only a save    *)
(* outcome, a drop of the suspended future or a crash can follow.  The     *)
(* store is external: a save may fail without effect, or fail after the    *)
(* record reached the disk (a rename that succeeds before the directory    *)
(* sync fails), and it refuses a count that goes backwards.                *)
(*                                                                         *)
(* Events are numbered in delivery order and an event's own number is its  *)
(* offset.  After a crash the source redelivers from the durable position. *)
(***************************************************************************)
EXTENDS BarrierRecords

CONSTANTS
    MaxBufferSize,    \* CommitBarrier::max_buffer_size
    EventCounts,      \* the counts callers pass to notify / accept_and_commit
    MaxEvents,        \* bound: events the source holds
    MaxFaults,        \* bound: failed saves, dropped futures and crashes
    CallsMayBeDropped \* whether a caller drops a suspended commit future

ASSUME BarrierConstants ==
    /\ MaxBufferSize \in Nat
    /\ EventCounts \subseteq Nat
    /\ MaxEvents \in Nat
    /\ MaxFaults \in Nat
    /\ CallsMayBeDropped \in BOOLEAN

VARIABLES
    pending_records,
    barrier_state,
    committed_event_count,
    call,        \* the suspended call, or Idle
    durable,     \* the checkpoint store: [offset, count]
    added,       \* the last event the source handed over
    acked,       \* history: events the consumer has acknowledged
    running,     \* the runtime's run this barrier serves has hydrated it
    before,      \* history: barrier state when the suspended call began
    faults

barrierVars == <<pending_records, barrier_state, committed_event_count>>

vars == <<barrierVars, call, durable, added, running, acked, before, faults>>

BarrierState == {"Open", "Flushing", "Committed"}

Idle == [op |-> "none", count |-> 0, previously_accepted |-> 0, restore_state |-> "Open"]

Init ==
    /\ pending_records = <<>>
    /\ barrier_state = "Open"
    /\ committed_event_count = 0
    /\ call = Idle
    /\ durable = [offset |-> 0, count |-> 0]
    /\ added = 0
    /\ running = FALSE
    /\ acked = {}
    /\ before = <<>>
    /\ faults = 0

-----------------------------------------------------------------------------
(* CdcRuntime::start seeds the counter from the store and opens the source *)
(* at the durable position, so the source redelivers everything after it.  *)
hydrate_committed_event_count ==
    /\ ~running
    /\ pending_records = <<>>
    /\ running' = TRUE
    /\ committed_event_count' = durable.count
    /\ added' = durable.offset
    /\ UNCHANGED <<pending_records, barrier_state, call, durable, acked, before, faults>>

(* add_event, add_boxed_event and add_non_persistent_event.                *)
push_record(persistent) ==
    /\ running
    /\ call.op = "none"
    /\ added < MaxEvents
    /\ barrier_state # "Flushing"
    /\ Len(pending_records) < MaxBufferSize
    /\ added' = added + 1
    /\ barrier_state' = "Open"
    /\ pending_records' = Append(pending_records,
                            [event    |-> added + 1,
                             offset   |-> IF persistent THEN added + 1 ELSE NoOffset,
                             accepted |-> FALSE])
    /\ UNCHANGED <<committed_event_count, call, durable, running, acked, before, faults>>

EventsAt(indices) == {pending_records[i].event : i \in indices}

notify_consumer_accepted(count) ==
    /\ running
    /\ call.op = "none"
    /\ count <= Cardinality(Unaccepted(pending_records))
    /\ pending_records' = MarkAccepted(pending_records, count)
    /\ acked' = acked \cup (IF count = 0 THEN {} ELSE EventsAt(NextUnaccepted(pending_records, count)))
    /\ UNCHANGED <<barrier_state, committed_event_count, call, durable, added, running,
                   before, faults>>

-----------------------------------------------------------------------------
(* The successful tail of commit: count, drain, state.                     *)
Settle(records) ==
    LET commit_len == CommitLen(records)
    IN  /\ committed_event_count' = committed_event_count + commit_len
        /\ pending_records' = Drain(records, commit_len)
        /\ barrier_state' = IF commit_len = Len(records) THEN "Committed" ELSE "Open"

(* commit up to its await: an empty queue and a prefix without a position  *)
(* finish at once, anything else suspends in the store's save.             *)
StartCommit(op, count, records) ==
    LET position == LastPersistable(records, CommitLen(records))
    IN  \/ /\ records = <<>>
           /\ barrier_state' = "Committed"
           /\ UNCHANGED <<pending_records, committed_event_count, call, before>>
        \/ /\ CommitLen(records) > 0
           /\ position = NoOffset
           /\ Settle(records)
           /\ UNCHANGED <<call, before>>
        \/ /\ CommitLen(records) > 0
           /\ position # NoOffset
           /\ pending_records' = records
           /\ barrier_state' = "Flushing"
           /\ call' = [op                  |-> op,
                       count               |-> count,
                       previously_accepted |-> Cardinality(Accepted(pending_records)),
                       restore_state       |-> barrier_state]
           /\ before' = barrierVars
           /\ UNCHANGED committed_event_count

accept_and_commit(count) ==
    /\ running
    /\ call.op = "none"
    /\ count <= Cardinality(Unaccepted(pending_records))
    /\ StartCommit("accept_and_commit", count, MarkAccepted(pending_records, count))
    /\ acked' = acked \cup (IF count = 0 THEN {} ELSE EventsAt(NextUnaccepted(pending_records, count)))
    /\ UNCHANGED <<durable, added, running, faults>>

commit ==
    /\ running
    /\ call.op = "none"
    /\ StartCommit("commit", 0, pending_records)
    /\ UNCHANGED <<durable, added, running, acked, faults>>

(* Mutant of SavedRecord: the head's position, if it has one.              *)
SavedHead ==
    [offset |-> pending_records[1].offset,
     count  |-> committed_event_count + CommitLen(pending_records)]

(* The record the suspended call is saving.                                *)
SavedRecord ==
    [offset |-> LastPersistable(pending_records, CommitLen(pending_records)),
     count  |-> committed_event_count + CommitLen(pending_records)]

(* Mutant of StoreAccepts: saving the same record again is refused.        *)
StoreAcceptsOnce(record) == durable.count < record.count

(* The two count rules of validate_checkpoint_progress.                    *)
StoreAccepts(record) ==
    /\ durable.count <= record.count
    /\ durable.count = record.count => durable.offset = record.offset

SaveSucceeds ==
    /\ call.op # "none"
    /\ StoreAccepts(SavedRecord)
    /\ durable' = SavedRecord
    /\ Settle(pending_records)
    /\ call' = Idle
    /\ before' = <<>>
    /\ UNCHANGED <<added, running, acked, faults>>

(* Mutant of RollBack: the marks stay.                                     *)
RollBackKeepingMarks ==
    /\ barrier_state' = call.restore_state
    /\ call' = Idle
    /\ before' = <<>>
    /\ UNCHANGED <<pending_records, committed_event_count>>

(* commit restores the barrier state; accept_and_commit also takes back    *)
(* the marks it set.                                                       *)
RollBack ==
    /\ pending_records' = IF call.op = "accept_and_commit"
                          THEN UndoAccepted(pending_records, call.previously_accepted, call.count)
                          ELSE pending_records
    /\ barrier_state' = call.restore_state
    /\ call' = Idle
    /\ before' = <<>>
    /\ UNCHANGED committed_event_count

SaveFails ==
    /\ call.op # "none"
    /\ faults < MaxFaults
    /\ faults' = faults + 1
    /\ \/ UNCHANGED durable
       \/ StoreAccepts(SavedRecord) /\ durable' = SavedRecord
    /\ RollBack
    /\ UNCHANGED <<added, running, acked>>

SaveRefused ==
    /\ call.op # "none"
    /\ ~StoreAccepts(SavedRecord)
    /\ RollBack
    /\ UNCHANGED <<durable, added, running, acked, faults>>

(* The suspended future is dropped: no code runs after the await.  The     *)
(* blocking worker still finishes or fails the write.                      *)
CallDropped ==
    /\ CallsMayBeDropped
    /\ call.op # "none"
    /\ faults < MaxFaults
    /\ faults' = faults + 1
    /\ \/ UNCHANGED durable
       \/ StoreAccepts(SavedRecord) /\ durable' = SavedRecord
    /\ call' = Idle
    /\ before' = <<>>
    /\ UNCHANGED <<barrierVars, added, running, acked>>

(* force_stop, the only caller of clear_pending, ends the run.              *)
clear_pending ==
    /\ running
    /\ call.op = "none"
    /\ pending_records' = <<>>
    /\ barrier_state' = "Open"
    /\ running' = FALSE
    /\ UNCHANGED <<committed_event_count, call, durable, added, acked, before, faults>>

(* stop refuses while records are pending and leaves the barrier alone.    *)
RunEnds ==
    /\ running
    /\ call.op = "none"
    /\ pending_records = <<>>
    /\ running' = FALSE
    /\ UNCHANGED <<barrierVars, call, durable, added, acked, before, faults>>

(* The process dies and another builds its barrier with new().  A save in  *)
(* flight may or may not have reached the disk.                            *)
ProcessRestarts ==
    /\ faults < MaxFaults
    /\ faults' = faults + 1
    /\ \/ UNCHANGED durable
       \/ call.op # "none" /\ StoreAccepts(SavedRecord) /\ durable' = SavedRecord
    /\ pending_records' = <<>>
    /\ barrier_state' = "Open"
    /\ committed_event_count' = 0
    /\ call' = Idle
    /\ before' = <<>>
    /\ running' = FALSE
    /\ UNCHANGED <<added, acked>>

Next ==
    \/ hydrate_committed_event_count
    \/ \E persistent \in BOOLEAN : push_record(persistent)
    \/ \E count \in EventCounts : notify_consumer_accepted(count)
    \/ \E count \in EventCounts : accept_and_commit(count)
    \/ commit
    \/ SaveSucceeds
    \/ SaveFails
    \/ SaveRefused
    \/ CallDropped
    \/ clear_pending
    \/ RunEnds
    \/ ProcessRestarts

Spec == Init /\ [][Next]_vars

(* The executor resumes a suspended call, and a consumer that keeps        *)
(* retrying acknowledges every batch size again and again.  commit on its  *)
(* own is not fair: commit_prefix, the only caller, uses accept_and_commit. *)
FairSpec ==
    /\ Spec
    /\ WF_vars(SaveSucceeds)
    /\ WF_vars(SaveRefused)
    /\ \A count \in EventCounts : SF_vars(accept_and_commit(count))

-----------------------------------------------------------------------------
TypeOK ==
    /\ pending_records \in Seq(PendingRecord)
    /\ Len(pending_records) <= MaxBufferSize
    /\ barrier_state \in BarrierState
    /\ committed_event_count \in Nat
    /\ call \in [op : {"none", "accept_and_commit", "commit"}, count : Nat,
                 previously_accepted : Nat, restore_state : BarrierState]
    /\ durable \in [offset : Nat, count : Nat]
    /\ added \in Nat
    /\ acked \subseteq Nat
    /\ running \in BOOLEAN
    /\ faults \in Nat

(* The barrier's reason to exist (barrier.rs:31): the durable position     *)
(* never passes an event the consumer has not accepted, whatever mix of    *)
(* partial acknowledgements, failed saves, retries, forced clears and      *)
(* crashes came before.                                                    *)
CheckpointWithinAcceptance == 1..durable.offset \subseteq acked

(* Acceptance marks always form a prefix of the queue.  The undo of        *)
(* accept_and_commit counts from the front (`skip(previously_accepted)`),  *)
(* so a gap anywhere would make it clear somebody else's mark.             *)
AcceptanceIsAPrefix ==
    \A i, j \in DOMAIN pending_records :
        i <= j /\ pending_records[j].accepted => pending_records[i].accepted

(* A failed accept_and_commit restores the exact pre-call state: marks,    *)
(* barrier state and committed count (barrier.rs:151).                     *)
FailedCallRestores ==
    [][SaveFails \/ SaveRefused =>
          (call.op = "accept_and_commit" => barrierVars' = before)]_vars

(* The wedge of barrier.rs:144: every record is marked and none is being   *)
(* saved, so accept_and_commit has nothing left to accept and is refused.  *)
Spent ==
    /\ pending_records # <<>>
    /\ Unaccepted(pending_records) = {}
    /\ call.op = "none"

(* A consumer that only retries accept_and_commit drains what is pending,  *)
(* after any number of failed and refused saves, unless the barrier is     *)
(* Spent; and no failure makes it Spent (barrier.rs:144): only an          *)
(* acknowledgement without a commit (barrier.rs:190), a future dropped in  *)
(* the save, whose marks nobody takes back, or a commit of such marks that *)
(* fails.                                                                  *)
PendingIsEventuallyDrained ==
    /\ pending_records # <<>> ~> (pending_records = <<>> \/ Spent)
    /\ [][Spent' => \/ Spent
                    \/ CallDropped
                    \/ \E count \in EventCounts : notify_consumer_accepted(count)
                    \/ call.op = "commit"]_vars
=============================================================================

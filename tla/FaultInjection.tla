--------------------------- MODULE FaultInjection ---------------------------
(* A crash simulation over a fault-injecting source and checkpoint: polls  *)
(* go through the source's fault controller, saves and loads through the   *)
(* checkpoint's, the run crashes at the scheduled event counts, and the    *)
(* two validators judge what was collected.  The inner source is a mock    *)
(* that serves a fixed log, and the inner checkpoint keeps the last        *)
(* position saved.                                                         *)
EXTENDS Integers, Sequences, SequencesExt, FiniteSets, TLC

CONSTANTS
    Setups,        \* log, batch, faults, checkpoint_faults, crash_points, max_duplicate_rate explored
    MaxFailures    \* failed operations of a run before its test gives up

VARIABLES
    setup,
    scheduled,     \* SourceFaultState::scheduled, a sequence of [after_event_count, fault, n]
    consumed,      \* SourceFaultState::consumed_events
    faults,        \* FaultInjectingCheckpoint::faults, a sequence of names
    stored,        \* <<>> or <<[position]>>: what the inner checkpoint holds
    stream,        \* <<>> or <<position>>: the open stream
    cycle_events,  \* events collected in the cycle that is running
    collected,     \* CrashSimulationState::collected_events
    per_cycle,     \* CrashSimulationState::events_per_cycle
    failures,
    verdicts       \* <<>>, then the two validators' answers

vars == <<setup, scheduled, consumed, faults, stored, stream, cycle_events, collected, per_cycle, failures, verdicts>>

current_cycle == Len(per_cycle)
Corrupted == -1

(***************************************************************************)
(* The source's fault controller.                                          *)
(***************************************************************************)
Due == SelectSeq(scheduled, LAMBDA f : consumed >= f.after_event_count)

(* Delays only take time; a timeout or a connection fault fails the call,  *)
(* this one and every later one.                                           *)
before_operation == \A i \in DOMAIN Due : Due[i].fault \notin {"timeout", "connection"}

SumOf(kind) == FoldSeq(LAMBDA f, n : IF f.fault = kind THEN n + f.n ELSE n, 0, Due)

Least(a, b) == IF a < b THEN a ELSE b

(* Which events a rate below 100 marks is a hash: any of them may be.      *)
should_corrupt(events) ==
    IF SumOf("corrupt") = 0 THEN {{}} ELSE IF SumOf("corrupt") >= 100 THEN {DOMAIN events} ELSE SUBSET DOMAIN events

Dropped(events) == SubSeq(events, SumOf("drop") + 1, Len(events))

Duplicated(events) == events \o SubSeq(events, 1, Least(SumOf("duplicate"), Len(events)))

Mark(events, marked) == [i \in DOMAIN events |-> [events[i] EXCEPT !.marked = @ \/ i \in marked]]

(* The whole budget of a due drop or duplication is spent on this batch,   *)
(* and the count that arms later faults is of the events handed on.        *)
after_operation(events) ==
    \E out \in {Duplicated(Dropped(events))} : \E marked \in should_corrupt(out) :
        /\ cycle_events' = cycle_events \o Mark(out, marked)
        /\ consumed' = consumed + Len(out)
        /\ scheduled' = [i \in DOMAIN scheduled |->
                            IF consumed >= scheduled[i].after_event_count /\ scheduled[i].fault \in {"drop", "duplicate"}
                            THEN [scheduled[i] EXCEPT !.n = 0] ELSE scheduled[i]]

reset == scheduled' = <<>> /\ consumed' = 0

(***************************************************************************)
(* The checkpoint's faults.  The first one that applies decides.           *)
(***************************************************************************)
FirstOf(kinds) == LET hits == SelectSeq(faults, LAMBDA f : f \in kinds) IN IF hits = <<>> THEN "none" ELSE hits[1]

save(position) ==
    CASE FirstOf({"FailSave", "LoseCheckpoint", "CorruptCheckpoint"}) = "LoseCheckpoint" -> <<stored>>
      [] FirstOf({"FailSave", "LoseCheckpoint", "CorruptCheckpoint"}) = "CorruptCheckpoint" -> <<<<Corrupted>>>>
      [] FirstOf({"FailSave", "LoseCheckpoint", "CorruptCheckpoint"}) = "FailSave" -> <<>>
      [] OTHER -> <<<<position>>>>

load ==
    CASE FirstOf({"FailLoad", "LoseCheckpoint", "CorruptCheckpoint"}) = "FailLoad" -> [ok |-> FALSE, offset |-> <<>>]
      [] FirstOf({"FailLoad", "LoseCheckpoint", "CorruptCheckpoint"}) = "LoseCheckpoint" -> [ok |-> TRUE, offset |-> <<>>]
      [] FirstOf({"FailLoad", "LoseCheckpoint", "CorruptCheckpoint"}) = "CorruptCheckpoint" ->
            [ok |-> TRUE, offset |-> IF stored = <<>> THEN <<>> ELSE <<Corrupted>>]
      [] OTHER -> [ok |-> TRUE, offset |-> stored]

(***************************************************************************)
(* The validators.                                                         *)
(***************************************************************************)
(* The key columns' names, not their values, are part of the fingerprint:  *)
(* they are the table's, and add nothing to it.                            *)
event_fingerprint(e) == <<e.table, e.offset, e.op>>

event_has_corruption_marker(e) == e.marked

DataLossValidator(expected, events) ==
    LET seen == {event_fingerprint(events[i]) : i \in DOMAIN events}
    IN  IF expected > Cardinality(seen) THEN "data loss"
        ELSE IF \E i \in DOMAIN events : event_has_corruption_marker(events[i]) THEN "corruption"
        ELSE "ok"

(* Rates are in percent of the expected events.                            *)
CrashSimulationValidator(expected, total) ==
    IF total < expected THEN "data loss"
    ELSE IF expected > 0 /\ (total - expected) * 100 > setup.max_duplicate_rate * expected THEN "excessive duplication"
    ELSE "passed"

should_crash_at(count) == current_cycle < Len(setup.crash_points) /\ setup.crash_points[current_cycle + 1] = count

record_cycle(events) == collected' = collected \o events /\ per_cycle' = Append(per_cycle, Len(events))

-----------------------------------------------------------------------------
Init ==
    /\ setup \in Setups
    /\ scheduled = setup.faults /\ consumed = 0 /\ faults = setup.checkpoint_faults
    /\ stored = <<>> /\ stream = <<>> /\ cycle_events = <<>> /\ collected = <<>> /\ per_cycle = <<>>
    /\ failures = 0 /\ verdicts = <<>>

Running == verdicts = <<>> /\ failures < MaxFailures
Fails == failures' = failures + 1

(* start_stream from what load returns; an undecodable position fails it.  *)
start_stream ==
    /\ Running /\ stream = <<>>
    /\ \/ load.ok /\ load.offset # <<Corrupted>>
          /\ stream' = <<IF load.offset = <<>> THEN 0 ELSE load.offset[1]>>
          /\ UNCHANGED failures
       \/ (~load.ok \/ load.offset = <<Corrupted>>) /\ Fails /\ UNCHANGED stream
    /\ UNCHANGED <<setup, scheduled, consumed, faults, stored, cycle_events, collected, per_cycle, verdicts>>

Served == SubSeq(setup.log, stream[1] + 1, Least(stream[1] + setup.batch, Len(setup.log)))

Batch == [i \in DOMAIN Served |-> Served[i] @@ [marked |-> FALSE]]

(* One poll, its events collected, and the position behind them saved; a   *)
(* failed save leaves the position for the next one to cover.              *)
next_events ==
    /\ Running /\ stream # <<>> /\ stream[1] < Len(setup.log)
    /\ ~should_crash_at(Len(cycle_events))
    /\ before_operation
    /\ after_operation(Batch)
    /\ stream' = <<stream[1] + Len(Served)>>
    /\ IF save(stream'[1]) = <<>> THEN UNCHANGED stored /\ Fails ELSE stored' = save(stream'[1])[1] /\ UNCHANGED failures
    /\ UNCHANGED <<setup, faults, collected, per_cycle, verdicts>>

PollFails ==
    /\ Running /\ stream # <<>> /\ stream[1] < Len(setup.log)
    /\ ~before_operation
    /\ Fails
    /\ UNCHANGED <<setup, scheduled, consumed, faults, stored, stream, cycle_events, collected, per_cycle, verdicts>>

Crash ==
    /\ Running /\ stream # <<>> /\ should_crash_at(Len(cycle_events))
    /\ record_cycle(cycle_events)
    /\ stream' = <<>> /\ cycle_events' = <<>>
    /\ UNCHANGED <<setup, scheduled, consumed, faults, stored, failures, verdicts>>

(* The test clears its faults after a failure.                             *)
Resets ==
    /\ Running /\ failures > 0 /\ (scheduled # <<>> \/ faults # <<>>)
    /\ reset /\ faults' = <<>>
    /\ UNCHANGED <<setup, stored, stream, cycle_events, collected, per_cycle, failures, verdicts>>

finalize ==
    /\ Running /\ stream # <<>> /\ stream[1] = Len(setup.log)
    /\ ~should_crash_at(Len(cycle_events))
    /\ record_cycle(cycle_events)
    /\ verdicts' = <<[data_loss |-> DataLossValidator(Len(setup.log), collected'),
                      crash |-> CrashSimulationValidator(Len(setup.log), Len(collected'))]>>
    /\ stream' = <<>> /\ cycle_events' = <<>>
    /\ UNCHANGED <<setup, scheduled, consumed, faults, stored, failures>>

Next == start_stream \/ next_events \/ PollFails \/ Crash \/ Resets \/ finalize

Spec == Init /\ [][Next]_vars /\ WF_vars(start_stream \/ next_events \/ PollFails \/ Crash \/ finalize)

-----------------------------------------------------------------------------
TypeOK ==
    /\ consumed \in Nat /\ failures \in 0..MaxFailures
    /\ Len(stored) <= 1 /\ Len(stream) <= 1
    /\ \A i \in DOMAIN collected : [table |-> collected[i].table, offset |-> collected[i].offset,
                                    op |-> collected[i].op, row |-> collected[i].row] \in Range(setup.log)

Delivered(row) == \E i \in DOMAIN collected : collected[i].row = row
Everything == \A i \in DOMAIN setup.log : Delivered(setup.log[i].row)
Injects(kind) == \E i \in DOMAIN setup.faults : setup.faults[i].fault = kind

(* A run the data-loss validator accepts lost nothing and handed on        *)
(* nothing corrupted, whatever was dropped, duplicated, marked or crashed  *)
(* on the way; and a run that injects no drop loses nothing, since what a  *)
(* lost or failed save costs is a repetition (DataLossValidator::finalize, *)
(* FaultInjectingCheckpoint).                                              *)
LossIsSeen ==
    verdicts # <<>> =>
        /\ verdicts[1].data_loss = "ok" => Everything /\ \A i \in DOMAIN collected : ~collected[i].marked
        /\ ~Injects("drop") => Everything

(* A loss the data-loss validator reports is one: "Non-zero means data     *)
(* loss" (DataLossReport::missing_events).                                 *)
ReportedLossIsLoss == (verdicts # <<>> /\ verdicts[1].data_loss = "data loss") => ~Everything

(* The crash simulation passes only when every expected event was          *)
(* delivered at least once (ValidationReport::passed).                     *)
PassedMeansDelivered == (verdicts # <<>> /\ verdicts[1].crash = "passed") => Everything

(* A connection fault fails the next operation only, so a test that goes   *)
(* on polling gets to its verdict (SourceFault::ConnectionFault).          *)
RunsEnd == <>(verdicts # <<>>)

=============================================================================

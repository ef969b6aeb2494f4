------------------------- MODULE DeterministicReplay -------------------------
(* Deterministic replay: a recorded fixture of protocol messages is        *)
(* validated, interpreted one message at a time with a transaction's rows  *)
(* buffered until its commit, and the events are compared field by field   *)
(* with the golden events of an earlier replay.                            *)
(*                                                                         *)
(* A message is [kind, payload, seq]: kind is what its type and, for a     *)
(* MySQL query or a SQL Server control message, its text make of it;       *)
(* payload is the DML or DDL content, abstracted to the fields the code    *)
(* tells apart.                                                            *)
EXTENDS Integers, Sequences, SequencesExt, FiniteSets

CONSTANT Sessions     \* [source_type, golden, fixture, message_count] explored

VARIABLES
    session,      \* the fixtures replayed: first the golden one, then the one under test
    pass,         \* "golden", "fixture", "done", or "refused" by validate
    next,         \* index of the message to interpret
    events,       \* ReplaySession::events
    active,       \* <<>> or <<ActiveTransaction>>
    errors,       \* sequence numbers of the messages that were errors
    golden        \* the events the first replay recorded

vars == <<session, pass, next, events, active, errors, golden>>

Rows == {"Insert", "Update", "Delete"}
Messages == IF pass = "golden" THEN session.golden ELSE session.fixture
Source == session.source_type

(***************************************************************************)
(* Fixtures.                                                               *)
(***************************************************************************)
validate_object_payload(p, required) == p.object /\ required \subseteq p.fields

validate_dml_payload(p, required) ==
    validate_object_payload(p, {"table"} \cup required) /\ p.primary_key \in {"absent", "strings"}

validate_mysql_query_event(p) == validate_object_payload(p, {}) /\ p.fields \cap {"query", "sql"} # {}

Boundaries == {"begin", "commit", "rollback"}

(* PostgreSQL fixtures know no rollback; MySQL and SQL Server write theirs *)
(* as queries and control messages, whose other texts are "other".         *)
validate_fixture_message(m) ==
    CASE m.kind = "Insert" -> validate_dml_payload(m.payload, {"after"})
      [] m.kind = "Update" -> validate_dml_payload(m.payload, {"before", "after"})
      [] m.kind = "Delete" -> validate_dml_payload(m.payload, {"before"})
      [] m.kind = "Ddl" /\ Source # "mysql" -> validate_object_payload(m.payload, {"statement"})
      [] m.kind = "Ddl" /\ Source = "mysql" -> validate_mysql_query_event(m.payload)
      [] m.kind = "xid" -> Source = "mysql" /\ validate_object_payload(m.payload, {})
      [] m.kind \in Boundaries \cup {"other"} ->
            CASE Source = "postgres" -> m.kind \in {"begin", "commit"} /\ validate_object_payload(m.payload, {})
              [] Source = "mysql" -> validate_mysql_query_event(m.payload)
              [] Source = "sqlserver" -> validate_object_payload(m.payload, {})
              [] OTHER -> FALSE
      [] OTHER -> FALSE

validate(messages, message_count) ==
    /\ messages # <<>>
    /\ Len(messages) = message_count
    /\ \A i \in 1..Len(messages) : messages[i].seq = i - 1 /\ validate_fixture_message(messages[i])

(***************************************************************************)
(* Interpretation.  An event is a record; "err" is an interpretation error.*)
(***************************************************************************)
Err == [op |-> "err"]
EVENT_ENVELOPE_VERSION == 1

Event(m, op, table, p) ==
    [envelope_version |-> EVENT_ENVELOPE_VERSION, op |-> op, source_name |-> Source, offset |-> m.seq, table |-> table, before |-> p.before, after |-> p.after,
     primary_key |-> p.primary_key, before_is_key_only |-> p.before_is_key_only,
     unavailable_columns |-> p.unavailable_columns, transaction |-> <<>>]

Nothing == [before |-> <<>>, after |-> <<>>, primary_key |-> "absent", before_is_key_only |-> FALSE,
            unavailable_columns |-> {}]

create_marker_event(m, marker_type) == [Event(m, "Read", marker_type, Nothing) EXCEPT !.after = <<[marker_type |-> marker_type]>>]

(* A table, flag or column list of the wrong JSON type is an error: only   *)
(* the presence of the table was checked by validate.                      *)
parse_data_payload(p) == "mistyped" \notin p.fields

create_data_event(m, op) == IF parse_data_payload(m.payload) THEN Event(m, op, m.payload.table, m.payload) ELSE Err

create_ddl_event(m) ==
    IF "mistyped" \in m.payload.fields \/ ~m.payload.captured THEN Err ELSE Event(m, "SchemaChange", m.payload.table, Nothing)

interpret_pgoutput_message(m) ==
    CASE m.kind \in Rows -> create_data_event(m, m.kind)
      [] m.kind = "begin" -> create_marker_event(m, "transaction_begin")
      [] m.kind = "commit" -> create_marker_event(m, "transaction_end")
      [] m.kind = "Ddl" -> create_ddl_event(m)

(* A query that is neither a boundary nor captured DDL is a marker.        *)
interpret_mysql_query_event(m) ==
    CASE "mistyped" \in m.payload.fields -> Err
      [] m.kind = "begin" -> create_marker_event(m, "transaction_begin")
      [] m.kind = "commit" -> create_marker_event(m, "transaction_end")
      [] m.kind = "rollback" -> create_marker_event(m, "transaction_abort")
      [] m.kind = "Ddl" /\ m.payload.captured -> create_ddl_event(m)
      [] OTHER -> create_marker_event(m, "binlog_event")

interpret_mysql_message(m) ==
    CASE m.kind \in Rows -> create_data_event(m, m.kind)
      [] m.kind = "xid" -> create_marker_event(m, "transaction_end")
      [] OTHER -> interpret_mysql_query_event(m)

(* The boundary tests ignore the case of a control message's kind; the     *)
(* marker's type does not.                                                 *)
interpret_sqlserver_control_event(m) ==
    create_marker_event(m, CASE ~m.payload.lower_case -> "control_event"
                             [] m.kind = "begin" -> "transaction_begin"
                             [] m.kind = "commit" -> "transaction_end"
                             [] m.kind = "rollback" -> "transaction_abort"
                             [] OTHER -> "control_event")

interpret_sqlserver_message(m) ==
    CASE m.kind \in Rows -> create_data_event(m, m.kind)
      [] m.kind = "Ddl" -> create_ddl_event(m)
      [] OTHER -> interpret_sqlserver_control_event(m)

interpret_message(m) ==
    CASE Source = "postgres" -> interpret_pgoutput_message(m)
      [] Source = "mysql" -> interpret_mysql_message(m)
      [] Source = "sqlserver" -> interpret_sqlserver_message(m)

(* A query whose text is not a string matches no boundary.                 *)
Readable(m) == "mistyped" \notin m.payload.fields
is_transaction_begin(m) == m.kind = "begin" /\ Readable(m)
is_transaction_commit(m) == m.kind = "xid" \/ (m.kind = "commit" /\ Readable(m))
is_transaction_abort(m) == m.kind = "rollback" /\ Readable(m)

should_buffer_in_transaction(e) == e.op \in Rows \cup {"SchemaChange"}
allows_autocommit_boundary(m) == m.kind = "xid"

flush_transaction_events(tx) ==
    [i \in DOMAIN tx.buffered |->
        [tx.buffered[i] EXCEPT !.transaction = <<[tx_id |-> tx.tx_id, total_events |-> Len(tx.buffered), event_index |-> i - 1]>>]]

annotate_transaction_abort(e, n) == [e EXCEPT !.after = <<[marker_type |-> e.table, discarded_events |-> n]>>]

(***************************************************************************)
(* One message of replay: what it adds to the events, whether it is an     *)
(* error, and the transaction it leaves open.                              *)
(***************************************************************************)
Marked(added, e, tx, failed) ==
    [added |-> IF e = Err THEN added ELSE Append(added, e), failed |-> failed \/ e = Err, active |-> tx]

Begins(m, e) ==
    Marked(<<>>, e, IF e = Err THEN <<>> ELSE <<[tx_id |-> m.seq, buffered |-> <<>>]>>, active # <<>>)

Aborts(e) ==
    LET discarded == IF active = <<>> THEN 0 ELSE Len(active[1].buffered)
    IN  Marked(<<>>, IF e = Err THEN Err ELSE annotate_transaction_abort(e, discarded), <<>>, FALSE)

Commits(m, e) ==
    IF active # <<>> THEN Marked(flush_transaction_events(active[1]), e, <<>>, FALSE)
    ELSE IF allows_autocommit_boundary(m) THEN Marked(<<>>, e, <<>>, FALSE)
    ELSE [added |-> <<>>, failed |-> TRUE, active |-> <<>>]

Otherwise(e) ==
    IF e # Err /\ should_buffer_in_transaction(e) /\ active # <<>>
    THEN [added |-> <<>>, failed |-> FALSE, active |-> <<[active[1] EXCEPT !.buffered = Append(@, e)]>>]
    ELSE Marked(<<>>, e, active, FALSE)

Interpreted(m) ==
    LET e == interpret_message(m)
    IN  CASE is_transaction_begin(m) -> Begins(m, e)
          [] is_transaction_abort(m) -> Aborts(e)
          [] is_transaction_commit(m) -> Commits(m, e)
          [] OTHER -> Otherwise(e)

(***************************************************************************)
(* Comparison with the golden events.                                      *)
(***************************************************************************)
Deterministic == {"envelope_version", "op", "table", "source_name", "after", "before", "before_is_key_only", "primary_key",
                  "unavailable_columns", "offset", "transaction"}
DiffLevel(field) == IF field \in {"envelope_version", "op"} THEN "Critical" ELSE "Semantic"

(* JSON equality is structural, so a reordered object is no difference.    *)
compare_json_fields(old, new) == old # new

Changed(old, new, field) ==
    IF field \in {"before", "after"} THEN compare_json_fields(old[field], new[field]) ELSE old[field] # new[field]

semantic_diff(old, new) ==
    {[level |-> DiffLevel(f), path |-> f] : f \in {g \in Deterministic : Changed(old, new, g)}}

(***************************************************************************)
(* The replay of the golden fixture, then of the fixture under test.       *)
(***************************************************************************)
Init ==
    /\ session \in Sessions
    /\ pass = IF validate(session.golden, Len(session.golden)) THEN "golden" ELSE "refused"
    /\ next = 1 /\ events = <<>> /\ active = <<>> /\ errors = {} /\ golden = <<>>

replay ==
    /\ pass \in {"golden", "fixture"}
    /\ next <= Len(Messages)
    /\ LET m == Messages[next]
           r == Interpreted(m)
       IN  /\ events' = events \o r.added
           /\ errors' = IF r.failed THEN errors \cup {m.seq} ELSE errors
           /\ active' = r.active
    /\ next' = next + 1
    /\ UNCHANGED <<session, pass, golden>>

(* The end of a replay: buffered rows of an open transaction are dropped   *)
(* with an error.  The next replay starts by clearing the events.          *)
Uncommitted == IF active # <<>> /\ active[1].buffered # <<>> THEN {active[1].tx_id} ELSE {}

EndOfGolden ==
    /\ pass = "golden" /\ next > Len(Messages)
    /\ golden' = events
    /\ pass' = IF validate(session.fixture, session.message_count) THEN "fixture" ELSE "refused"
    /\ next' = 1 /\ events' = <<>> /\ active' = <<>> /\ errors' = {}
    /\ UNCHANGED session

EndOfFixture ==
    /\ pass = "fixture" /\ next > Len(Messages)
    /\ pass' = "done" /\ active' = <<>>
    /\ errors' = errors \cup Uncommitted
    /\ UNCHANGED <<session, next, events, golden>>

Next == replay \/ EndOfGolden \/ EndOfFixture

Spec == Init /\ [][Next]_vars

success == errors = {}
Diffs == [i \in 1..Len(golden) \cap 1..Len(events) |-> semantic_diff(golden[i], events[i])]
Agrees == Len(golden) = Len(events) /\ \A i \in DOMAIN Diffs : Diffs[i] = {}

-----------------------------------------------------------------------------
(* The replay reads one message after another, in one transaction at most. *)
TypeOK ==
    /\ pass \in {"golden", "fixture", "done", "refused"}
    /\ next \in 1..(Len(Messages) + 1)
    /\ Len(active) <= 1 /\ errors \subseteq 0..Len(Messages)

(* The boundary that decides the fate of row message i, read off the       *)
(* fixture alone: the first boundary after it, when a begin precedes it    *)
(* with no other boundary between.                                         *)
IsBoundary(m) == is_transaction_begin(m) \/ is_transaction_commit(m) \/ is_transaction_abort(m)
InTransaction(ms, i) ==
    \E b \in 1..(i - 1) : is_transaction_begin(ms[b]) /\ \A k \in (b + 1)..(i - 1) : ~IsBoundary(ms[k])
Committed(ms, i) ==
    \E c \in (i + 1)..Len(ms) : is_transaction_commit(ms[c]) /\ \A k \in (i + 1)..(c - 1) : ~IsBoundary(ms[k])

(* Exactly the rows of committed transactions, and the rows outside any,   *)
(* are replayed, each once (ReplaySession::replay).                        *)
ReplaysWhatCommitted ==
    pass = "done" =>
        \A i \in 1..Len(Messages) :
            (Messages[i].kind \in Rows /\ interpret_message(Messages[i]) # Err) =>
                Cardinality({k \in DOMAIN events : events[k].offset = i - 1 /\ events[k].op \in Rows})
                    = IF InTransaction(Messages, i) => Committed(Messages, i) THEN 1 ELSE 0

(* A replayed transaction is whole and contiguous: its events stand        *)
(* together, in fixture order, numbered from zero to the total they carry  *)
(* (flush_transaction_events).                                             *)
TransactionsContiguous ==
    \A i \in DOMAIN events : events[i].transaction # <<>> =>
        LET t == events[i].transaction[1]
        IN  /\ t.event_index < t.total_events
            /\ t.event_index + 1 < t.total_events =>
                  (i + 1 \in DOMAIN events =>
                     /\ events[i + 1].transaction = <<[t EXCEPT !.event_index = @ + 1]>>
                     /\ events[i + 1].offset > events[i].offset)

(* Rows are only thrown away silently by a rollback the fixture records:   *)
(* a successful replay of a fixture without rollbacks yields one event per *)
(* message (ReplayResult::success).                                        *)
SuccessIsComplete ==
    (pass = "done" /\ success /\ \A i \in 1..Len(Messages) : ~is_transaction_abort(Messages[i])) =>
        Len(events) = Len(Messages)

(* The golden comparison sees every regression: the fixture agrees with    *)
(* the golden events exactly when both replays produced the same events    *)
(* (semantic_diff, and the events cleared between two replays).            *)
GoldenSeesEverything == pass = "done" => (Agrees <=> golden = events)

(* The golden of a fixture is its own: replaying the same fixture agrees.  *)
SameFixtureAgrees == (pass = "done" /\ session.golden = session.fixture) => Agrees

=============================================================================

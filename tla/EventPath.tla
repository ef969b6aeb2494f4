------------------------------- MODULE EventPath -------------------------------
(***************************************************************************)
(* One row change on its way to a consumer's table: the database writes,   *)
(* the PostgreSQL connector builds the event, the runtime runs it through  *)
(* the transforms under its error policy, a codec puts it on a topic, and  *)
(* a consumer decodes it and makes the write Event::row_write names.  A    *)
(* crash makes the runtime deliver again what it had not checkpointed.     *)
(***************************************************************************)
EXTENDS Transforms

CONSTANTS Paths,          \* the deployments: [source, identity, toast, stages, policy, codec, ...]
          Ids,            \* primary key values of the table
          Values,         \* column values
          MaxChanges,     \* row changes the database makes
          MaxRestarts     \* crashes of the runtime

VARIABLES path,         \* the deployment
          db,           \* the table: id -> row, for the rows there are
          log,          \* the change log: what pgoutput would decode
          connected,    \* changes before the position the connection started at
          next,         \* changes the runtime has polled
          checkpoint,   \* changes the durable checkpoint covers
          polled,       \* events transformed so far (each may draw a nonce)
          skipped,      \* changes dropped by TransformErrorPolicy::Skip
          halted,       \* a transform error is being returned by every poll
          topic,        \* the messages, oldest first
          read,         \* messages the consumer has read
          applied,      \* CloudEvents ids a deduplicating consumer has seen
          replica,      \* the consumer's table: message key -> row
          restarts
vars == <<path, db, log, connected, next, checkpoint, polled, skipped, halted, topic, read,
          applied, replica, restarts>>

Table == "users"
PrimaryKey == << <<"id">> >>

\* A row as the payload the connector builds, every value as text: a key, a wide
\* column that may be TOASTed and a narrow one.
Columns == {<<"id">>, <<"body">>, <<"x">>}

RowColumns(id, row) ==
    [c \in Columns |-> Number(CASE c = <<"id">> -> id
                               [] c = <<"body">> -> row.body
                               [] c = <<"x">> -> row.x)]

tuple_to_json(id, row, unchanged) == Object(Without(RowColumns(id, row), unchanged))

\* PostgreSQL numbers a transaction by its xid; the MySQL stream counts those it
\* has seen since it connected, and knows their size when they commit.
tx_meta(n) ==
    LET of == {m \in DOMAIN log : log[m].lsn = log[n].lsn}
    IN  IF path.source = "postgres"
        THEN [tx_id |-> log[n].lsn, total_events |-> None, event_index |-> log[n].index]
        ELSE [tx_id |-> Cardinality({log[m].lsn : m \in (connected + 1)..n}),
              total_events |-> Some(Cardinality(of)), event_index |-> log[n].index]

BaseEvent(op, lsn) ==
    [before |-> None, after |-> None, op |-> op, offset |-> lsn, ts |-> lsn,
     table |-> Table, primary_key |-> Some(PrimaryKey), snapshot |-> None,
     transaction |-> None, envelope_version |-> EVENT_ENVELOPE_VERSION,
     before_is_key_only |-> FALSE, unavailable_columns |-> <<>>,
     before_unavailable_columns |-> <<>>]

build_insert_event(n) ==
    [BaseEvent("insert", log[n].lsn) EXCEPT
        !.after = Some(tuple_to_json(log[n].id, log[n].new, {})),
        !.transaction = Some(tx_meta(n))]

\* The old tuple comes with REPLICA IDENTITY FULL and from a full row image; the key
\* tuple, every other column null, with DEFAULT and only when it changes or goes.
FullImages == path.source = "mysql" \/ path.identity = "full"

OldImage(change) ==
    IF FullImages THEN Some(tuple_to_json(change.old_id, change.old, {}))
    ELSE IF change.op = "delete" \/ change.old_id # change.id
    THEN Some(Object([c \in Columns |-> IF c = <<"id">> THEN Number(change.old_id) ELSE Null]))
    ELSE None

build_update_event(n) ==
    LET change == log[n]
        old == OldImage(change)
        unchanged == IF path.toast /\ change.new.body = change.old.body
                     THEN << <<"body">> >> ELSE <<>>
    IN  [BaseEvent("update", change.lsn) EXCEPT
            !.before = old,
            !.before_is_key_only = old # None /\ ~FullImages,
            !.after = Some(tuple_to_json(change.id, change.new, Names(unchanged))),
            !.unavailable_columns = unchanged,
            !.transaction = Some(tx_meta(n))]

build_delete_event(n) ==
    [BaseEvent("delete", log[n].lsn) EXCEPT
        !.before = OldImage(log[n]), !.before_is_key_only = ~FullImages,
        !.transaction = Some(tx_meta(n))]

build_truncate_events(n) ==
    [BaseEvent("truncate", log[n].lsn) EXCEPT
        !.primary_key = None, !.transaction = Some(tx_meta(n))]

Captured(n) ==
    CASE log[n].op = "insert" -> build_insert_event(n)
      [] log[n].op = "update" -> build_update_event(n)
      [] log[n].op = "delete" -> build_delete_event(n)
      [] log[n].op = "truncate" -> build_truncate_events(n)

\* The event a snapshot of the table would emit for a row.
ReadEvent(id, row, lsn) ==
    [BaseEvent("read", lsn) EXCEPT
        !.after = Some(tuple_to_json(id, row, {})),
        !.snapshot = Some([snapshot_id |-> lsn, chunk_index |-> 0, is_last_chunk |-> FALSE])]

-----------------------------------------------------------------------------

Init ==
    /\ path \in Paths
    /\ \A n \in DOMAIN path.stages : Stage_new(path.stages[n])
    /\ db = <<>> /\ log = <<>> /\ connected = 0 /\ next = 0 /\ checkpoint = 0
    /\ polled = 0 /\ skipped = {} /\ halted = FALSE
    /\ topic = <<>> /\ read = 0 /\ applied = {} /\ replica = <<>> /\ restarts = 0

Rows == [body : Values, x : Values]

\* Changes of one transaction share its commit LSN and differ in their index; one
\* may still join the newest transaction while none of it has been polled.
Unpolled == next < Len(log) /\ (next > 0 => log[next].lsn # log[Len(log)].lsn)

Logged(change) ==
    \E joins \in IF Unpolled THEN BOOLEAN ELSE {FALSE} :
        log' = Append(log, change @@
                 [lsn |-> IF log = <<>> THEN 1
                          ELSE log[Len(log)].lsn + (IF joins THEN 0 ELSE 1),
                  index |-> IF joins THEN log[Len(log)].index + 1 ELSE 0])

\* A row is born with one content and an UPDATE changes one column.
Fresh == [body |-> 0, x |-> 0]
OneColumn(row) == {[row EXCEPT ![c] = v] : c \in {"body", "x"}, v \in Values} \ {row}

WriteOptions ==
    [op : {"insert"}, id : Ids \ DOMAIN db, new : {Fresh}]
    \cup UNION {[op : {"update"}, id : {id} \cup (IF path.key_updates THEN Ids \ DOMAIN db ELSE {}),
                 old_id : {id}, old : {db[id]}, new : OneColumn(db[id])] : id \in DOMAIN db}
    \cup {[op |-> "delete", id |-> id, old_id |-> id, old |-> db[id]] : id \in DOMAIN db}
    \cup {[op |-> "truncate"] : x \in {y \in {1} : db # <<>>}}

Writes ==
    /\ Len(log) < MaxChanges
    /\ \E change \in WriteOptions :
         /\ change.op \in path.ops
         /\ Logged(change)
         /\ db' = CASE change.op = "insert" -> With(db, change.id, change.new)
                    [] change.op = "update" ->
                         With(Without(db, {change.old_id}), change.id, change.new)
                    [] change.op = "delete" -> Without(db, {change.id})
                    [] change.op = "truncate" -> <<>>
    /\ UNCHANGED <<path, connected, next, checkpoint, polled, skipped, halted, topic, read, applied,
                   replica, restarts>>

(***************************************************************************)
(* apply_transforms and the delivery of what it leaves.  Under Halt the    *)
(* batch goes through together and a failure is returned with the batch    *)
(* still pending; under Skip each event goes alone and a failing one is    *)
(* counted, handed to the dead-letter handler and stepped over.            *)
(***************************************************************************)
apply_transforms(events, nonce) ==
    IF path.stages = <<>> \/ events = <<>>
    THEN [ok |-> TRUE, events |-> events, failed |-> {}]
    ELSE IF path.policy = "Halt"
    THEN Pipeline_apply_batch(path.stages, events, nonce) @@ [failed |-> {}]
    ELSE LET out == [i \in DOMAIN events |->
                        Pipeline_apply(path.stages, events[i], nonce + i)]
         IN  [ok |-> TRUE, events |-> KeptEvents(out),
              failed |-> {i \in DOMAIN out : out[i].result = "err"}]

PollsEvents ==
    /\ next < Len(log)
    /\ \E upTo \in (next + 1)..Len(log) :
         LET events == [i \in 1..(upTo - next) |-> Captured(next + i)]
         IN  \E out \in {apply_transforms(events, polled)} :
               /\ polled' = polled + Len(events)
               /\ halted' = ~out.ok
               /\ IF out.ok
                  THEN /\ next' = upTo
                       /\ skipped' = skipped \cup {next + i : i \in out.failed}
                       /\ topic' = topic \o [i \in DOMAIN out.events |->
                                               Codec_encode(path.codec, out.events[i])]
                  ELSE UNCHANGED <<next, skipped, topic>>
    /\ UNCHANGED <<path, db, log, connected, checkpoint, read, applied, replica, restarts>>

Checkpoints ==
    /\ checkpoint < next
    /\ checkpoint' = next
    /\ UNCHANGED <<path, db, log, connected, next, polled, skipped, halted, topic, read, applied,
                   replica, restarts>>

\* The stream resumes at the checkpoint and delivers what follows it again.
Restarts ==
    /\ restarts < MaxRestarts /\ checkpoint < next
    /\ restarts' = restarts + 1
    /\ next' = checkpoint /\ connected' = checkpoint
    /\ halted' = FALSE
    /\ UNCHANGED <<path, db, log, checkpoint, polled, skipped, topic, read, applied, replica>>

-----------------------------------------------------------------------------

(***************************************************************************)
(* The consumer: a table per topic, written as Event::row_write says.      *)
(***************************************************************************)
RowWritten(rows, e) ==
    LET w == row_write(e)
        key == IF "key" \in DOMAIN w THEN <<e.table, w.key>> ELSE <<>>
    IN  CASE w.write = "Truncate" -> [k \in {j \in DOMAIN rows : j[1] # e.table} |-> rows[k]]
          [] w.write = "None" -> rows
          [] w.write = "Delete" -> Without(rows, {key})
          [] w.write = "Replace" -> With(rows, key, w.row)
          [] w.write = "Merge" ->
               IF key \in DOMAIN rows
               THEN With(rows, key, Object(w.row.fields @@ rows[key].fields)) ELSE rows

Consumes ==
    /\ read < Len(topic)
    /\ read' = read + 1
    /\ LET message == topic[read + 1]
           e == decode(path.codec, message.value)
           id == IF path.codec = "cloudevents" THEN {<<e.table, message.value.id>>} ELSE {}
       IN  IF path.dedups /\ id \subseteq applied
           THEN UNCHANGED <<applied, replica>>
           ELSE /\ applied' = IF path.dedups THEN applied \cup id ELSE applied
                /\ replica' = RowWritten(replica, e)
    /\ UNCHANGED <<path, db, log, connected, next, checkpoint, polled, skipped, halted, topic, restarts>>

Next == Writes \/ PollsEvents \/ Checkpoints \/ Restarts \/ Consumes

Spec == Init /\ [][Next]_vars

-----------------------------------------------------------------------------

\* The positions are ordered: committed, read, written; and so is the consumer's.
TypeOK ==
    /\ path \in Paths
    /\ DOMAIN db \subseteq Ids /\ \A id \in DOMAIN db : db[id] \in Rows
    /\ checkpoint \in 0..next /\ next \in 0..Len(log)
    /\ skipped \subseteq 1..Len(log)
    /\ halted \in BOOLEAN
    /\ read \in 0..Len(topic)
    /\ restarts \in 0..MaxRestarts

Settled == next = Len(log) /\ read = Len(topic) /\ ~halted /\ skipped = {}

\* A ciphertext compared by what it hides: its nonce is fresh on every delivery.
RECURSIVE Plain(_)
Plain(v) ==
    CASE v.kind = "cipher" -> [kind |-> "cipher", of |-> Plain(v.of)]
      [] v.kind \in {"object", "array"} ->
           [v EXCEPT !.fields = [k \in DOMAIN @ |-> Plain(@[k])]]
      [] OTHER -> v

\* What a consumer holds after reading a snapshot of the table through the same stages.
Snapshotted ==
    LET out == {Pipeline_apply(path.stages, ReadEvent(id, db[id], 0), 0) : id \in DOMAIN db}
    IN  {<<e.table, primary_key_values(e), Plain(e.after[1])>>
            : e \in {o.event : o \in {x \in out : x.result = "keep"}}}

\* Once the consumer has read everything, its rows are the rows a snapshot taken
\* now and passed through the same transforms would give it: partial images
\* merged, deletes and truncates applied, redeliveries absorbed (Event::row_write
\* over TransformPipeline::apply and the codecs).
ReplicaIsSnapshot ==
    Settled => {<<k[1], k[2], Plain(replica[k])>> : k \in DOMAIN replica} = Snapshotted

\* The message key identifies the row: two messages about one row carry one key,
\* two about different rows carry two (EventEncoder::encode_key over the
\* transformed event; redeliveries draw fresh nonces and must not matter).
KeysIdentifyRows ==
    \A i, j \in DOMAIN topic :
        LET a == decode(path.codec, topic[i].value)
            b == decode(path.codec, topic[j].value)
            RowOf(e) == LET c == log[CHOOSE n \in DOMAIN log :
                                       /\ log[n].lsn = e.offset
                                       /\ log[n].index = e.transaction[1].event_index]
                        IN  c.id
        IN  a.op # "truncate" /\ b.op # "truncate" =>
                (RowOf(a) = RowOf(b) <=> topic[i].key = topic[j].key /\ a.table = b.table)

\* Two deliveries have one CloudEvents (source, id) exactly when they are
\* deliveries of one change, and one fingerprint only then
\* (CloudEventsEncoder::encode, fingerprint_event_stable).
IdsIdentifyChanges ==
    \A i, j \in DOMAIN topic :
        LET a == decode(path.codec, topic[i].value)
            b == decode(path.codec, topic[j].value)
            same == a.offset = b.offset
                    /\ a.transaction[1].event_index = b.transaction[1].event_index
        IN  /\ same <=> (a.table = b.table /\ CloudEventsId(a) = CloudEventsId(b))
            /\ fingerprint_event_stable(a) = fingerprint_event_stable(b) => same
            /\ fingerprint_event_transient(a) = fingerprint_event_transient(b) => same

\* Whether a stage list accepts a change does not depend on the error policy: a
\* batch apply_batch lets through is, event for event, what apply makes of each.
PoliciesAgree ==
    LET events == [i \in 1..(Len(log) - next) |-> Captured(next + i)]
    IN  \A batch \in {Pipeline_apply_batch(path.stages, events, polled)} :
        \A alone \in {[i \in DOMAIN events |-> Pipeline_apply(path.stages, events[i], polled + i)]} :
        \A kept \in {KeptEvents(alone)} :
          batch.ok =>
              /\ \A o \in Names(alone) : o.result # "err"
              /\ Len(kept) = Len(batch.events)
              /\ \A i \in DOMAIN kept :
                    kept[i].table = batch.events[i].table
                    /\ primary_key_values(kept[i]) = primary_key_values(batch.events[i])

\* A message is as valid as the event the connector built: no stage makes the
\* envelope contradict itself (Event::validate on the transformed event, against
\* the captured one).
StaysValid ==
    \A i \in DOMAIN topic :
        LET e == decode(path.codec, topic[i].value)
            n == CHOOSE m \in DOMAIN log : /\ log[m].lsn = e.offset
                                           /\ log[m].index = e.transaction[1].event_index
        IN  validate(e) \subseteq validate(Captured(n))
=============================================================================

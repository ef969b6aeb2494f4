---------------------------- MODULE MCEventPath ----------------------------
(* What happens to a change between the source's log and the consumer: the *)
(* wire it arrives on, the position it advances, the table's schema, the   *)
(* transforms, the codec, the schema registry, and the replay of recorded  *)
(* fixtures.  One part per behaviour: `which` names it, its variables are  *)
(* x1, x2, ... in the order it declares them, the others stay Unused.      *)
EXTENDS Integers, Sequences, TLC

CONSTANTS  \* what each part explores
    Paths, Registries, Histories, Servers, Sessions, Reported

VARIABLES which, x1, x2, x3, x4, x5, x6, x7, x8, x9, x10, x11, x12, x13, x14

vars == <<which, x1, x2, x3, x4, x5, x6, x7, x8, x9, x10, x11, x12, x13, x14>>

EP == INSTANCE EventPath WITH Paths <- Paths, Ids <- {1, 2}, Values <- {0, 1}, MaxChanges <- 3,
    MaxRestarts <- 1, WORD <- 3,
    path <- x1, db <- x2, log <- x3, connected <- x4, next <- x5, checkpoint <- x6,
    polled <- x7, skipped <- x8, halted <- x9, topic <- x10, read <- x11,
    applied <- x12, replica <- x13, restarts <- x14

SR == INSTANCE SchemaRegistry WITH Setups <- Registries, MaxForeign <- 2, MaxFaults <- 1,
    setup <- x1, subjects <- x2, texts <- x3, purged <- x4, producers <- x5,
    topic <- x6, consumer <- x7, foreign <- x8, faults <- x9

(* The same module for its configuration builders, which Registries uses.  *)
RC == INSTANCE SchemaRegistry WITH Setups <- {}, MaxForeign <- 2, MaxFaults <- 1,
    setup <- x1, subjects <- x2, texts <- x3, purged <- x4, producers <- x5,
    topic <- x6, consumer <- x7, foreign <- x8, faults <- x9

SH == INSTANCE SchemaHistory WITH Setups <- Histories, MaxFaults <- 1, MaxCrashes <- 2,
    setup <- x1, db <- x2, ran <- x3, disk <- x4, lease <- x5, procs <- x6,
    checkpoint <- x7, announced <- x8, rejected <- x9, assigned <- x10, missed <- x11,
    faults <- x12, crashes <- x13

PW == INSTANCE PgWire WITH Servers <- Servers, READ_CHUNK <- 5, MAX_MESSAGE_LEN <- 30,
    MAX_SCRAM_ITERATIONS <- 4, MaxConnects <- 2,
    config <- x1, phase <- x2, inflight <- x3, turn <- x4, buffer <- x5, scram <- x6,
    applied_lsn <- x7, due <- x8, poll <- x9, returned <- x10, durable <- x11,
    slot <- x12, answered <- x13, connects <- x14

DR == INSTANCE DeterministicReplay WITH Sessions <- Sessions,
    session <- x1, pass <- x2, next <- x3, events <- x4, active <- x5, errors <- x6,
    golden <- x7

GS == INSTANCE GtidSets WITH Texts <- Reported, Sources <- {1, 2}, U64_MAX <- 5, MaxMerges <- 3,
    position <- x1, executed <- x2, merges <- x3

Unused == "unused"
UnusedAfter13 == x14 = Unused
UnusedAfter9 == x10 = Unused /\ x11 = Unused /\ x12 = Unused /\ x13 = Unused /\ UnusedAfter13
UnusedAfter7 == x8 = Unused /\ x9 = Unused /\ UnusedAfter9
UnusedAfter3 == x4 = Unused /\ x5 = Unused /\ x6 = Unused /\ x7 = Unused /\ UnusedAfter7
after3 == <<which, x4, x5, x6, x7, x8, x9, x10, x11, x12, x13, x14>>
after7 == <<which, x8, x9, x10, x11, x12, x13, x14>>
after9 == <<which, x10, x11, x12, x13, x14>>
after13 == <<which, x14>>

Init ==
    \/ which = "path" /\ EP!Init
    \/ which = "registry" /\ SR!Init /\ UnusedAfter9
    \/ which = "history" /\ SH!Init /\ UnusedAfter13
    \/ which = "wire" /\ PW!Init
    \/ which = "replay" /\ DR!Init /\ UnusedAfter7
    \/ which = "gtid" /\ GS!Init /\ UnusedAfter3

Next ==
    \/ which = "path" /\ EP!Next /\ UNCHANGED which
    \/ which = "registry" /\ SR!Next /\ UNCHANGED after9
    \/ which = "history" /\ SH!Next /\ UNCHANGED after13
    \/ which = "wire" /\ PW!Next /\ UNCHANGED which
    \/ which = "replay" /\ DR!Next /\ UNCHANGED after7
    \/ which = "gtid" /\ GS!Next /\ UNCHANGED after3

(* The wire's fairness, for the behaviours that are its: a runtime that    *)
(* keeps polling, with budgets that do not all expire while bytes wait.    *)
pwvars == PW!vars
Fairness ==
    /\ WF_pwvars(which = "wire" /\ PW!Polls)
    /\ SF_pwvars(which = "wire" /\ PW!recv_fills)

Spec == Init /\ [][Next]_vars /\ Fairness
-----------------------------------------------------------------------------
None == <<>>
Some(x) == <<x>>
Number(n) == [kind |-> "number", n |-> n]
Text(t) == [kind |-> "text", t |-> t]

(* Paths: the table's replica identity, the transform stages, the codec.   *)
Stage(name, config) == [name |-> name, config |-> config]
Projection(include, filters) ==
    Stage("filter_projection", [filters |-> filters, filter_mode |-> "All", pass_through_truncate |-> TRUE,
                                include |-> include, exclude |-> None])
Mapping(rules) == Stage("field_mapping", [rules |-> rules, strict |-> FALSE])
Unwrap == Stage("unwrap", [enabled |-> TRUE, max_depth |-> 3, flatten_arrays |-> TRUE])
Mask(rules) == Stage("mask_hash", [mask_rules |-> rules, default_rule |-> "Passthrough"])
Route ==
    Stage("route", [routing_table |-> <<>>, patterns |-> <<[matches |-> {"users"}, to |-> "people"]>>,
                    default_destination |-> None, update_table |-> TRUE, add_destination_field |-> TRUE])
Outbox == Stage("outbox", [enabled |-> TRUE, outbox_table |-> "users"])
Rename(from, to) == [rule |-> "rename", from |-> from, to |-> to]
Copy(from, to) == [rule |-> "copy", from |-> from, to |-> to]
Removal(column) == [rule |-> "remove", path |-> column]
Constant(to, value) == [rule |-> "set", to |-> to, from |-> value]
Condition(field, column, operator, value) ==
    [field |-> field, path |-> column, operator |-> operator, value |-> value]
PlainPath ==
    [source |-> "postgres", identity |-> "default", toast |-> TRUE, stages |-> <<>>, policy |-> "Halt",
     codec |-> "avro", dedups |-> FALSE, key_updates |-> FALSE, ops |-> {"insert", "truncate"}]
Masked ==
    [PlainPath EXCEPT !.codec = "protobuf", !.ops = {"insert", "update", "delete"},
                      !.stages = <<Mask(<<"x">> :> "Null")>>]
Nested ==
    [PlainPath EXCEPT !.identity = "full", !.codec = "cloudevents", !.dedups = TRUE, !.ops = {"insert", "update"},
                      !.stages = <<Mapping(<<Rename(<<"x">>, <<"doc", "x">>)>>), Unwrap,
                                   Mask((<<"id">> :> "UnsaltedSha256") @@ (<<"doc", "*">> :> "Encrypt"))>>]
Routed ==
    [PlainPath EXCEPT !.policy = "Skip", !.codec = "json", !.ops = {"insert", "update"},
                      !.stages = <<Mapping(<<Rename(<<"body">>, <<"text">>), Constant(<<"y">>, Number(0))>>),
                                   Projection(Some({<<"id">>, <<"text">>, <<"y">>}),
                                              {Condition("table", <<>>, "Eq", Text("users"))}),
                                   Route>>]
PathAll == {PlainPath, Masked, Nested, Routed}
KeyUpdates == {[Masked EXCEPT !.key_updates = TRUE]}
EncryptedKey == {[Masked EXCEPT !.stages = <<Mask(<<"id">> :> "Encrypt")>>]}
CopiedAway ==
    {[Masked EXCEPT !.stages = <<Mapping(<<Copy(<<"body">>, <<"text">>), Removal(<<"body">>)>>)>>]}
FilteredByValue ==
    {[Masked EXCEPT !.identity = "full",
                    !.stages = <<Projection(None, {Condition("after", <<"x">>, "GtEq", Number(1))})>>]}
MySqlIds == {[Masked EXCEPT !.source = "mysql", !.toast = FALSE]}
OutboxBatch ==
    {[PlainPath EXCEPT !.stages = <<Mapping(<<Constant(<<"aggregate_id">>, Text("a1")),
                                              Constant(<<"event_type">>, Text("order")),
                                              Copy(<<"body">>, <<"payload">>)>>), Outbox>>]}

(* Registries: what is registered, by whom, and what each producer may do. *)
Own(type, role) == [form |-> [type |-> type, role |-> role, gen |-> 1], layout |-> 1]
Evolved(type, role) == [Own(type, role) EXCEPT !.form.gen = 2]
OnlyReads(type) == [RC!SchemaRegistryConfig_new(type) EXCEPT !.auto_register = FALSE, !.preflights = TRUE]
Subject(role) == <<"TopicName", role>>
Fresh == [configs |-> <<>>, registered |-> <<>>, subjects |-> <<>>, keyed |-> <<TRUE, FALSE>>,
          foreign |-> {}, warms |-> FALSE]
Registered(type, layout) ==
    [Fresh EXCEPT !.registered = <<[Own(type, "value") EXCEPT !.layout = layout], Own(type, "key")>>,
                  !.subjects = (Subject("value") :> <<1>>) @@ (Subject("key") :> <<2>>),
                  !.foreign = {[does |-> "register", subject |-> Subject("value"), text |-> Evolved(type, "value")]}]
ByRecord(type) == [RC!SchemaRegistryConfig_new(type) EXCEPT !.strategy = "RecordName"]
RegistryAll ==
    {[Registered("avro", 2) EXCEPT !.configs = <<OnlyReads("avro")>>],
     [Registered("avro", 2) EXCEPT !.configs = <<RC!SchemaRegistryConfig_new("avro"), OnlyReads("avro")>>,
                                   !.foreign = {}],
     [Registered("json", 1) EXCEPT !.configs = <<OnlyReads("json")>>],
     [Registered("json", 2) EXCEPT !.configs = <<[OnlyReads("json") EXCEPT !.normalize_schemas = TRUE]>>],
     [Fresh EXCEPT !.configs = <<[OnlyReads("json") EXCEPT !.preflights = FALSE]>>],
     [Fresh EXCEPT !.configs = <<OnlyReads("json")>>],
     [Registered("json", 2) EXCEPT !.configs = <<OnlyReads("json")>>],
     [Registered("json", 1) EXCEPT !.configs = <<OnlyReads("json")>>,
                                   !.foreign = {[does |-> "delete", subject |-> Subject("value")]}],
     [Registered("protobuf", 1) EXCEPT !.configs = <<OnlyReads("protobuf")>>],
     [Registered("protobuf", 1) EXCEPT !.configs = <<OnlyReads("protobuf")>>,
                                       !.foreign = {[does |-> "purge", subject |-> Subject("key")]}],
     [Fresh EXCEPT !.configs = <<RC!as_schema_registry_config([type |-> "protobuf", strategy |-> "TopicRecordName",
                                                               auto_register |-> TRUE, preflights |-> TRUE]),
                                 [RC!SchemaRegistryConfig_new("protobuf") EXCEPT !.strategy = "TopicRecordName"]>>,
                   !.foreign = {[does |-> "delete", subject |-> <<"topic", "rustcdc", "value">>]}, !.warms = TRUE],
     [Fresh EXCEPT !.configs = <<ByRecord("avro"), ByRecord("json")>>],
     [Fresh EXCEPT !.configs = <<[RC!GlueAvroConfig_new EXCEPT !.auto_register = FALSE]>>],
     [Fresh EXCEPT !.configs = <<RC!GlueAvroConfig_new>>, !.warms = TRUE,
                   !.foreign = {[does |-> "purge", subject |-> <<"Name", "value">>],
                                [does |-> "register", subject |-> <<"Name", "key">>, text |-> Evolved("avro", "key")]}]}

(* Histories: scripts of DDL, and how the store is deployed.               *)
Bare(n) == [n |-> n, q |-> FALSE]
Quoted(n) == [n |-> n, q |-> TRUE]
Column(name) == [name |-> name, not_null |-> FALSE, pk |-> FALSE]
Statement(op) ==
    [op |-> op, schema |-> Bare("app"), table |-> Bare("users"), qualified |-> TRUE, guarded |-> FALSE,
     tight |-> FALSE, columns |-> <<>>, key |-> <<>>, clauses |-> <<>>]
CreateTable ==
    [Statement("create") EXCEPT !.columns = <<[Column(Bare("id")) EXCEPT !.pk = TRUE],
                                              [Column(Quoted("KEY")) EXCEPT !.not_null = TRUE]>>]
CreateKeyed ==
    [Statement("create") EXCEPT !.table = Quoted("orders"), !.columns = <<Column(Bare("id")), Column(Bare("line"))>>,
                                !.key = <<Bare("id"), Bare("line")>>]
Clause(do, column) == [do |-> do, column |-> column, keyword |-> TRUE, to |-> Bare("z")]
Alter(clauses) == [Statement("alter") EXCEPT !.clauses = clauses, !.guarded = TRUE]
Altered ==
    <<CreateTable,
      Alter(<<Clause("add", [Column(Bare("a")) EXCEPT !.not_null = TRUE]),
              [Clause("drop", Column(Quoted("KEY"))) EXCEPT !.keyword = FALSE]>>),
      Alter(<<Clause("rename", Column(Bare("id")))>>)>>
Recreated ==
    <<CreateKeyed, CreateTable, [Statement("drop") EXCEPT !.guarded = TRUE],
      [CreateTable EXCEPT !.columns = <<Column(Bare("b"))>>]>>
Extended ==
    <<CreateTable, Alter(<<Clause("add_if", Column(Bare("a"))), Clause("unique", Column(Bare("a")))>>),
      Alter(<<[Clause("add", Column(Bare("b"))) EXCEPT !.keyword = FALSE]>>)>>
KeyedLater ==
    <<[CreateTable EXCEPT !.columns = <<Column(Bare("b"))>>],
      Alter(<<Clause("add", [Column(Bare("a")) EXCEPT !.pk = TRUE])>>)>>
History == [script |-> Altered, backend |-> "file", retention |-> 10, overlap |-> FALSE, in_place |-> FALSE]
HistoryAll ==
    {History, [History EXCEPT !.script = Recreated], [History EXCEPT !.script = Extended],
     [History EXCEPT !.script = KeyedLater], [History EXCEPT !.overlap = TRUE],
     [History EXCEPT !.script = Recreated, !.overlap = TRUE],
     [History EXCEPT !.script = Extended, !.backend = "memory"]}
RetriedInPlace == {[History EXCEPT !.in_place = TRUE]}
ShortRetention == {[History EXCEPT !.retention = 1]}
GuardedCreate == {[History EXCEPT !.script = <<[CreateTable EXCEPT !.guarded = TRUE]>>]}
TightCreate == {[History EXCEPT !.script = <<[CreateTable EXCEPT !.tight = TRUE]>>]}
ParenthesisedAdd ==
    {[History EXCEPT !.script = <<CreateTable, Alter(<<Clause("add_list", Column(Bare("a")))>>)>>]}
UnqualifiedCreate == {[History EXCEPT !.script = <<[CreateTable EXCEPT !.qualified = FALSE]>>]}

(* Servers: the handshake, what the server sends, and how it is cut.       *)
Tag == [auth |-> 1, error |-> 2, notice |-> 3, parameter |-> 4, key |-> 5, ready |-> 6, copy_both |-> 7, row |-> 10]
TextOf(v) == [kind |-> "Text", text |-> <<v>>]
NullValue == [kind |-> "Null", text |-> <<>>]
Unchanged == [kind |-> "Unchanged", text |-> <<>>]
Bytes == [kind |-> "Hex", text |-> <<7, 8>>]
ColumnOf(c) == [name |-> <<c>>, flags |-> 1, type_oid |-> 23]
Relation ==
    [kind |-> "Relation", oid |-> 9, namespace |-> <<5>>, name |-> <<6, 6>>, columns |-> <<ColumnOf(1), ColumnOf(2)>>]
Begin == [kind |-> "Begin", final_lsn |-> 5, xid |-> 3]
Commit == [kind |-> "Commit", commit_lsn |-> 5, end_lsn |-> 5]
Insert == [kind |-> "Insert", oid |-> 9, new |-> <<TextOf(1), NullValue>>]
Update(key, old, new) == [kind |-> "Update", oid |-> 9, key |-> key, old |-> old, new |-> new]
Delete(key, old) == [kind |-> "Delete", oid |-> 9, key |-> key, old |-> old]
Truncate == [kind |-> "Truncate", oids |-> <<9, 10>>]
Wal(lsn) == [kind |-> "wal", lsn |-> lsn]
Keepalive(lsn, reply) == [kind |-> "keepalive", lsn |-> lsn, reply |-> reply]
Other(kind) == [kind |-> kind]
Greeting == <<<<Tag.parameter, <<0>>>>, <<Tag.key, <<0>>>>, <<Tag.ready, <<0>>>>>>
Auth(payload) == <<Tag.auth, payload>>
Failure == <<Tag.error, <<0>>>>
Trust == <<<<Auth(<<0>>)>> \o Greeting>>
Scram ==
    <<<<Auth(<<10, 2, 1>>)>>, <<Auth(<<11, 1, 1, 2>>)>>,
      <<<<Tag.notice, <<0>>>>, Auth(<<12, 1>>), Auth(<<0>>)>> \o Greeting>>
Server ==
    [transport |-> "plaintext", tls_reply |-> "S", auth |-> Scram,
     reply |-> <<<<Tag.row, <<0>>>>, <<Tag.copy_both, <<0>>>>>>, identifiers_valid |-> TRUE,
     log |-> <<Begin, Relation, Insert, Update(Some(<<TextOf(1), NullValue>>), None, <<TextOf(2), Unchanged>>)>>,
     copy |-> <<Wal(1), Keepalive(4, TRUE), Wal(2), Other("notice"), Wal(3), Keepalive(4, FALSE), Wal(4)>>,
     max_messages |-> 2]
TlsServer ==
    [Server EXCEPT !.transport = "tls", !.auth = <<<<Auth(<<3>>)>>, <<Auth(<<0>>)>> \o Greeting>>,
                   !.log = <<Update(None, Some(<<TextOf(1), Bytes>>), <<TextOf(1), Bytes>>),
                             Delete(Some(<<TextOf(1), NullValue>>), None), Commit>>,
                   !.copy = <<Wal(1), Other("unknown"), Wal(2), Keepalive(3, TRUE), Wal(3)>>]
EndingServer ==
    [Server EXCEPT !.auth = <<<<Auth(<<5, 1>>)>>, <<Auth(<<0>>)>> \o Greeting>>,
                   !.log = <<Truncate, [kind |-> "Unknown"], Update(None, None, <<Unchanged, Bytes>>),
                             Delete(None, Some(<<TextOf(1), NullValue>>))>>,
                   !.copy = <<Wal(1), Wal(2), Wal(3), Wal(4), Other("copy_done")>>, !.max_messages = 3]
RefusingAuth ==  \* in turn: no TLS, unsupported, no mechanism, too many rounds, out of order, an error
    {<<<<Auth(<<3>>)>>>>, <<<<Auth(<<7>>)>>>>, <<<<Auth(<<10, 2>>)>>>>,
     <<<<Auth(<<10, 1>>)>>, <<Auth(<<11, 1, 1, 5>>)>>>>, <<<<Auth(<<10, 1>>)>>, <<Auth(<<12, 1>>)>>>>, <<<<Failure>>>>}
ServerAll ==
    {Server, TlsServer, EndingServer, [Server EXCEPT !.transport = "tls", !.tls_reply = "N"],
     [Server EXCEPT !.auth = Trust, !.identifiers_valid = FALSE],
     [Server EXCEPT !.auth = Trust, !.reply = <<Failure>>]}
        \cup {[Server EXCEPT !.auth = auth] : auth \in RefusingAuth}

(* Sessions: every fixture of three messages, and edits of one.            *)
Payload ==
    [object |-> TRUE, fields |-> {"table", "before", "after", "statement", "query"}, table |-> "t", before |-> <<>>,
     after |-> <<[value |-> "v1"]>>, primary_key |-> "strings", before_is_key_only |-> FALSE,
     unavailable_columns |-> {}, captured |-> TRUE, lower_case |-> TRUE]
Message(kind) == [kind |-> kind, payload |-> Payload]
Alphabet ==
    [postgres |-> {Message("begin"), Message("Insert"), Message("commit"),
                   [Message("Update") EXCEPT !.payload.fields = @ \cup {"mistyped"}]},
     mysql |-> {Message("begin"), Message("Insert"), Message("xid"), Message("rollback"), Message("other")},
     sqlserver |-> {Message("begin"), [Message("rollback") EXCEPT !.payload.lower_case = FALSE], Message("Ddl"),
                    [Message("Delete") EXCEPT !.payload.before = Payload.after, !.payload.after = <<>>],
                    Message("commit")}]
Numbered(ms) == [i \in DOMAIN ms |-> [kind |-> ms[i].kind, payload |-> ms[i].payload, seq |-> i - 1]]
Session(source, golden, fixture, n) ==
    [source_type |-> source, golden |-> golden, fixture |-> fixture, message_count |-> n]
Replayed(source, n) ==
    {Session(source, Numbered(ms), Numbered(ms), n) : ms \in [1..n -> Alphabet[source]]}
Golden == Numbered(<<Message("begin"), Message("Insert"), Message("commit")>>)
Edits ==
    {[Golden EXCEPT ![2].kind = "Update"], [Golden EXCEPT ![2].payload.after = <<[value |-> "v2"]>>],
     [Golden EXCEPT ![2].payload.unavailable_columns = {"doc"}],
     [Golden EXCEPT ![2].payload.before_is_key_only = TRUE], [Golden EXCEPT ![2].payload.primary_key = "absent"],
     [Golden EXCEPT ![2].payload.table = "u"], [Golden EXCEPT ![2].payload.fields = {}],
     Numbered(<<Message("begin"), Message("commit")>>),
     Numbered(<<Message("Insert"), Message("begin"), Message("commit")>>)}
SessionAll ==
    UNION {Replayed(source, 4) : source \in {"postgres", "mysql", "sqlserver"}}
        \cup {Session("postgres", Golden, edit, 3) : edit \in Edits}

(* What a MySQL server reports as executed: empty, garbled, canonical, and *)
(* twice out of order.                                                     *)
Single(n) == [written |-> "single", bounds |-> <<n>>]
Range(m, n) == [written |-> "range", bounds |-> <<m, n>>]
Garbled == [written |-> "garbled", bounds |-> <<>>]
Entry(uuid, upper, intervals) == [uuid |-> uuid, upper |-> upper, intervals |-> intervals]
ReportedAll ==
    {<<>>, <<Entry(1, FALSE, <<Garbled, Single(2)>>)>>,
     <<Entry(1, TRUE, <<Range(1, 2), Single(4)>>), Entry(2, FALSE, <<Single(3)>>)>>,
     <<Entry(1, FALSE, <<Single(5), Range(1, 3)>>), Entry(1, TRUE, <<Range(2, 4)>>)>>,
     <<Entry(2, FALSE, <<Single(1)>>), Entry(1, FALSE, <<Single(2)>>)>>}
Nothing == {}
-----------------------------------------------------------------------------
(* Once the consumer has read everything, its rows are what a snapshot     *)
(* taken now and passed through the same transforms would give it: partial *)
(* images merged, deletes and truncates applied, redeliveries absorbed     *)
(* (Event::row_write over TransformPipeline::apply and the codecs).        *)
ReplicaIsSnapshot == which = "path" => EP!ReplicaIsSnapshot

(* An event keeps its identity through transforms and codecs: the message  *)
(* key names the row (encode_key), the CloudEvents id and the fingerprints *)
(* name the change (redeliveries included), no stage makes the envelope    *)
(* contradict itself, and apply_batch lets through what apply would.       *)
IdentityKept ==
    which = "path" => EP!KeysIdentifyRows /\ EP!IdsIdentifyChanges /\ EP!PoliciesAgree /\ EP!StaysValid

(* What was written is what is read: the wire hands on whole messages in   *)
(* order and reports only durable positions, however the socket cuts them; *)
(* a replayed fixture yields its committed transactions, whole; and a      *)
(* merged GTID set names exactly the transactions that were read.          *)
ReadAsWritten ==
    /\ which = "wire" => PW!RecordsIntact /\ PW!ReportsOnlyDurable
    /\ which = "replay" =>
          DR!ReplaysWhatCommitted /\ DR!TransactionsContiguous /\ DR!SuccessIsComplete
              /\ DR!GoldenSeesEverything /\ DR!SameFixtureAgrees
    /\ which = "gtid" => GS!PositionIsExecuted /\ GS!PositionIsCanonical

(* Every message can be read with a schema that fits it: the stamped id    *)
(* resolves to the form it was written in, whoever registers meanwhile; a  *)
(* DDL is in the durable history before it is announced and has one        *)
(* version, and the latest recorded schema is the table's.  Excepted are   *)
(* entries the next owner of the history file had not read when it took    *)
(* the lease (mod.rs:363-377) and key columns ALTER TABLE adds             *)
(* (parsing.rs:551).                                                       *)
SchemasFit ==
    /\ which = "registry" => SR!StampedIdsResolve
    /\ which = "history" => SH!RecordedBeforeAnnounced /\ SH!VersionsAreStable /\ SH!HistoryTracksTables

(* Two promises about records of others.  A Confluent producer with        *)
(* auto_register off adds no version to a subject, unless it was deleted   *)
(* after the producer looked it up or holds a reformatted copy of the      *)
(* text.  And a process that rewrites the schema history keeps every entry *)
(* but those it had not read when it took the lease.                       *)
RecordsOfOthersStay ==
    [][(which = "registry" => SR!OnlyLooksUp) /\ (which = "history" => SH!KeepsEntries)]_vars

(* While the wire is polled, everything the server sent arrives and every  *)
(* keepalive that asked for a reply gets one, unless the connection ends.  *)
EverythingArrives ==
    (which = "wire" /\ PW!Streaming) ~> (which = "wire" /\ PW!DeliveredOrClosed)
=============================================================================

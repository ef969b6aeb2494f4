----------------------------- MODULE MCServices -----------------------------
(* The parts of the runtime that stand around the delivery loop and meet   *)
(* it through narrow interfaces, one of them per behaviour: `which` names  *)
(* the part, its variables are x1, x2, ... as its instance says, and the   *)
(* others stay Unused.                                                     *)
EXTENDS Integers, Sequences, TLC

CONSTANTS  \* what each part explores
    Lifecycles, Embedders, SinkTrees, BulkReads, Resumptions, Pagings, FaultPlans, Audits,
    Feeds, Guests, Connections

VARIABLES
    which,
    x1, x2, x3, x4, x5, x6, x7, x8, x9, x10, x11, x12, x13, x14, x15, x16, x17, x18, x19

vars == <<which, x1, x2, x3, x4, x5, x6, x7, x8, x9, x10, x11, x12, x13, x14, x15, x16, x17, x18, x19>>

LC == INSTANCE RuntimeLifecycle WITH Configs <- Lifecycles, Writes <- 3, Injections <- 1,
    MaxErrors <- 1, MaxStarts <- 2, config <- x1, state <- x2, snapshot <- x3, stream <- x4,
    handoff_complete <- x5, written <- x6, injected_events <- x7, pending_source_events <- x8,
    pending_delivery <- x9, seen <- x10, durable <- x11, confirmation <- x12,
    registered_sink <- x13, call <- x14, returned <- x15, injected <- x16, errors <- x17,
    starts <- x18, dropped <- x19

CT == INSTANCE RuntimeControl WITH Embedders <- Embedders, Tables <- {"t1"},
    Callers <- {"c1", "c2"}, CONTROL_QUEUE_DEPTH <- 1, MaxElapses <- 1, MaxStarts <- 2,
    embedder <- x1, state <- x2, stream <- x3, driver <- x4, published <- x5, queue <- x6,
    caller <- x7, source_events <- x8, in_flight <- x9, polled <- x10, committed <- x11,
    pending_confirmation <- x12, at <- x13, seen <- x14, snapshot <- x15, elapses <- x16,
    starts <- x17

SK == INSTANCE Sinks WITH Setups <- SinkTrees, Events <- 4, Batch <- 3, BATCH_MAX_LINES <- 2,
    MaxFaults <- 2, setup <- x1, sinks <- x2, closed <- x3, acked <- x4, position <- x5,
    barrier <- x6, faults <- x7

BS == INSTANCE BulkSnapshot WITH Deployments <- BulkReads, Keys <- 1..3, MaxWrites <- 2,
    MaxCrashes <- 1, deployment <- x1, db <- x2, log <- x3, slot <- x4, state <- x5,
    snapshot <- x6, stream <- x7, queue <- x8, pending_delivery <- x9, durable <- x10,
    replica <- x11, crashes <- x12, overlooked <- x13

RO == INSTANCE ResumeOffsets WITH Deployments <- Resumptions, WORD <- 4, MaxStarts <- 4,
    config <- x1, current <- x2, run <- x3, snapshot <- x4, entries <- x5, acked <- x6,
    promised <- x7, due <- x8, resumed <- x9, starts <- x10

KP == INSTANCE KeysetPaging WITH Setups <- Pagings, I64_MAX <- 3, U64_MAX <- 4, MaxWrites <- 1,
    MaxStarts <- 2, setup <- x1, rows <- x2, pk <- x3, progress <- x4, saved <- x5,
    wanted <- x6, delivered <- x7, unwanted <- x8, repeated <- x9, thisRun <- x10,
    steady <- x11, writes <- x12, starts <- x13, blurred <- x14

FI == INSTANCE FaultInjection WITH Setups <- FaultPlans, MaxFailures <- 2, setup <- x1,
    scheduled <- x2, consumed <- x3, faults <- x4, stored <- x5, stream <- x6,
    cycle_events <- x7, collected <- x8, per_cycle <- x9, failures <- x10, verdicts <- x11

SA == INSTANCE SnapshotAudit WITH Setups <- Audits, MaxCrashes <- 2, MaxCopies <- 1,
    setup <- x1, worker <- x2, pending <- x3, progress <- x4, copy <- x5, stored <- x6,
    seen <- x7, arrived <- x8, recorded <- x9, verdict <- x10, copies <- x11, crashes <- x12

TM == INSTANCE Telemetry WITH Feeds <- Feeds, MAX_HISTOGRAM_SAMPLES <- 4, MaxResets <- 1,
    feed <- x1, next <- x2, pending <- x3, recording <- x4, total <- x5, counters <- x6,
    samples <- x7, lag_events <- x8, resetting <- x9, active <- x10, completed <- x11,
    resets <- x12, history <- x13

WT == INSTANCE WasmTransform WITH Setups <- Guests, CURRENT_ABI_VERSION <- 2, config <- x1,
    runtime <- x2, initialized <- x3, ticker <- x4, memory <- x5, call <- x6, results <- x7,
    kept <- x8, counters <- x9

CS == INSTANCE ConnectorSetup WITH Setups <- Connections, Callers <- {"c1", "c2"},
    MAX_CONN_TIMEOUT_SECS <- 1, MAX_STREAM_POLL_INTERVAL_MS <- 1, MAX_MAX_EVENTS_PER_POLL <- 1,
    MAX_PREREQ_POOL_SIZE <- 1, MaxConnects <- 2, MaxChanges <- 2, MaxWrites <- 2, setup <- x1,
    server <- x2, state <- x3, calls <- x4, returned <- x5, tasks <- x6, stream <- x7,
    durable <- x8, denied <- x9, connects <- x10, changes <- x11

(* The same module for its configuration builders, which Connections uses. *)
CC == INSTANCE ConnectorSetup WITH Setups <- {}, Callers <- {"c1", "c2"},
    MAX_CONN_TIMEOUT_SECS <- 1, MAX_STREAM_POLL_INTERVAL_MS <- 1, MAX_MAX_EVENTS_PER_POLL <- 1,
    MAX_PREREQ_POOL_SIZE <- 1, MaxConnects <- 2, MaxChanges <- 2, MaxWrites <- 2, setup <- x1,
    server <- x2, state <- x3, calls <- x4, returned <- x5, tasks <- x6, stream <- x7,
    durable <- x8, denied <- x9, connects <- x10, changes <- x11

Unused == "unused"
UnusedAfter17 == x18 = Unused /\ x19 = Unused
UnusedAfter14 == x15 = Unused /\ x16 = Unused /\ x17 = Unused /\ UnusedAfter17
UnusedAfter13 == x14 = Unused /\ UnusedAfter14
UnusedAfter12 == x13 = Unused /\ UnusedAfter13
UnusedAfter11 == x12 = Unused /\ UnusedAfter12
UnusedAfter10 == x11 = Unused /\ UnusedAfter11
UnusedAfter9 == x10 = Unused /\ UnusedAfter10
UnusedAfter7 == x8 = Unused /\ x9 = Unused /\ UnusedAfter9
after7 == <<which, x8, x9, x10, x11, x12, x13, x14, x15, x16, x17, x18, x19>>
after9 == <<which, x10, x11, x12, x13, x14, x15, x16, x17, x18, x19>>
after10 == <<which, x11, x12, x13, x14, x15, x16, x17, x18, x19>>
after11 == <<which, x12, x13, x14, x15, x16, x17, x18, x19>>
after12 == <<which, x13, x14, x15, x16, x17, x18, x19>>
after13 == <<which, x14, x15, x16, x17, x18, x19>>
after14 == <<which, x15, x16, x17, x18, x19>>
after17 == <<which, x18, x19>>

Init ==
    \/ which = "lifecycle" /\ LC!Init
    \/ which = "control" /\ CT!Init /\ UnusedAfter17
    \/ which = "sinks" /\ SK!Init /\ UnusedAfter7
    \/ which = "bulk" /\ BS!Init /\ UnusedAfter13
    \/ which = "offsets" /\ RO!Init /\ UnusedAfter10
    \/ which = "paging" /\ KP!Init /\ UnusedAfter14
    \/ which = "faults" /\ FI!Init /\ UnusedAfter11
    \/ which = "audit" /\ SA!Init /\ UnusedAfter12
    \/ which = "telemetry" /\ TM!Init /\ UnusedAfter13
    \/ which = "wasm" /\ WT!Init /\ UnusedAfter9
    \/ which = "setup" /\ CS!Init /\ UnusedAfter11

Next ==
    \/ which = "lifecycle" /\ LC!Next /\ UNCHANGED which
    \/ which = "control" /\ CT!Next /\ UNCHANGED after17
    \/ which = "sinks" /\ SK!Next /\ UNCHANGED after7
    \/ which = "bulk" /\ BS!Next /\ UNCHANGED after13
    \/ which = "offsets" /\ RO!Next /\ UNCHANGED after10
    \/ which = "paging" /\ KP!Next /\ UNCHANGED after14
    \/ which = "faults" /\ FI!Next /\ UNCHANGED after11
    \/ which = "audit" /\ SA!Next /\ UNCHANGED after12
    \/ which = "telemetry" /\ TM!Next /\ UNCHANGED after13
    \/ which = "wasm" /\ WT!Next /\ UNCHANGED after9
    \/ which = "setup" /\ CS!Next /\ UNCHANGED after11

(* The fairness each part states, for the behaviours that are its.         *)
lcvars == LC!vars
ctvars == CT!vars
skvars == SK!vars
bsvars == BS!vars
kpvars == KP!vars
wtvars == WT!vars
csvars == CS!vars
Fairness ==
    /\ WF_lcvars(which = "lifecycle" /\ LC!Proceed)
    /\ WF_ctvars(which = "control" /\ CT!Polls)
    /\ WF_ctvars(which = "control" /\ CT!commit_ack)
    /\ WF_ctvars(which = "control" /\ (CT!start \/ CT!Drops))
    /\ WF_skvars(which = "sinks" /\ SK!Delivers)
    /\ WF_bsvars(which = "bulk" /\ BS!Runs)
    /\ WF_kpvars(which = "paging" /\ KP!Proceed)
    /\ WF_wtvars(which = "wasm" /\ WT!Guest)
    /\ WF_csvars(which = "setup" /\ CS!Proceeds)

Spec == Init /\ [][Next]_vars /\ Fairness
-----------------------------------------------------------------------------
(* Lifecycles: what an embedder configures, which shutdown it calls and    *)
(* which step may fail.  The last two are refused by CdcRuntime::new.      *)
Options == [max_buffer_size |-> 2, connection_retry |-> <<1, 1, 2>>, idempotency |-> <<10, -1>>,
            transform_error_policy |-> "Halt", dead_letter_handler |-> FALSE, fail_fast |-> TRUE,
            sink_close_timeout |-> TRUE]
Lifecycle ==
    [source |-> "postgres", custom |-> FALSE, snapshot_tables |-> TRUE, incremental_snapshot |-> FALSE,
     options |-> Options, rows |-> 1, shutdown |-> {"stop", "force_stop"},
     failing |-> {"poll", "load", "sink", "commit", "close", "hang"}]
NoSnapshot(c) == [c EXCEPT !.snapshot_tables = FALSE, !.rows = 0]
LifecycleAll ==
    {Lifecycle, NoSnapshot(Lifecycle), [NoSnapshot(Lifecycle) EXCEPT !.source = "disabled"],
     [NoSnapshot(Lifecycle) EXCEPT !.options.fail_fast = FALSE, !.options.connection_retry = <<>>,
                                   !.options.idempotency = <<>>, !.options.sink_close_timeout = FALSE],
     [Lifecycle EXCEPT !.shutdown = {"drain_and_stop"}],
     [NoSnapshot(Lifecycle) EXCEPT !.shutdown = {"drain_and_stop"}, !.options.fail_fast = FALSE],
     [Lifecycle EXCEPT !.options.transform_error_policy = "Skip"],
     [Lifecycle EXCEPT !.options.max_buffer_size = 0]}

(* Embedders: whether confirmations succeed and connections last, and the  *)
(* control commands their callers send.                                    *)
Command(kind, tables) == [kind |-> kind, tables |-> tables]
Embedder == [source |-> "postgres", snapshot_tables |-> FALSE, confirms |-> TRUE, disconnects |-> TRUE,
             events |-> 1, commands |-> {}]
EmbedderAll ==
    {[Embedder EXCEPT !.confirms = FALSE, !.events = 2],
     [Embedder EXCEPT !.commands = {Command("RequestSnapshot", {"t1"}), Command("StopSnapshot", {})}],
     [Embedder EXCEPT !.disconnects = FALSE, !.events = 0, !.commands = {Command("Pause", {}), Command("Resume", {})}],
     [Embedder EXCEPT !.snapshot_tables = TRUE, !.confirms = FALSE],
     [Embedder EXCEPT !.source = "disabled", !.events = 2, !.commands = {Command("Pause", {})}]}

(* Sink trees: leaves and composites, and the calls that may fail.         *)
Leaf == [composite |-> "leaf", kinds |-> <<"jsonl">>, routes |-> <<>>, drop_unrouted |-> FALSE, rotate |-> 2,
         fsync_every |-> 1, failing |-> {"write", "sync", "rename"}, retries_flush |-> FALSE]
SinkTreeAll ==
    {Leaf, [Leaf EXCEPT !.composite = "fan_out", !.kinds = <<"jsonl", "stdout">>,
                        !.failing = {"write", "crash", "barrier"}],
     [Leaf EXCEPT !.composite = "router", !.kinds = <<"jsonl", "memory", "jsonl">>,
                  !.routes = <<{1, 3}, {2}>>, !.failing = {"timeout", "write"}],
     [Leaf EXCEPT !.composite = "router", !.routes = <<{1}>>, !.drop_unrouted = TRUE, !.failing = {"power"}],
     [Leaf EXCEPT !.failing = {"power", "torn"}], [Leaf EXCEPT !.rotate = 0, !.failing = {"power"}],
     [Leaf EXCEPT !.rotate = 0, !.fsync_every = 2, !.failing = {"power"}],
     [Leaf EXCEPT !.failing = {"write", "torn"}], [Leaf EXCEPT !.failing = {"open", "crash"}],
     [Leaf EXCEPT !.retries_flush = TRUE, !.failing = {"write"}]}

(* Bulk reads: two tables, writes that race the read, crashes.             *)
BulkPg == [connector |-> "postgres", rows |-> <<{1, 2}, {1}>>, max_buffer_size |-> 2, fits |-> 2,
           partial_acks |-> FALSE, writes |-> {"insert", "update", "delete"}, start_races |-> {"opened"},
           slot_exists |-> FALSE, peeks |-> FALSE, begin_rejected |-> FALSE, early_crashes |-> FALSE]
BulkPgUpdated == [BulkPg EXCEPT !.writes = {"update"}, !.start_races = {"opening", "opened"}, !.slot_exists = TRUE]
BulkMy == [BulkPgUpdated EXCEPT !.connector = "mysql", !.early_crashes = TRUE]
BulkSs == [BulkMy EXCEPT !.connector = "sqlserver"]
BulkSsLive == [BulkSs EXCEPT !.begin_rejected = TRUE, !.writes = {"insert", "update"}]
BulkAll ==
    {BulkPg, BulkPgUpdated, [BulkPgUpdated EXCEPT !.peeks = TRUE], BulkMy, BulkSs, BulkSsLive,
     [BulkPg EXCEPT !.partial_acks = TRUE, !.writes = {"update"}], [BulkMy EXCEPT !.fits = 1]}

(* Resumptions: the configuration of the first process and of the later    *)
(* ones, and the store between them.                                       *)
Source(s, log, watermark) ==
    [source |-> s, variant |-> s, name |-> "a", log |-> log, watermark |-> watermark, snapshot_tables |-> TRUE,
     opaque |-> FALSE, gtid_executed |-> 9, min_lsn |-> 0]
Resumption(s, log, watermark) ==
    [first |-> Source(s, log, watermark), later |-> Source(s, log, watermark), store |-> "file"]
Streaming(d) == [d EXCEPT !.first.snapshot_tables = FALSE, !.later.snapshot_tables = FALSE]
Pg == Resumption("postgres", <<<<5>>, <<6>>, <<13>>>>, <<4>>)
My == Resumption("mysql", <<<<1, 2, 3>>, <<1, 3, 4>>, <<2, 1, 5>>>>, <<1, 1, 2>>)
Maria == Resumption("mariadb", <<<<1, 2, 3>>, <<1, 3, 4>>, <<2, 1, 5>>>>, <<1, 1, 2>>)
Ss == Resumption("sqlserver", <<<<3>>, <<4, 1, 2>>, <<4, 1, 4>>>>, <<2>>)
Custom == Streaming(Resumption("custom", <<<<1>>, <<2>>, <<3>>>>, <<0>>))
InMemory(d) == [d EXCEPT !.store = "memory"]
Opaque(d) == [d EXCEPT !.first.opaque = TRUE, !.later.opaque = TRUE]
ResumptionAll ==
    {Pg, My, Maria, Ss, Custom, InMemory(Pg), InMemory(Maria), InMemory(Ss), InMemory(Opaque(Custom)),
     [Streaming(Pg) EXCEPT !.later.name = "b"],
     [My EXCEPT !.later.source = "mariadb", !.later.variant = "mariadb"],
     [My EXCEPT !.later = Pg.first], [Ss EXCEPT !.later.min_lsn = 4], [Pg EXCEPT !.later.snapshot_tables = FALSE],
     [Resumption("mysql", <<<<1, 2, 0>>, <<2, 1, 0>>>>, <<1, 1, 0>>)
         EXCEPT !.first.gtid_executed = 0, !.later.gtid_executed = 0]}
OpaqueOffsets == {Opaque(Custom)}
SnowflakeWindows == {Streaming(Resumption("snowflake", <<<<1>>, <<2>>>>, <<0>>))}

(* Pagings: key width, chunk limit, filter and what is written meanwhile.  *)
TwoColumns == (<<1, 1>> :> 0) @@ (<<1, 2>> :> 1) @@ (<<2, 1>> :> 1) @@ (<<2, 2>> :> 0) @@ (<<3, 1>> :> 1)
OneColumn == (<<1, 1>> :> 0) @@ (<<2, 1>> :> 1) @@ (<<3, 2>> :> 0)
PagePg == [backend |-> "postgres", reader |-> "incremental", pk |-> 2, limit |-> 2, rows |-> TwoColumns,
           identities |-> (1..3) \X (1..2), table_ref |-> "orders", configured |-> TRUE,
           conditions |-> ("orders" :> {0}), request |-> <<>>, writes |-> {"insert", "delete", "update"}]
PageMy == [PagePg EXCEPT !.backend = "mysql", !.conditions = ("public.orders" :> {1}), !.writes = {"update"}]
PageSs == [PagePg EXCEPT !.backend = "sqlserver", !.conditions = <<>>, !.limit = 1, !.writes = {"delete", "insert"}]
PageSsNarrow == [PageSs EXCEPT !.pk = 1, !.rows = OneColumn, !.conditions = ("orders" :> {0}), !.limit = 2]
Requested(p, conditions) ==
    [p EXCEPT !.configured = FALSE, !.request = <<[table_ref |-> "orders", conditions |-> conditions]>>]
Bulk(backend) == [PagePg EXCEPT !.backend = backend, !.reader = "bulk", !.conditions = <<>>, !.writes = {}, !.limit = 1]
Widened ==
    [Requested(PageSsNarrow, <<>>) EXCEPT !.conditions = <<>>, !.limit = 1, !.writes = {"widen"},
        !.rows = (<<1, 1>> :> 0) @@ (<<2, 1>> :> 1) @@ (<<3, 1>> :> 0)]
\* Keys beyond i64: of one column or of two; MySQL's are doubles or unsigned.
Keyed(p, width, keys) == [p EXCEPT !.identities = keys, !.rows = [k \in keys |-> 0], !.pk = width]
Wide == {<<2, 1>>, <<4, 1>>, <<5, 1>>}
Wider == {<<2, 1>>, <<6, 1>>, <<7, 1>>}
WideComposite == {4, 5} \X {1, 2}
BeyondI64 ==
    {Keyed(PageSs, 1, Wide), Keyed(PageSs, 1, Wider), Keyed(PageSs, 2, WideComposite),
     Keyed([PageSs EXCEPT !.limit = 3], 2, WideComposite), Keyed(Bulk("sqlserver"), 1, Wide),
     Keyed(Bulk("sqlserver"), 1, Wider),
     Keyed([PageMy EXCEPT !.conditions = <<>>], 1, {<<2, 1>>, <<4, 1>>, <<6, 1>>})}
PagingAll ==
    BeyondI64 \cup
    {PagePg, PageMy, PageSs, PageSsNarrow, Widened,
     Requested([PagePg EXCEPT !.conditions = ("public.orders" :> {1})], <<>>)}
        \cup {Bulk(backend) : backend \in {"postgres", "mysql", "sqlserver"}}
FilteredComposite == {[PageSs EXCEPT !.conditions = ("orders" :> {0}), !.limit = 2]}
FilterOfRequest == {Requested([PageMy EXCEPT !.conditions = <<>>], ("orders" :> {1}))}

(* Fault plans: what a test injects into a log of three rows.              *)
FaultLog == [i \in 1..3 |-> [table |-> "t", offset |-> i, op |-> "insert", row |-> i]]
Fault(kind, n, after) == [fault |-> kind, n |-> n, after_event_count |-> after]
FaultPlan(faults, checkpoint_faults, crash_points, batch) ==
    [log |-> FaultLog, batch |-> batch, faults |-> faults, checkpoint_faults |-> checkpoint_faults,
     crash_points |-> crash_points, max_duplicate_rate |-> 100]
FaultPlanAll ==
    {FaultPlan(f, c, p, b) :
        f \in {<<>>, <<Fault("drop", 1, 0)>>, <<Fault("drop", 3, 1)>>, <<Fault("duplicate", 1, 0)>>,
               <<Fault("duplicate", 2, 1)>>, <<Fault("drop", 1, 2), Fault("corrupt", 50, 0)>>,
               <<Fault("corrupt", 100, 2)>>, <<Fault("connection", 0, 1)>>,
               <<Fault("timeout", 0, 0), Fault("drop", 1, 0)>>},
        c \in {<<>>, <<"LoseCheckpoint">>, <<"FailSave">>, <<"FailLoad">>, <<"CorruptCheckpoint">>,
               <<"FailSave", "LoseCheckpoint">>},
        p \in {<<2>>, <<1, 2>>}, b \in 1..2}
DropAndDuplicate == {FaultPlan(<<Fault("drop", 1, 0), Fault("duplicate", 1, 0)>>, <<>>, <<2>>, 2)}

(* Audits: two tables, and when the embedder stores progress.              *)
Audit == [rows |-> ("a" :> 3) @@ ("b" :> 1), chunk_size |-> 2, max_size |-> 2, order |-> "copy_then_drain"]
AuditAll == {Audit, [Audit EXCEPT !.order = "at_once"]}

(* Feeds: six events, at most three in a batch.                            *)
Polled(id, op, latency_ms) == [id |-> id, op |-> op, latency_ms |-> latency_ms]
Feed == [max_buffer_size |-> 3, resets |-> "at_rest",
         events |-> <<Polled(1, "insert", 2), Polled(2, "update", 0), Polled(3, "delete", 1),
                      Polled(4, "insert", 2), Polled(5, "insert", 0), Polled(6, "update", 1)>>]
FeedAll == {Feed}
SharedTraceId == {[Feed EXCEPT !.events = <<Polled(1, "insert", 2), Polled(1, "update", 0)>>]}

(* Guests: what a WASM module exports and does; Rejected ones do not load. *)
Exports ==
    [alloc |-> <<"i32", "i32">>, dealloc |-> <<"i32,i32", "">>, transform |-> <<"i32,i32", "i64">>,
     rustcdc_abi_version |-> <<"", "i32">>, init |-> <<"i32,i32", "i32">>, shutdown |-> <<"", "i32">>]
Module == [imports |-> {"env.log"}, exports |-> Exports, memories |-> {"memory"}, start |-> "returns", abi |-> 2,
           initial_memory |-> 1, init_status |-> 0]
Guest == [path |-> "module.wasm", timeout_ms |-> 2, memory_limit |-> 3, pool_size |-> 2, fuel |-> FALSE,
          workers |-> 2, module |-> Module, events |-> 4, batch |-> FALSE,
          guest |-> {"map", "drop", "slow", "bad_pointer", "not_an_event"}]
Rejected ==
    {[Guest EXCEPT !.timeout_ms = 0], [Guest EXCEPT !.module.imports = {"env.open"}],
     [Guest EXCEPT !.module.abi = 1], [Guest EXCEPT !.module.start = "spins"],
     [Guest EXCEPT !.module.initial_memory = 9], [Guest EXCEPT !.module.init_status = 1],
     [Guest EXCEPT !.module.exports = [alloc |-> <<"i32", "i32">>]]}
GuestAll ==
    {[Guest EXCEPT !.batch = TRUE], [Guest EXCEPT !.guest = {"map", "trap", "spin", "oversize"}],
     [Guest EXCEPT !.guest = {"map", "slow", "spin"}, !.fuel = TRUE, !.workers = 1]} \cup Rejected

(* Connections: a configuration with everything filled in, and the server  *)
(* it meets.  The Refusals are rejected by validate or by the driver.      *)
Server == [epoch |-> 1, reachable |-> TRUE, credential |-> 1, encrypts |-> TRUE, trusted_by |-> {"native"},
           name_matches |-> TRUE, lacks |-> {}, undefined |-> {}, has_failover_slots |-> TRUE, written |-> 0,
           slot |-> -1, synced_slot |-> FALSE, truncate_table |-> FALSE, truncate_trigger |-> FALSE]
Filled(config) == [config EXCEPT !.blank = {}, !.password = CC!Inline(1)]
Connection(connector, config, changes) ==
    [connector |-> connector, config |-> config, server |-> Server, changes |-> changes, overlap |-> FALSE]
CnPg == Connection("postgres", Filled(CC!PostgresDefault), {"outage", "drop_slot"})
CnMy == Connection("mysql", [Filled(CC!MysqlDefault) EXCEPT !.server_id = 1], {"outage", "rotate"})
CnSs == Connection("sqlserver", Filled(CC!SqlServerDefault), {"outage", "repair"})
ByProvider(cn, secret) == [cn EXCEPT !.config = CC!with_aws_iam_auth(cn.config), !.config.password = secret,
                                     !.changes = {"outage", "rotate"}]
Slotted(cn) == [cn EXCEPT !.server.slot = 0]
Over(cn, transport, roots) == [cn EXCEPT !.config.transport = transport, !.server.trusted_by = {roots}, !.changes = {}]
Facing(cn, lacks, undefined) == [cn EXCEPT !.server.lacks = lacks, !.server.undefined = undefined, !.changes = {"repair"}]
ConnectionAll ==
    {Slotted(CnPg), Slotted([CnPg EXCEPT !.config.wal_transport = "SqlPeek"]),
     [CnPg EXCEPT !.config.create_replication_slot_if_missing = TRUE, !.config.failover_slot = TRUE,
                  !.changes = {"failover"}],
     [CnPg EXCEPT !.config.create_replication_slot_if_missing = TRUE, !.config.failover_slot = TRUE,
                  !.server.has_failover_slots = FALSE, !.changes = {}],
     CnMy, CnSs, [CnSs EXCEPT !.config.capture_truncate_events = TRUE],
     ByProvider(Slotted(CnPg), CC!from_provider), ByProvider(CnMy, CC!from_callback),
     ByProvider(CnMy, [CC!from_provider EXCEPT !.fails = TRUE]),
     Facing(Slotted(CnPg), {"publication"}, {}), Facing(CnMy, {"binlog_format", "row_image"}, {}),
     Facing([CnMy EXCEPT !.config.gtid_mode_enabled = TRUE], {"gtid_mode", "row_metadata"}, {"row_metadata"}),
     Facing(CnSs, {"cdc", "role"}, {}), Facing([CnSs EXCEPT !.config.cdc_enabled = FALSE], {"cdc"}, {})}
TransportAll ==
    {Over(cn, t, roots) : cn \in {Slotted(CnPg), CnMy, CnSs}, roots \in {"native", "bundle", "injected"},
        t \in {CC!tls, CC!tls_with_ca_cert_path("bundle"), CC!tls_with_ca_cert_path("no_certs"),
               CC!mtls("bundle"), CC!tls_insecure_skip_verify, CC!plaintext, CC!rustls_config,
               [CC!tls EXCEPT !.allow_invalid_hostnames = TRUE]}}
Refusals ==
    {[CnPg EXCEPT !.config.blank = {"publication_name"}], [CnPg EXCEPT !.config.password = CC!Inline(0)],
     [CnPg EXCEPT !.config = CC!with_plaintext_transport(CC!with_aws_iam_auth(CnPg.config))],
     [CnMy EXCEPT !.config.server_id = 0], [CnMy EXCEPT !.config.transport.client_key_path = TRUE],
     [CnMy EXCEPT !.config.transport = CC!tls_with_ca_cert_path("blank")],
     [CnMy EXCEPT !.server.encrypts = FALSE], [CnSs EXCEPT !.config.prereq_pool_size = 2],
     [CnSs EXCEPT !.config.transport = CC!tls_with_ca_cert_path("no_such_file")],
     [CnSs EXCEPT !.server.name_matches = FALSE], [CnSs EXCEPT !.config.conn_timeout_secs = 0]}
ConnectionsAll == ConnectionAll \cup TransportAll \cup Refusals
RacingConnects == {[Slotted(CnPg) EXCEPT !.overlap = TRUE, !.changes = {}]}
LostSlotRecreated == {[CnPg EXCEPT !.config.create_replication_slot_if_missing = TRUE]}
Nothing == {}
-----------------------------------------------------------------------------
(* What is lost around a shutdown, on the way out or over a restart is     *)
(* exactly this.  A running runtime's handles pass what neither the sink   *)
(* nor the embedder has only when an error was returned in place of the    *)
(* list that held it (runtime_lifecycle.rs:582, 706).  What a sink         *)
(* acknowledged can be read back unless a power loss took a file's         *)
(* directory entry or a torn line swallowed its neighbour, or the caller   *)
(* retried only the flush after a failed write.  A restarted process       *)
(* resumes where the last acknowledged save was, and a PostgreSQL stream   *)
(* does not start past the checkpoint in a slot made anew.                 *)
NothingLost ==
    /\ which = "lifecycle" => LC!NothingSteppedOver
    /\ which = "sinks" => SK!AckedIsReadable
    /\ which = "offsets" => RO!ResumesWhereAcked
    /\ which = "setup" => CS!GapIsAnnounced

(* A snapshot is complete but for named rows.  It and the stream after it  *)
(* leave no gap, except in rows written between the view and the position  *)
(* read with it that a start or SqlPeek steps over, rows a count left      *)
(* behind, and rows of a chunk acknowledged in part (BulkSnapshot.NoGap).  *)
(* Its pages skip no row that stays in the table, over writes and          *)
(* restarts, except keys a cursor bound as a double cannot tell apart.     *)
(* One the embedder runs itself delivers every row when progress is copied *)
(* before the buffer is drained.                                           *)
SnapshotsAreComplete ==
    /\ which = "bulk" => BS!NoGap
    /\ which = "paging" => KP!NoRowSkipped
    /\ which = "audit" => SA!NoRowLost

(* Order and grouping survive.  force_stop and drain_and_stop hand back a  *)
(* stream that can be applied; a sink's files keep delivery order; a       *)
(* barrier is begun by all children of a sink or by none; no page repeats  *)
(* a row whose key the cursor can tell from its own; a batch keeps what    *)
(* the guest mapped, in order.                                             *)
OrderKept ==
    /\ which = "lifecycle" => LC!HandedBackInOrder
    /\ which = "sinks" => SK!InOrder /\ SK!BarrierWhole
    /\ which = "paging" => KP!ReadOnce
    /\ which = "wasm" => WT!KeepsInOrder

(* What the system says about itself has the cause it should.  A stall of  *)
(* the loop or of the consumer raises the alert once a batch was           *)
(* delivered, and an alert has one of three causes; that it always means a *)
(* stall is not so (RuntimeControl.AlertHasCause).  A ready runtime can be *)
(* polled; a validator's verdict on a snapshot or on an injected fault,    *)
(* progress counters, telemetry totals, samples and spans, and the         *)
(* accounts of the WASM host agree with what happened.                     *)
ReportsAreTrue ==
    /\ which = "control" => CT!VerdictsAreTrue
    /\ which = "faults" => FI!LossIsSeen /\ FI!ReportedLossIsLoss
    /\ which = "audit" => SA!VerdictIsTrue /\ SA!ProgressIsBacked
    /\ which = "telemetry" =>
          TM!TotalsAgree /\ TM!SamplesAreRecent /\ TM!PercentilesHold /\ TM!SpansFollowDelivery
    /\ which = "wasm" => WT!CountersAddUp /\ WT!GuestMemoryAccounted

(* A configuration means what it says: no row a snapshot condition         *)
(* excludes is read, a runtime accepts the checkpoints it wrote, and a     *)
(* connection is protected, checked and authenticated as configured.       *)
ConfigurationHolds ==
    /\ which = "paging" => KP!FilterHolds
    /\ which = "offsets" => RO!OwnCheckpointsAccepted
    /\ which = "setup" =>
          CS!ConnectedAsConfigured /\ CS!PrerequisitesHold /\ CS!CredentialIsFresh /\ CS!TruncatesCaptured

(* Nothing begun is left hanging: no stop under way (but one that waits    *)
(* for a close with no timeout), no answer caller `c` waits for, every     *)
(* sink event acknowledged unless a rotation could not reopen its file,    *)
(* the replica equal to the database but for the rows above or the         *)
(* hand-over refused, the table read to its end or its cursor refused, no  *)
(* call inside a guest, no connect under way and no heartbeat left behind. *)
AtRest(c) ==
    /\ which = "lifecycle" => ~LC!StopBegan
    /\ which = "control" => ~CT!Waits(c)
    /\ which = "sinks" => SK!AllAcked
    /\ which = "bulk" => BS!Converged
    /\ which = "paging" => KP!Complete
    /\ which = "wasm" => WT!InFlight = 0
    /\ which = "setup" => CS!Settled

(* What has begun ends, again and again: a shutdown, a control command     *)
(* someone waits for, delivery to a sink that fails at times, a bulk read  *)
(* with its hand-over to the stream, a table's pages over restarts, a call *)
(* into a guest that spins, and a connect with the heartbeat it starts.    *)
ServicesSettle == \A c \in {"c1", "c2"} : []<>AtRest(c)
-----------------------------------------------------------------------------
(* What a document says and the code does not keep; no run checks these.   *)
(* A simulation that passed delivered every event (crash.rs).              *)
PassedMeansDelivered == which = "faults" => FI!PassedMeansDelivered
(* A table that lost a row is named as such (snapshot_validator.rs).       *)
LossIsNamed == which = "audit" => SA!LossIsNamed
(* The span of a committed event is not an error (otel.rs).                *)
CommittedIsNotAnError == which = "telemetry" => TM!CommittedIsNotAnError
(* The input is freed after every call (wasm/runtime.rs).                  *)
InputFreed == which = "wasm" => WT!InputFreed
(* Connecting a connected source succeeds (source/postgres.rs).            *)
ConnectIsIdempotent == which = "setup" => CS!ConnectIsIdempotent
(* Every transform out of time is counted (wasm/runtime.rs).               *)
TimeoutsCounted == which = "wasm" => WT!TimeoutsCounted
=============================================================================

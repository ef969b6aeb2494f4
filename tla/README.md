# rustcdc in TLA+

A verification development for the rustcdc change-data-capture runtime: TLA+
modules translated from the Rust source, TLC configurations that check them on
small instances, and TLAPS proofs of the safety properties of the commit barrier,
the batch cut and the file checkpoint store.
`PROJECT.json` is the index: which definition models which lines, what each run
checks, which mutation of the code each property catches, and the hazards of
the code with the properties that cover them. Source paths below are relative
to the crate (`src/src/` there).

## The system

rustcdc reads row changes from PostgreSQL, MySQL/MariaDB, SQL Server or
Snowflake, transforms and hands them to an embedder (or a sink) in batches, and
makes progress durable only when the embedder acknowledges them:

    source log -> wire, decoder -> connector stream -> transforms -> poll_event_batch
         ^                                                                 |
         |                                                       EventBatch + AckToken
    confirm_lsn  <-  checkpoint store  <-  commit barrier  <-  commit_ack  |
                                                                           v
                                           codecs, schema registry  <-  embedder or sink

`site/content/docs/architecture.md:52-61` states the invariants the runtime is
built around: no checkpoint without acknowledgement, no source confirmation past
the checkpoint, restart from the checkpoint, unacknowledged deliveries are
replayable, and a durable position never moves backwards.

## Modules

The core of the pipeline has modules and runs of its own:

| Module | Models | Used by |
|---|---|---|
| `BarrierRecords`, `CommitBarrier` | `checkpoint/barrier.rs` with a store that can fail | run `barrier`, the proofs |
| `CommitBarrierProofs`, `BatchingProofs`, `FileCheckpointProofs` | the proofs | |
| `BatchCut`, `Batching` | the source queue and how batches are cut from it (`runtime_poll.rs:634-799`) | run `batching`, `Delivery` |
| `AtLeastOnce` | what the delivery path promises | refinement in `Delivery` |
| `Delivery` | the delivery loop, the source's positions, the store's rules, the embedder | runs `delivery`, `delivery_split_transaction` |
| `OwnerLease`, `FileCheckpoint` | the file store on a leased directory | run `file_checkpoint` |
| `SnapshotSource`, `IncrementalSnapshot` | `incremental_snapshot/driver.rs` with its three backends, and what the runtime does with its batches | runs `incremental_snapshot`, `snapshot_held_back` |

The other parts meet the core through narrow interfaces and do not share state
with each other. Each is a module with its own environment; an MC module puts
several of them in one run as a disjoint sum: `which` names the part a behaviour
is about, the part's variables are bound to the run's, the rest stay unused.

| Module | Models |
|---|---|
| *in `MCConnectors`* | |
| `PostgresStream` | the replication slot, both transports, reassembly, idle advance, confirmation |
| `MySqlStream` | the binlog, its decoding into messages, positions and GTIDs, purges (MariaDB included) |
| `SqlServerStream` | change tables, LSN windows with a row cap, the parked cursor, retention, truncations, late tables, table filters |
| `SnowflakeStream` | the pinned snapshot, windows of net changes, retention, the consumer's sink |
| *in `MCServices`* | |
| `RuntimeLifecycle` | start, run_to_completion, stop, force_stop, drain_and_stop, reconnects |
| `RuntimeControl` | control handles, the bounded command queue, admin snapshot and health |
| `Sinks` | JSONL, stdout and memory sinks, fan-out, table router, the sink loop's acknowledgement |
| `BulkSnapshot` | the blocking snapshot, its handoff to the stream and its resumption |
| `ResumeOffsets` | a position on its way into a checkpoint and back, for every source and store |
| `KeysetPaging` | the chunk SELECTs, cursors, row filters, widened keys |
| `FaultInjection` | the fault-injecting source and checkpoint, the crash simulation, its validators |
| `SnapshotAudit` | the progress tracker shared by threads, persisted progress, the validator |
| `Telemetry` | metric counters, the sample buffer and spans, recorded while others read |
| `ConnectorSetup` | transport, secrets and builders; connect with its prerequisites, slot provisioning, heartbeat, close and Drop, on a server that restarts and fails over |
| `WasmTransform` | module checks, the instance pool, calls with time and memory limits, counters |
| *in `MCEventPath`* | |
| `PgWire` | the replication connection from handshake to status updates; the pgoutput decoder |
| `EventModel`, `Transforms`, `EventPath` | the envelope and the codecs; the transforms; a row from the database through both to a consumer's replica |
| `DdlCapture`, `SchemaHistory` | the DDL parser on tokens; the versioned history, durable under its own lease |
| `SchemaRegistry` | the registry encoders and decoders, call by call, beside other teams |
| `DeterministicReplay` | fixture validation, replay and golden comparison |
| `GtidSets` | the lenient and the strict reading of a GTID set |

### Correspondence

An await, a file-system call, a registry call or a lock release is a step
boundary wherever another actor can run or fail there; what lies between two of
them is one action. Configuration is a record chosen in the initial state, so
one run covers several deployments. History variables exist only where a
property compares a state with an earlier one, or where a step of the code costs
something for good: the variable then records what that step cost, and the
property says that nothing else is missing (see *Exceptions* below).

**CommitBarrier.** One variable per field of `CommitBarrier`, plus the store's
record and the frame of the suspended call. `StartCommit` runs up to the save;
`SaveSucceeds`, `SaveFails`, `SaveRefused` or `CallDropped` end it. A failed save
may have reached the disk.

**BatchCut, Batching.** An event is its transaction, its size and whether it is
known to be the last of its transaction. The policies, the limits and the order
of the tests are the code's.

**Delivery.** Every way through `poll_event_batch` is one action, because its
effects all follow its last await; `commit_ack` has three awaits and so four
steps. Positions are numbers; what a position means to a stream that resumes
there is the connector's (`FilterLsn`, `resume_offset_for`, `StreamStart`).

**OwnerLease, FileCheckpoint.** The page cache is `visible`, what certainly
survives a power loss is `durable`; a power loss keeps or forgets each rename the
directory fsync has not covered, and tears content that was not fsynced. Offsets
are abstracted to the coordinate the rewind guard compares, the identity of the
stream, and whether a GTID is present. A takeover is a rename, a re-read and a
verification, and a release a check and a removal, so they interleave; `displaced`
records that a rename or removal hit a lock file another handle had by then.

**SnapshotSource, IncrementalSnapshot.** The database commits to its log and to
what a SELECT sees in two steps, in the order of each engine. `drive()` is cut at
its awaits, so transactions fall anywhere in a chunk's bracket. An acknowledged
prefix is applied downstream as `row_write` prescribes and its last persistable
offset becomes durable; a restart and a reconnect rebuild the driver from it.

**PostgresStream, MySqlStream, SqlServerStream, SnowflakeStream.** Each has the
server (log, slot, retention), the handle's fields, the events handed over and
not acknowledged, and the durable position. `next_events` is one action per
outcome; a crash or lost connection drops the handle and resumes from the durable
position. PostgreSQL remembers transaction ends in a bounded map (of size one
here), and its peek window halves when the server cannot decode it in time.
SQL Server reads each change table separately and merges by LSN, and only the
tables its include and exclude lists admit: `SsOnlySelected`, a conjunct of
`SsOneOrder`, says that rows, truncations and schema events of other tables never
come out (`sqlserver.rs:668`), while an excluded table does not hold the window up.
Instances are enabled, disabled and altered while the stream runs, queries fail
half way on a handle that is polled again or reopened, and the position is saved by
the runtime or by `save_position`.
A confirmation reaches the slot in the way of the transport
(`PeekConfirmLsn`, `StreamConfirmLsn`). Snowflake's
changes are net per window, so the property is about the sink's state.

**RuntimeLifecycle.** At most one method of the runtime is suspended; `call` is
its frame. Sources, checkpoint loads, sinks, commits and closes fail between any
two awaits. A source fails with any `Error`; `kind` and `is_recoverable`
(`core/error.rs`) decide whether the reconnect loop tries again.

**RuntimeControl.** Time is what `derive_health` can tell of it: an instant is
never, fresh or stale. The instants the code keeps (`at`) are apart from what really
happened (`seen`), so that a verdict can be compared with it. What a scrape exports is derived from the admin snapshot:
counters and gauges, one series per verdict, ages only where there is an instant.

**Sinks.** A file is a sequence of lines, one of which may be torn; the writer's
buffer, the page cache and the disk are kept apart, so a crash and a power loss
differ; nothing syncs the directory, so a power loss also takes names.

**BulkSnapshot, KeysetPaging.** A row is its last writer, so a replica that
misses a write is told apart from one that saw it twice. A chunk's WHERE clause
is a sequence of alternatives of factors, with the precedence SQL gives them. How
the view is opened is each connector's: SQL Server takes its watermark first and
falls back to live reads where the server refuses a snapshot transaction
(`begin_rejected`).

**ResumeOffsets.** Encodings are records of the fields they keep; u32 fields wrap
(`WORD`). A restart may find another configuration than the one that saved.

**ConnectorSetup.** A session belongs to the epoch of the server in
which it was opened. `connect` is cut at its queries, so the server restarts, fails
over, rotates credentials or loses its slot between any two of them, and two callers
share one connection state. A credential is a version number; a deferred secret is
asked for the one of the moment.

**PgWire.** Frames are sequences of units and a read returns any part
of what is in flight. The decoder is translated reader by reader; a field that
ends early is a sequence that ends early.

**EventModel, Transforms, EventPath.** A name is the tuple of its segments; JSON
values are tagged records. Each transform maps an event to kept, dropped or
failed; `EventPath` composes connector, pipeline, error policy, codec,
redelivery and a consumer that applies `row_write`.

**DdlCapture, SchemaHistory.** Statements are token sequences with the quoting
and whitespace the parser looks at. `Meaning` is what the database does for a
statement, and the reference the parser is compared with.

**SchemaRegistry.** A schema text is its canonical form and its layout. Every
registry call is a step, and other teams register, delete and purge in between.

**WasmTransform, Telemetry, SnapshotAudit, FaultInjection, DeterministicReplay,
GtidSets.** Guest memory is counted in allocations; a counter that is an atomic
beside a locked table is two steps; the tracker's two locks are two steps; a
GTID set is a text with entries, intervals and case.

## Runs

| Run | Distinct states | Shows |
|---|---|---|
| `barrier` | 15,737 | The durable position stays inside what was accepted, marks form a prefix, a failed call restores the barrier, and what is pending is drained unless the barrier is spent, which no failure brings about. |
| `batching` | 10,875 | Queue conservation, budgets, transaction boundaries, and that everything is delivered. |
| `delivery` | 139,999 | Eight deployments implement at-least-once; the slot stays behind the checkpoint; barrier and pending delivery describe the same events; the checkpoint never moves back; clean restarts deliver nothing twice; every event is eventually acknowledged. |
| `file_checkpoint` | 688,251 | Until a lock file is displaced: one writer at a time, acknowledged saves survive, no record moves back. |
| `incremental_snapshot` | 299,775 | The consumer ends with the source's rows; the live feed has no gap and keeps its order; a checkpoint counts no undelivered row; every requested table is read to its end. |
| `connectors` | 32,286 | No stream steps over a committed change but by the steps named; transactions and updates stay whole; MySQL's durable positions can be decoded from; SQL Server delivers nothing ahead of an unread change of another table; the Snowflake sink holds the table versions at the stream's position; every stream settles. |
| `services` | 348,817 | What shutdowns, sinks and restarts lose is exactly what the properties name; order is kept; snapshots are complete; an alert has a cause and a stall is seen, telemetry, validators and counters tell the truth; filters, checkpoints and connector configurations mean what they say; a slot made anew never starts a stream past the checkpoint; what has begun ends. |
| `event_path` | 266,190 | A redelivered, transformed, encoded feed builds the replica a snapshot would; events keep their identity; the wire, replays and GTID merges read what was written; schemas are recorded before they are announced and fit the messages; other producers' records are left alone. |
| `delivery_split_transaction` | | violation, see below |
| `snapshot_held_back` | | violation, see below |
| `sqlserver_filtered_key` | | violation, see below |
| `schema_history_retried` | | violation, see below |

In the sum runs a property is a conjunction over the parts it applies to; the
comment above it says what it means for each.

**Bounds.** Barrier: capacity 3, batches of 1 to 3 events, 4 events, 2 faults:
enough for a partial acknowledgement followed by a failed one and a retry, across
a restart. Batching: every log of four events with two sizes, and of six events
under `PreserveTransactions`, a buffer of three and up to six events handed over
at once, so that a transaction can fit, straddle or exceed a batch and more than
one batch can be queued. Delivery: four to six events, transactions of one or two
rows, three faults and one clean restart: every pair of faults happens between any
two steps of a commit. Store: two event counts, up to three process starts, one
failing call, in six installations; three processes are a dead owner, a winner and
a slow contender, who displaces its lock file. Incremental snapshot: tables of one
or two rows, chunks of one or two, up to three transactions, one fault, two
control requests, in ten deployments; three changes of one row put one before, one
inside and one behind a bracket. Connectors: logs of four transactions (six
commits for Snowflake) in 27 deployments with one crash and one failed query; row
cap two and peek window four, so windows are cut inside a transaction and inside
an update pair. Lifecycle: three source changes and one injected event, one error,
two starts. Sinks: four events in batches of three, lines written in twos, two
faults: a batch spans a rotation. Bulk: two tables, two writes, one crash, in
eight deployments. Control: two callers, a queue of one, two starts, one passing
of the threshold. Setup: two callers, two connects, two server-side changes: a
slot is lost after a checkpoint and the next connect finds it missing. Offsets:
four starts, u32 of two bits. Paging: two key columns, one write, two starts; i64
ends at 3 and u64 at 4, so keys lie on both sides. Event path: two rows, three
changes, one crash: an insert, an update and a delete of one key with the middle
one redelivered. History: scripts of three or four statements, one failed write,
two crashes, a handover that overlaps or not. Wire: two connections, reads of up
to five units, so every frame is cut in several ways.

**Fairness.** Everywhere: the executor resumes a suspended call (weak fairness of
the steps after an await), and faults are finite (the bounds). `Delivery` further
assumes an embedder that starts the runtime, keeps polling and acknowledges what
it gets, all of it again and again (`AckWhole`: a prefix smaller than one whose
save reached the disk is refused for ever); stop and start may alternate, so
polling and acknowledging are only possible again and again, and the fairness on
them is strong. `CommitBarrier` asks the same of a caller that retries
`accept_and_commit` with every batch size; `commit` alone is not fair, because
`commit_prefix` never calls it. The connectors assume a poll loop that keeps
starting and reading the stream and a consumer that acknowledges; reads of the
PostgreSQL socket and of Snowflake windows can be disabled again by a lost
connection or a failed query, hence strong fairness there. The server is only
assumed to finish what it has begun writing. `PgWire` assumes that not every poll
budget ends before a byte arrives (strong fairness of `recv_fills`). In
`MCServices` the lifecycle's own steps, the poll loop that serves control
commands, the sink loop, the snapshot readers and the epoch ticker that interrupts
a guest are weakly fair; callers, operators and shutdowns are not. No fairness is
assumed of crashes, restarts from outside, other producers or other processes.

**Deadlock** is checked in `incremental_snapshot` and not where a behaviour may
end: all events delivered, all starts used up.

## What is proved

`CommitBarrierProofs` proves for every capacity, every bound and every set of
positive batch sizes:

- `TypeCorrect`: the barrier is well typed and never exceeds its capacity;
- `NoCheckpointBeforeAcceptance`: the durable position covers accepted events only;
- `MarksFormAPrefix`: acceptance marks form a prefix of the queue;
- `FailedCallsLeaveNoTrace`: a failed or refused `accept_and_commit` restores marks,
  barrier state and count as the call found them (the action property
  `FailedCallRestores`).

None of these is inductive alone. The inductive invariant `IInv` adds that the
queue holds consecutive events in order, that everything before the queue and
every marked record was acknowledged (`QueueOK`), that a suspended call's marks
are the last ones of the prefix (`CallInv`, which is why the undo from the back
removes exactly them), and that the record being saved lies in the marked prefix.
The lemmas say what marking, undoing, pushing and draining do to such a queue;
`StepIInv` has one step per action. The last theorem adds `RestoreInv`: undoing what
the frame of the suspended call describes gives the state before it. It is
established where the call suspends, by the lemma that undoing a mark on a prefix
reverts it (`UndoRevertsMark`), and no step can disturb it, since nothing else runs
before the save ends. The assumption `0 \notin EventCounts` is what
the runtime guarantees (`commit_prefix` returns early for a count of zero); the
barrier called directly with zero underflows its remaining counter
(`barrier.rs:213`).

`BatchingProofs` proves for every source log, all `RuntimeOptions` (a positive
`max_buffer_size`, as `validate` demands) and every size of hand-over:

- `CutsConserveTheQueue`: the batches delivered, followed by the queue, are exactly
  what the source handed over (`QueueConserved`);
- `CutsStayWithinBudget`: no batch exceeds `max_buffer_size`, and none of several
  events exceeds `max_event_bytes` (`BatchesWithinBudget`).

The invariant `BInv` is the two together with the types of the queue and of the
batches. Byte count and concatenation are recursive functions; `NatSetInduction`,
induction over a set of naturals, gives their recursion equations, and from these
follow that the count of a prefix does not depend on the rest and that a further
batch goes to the end. `CutLenBounds` and `TrimLenBounds` say that cutting and
trimming return a prefix within the limits.

`FileCheckpointProofs` proves for every installation - any processes, hosts,
handles, restarts, takeovers, crashes, power losses, failing calls and records:

- `LeaseAdmitsOneWriter`: until a lock file is displaced, a save is only in progress
  for the single handle whose process the lock file names (`OneWriter`);
- `AcknowledgedSavesSurvive`: where, moreover, callers await their saves, every
  state a power loss can leave is readable and covers what was acknowledged
  (`AcknowledgedSaveSurvives`);
- `SavesMoveForward`: and no save replaces a record by an older one
  (`RecordNeverMovesBack`).

The argument goes from the lock file up. `LeaseInv` says which handle a content of
the lock file admits; `HolderInv` puts every save behind a held lease; with awaited
saves `WorkerInv` follows (a single save, whose validation still describes the file
it replaces), and `FileInv` relates what is visible, durable and acknowledged. `SInv`
guards each layer by its condition, since `displaced` never becomes false again. The
assumptions (`StoreConstants`) are that handles belong to processes and processes to
hosts.

Only model-checked: liveness and fairness (out of the prover's reach), where batches
end (`BatchesEndOnBoundary`), the refinement of `AtLeastOnce` and the rest of
`Delivery`, the incremental snapshot, the connectors, and the parts in `MCServices`
and `MCEventPath`.

## Where code and documents disagree

Four disagreements have a violation run and a finding in `PROJECT.json`:

- `delivery_split_transaction`: under the default `Split`, a batch that ends
  inside a PostgreSQL or MySQL transaction is checkpointed at the transaction's
  end; a crash then loses the rest.
- `snapshot_held_back`: of the events held back behind a chunk one batch is handed
  out, then the next chunk is read and newer events overtake the rest
  (`driver.rs:1231-1233`).
- `sqlserver_filtered_key`: the filter of an incremental snapshot binds to the last
  alternative of the keyset seek only, so a composite-key table is read unfiltered
  from the second chunk on.
- `schema_history_retried`: a DDL whose persist failed stays in memory; redelivered
  to the same instance it counts as a replay and is announced unrecorded.

### Exceptions

Where a step of the code loses, delays or overwrites something, the deployment in
which it happens is part of the passing run and the property states the exception;
that it is exact means that nothing else is lost there.

- `BatchesEndOnBoundary`: with more queued than fits a batch, an event of a later
  transaction anywhere in the queue is taken as proof that the cut one ended
  (`runtime_poll.rs:754`). `runtime.rs:176-193` knows one exception, a transaction
  larger than a batch; this is a second.
- `PendingIsEventuallyDrained`: an acknowledgement without a commit, or a future
  dropped in the save, leaves marks that nobody takes back (`barrier.rs:190`, `:254`).
- `ImplementsAtLeastOnce`: a poll that fails after `next_events` drops what was handed
  over, and polling the same runtime again moves past it (`runtime_poll.rs:436`); a
  restart before that captures the events again (`dropped`).
- `EveryEventIsAcknowledged`: polls that fail past the hand-over, reconnects that
  give up, and SQL Server, whose stream rereads its last transaction at each start.
- `OneWriter`, `AcknowledgedSaveSurvives`, `RecordNeverMovesBack`: a slow contender
  for a dead owner's lease renames its token over the winner's verified one, or a
  release removes it (`owner_lease.rs:346`). Two processes then write, although
  `checkpoint/mod.rs:480` says "a second writable instance against the same directory
  is **refused**"; the fence before each write narrows the window and does not close
  it. The late rename of a dropped save replaces a newer record.
- `StreamLosesNothing`, SQL Server (`SsNothingLost`): a start below the minimum of one
  capture instance and not below the least (`stream_start.rs:20-29`), a failed fetch
  of truncations after a cut page on a handle that is polled again
  (`sqlserver.rs:939`), and a start one past the harvested maximum, to which only
  `save_position` leads (`stream_start.rs:66`).
- `TransactionsStayWhole`, SQL Server (`SsUpdatesWhole`): an update loses its before
  image when a cursor between its two rows is read from again (`stream_window.rs:46`).
- `SfReplica`: a stream reopened after a failed query with neither checkpoint nor pin
  starts from now (`snowflake.rs:439-442`). A window out of retention is refused at
  every further poll for ever, although `snowflake.rs:298-305` says "It is also
  terminal" (`SourceError` is transient, `error.rs:420`).
- `NothingLost`, shutdown (`NothingSteppedOver`): an error of a poll, a commit or a
  close takes the place of the events `drain_and_stop` has acknowledged, or
  `force_stop` discarded (`runtime_lifecycle.rs:706`, `:636-651`).
- `NothingLost` and `OrderKept`, sinks (`AckedIsReadable`, `InOrder`): a line written
  directly behind a fragment (`file_jsonl.rs:237`), a name or an unsynced line that a
  power loss takes, and the batch of a failed flush that is retried alone
  (`file_jsonl.rs:262`, `sink/mod.rs:215`). A rotation that cannot open the path again
  leaves the sink unusable until a restart.
- `SnapshotsAreComplete`, bulk: MySQL reads its position after it opened the view,
  SqlPeek skips at the hand-over what the watermark covers, a SQL Server table that
  ends at its count leaves rows behind, and a cursor saved for some rows of a chunk
  covers all of them.
- `SnapshotsAreComplete` and `OrderKept`, paging: a SQL Server key beyond i64 is bound
  as a double by the incremental snapshot, which does not notice the rows it steps over or
  repeats (`incremental_snapshot.rs:106`); the bulk snapshot cannot bind it.
- `ReportsAreTrue`, health: an alert has a cause, which is not always a stall.
  `last_poll_at_ms` is set by a delivery only (`runtime_poll.rs:976`; `runtime.rs:935`
  says "last successful `poll_event_batch` call"), so polls of a quiet source read "the
  poll loop is blocked, not idle" (`runtime_admin.rs:379`); a batch delivered after a
  pause counts as neglected (`runtime_admin.rs:391`, `runtime.rs:1747`); a loop that
  blocks before the first batch of a run raises no alert.
- `RecordsOfOthersStay`, registry (`RequiresSchemasToExist`): with `auto_register` off
  a schema is registered all the same once the subject was deleted after the lookup, or
  when the lookup accepted a reformatted copy (`schema_registry.rs:513-516`). The Glue
  encoder registers whatever the setting.
- `SchemasFit` and `RecordsOfOthersStay`, history: the file is read before the lease is
  taken (`schema_history/mod.rs:363-377`), so an overlapping handover overwrites the
  entries written in between. A captured `ADD COLUMN ... PRIMARY KEY` loses the key
  (`parsing.rs:551`).

### Outside the runs

The sets below are not in the runs; each is defined in the MC module of the run, and
in place of the constant named in the cfg it makes TLC report the property.

| Run, constant | Set | Property | What happens |
|---|---|---|---|
| `incremental_snapshot`, `Scenarios` | `MCStreamedEarly` | `ConsumerConverges` | A commit streamed before it is visible to a SELECT is overwritten by the chunk row (`driver.rs:1288`, `:42-43`). |
| | `MCRepairedHeldBack` | `ConsumerConverges` | A repaired partial update is held back while its chunk's cursor becomes durable; after a crash the row is not read again (`driver.rs:1230`, `:1156`). |
| `connectors`, `PgDeployments` | `PgPeekIdle` | `StreamLosesNothing` | SqlPeek reads the idle position in a second query and confirms what committed in between (`postgres.rs:1163`). |
| `MyDeployments` | `MyNonTransactional` | `StreamLosesNothing` | A `COMMIT` query event ends no transaction; the next `BEGIN` discards its rows (`mysql.rs:585`). |
| `SsDeployments` | `SsBusyDdl` | `StreamLosesNothing` | A schema event carries the window's end; acknowledging it alone passes the window's rows (`sqlserver/stream_schema.rs:60`). |
| `SfDeployments` | `SfAbrupt` | `SfReplica` | After a stop inside a window the restart reads another window; a change undone meanwhile is never reported (`snowflake/stream.rs:98`, `snowflake.md:156`). |
| `services`, `Resumptions` | `OpaqueOffsets` | `ConfigurationHolds` | The file store refuses an offset that is not JSON (`core/mod.rs:81`: "Any byte encoding is allowed"). |
| | `SnowflakeWindows` | `ConfigurationHolds` | The runtime stores Snowflake's window end as bare text, which the connector refuses at the next start (`core/mod.rs:76-77`). |
| `Pagings` | `FilterOfRequest` | `ConfigurationHolds` | A filter given with a request is not persisted; the restart reads on without it (`driver.rs:601-605`, `:322-327`). |
| `Connections` | `LostSlotRecreated` | `NothingLost` | With `create_replication_slot_if_missing` left on, a slot lost after a checkpoint is created again at the head, and the gap is not reported (`postgres/validation.rs:24-29` says why it must not be). |
| | `RacingConnects` | `ServicesSettle` | Two overlapping connects both pass the check and both start a heartbeat; one outlives the close (`postgres.rs:711`). |
| `Feeds` | `SharedTraceId` | `ReportsAreTrue` | Two events of one position share a trace id and their spans overwrite each other (`runtime.rs:1792-1797`). |
| `event_path`, `Paths` | `KeyUpdates` | `ReplicaIsSnapshot` | An update that changes the key leaves the old row in the replica. |
| | `CopiedAway` | `ReplicaIsSnapshot` | A copy of an unavailable column is not listed as unavailable, and overwrites the consumer's value. |
| | `FilteredByValue` | `ReplicaIsSnapshot` | A row that leaves a value filter is dropped, not deleted. |
| | `EncryptedKey` | `IdentityKept` | An encrypted key column gets a fresh nonce per event, so one row has many keys. |
| | `MySqlIds` | `IdentityKept` | MySQL transaction numbers count from the connection, so a redelivered change has another CloudEvents id. |
| | `OutboxBatch` | `IdentityKept` | `apply_batch` lets an outbox event through that `apply` rejects. |
| `Histories` | `ShortRetention` | `SchemasFit` | A replayed DDL whose entry was trimmed is recorded again under a new version. |
| | `GuardedCreate`, `TightCreate`, `ParenthesisedAdd`, `UnqualifiedCreate` | `SchemasFit` | `CREATE TABLE IF NOT EXISTS t`, `CREATE TABLE t(`, `ADD (c ...)` and an unqualified name are recorded under another name, or not at all. |

`MCServices` also defines six properties that documents state and no run checks,
because the code does not keep them:

- `PassedMeansDelivered` (with `FaultPlans <- DropAndDuplicate`): the crash
  simulation counts events, so a duplicate hides a gap (`crash.rs:192-194`).
- `LossIsNamed`: a duplicate makes up for a lost row in the count, and the table is
  not listed as missing rows (`snapshot_validator.rs:22-25`).
- `CommittedIsNotAnError`: the runtime ends a span with `"committed"`, and every status
  but `"ok"` makes it an error span (`otel.rs:900`, `runtime_commit.rs:162`).
- `ConnectIsIdempotent`: "Idempotent — connecting an already-connected source
  succeeds." (`postgres.rs:698`); it answers a `StateError` (`postgres.rs:712-716`).
- `InputFreed`, `TimeoutsCounted`: the guest's input is not freed after a trap, and
  an epoch interruption is not counted as a timeout (`wasm/runtime.rs:732`, `:56`).

Further edges the models show or the source has, which no property states. A
transaction cut by bytes under `PreserveTransactions` is withheld until later
events arrive (`runtime_poll.rs:780`). SQL Server marks a truncation consumed
before it is acknowledged, so a crash loses it (`stream_window.rs:569-571` speaks
of a crash before the mark only); truncations are therefore explored without
restarts. A full control queue makes the caller wait (`control.rs:36-38` says it
fails fast). When every reconnect fails, later polls return empty batches. The
router's builder does not drop unrouted events unless told to
(`pipeline/router.rs` documents the opposite default), and `is_recoverable` admits
classified source errors besides the two its comment names (`core/error.rs:473`).
PostgreSQL announces a schema change with the relation message of the connection
that first sees it, and not again after a restart. MySQL refuses to resume when
transactions were purged, with a text that says it "had not yet read" them, also
when it had (`mysql/stream_start.rs:140`).

## Next

Proofs: where batches end; the inductive invariant behind at-least-once; the
bracket's lemma of the incremental snapshot (what a chunk read did not see is
never classified `Before`). Models: key changes and dropped tables during an
incremental snapshot; the eviction of the idempotency guard composed with
`Delivery`.

## Not modelled

- The testkit: builders and assertions for tests.
- Byte layouts, SQL text other than the chunk SELECTs, the decoding of column values
  per type (MySQL `DECIMAL` keys among them), and HTTP clients: input to the models starts at the decoded value.
- Certificate parsing, the TLS handshake itself, log formatting and OTLP export:
  pure input and output. What a transport demands of a session is in `ConnectorSetup`.
- `core/column_filter.rs` is not part of the crate; glob matching is a pure
  predicate that the models take as given (a table is captured or it is not).
- Snowflake's HTTP client and authentication; the other connectors' setup is in
  `ConnectorSetup`, and their stream models take its outcome as their initial state.
- `InMemoryCheckpoint` beyond what `ResumeOffsets` needs, read-only handles, and
  queries of the schema history by version or time: they change no durable state.
- The bounded memory of the idempotency guard: eviction only lets redeliveries
  through, which at-least-once admits.

---------------------------- MODULE MCConnectors ----------------------------
(* The four change streams, one of them per behaviour: `which` names the   *)
(* connector, the variables the others would use stay Unused.              *)
EXTENDS Integers, Sequences

CONSTANTS
    PgDeployments, MyDeployments, SsDeployments, SfDeployments, \* what each stream explores
    MAX_TRACKED_TX_ENDS, PeekWindow, RowCap, MaxMessagesPerPoll, MaxFailures, MaxRestarts

VARIABLES
    which, config, handed, checkpoint, acked, restarts,
    written, slot, handle, caught_up, confirming,
    purged, provider, stream,
    harvested, min_lsn, columns, truncated,
    clock, oldest, snapshot, pin, applied, sink,
    overlooked, failures

PG == INSTANCE PostgresStream WITH Deployments <- PgDeployments, MaxEventsPerPoll <- PeekWindow
MY == INSTANCE MySqlStream WITH Deployments <- MyDeployments
SS == INSTANCE SqlServerStream WITH Deployments <- SsDeployments, MaxEventsPerPoll <- RowCap
SF == INSTANCE SnowflakeStream WITH Deployments <- SfDeployments

pgvars == PG!vars
myvars == MY!vars
ssvars == SS!vars
sfvars == SF!vars
vars == <<which, config, handed, checkpoint, acked, restarts, written, slot, handle, caught_up,
          confirming, purged, provider, stream, harvested, min_lsn, columns,
          truncated, overlooked, clock, oldest, snapshot, pin, applied, sink, failures>>

Unused == "unused"
WithoutPG == slot = Unused /\ caught_up = Unused /\ confirming = Unused
WithoutMY == purged = Unused /\ provider = Unused
WithoutSS == harvested = Unused /\ min_lsn = Unused /\ columns = Unused /\ truncated = Unused
WithoutFaults == overlooked = Unused /\ failures = Unused
WithoutSF == /\ clock = Unused /\ oldest = Unused /\ snapshot = Unused /\ pin = Unused
             /\ applied = Unused /\ sink = Unused

Init ==
    \/ /\ which = "postgres" /\ PG!Init
       /\ WithoutMY /\ WithoutSS /\ WithoutSF /\ stream = Unused /\ WithoutFaults
    \/ /\ which = "mysql" /\ MY!Init
       /\ WithoutPG /\ WithoutSS /\ WithoutSF /\ handle = Unused /\ WithoutFaults
    \/ /\ which = "sqlserver" /\ SS!Init
       /\ WithoutPG /\ WithoutMY /\ WithoutSF /\ written = Unused /\ stream = Unused
    \/ /\ which = "snowflake" /\ SF!Init
       /\ WithoutPG /\ WithoutMY /\ WithoutSS /\ acked = Unused /\ written = Unused /\ handle = Unused

faults == <<overlooked, failures>>
onlySS == <<harvested, min_lsn, columns, truncated>>
othersThanSF == <<which, acked, written, slot, handle, caught_up, confirming, purged, provider,
                  onlySS>>
onlySF == <<clock, oldest, snapshot, pin, applied, sink>>
PgNext == which = "postgres" /\ PG!Next /\ UNCHANGED <<which, purged, provider, stream, faults, onlySS, onlySF>>
MyNext == which = "mysql" /\ MY!Next /\ UNCHANGED <<which, slot, handle, caught_up, confirming, faults, onlySS, onlySF>>
SsNext == /\ which = "sqlserver" /\ SS!Next
          /\ UNCHANGED <<which, written, slot, caught_up, confirming, purged, provider, stream, onlySF>>
SfNext == which = "snowflake" /\ SF!Next /\ UNCHANGED othersThanSF
Next == PgNext \/ MyNext \/ SsNext \/ SfNext

(* The fairness each connector states, for the behaviours that are its.    *)
Fairness ==
    /\ WF_pgvars(which = "postgres" /\ PG!StartStream) /\ WF_pgvars(which = "postgres" /\ PG!PeekRows)
    /\ SF_pgvars(which = "postgres" /\ PG!StreamRows) /\ WF_pgvars(which = "postgres" /\ PG!PeekTimedOut)
    /\ WF_pgvars(which = "postgres" /\ PG!IdleNotDue) /\ WF_pgvars(which = "postgres" /\ PG!Acknowledge)
    /\ WF_pgvars(which = "postgres" /\ PG!ConfirmSaved) /\ WF_pgvars(which = "postgres" /\ PG!ServerWrites)
    /\ WF_pgvars(which = "postgres" /\ PG!SendStatusUpdate)
    /\ WF_myvars(which = "mysql" /\ MY!StartStream) /\ WF_myvars(which = "mysql" /\ MY!NextEvents)
    /\ WF_myvars(which = "mysql" /\ MY!Acknowledge) /\ WF_myvars(which = "mysql" /\ MY!ServerWrites)
    /\ WF_ssvars(which = "sqlserver" /\ SS!StartStream) /\ WF_ssvars(which = "sqlserver" /\ SS!NextEvents)
    /\ WF_ssvars(which = "sqlserver" /\ SS!Consume)
    /\ WF_sfvars(which = "snowflake" /\ SF!Snapshotting) /\ WF_sfvars(which = "snowflake" /\ SF!StartStream)
    /\ SF_sfvars(which = "snowflake" /\ SF!NextEvents) /\ WF_sfvars(which = "snowflake" /\ SF!Consume)

Spec == Init /\ [][Next]_vars /\ Fairness
-----------------------------------------------------------------------------
(* Workloads.                                                              *)
PgTx(i, changes) ==
    <<[kind |-> "begin", tx |-> i]>> \o [k \in DOMAIN changes |-> [kind |-> changes[k], tx |-> i]]
        \o <<[kind |-> "commit", tx |-> i]>>
PgRelation(i, shape) == <<[kind |-> "relation", tx |-> i, shape |-> shape]>>
PgReshaped(i, shape, changes) ==
    <<[kind |-> "begin", tx |-> i]>> \o PgRelation(i, shape) \o Tail(PgTx(i, changes))
PgDefault ==
    [transport |-> "StreamingReplication", idle_advance |-> TRUE, decodable |-> 4, resumes |-> TRUE,
     backlog |-> 0, items |-> 4,
     log |-> PgReshaped(1, 1, <<"row">>) \o PgTx(3, <<"skip">>) \o PgReshaped(4, 2, <<"truncate", "row">>)]
PgPeek == [PgDefault EXCEPT !.transport = "SqlPeek", !.idle_advance = FALSE, !.decodable = 1]
PgFresh == [PgDefault EXCEPT !.resumes = FALSE, !.backlog = 2]
PgBareRelation ==
    [PgDefault EXCEPT !.items = 3,
        !.log = PgReshaped(1, 1, <<"row">>) \o PgRelation(2, 2) \o PgReshaped(3, 1, <<"row">>)]
PgAll == {PgDefault, PgPeek, PgFresh, PgBareRelation}
PgPeekIdle == {[PgPeek EXCEPT !.idle_advance = TRUE, !.decodable = 4]}

(* A binlog event is <<kind, item>>, at its own position; one inside a     *)
(* compressed payload is <<kind, item, position of the payload>>.          *)
Binlog(events) ==
    [k \in DOMAIN events |->
        [kind |-> events[k][1], item |-> events[k][2],
         at |-> IF Len(events[k]) > 2 THEN events[k][3] ELSE k,
         log_pos |-> IF Len(events[k]) > 2 THEN 0 ELSE k]]
MyLog ==
    Binlog(<< <<"gtid", 1>>, <<"begin", 1>>, <<"row", 1>>, <<"row", 1>>, <<"xid", 1>>, <<"rotate", 0>>,
              <<"gtid", 2>>, <<"skip_ddl", 2>>,
              <<"gtid", 3>>, <<"payload", 3>>, <<"begin", 3, 10>>, <<"skip", 3, 10>>, <<"row", 3, 10>>,
              <<"xid", 3, 10>>, <<"gtid", 4>>, <<"truncate", 4>> >>)
MyFile == [gtid_mode_enabled |-> FALSE, executed_before |-> {}, purges |-> "never", items |-> 4, log |-> MyLog]
MyGtid == [MyFile EXCEPT !.gtid_mode_enabled = TRUE, !.executed_before = {-1},
                        !.purges = "anything"]
Maria ==
    [MyFile EXCEPT !.items = 3,
        !.log = Binlog(<< <<"maria_gtid", 1>>, <<"maria_annotate", 1>>, <<"row", 1>>, <<"xid", 1>>,
                          <<"truncate", 2>>, <<"maria_gtid", 3>>, <<"ddl", 3>> >>)]
MyNoGtid == [MyFile EXCEPT !.purges = "acknowledged", !.log = SelectSeq(MyLog, LAMBDA e : e.kind # "gtid")]
MyAll == {MyFile, MyGtid, Maria, MyNoGtid}
MyNonTransactional ==
    {[MyFile EXCEPT !.items = 2,
        !.log = Binlog(<< <<"begin", 1>>, <<"row", 1>>, <<"commit", 1>>,
                          <<"begin", 2>>, <<"row", 2>>, <<"xid", 2>> >>)]}

Row(i, l, q, op) == [inst |-> i, lsn |-> l, seq |-> q, op |-> op]
Update(i, l, q) == <<Row(i, l, q, 3), Row(i, l, q, 4)>>
SsTwo ==
    [rows |-> <<Row("a", 1, 1, 2)>> \o Update("b", 1, 2) \o Update("a", 1, 3) \o <<Row("b", 1, 4, 2)>>
                \o Update("a", 2, 1) \o <<Row("b", 3, 1, 1)>>,
     instances |-> {"a", "b"}, included |-> {}, excluded |-> {}, late |-> {}, cleanup |-> {}, truncates |-> {}, quiet_ddl |-> FALSE,
     disabled |-> {}, altered |-> {}, keeps_handle |-> FALSE, consumer |-> "runtime", restarts |-> TRUE]
SsPurged == [SsTwo EXCEPT !.rows = <<Row("a", 1, 1, 2)>> \o Update("a", 2, 1) \o <<Row("a", 3, 1, 2)>>,
                          !.instances = {"a"}, !.cleanup = {"a"}]
SsQuietDdl ==
    [SsTwo EXCEPT !.rows = <<Row("a", 1, 1, 2)>> \o Update("a", 1, 2) \o <<Row("b", 2, 1, 2)>>
                             \o Update("a", 2, 2) \o <<Row("b", 3, 1, 2)>>,
                  !.instances = {"a"}, !.late = {"b"}, !.quiet_ddl = TRUE]
SsTruncate ==
    [SsTwo EXCEPT !.rows = <<Row("a", 1, 1, 2), Row("b", 2, 1, 1), Row("a", 3, 1, 2)>>,
                  !.truncates = {[inst |-> "a", lsn |-> 2]}, !.restarts = FALSE]
SsExcluded ==
    [SsQuietDdl EXCEPT !.rows = <<Row("a", 1, 1, 2)>> \o Update("c", 1, 2) \o Update("a", 1, 3) \o <<Row("b", 2, 1, 2)>>,
                       !.instances = {"a", "c"}, !.excluded = {"b", "c"}, !.quiet_ddl = FALSE,
                       !.truncates = {[inst |-> "a", lsn |-> 1], [inst |-> "c", lsn |-> 1]}]
SsIncluded == [SsExcluded EXCEPT !.included = {"a", "b"}, !.excluded = {"a"}, !.quiet_ddl = TRUE,
                                 !.truncates = {[inst |-> "c", lsn |-> 1]}]
SsUneven == [SsTwo EXCEPT !.rows = <<Row("a", 1, 1, 2), Row("b", 2, 1, 2), Row("a", 2, 2, 2), Row("b", 3, 1, 1)>>,
                          !.cleanup = {"b"}]
SsKept == [SsTwo EXCEPT !.rows = <<Row("a", 1, 1, 2), Row("b", 1, 2, 2)>> \o Update("a", 1, 3) \o <<Row("a", 2, 1, 1)>>,
                        !.truncates = {[inst |-> "a", lsn |-> 1]}, !.keeps_handle = TRUE, !.restarts = FALSE]
SsSaved == [SsTwo EXCEPT !.rows = <<Row("a", 1, 1, 2)>> \o Update("a", 1, 2) \o <<Row("b", 1, 3, 2), Row("a", 2, 1, 2)>>,
                         !.consumer = "handle"]
SsReshaped == [SsTwo EXCEPT !.rows = <<Row("a", 1, 1, 2)>> \o Update("b", 1, 2) \o <<Row("a", 1, 3, 1)>>,
                            !.disabled = {"b"}, !.altered = {"a"}]
SsAll == {SsUneven, SsKept, SsSaved, SsReshaped, [SsReshaped EXCEPT !.keeps_handle = TRUE], SsTwo, SsPurged, SsQuietDdl, SsTruncate, SsExcluded, SsIncluded}
SsBusyDdl == {[SsQuietDdl EXCEPT !.quiet_ddl = FALSE, !.restarts = FALSE]}

SfRow(t, k) == [table |-> t, key |-> k]
Sets(r, v) == [row |-> r, val |-> v]
SfTwo ==
    [rows |-> <<SfRow("a", 1), SfRow("b", 1), SfRow("a", 2)>>,
     history |-> <<Sets(1, 5), Sets(2, 6), Sets(3, 7), Sets(1, 8), Sets(2, 0), Sets(1, 5)>>,
     tables |-> <<"a", "b">>, chunk_size |-> 1, snapshot |-> FALSE, consumer |-> "handle",
     settled |-> TRUE, purge |-> FALSE, reopens |-> FALSE]
SfSnapshot == [SfTwo EXCEPT !.snapshot = TRUE, !.history = <<Sets(3, 7), Sets(1, 5), Sets(2, 6), Sets(1, 0)>>]
SfShortChunk == [SfSnapshot EXCEPT !.chunk_size = 2]
SfRuntime == [SfTwo EXCEPT !.consumer = "runtime",
                           !.history = <<Sets(1, 5), Sets(2, 6), Sets(0, 0), Sets(1, 8)>>]
SfPurged == [SfSnapshot EXCEPT !.purge = TRUE, !.history = <<Sets(1, 5), Sets(3, 6), Sets(1, 8)>>]
SfReopened == [SfRuntime EXCEPT !.reopens = TRUE, !.purge = TRUE]
SfReopenedAtPin == [SfPurged EXCEPT !.consumer = "runtime", !.reopens = TRUE]
SfLagging == [SfRuntime EXCEPT !.purge = TRUE]
SfAll == {SfReopened, SfReopenedAtPin, SfLagging, SfTwo, SfSnapshot, SfShortChunk, SfRuntime, SfPurged}
SfAbrupt == {[SfTwo EXCEPT !.settled = FALSE]}
Nothing == {}
-----------------------------------------------------------------------------
(* Every stream's state is well formed.                                    *)
TypeOK ==
    /\ which = "postgres" => PG!TypeOK
    /\ which = "mysql" => MY!TypeOK
    /\ which = "sqlserver" => SS!TypeOK
    /\ which = "snowflake" => SF!TypeOK

(* No committed change is stepped over unnoticed.  PostgreSQL: neither the *)
(* slot nor the checkpoint passes a transaction before it is acknowledged. *)
(* MySQL: what a restart would not be sent again is acknowledged, or the   *)
(* restart is refused.  SQL Server: the window, the parked cursor, the     *)
(* floors and the checkpoint leave every harvested change delivered or     *)
(* still to be read, but for the three steps SsNothingLost names.          *)
StreamLosesNothing ==
    /\ which = "postgres" => PG!PgNothingLost
    /\ which = "mysql" => MY!MyNothingLost
    /\ which = "sqlserver" => SS!SsNothingLost

(* What the source committed together is handed out together: whole        *)
(* PostgreSQL and MySQL transactions, numbered by their own size, schema   *)
(* changes included, and SQL Server updates with their before image,       *)
(* wherever polls, pages and restarts cut the log, but for the cursor      *)
(* SsUpdatesWhole names.                                                   *)
TransactionsStayWhole ==
    /\ which = "postgres" => PG!PgWholeTransactions
    /\ which = "mysql" => MY!MyWholeTransactions
    /\ which = "sqlserver" => SS!SsUpdatesWhole

(* MySQL and MariaDB: a durable position is the end of a binlog item.      *)
MyResumesAtBoundary == which = "mysql" => MY!MyResumesAtBoundary

(* SQL Server: nothing is delivered ahead of an unread change that         *)
(* precedes it in another change table, and nothing at all of a table the  *)
(* filters exclude.                                                        *)
SsOneOrder == which = "sqlserver" => SS!SsOneOrder /\ SS!SsOnlySelected

(* Snowflake: the sink holds exactly the table versions at the stream's    *)
(* position, but for what a reopened stream without a checkpoint skips.    *)
SfReplica == which = "snowflake" => SF!SfReplica

(* Every stream settles: what was committed is acknowledged, and the slot, *)
(* window or position is past it, or the server no longer has it.  Then    *)
(* MySQL and SQL Server have refused the stream for good, and Snowflake    *)
(* reports the refusal at every further poll.                              *)
StreamsSettle ==
    <>[](/\ which = "postgres" => PG!Settled
         /\ which = "mysql" => MY!Settled
         /\ which = "sqlserver" => SS!Settled
         /\ which = "snowflake" => SF!Settled)
=============================================================================

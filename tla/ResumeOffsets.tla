--------------------------- MODULE ResumeOffsets ---------------------------
(* A stream position on its way into a checkpoint and back: the text a     *)
(* connector stamps on an event, the offset the runtime builds from it,    *)
(* the record a store keeps, the offset it hands out at the next start and *)
(* the position the connector reads out of that.                           *)
(*                                                                         *)
(* A position is a tuple of numbers: <<lsn>> for PostgreSQL, <<file, pos,  *)
(* gtid>> for MySQL (gtid 0 is the empty set), <<lsn>> or <<lsn, seqval,   *)
(* op>> for SQL Server, <<window end>> for Snowflake, <<n>> for a source   *)
(* the runtime does not know.  A JSON object is its fields.                *)
EXTENDS Integers, Sequences

CONSTANTS
    Deployments,  \* the configurations, stores and logs explored
    WORD,         \* one more than the largest u32
    MaxStarts     \* starts explored

VARIABLES
    config,    \* the deployment
    current,   \* the runtime configuration of this process
    run,       \* "down" | "running" | "refused"
    snapshot,  \* a bulk snapshot is open
    entries,   \* what the store holds, oldest first
    acked,     \* events acknowledged so far
    promised,  \* the position the last acknowledged save stands for
    due,       \* promised, when this process started
    resumed,   \* where its stream was opened
    starts

vars == <<config, current, run, snapshot, entries, acked, promised, due, resumed, starts>>

Object(fields) == [type |-> "object", fields |-> fields]
Str(text) == [type |-> "string", text |-> text]
Err == [type |-> "error"]
Offset(source_type, bytes) == [type |-> "offset", source_type |-> source_type, bytes |-> bytes]
Fresh == [log |-> "", at |-> <<>>]

Mysql(c) == c.source \in {"mysql", "mariadb"}
HasFields(json, names) == json.type = "object" /\ names \subseteq DOMAIN json.fields

(***************************************************************************)
(* The text of a position.                                                 *)
(***************************************************************************)
format_pg_lsn(lsn) == <<lsn \div WORD, lsn % WORD>>
parse_postgres_lsn(text) == text[1] * WORD + text[2]

format_mysql_source_offset(file, pos, gtid) ==
    IF gtid = 0 THEN <<file, pos>> ELSE <<file, pos, gtid>>

parse_mysql_stream_offset(text) ==
    [file |-> text[1], pos |-> text[2], gtid |-> IF Len(text) = 3 THEN text[3] ELSE 0]

(* lsn_from_source_offset: everything after the LSN is optional.           *)
lsn_from_source_offset(text) == text[1]

(* Whether the text a connector stamps happens to be JSON, and what a      *)
(* parse and a second rendering make of it.                                *)
VerbatimBytes(c, text) == IF c.opaque THEN [type |-> "not json", text |-> text]
                                      ELSE [type |-> "number", text |-> text]

(* event.source.offset.                                                    *)
StampedOffset(c, at) ==
    CASE c.source = "postgres" -> format_pg_lsn(at[1])
      [] Mysql(c) -> format_mysql_source_offset(at[1], at[2], at[3])
      [] OTHER -> at

(***************************************************************************)
(* Encoded offsets.                                                        *)
(***************************************************************************)
PostgresOffset(lsn, slot_name) == Object([lsn |-> lsn, slot_name |-> slot_name])
MysqlOffset(flavor, file, pos, gtid) ==
    Object([gtid |-> gtid, binlog_file |-> file, binlog_pos |-> pos, source_flavor |-> flavor])
SqlServerOffset(cursor) == Object([cursor |-> cursor])

PostgresOffset_from_bytes(json) ==
    IF HasFields(json, {"lsn", "slot_name"}) THEN json ELSE Err

(* source_flavor has a default.                                            *)
MysqlOffset_from_bytes(json) ==
    IF ~HasFields(json, {"gtid", "binlog_file", "binlog_pos"}) THEN Err
    ELSE IF HasFields(json, {"source_flavor"}) THEN json
    ELSE MysqlOffset("mysql", json.fields.binlog_file, json.fields.binlog_pos, json.fields.gtid)

(* Either form of the cursor, the object or the bare string.               *)
SqlServerOffset_from_bytes(json) ==
    IF HasFields(json, {"cursor"}) THEN json
    ELSE IF json.type = "string" THEN SqlServerOffset(json.text) ELSE Err

sqlserver_cursor_from_offset_bytes(json) ==
    IF HasFields(json, {"cursor"}) THEN json.fields.cursor
    ELSE IF json.type = "string" THEN json.text ELSE <<>>

SnowflakeOffset_from_bytes(json) ==
    IF HasFields(json, {"window_end_nanos", "database", "schema"}) THEN json ELSE Err

(* Mutant of build_checkpoint_offset: MariaDB positions are filed under    *)
(* mysql.                                                                  *)
BuildFlavorless(c, at) ==
    LET text == StampedOffset(c, at)
        my == parse_mysql_stream_offset(text)
    IN  CASE c.source = "postgres" -> Offset("postgres", PostgresOffset(parse_postgres_lsn(text), c.name))
          [] Mysql(c) -> Offset("mysql", MysqlOffset("mysql", my.file, my.pos, my.gtid))
          [] c.source = "sqlserver" -> Offset("sqlserver", SqlServerOffset(text))
          [] OTHER -> Offset(c.source, VerbatimBytes(c, text))

(* What acknowledging an event at this position saves.                     *)
build_checkpoint_offset(c, at) ==
    LET text == StampedOffset(c, at)
        my == parse_mysql_stream_offset(text)
    IN  CASE c.source = "postgres" -> Offset("postgres", PostgresOffset(parse_postgres_lsn(text), c.name))
          [] Mysql(c) -> Offset(c.source, MysqlOffset(c.source, my.file, my.pos, my.gtid))
          [] c.source = "sqlserver" -> Offset("sqlserver", SqlServerOffset(text))
          [] OTHER -> Offset(c.source, VerbatimBytes(c, text))

SnapshotType(source) == CASE source = "postgres" -> "postgres_snapshot"
                          [] source = "mysql" -> "mysql_snapshot"
                          [] source = "mariadb" -> "mariadb_snapshot"
                          [] source = "sqlserver" -> "sqlserver_snapshot"
                          [] OTHER -> "none"
source_family(source_type) ==
    IF \E s \in {"postgres", "mysql", "mariadb", "sqlserver"} : SnapshotType(s) = source_type
    THEN CHOOSE s \in {"postgres", "mysql", "mariadb", "sqlserver"} : SnapshotType(s) = source_type
    ELSE source_type

(* What a snapshot handle saves: its cursors, and where its view stands in *)
(* the log.                                                                *)
SnapshotPayload(c, at) ==
    CASE c.source = "postgres" -> Object([snapshot_watermark |-> at[1]])
      [] Mysql(c) -> Object([binlog_file |-> at[1], binlog_pos |-> at[2], gtid |-> at[3]])
      [] OTHER -> Object([lsn_start |-> at[1]])

(***************************************************************************)
(* The stores.  InMemoryCheckpoint keeps every offset as it is given one;  *)
(* FileCheckpoint keeps the JSON of one record per source type and hands   *)
(* out the furthest.                                                       *)
(***************************************************************************)
SaveRefused(offset) == config.store = "file" /\ offset.bytes.type = "not json"

Saved(offset) ==
    IF config.store = "memory" THEN Append(entries, offset)
    ELSE Append(SelectSeq(entries, LAMBDA e : e.source_type # offset.source_type), offset)

Families == {source_family(entries[k].source_type) : k \in DOMAIN entries}

(* The typed offset a record is read as.                                   *)
LoadedAs(record) ==
    LET typed == CASE record.source_type = "postgres" -> PostgresOffset_from_bytes(record.bytes)
                   [] record.source_type \in {"mysql", "mariadb"} -> MysqlOffset_from_bytes(record.bytes)
                   [] record.source_type = "sqlserver" -> SqlServerOffset_from_bytes(record.bytes)
                   [] OTHER -> record.bytes
    IN  IF typed = Err THEN Err
        ELSE IF record.source_type = "mysql" THEN Offset(typed.fields.source_flavor, typed)
        ELSE IF record.source_type = "mariadb" THEN Offset("mariadb", record.bytes)
        ELSE Offset(record.source_type, typed)

(* None is <<>>, Some(offset) <<offset>>.                                  *)
load ==
    IF entries = <<>> THEN <<>>
    ELSE IF config.store = "memory" THEN <<entries[Len(entries)]>>
    ELSE IF Families \notin {{f} : f \in Families} THEN <<Err>>
    ELSE <<LoadedAs(entries[Len(entries)])>>

(***************************************************************************)
(* Reading a position out of a loaded offset.                              *)
(***************************************************************************)
is_snapshot_checkpoint(c, offset) ==
    c.source \in {"postgres", "mysql", "mariadb", "sqlserver"} /\ offset.source_type = SnapshotType(c.source)

(* The position the view stands at, as the offset a stream resumes from.   *)
(* The flavor of a MySQL one follows the variant of RuntimeSourceConfig.   *)
stream_resume_offset_for_snapshot_checkpoint(c, offset) ==
    LET json == offset.bytes.fields
    IN  CASE c.source = "postgres" -> Offset("postgres", PostgresOffset(json.snapshot_watermark, c.name))
          [] Mysql(c) -> IF json.binlog_pos >= WORD THEN Err
                         ELSE Offset(c.variant, MysqlOffset(c.variant, json.binlog_file, json.binlog_pos, json.gtid))
          [] c.source = "sqlserver" -> Offset("sqlserver", Str(<<json.lsn_start>>))
          [] OTHER -> Err

decode_stream_resume_lsn(c, offset) ==
    LET saved == PostgresOffset_from_bytes(offset.bytes)
    IN  IF offset.source_type # "postgres" \/ saved = Err THEN <<>>
        ELSE IF saved.fields.slot_name # c.name THEN <<>> ELSE <<saved.fields.lsn>>

(* An empty set leaves the server's own in place.                          *)
decode_stream_resume_position(c, offset) ==
    LET saved == MysqlOffset_from_bytes(offset.bytes)
    IN  IF offset.source_type # c.source \/ saved = Err THEN <<>>
        ELSE <<saved.fields.binlog_file, saved.fields.binlog_pos,
               IF saved.fields.gtid = 0 THEN c.gtid_executed ELSE saved.fields.gtid>>

(* The cursor inside a window where there is one, refused when its LSN has *)
(* been cleaned up.                                                        *)
SqlServerResume(c, offset) ==
    LET cursor == sqlserver_cursor_from_offset_bytes(offset.bytes)
    IN  IF offset.source_type # "sqlserver" \/ cursor = <<>> THEN <<>>
        ELSE IF lsn_from_source_offset(cursor) < c.min_lsn THEN <<>> ELSE cursor

SnowflakeResume(c, offset) ==
    LET saved == SnowflakeOffset_from_bytes(offset.bytes)
    IN  IF offset.source_type # "snowflake" \/ saved = Err THEN <<>>
        ELSE IF saved.fields.database # c.name THEN <<>> ELSE <<saved.fields.window_end_nanos>>

(* start_stream(Some(offset)); <<>> is an error.                           *)
start_stream(c, offset) ==
    CASE c.source = "postgres" -> decode_stream_resume_lsn(c, offset)
      [] Mysql(c) -> decode_stream_resume_position(c, offset)
      [] c.source = "sqlserver" -> SqlServerResume(c, offset)
      [] c.source = "snowflake" -> SnowflakeResume(c, offset)
      [] OTHER -> IF offset.source_type = c.source /\ "text" \in DOMAIN offset.bytes
                  THEN offset.bytes.text ELSE <<>>

(***************************************************************************)
(* A process.                                                              *)
(***************************************************************************)
LogOf(c) == <<c.source, c.name>>

Init ==
    /\ config \in Deployments
    /\ current = config.first
    /\ run = "down" /\ snapshot = FALSE
    /\ entries = <<>> /\ acked = 0
    /\ promised = Fresh /\ due = Fresh /\ resumed = Fresh
    /\ starts = 0

Opens(c, at, withSnapshot) ==
    /\ run' = "running" /\ snapshot' = withSnapshot
    /\ resumed' = IF at = <<>> THEN Fresh ELSE [log |-> LogOf(c), at |-> at]

Refuses == run' = "refused" /\ snapshot' = FALSE /\ UNCHANGED resumed

(* CdcRuntime::start, by the configuration of the first process or the one *)
(* an operator changed it to.                                              *)
start ==
    /\ run = "down" /\ starts < MaxStarts
    /\ starts' = starts + 1
    /\ due' = promised
    /\ \E c \in IF starts = 0 THEN {config.first} ELSE {config.first, config.later} : \E loaded \in {load} :
          LET offset == loaded[1]
              fromView == stream_resume_offset_for_snapshot_checkpoint(c, offset)
          IN  /\ current' = c
              /\ IF loaded = <<>> THEN Opens(c, <<>>, c.snapshot_tables)
                 ELSE IF offset = Err THEN Refuses
                 ELSE IF ~is_snapshot_checkpoint(c, offset)
                 THEN IF start_stream(c, offset) = <<>> THEN Refuses
                      ELSE Opens(c, start_stream(c, offset), FALSE)
                 ELSE IF ~c.snapshot_tables \/ fromView = Err \/ start_stream(c, fromView) = <<>>
                 THEN Refuses
                 ELSE Opens(c, start_stream(c, fromView), TRUE)
    /\ UNCHANGED <<config, entries, acked, promised>>

(* A snapshot chunk is acknowledged: the handle saves its own payload.  One *)
(* chunk stands for all of them, they carry the same position.             *)
SnapshotChunkAcked ==
    /\ run = "running" /\ snapshot /\ acked = 0
    /\ promised = Fresh
    /\ entries' = Saved(Offset(SnapshotType(current.source), SnapshotPayload(current, current.watermark)))
    /\ promised' = [log |-> LogOf(current), at |-> current.watermark]
    /\ UNCHANGED <<config, current, run, snapshot, acked, due, resumed, starts>>

(* A streamed event is acknowledged.                                       *)
EventAcked ==
    /\ run = "running" /\ acked < Len(current.log)
    /\ LET offset == build_checkpoint_offset(current, current.log[acked + 1])
       IN  IF SaveRefused(offset)
           THEN run' = "refused" /\ UNCHANGED <<snapshot, entries, acked, promised>>
           ELSE /\ entries' = Saved(offset)
                /\ acked' = acked + 1
                /\ promised' = [log |-> LogOf(current), at |-> current.log[acked + 1]]
                /\ snapshot' = FALSE
                /\ UNCHANGED run
    /\ UNCHANGED <<config, current, due, resumed, starts>>

(* stop and start in one process keep both stores.                         *)
Stop ==
    /\ run # "down"
    /\ run' = "down" /\ snapshot' = FALSE
    /\ UNCHANGED <<config, current, entries, acked, promised, due, resumed, starts>>

(* A new process has an empty InMemoryCheckpoint.                          *)
Crash ==
    /\ run # "down"
    /\ run' = "down" /\ snapshot' = FALSE
    /\ IF config.store = "memory"
       THEN entries' = <<>> /\ promised' = Fresh
       ELSE UNCHANGED <<entries, promised>>
    /\ UNCHANGED <<config, current, acked, due, resumed, starts>>

Next == start \/ SnapshotChunkAcked \/ EventAcked \/ Stop \/ Crash

Spec == Init /\ [][Next]_vars

(***************************************************************************)
(* Properties.                                                             *)
(***************************************************************************)
TypeOK ==
    /\ config \in Deployments /\ current \in {config.first, config.later}
    /\ run \in {"down", "running", "refused"} /\ snapshot \in BOOLEAN
    /\ acked \in 0..Len(current.log) /\ starts \in 0..MaxStarts
    /\ \A k \in DOMAIN entries : entries[k].type = "offset"

(* A process that runs has opened its stream at exactly the position the   *)
(* last acknowledged save stood for, in the log it was taken from, or, if  *)
(* nothing was ever saved, afresh: every conversion between an event's     *)
(* text and a connector's position undoes the other (Offset::encode "Must  *)
(* round-trip").                                                           *)
ResumesWhereAcked == run = "running" => resumed = due

(* While the configuration stays what it was, the runtime is never refused *)
(* by a checkpoint of its own making, neither when it saves it nor when it *)
(* resumes from it (core/mod.rs: "Any byte encoding is allowed").          *)
OwnCheckpointsAccepted ==
    run = "refused" => current # config.first \/ (due # Fresh /\ due.log # LogOf(current))
============================================================================

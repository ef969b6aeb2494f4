--------------------------- MODULE SnapshotSource ---------------------------
(***************************************************************************)
(* The database an incremental snapshot reads: its tables, its change log, *)
(* and the gap between the two.  A transaction reaches the log first and   *)
(* becomes visible to a SELECT afterwards (PostgreSQL flushes the commit   *)
(* record before it clears the proc array, MySQL flushes the binlog before *)
(* the engine commit); SQL Server inverts this, its capture job harvests   *)
(* after the commit.  The database is external; the operators that read it *)
(* are the three IncrementalSnapshotBackend implementations.               *)
(*                                                                         *)
(* A transaction changes one row.  A row has a column `a` that every       *)
(* change writes and a large column `big` that an UPDATE may leave alone:  *)
(* PostgreSQL then omits it from the event (unchanged TOAST).              *)
(***************************************************************************)
EXTENDS Integers, Sequences, FiniteSets, SequencesExt, FiniteSetsExt

CONSTANTS
    Scenarios,   \* the deployments Init chooses from
    XidSpan      \* number of transaction ids before pgoutput's xid wraps (2^32)

VARIABLES
    config,      \* the chosen deployment
    rows,        \* what a SELECT sees: row id -> row
    logged,      \* the same with every logged transaction applied
    open,        \* transactions that wrote their change and did not commit
    log,         \* committed changes, in commit order
    visible,     \* ids of the transactions a SELECT sees
    captured,    \* SQL Server: number of log entries the capture job harvested
    wal          \* the last log position written

sourceVars == <<config, rows, logged, open, log, visible, captured, wal>>

Key == 1 .. config.keys
RowId == config.names \X Key

NoRow == [a |-> -1, big |-> -1]
Unavailable == -2

IsPostgres == config.backend = "postgres"
IsMysql == config.backend = "mysql"
IsSqlServer == config.backend = "sqlserver"

(***************************************************************************)
(* The application's transactions.                                         *)
(***************************************************************************)
Begun == Cardinality(open) + Len(log)

Unfinished == open \union {e \in ToSet(log) : e.xid \notin visible}

Locked(t, k) == \E e \in Unfinished : e.table = t /\ e.key = k

\* What writing event e to a row that holds `old` leaves in it.
Written(old, e) ==
    IF e.row.big = Unavailable THEN [old EXCEPT !.a = e.row.a] ELSE e.row

After(kind, x, old) ==
    CASE kind \in {"insert", "rewrite"} -> [a |-> x, big |-> x]
      [] kind = "touch" -> [a |-> x, big |-> IF IsPostgres THEN Unavailable ELSE old.big]
      [] kind = "delete" -> NoRow

Change(t, k, kind) ==
    LET x == config.firstXid + Begun
    IN  [xid |-> x, pos |-> wal + 1, commit |-> 0, idx |-> 0,
         table |-> t, key |-> k, row |-> After(kind, x, rows[<<t, k>>])]

Write(t, k, kind) ==
    /\ Begun < config.txs
    /\ kind \in config.kinds
    /\ ~Locked(t, k)
    /\ (kind = "insert") <=> (rows[<<t, k>>] = NoRow)

Append2Log(e, position) ==
    LET entry == [e EXCEPT !.commit = position, !.idx = Len(log) + 1]
    IN  /\ log' = Append(log, entry)
        /\ logged' = [logged EXCEPT ![<<e.table, e.key>>] = Written(@, e)]

\* PostgreSQL keeps each change's own position and orders the stream by commit.
PostgresWrite(t, k, kind) ==
    /\ IsPostgres
    /\ Write(t, k, kind)
    /\ open' = open \union {Change(t, k, kind)}
    /\ wal' = wal + 1
    /\ UNCHANGED <<config, rows, logged, log, visible, captured>>

PostgresCommit(e) ==
    /\ e \in open
    /\ open' = open \ {e}
    /\ Append2Log(e, wal + 1)
    /\ wal' = wal + 1
    /\ UNCHANGED <<config, rows, visible, captured>>

MysqlFlush(t, k, kind) ==
    /\ IsMysql
    /\ Write(t, k, kind)
    /\ Append2Log(Change(t, k, kind), wal + 1)
    /\ wal' = wal + 1
    /\ UNCHANGED <<config, rows, open, visible, captured>>

\* MySQL commits in the order of the binlog (binlog_order_commits), PostgreSQL in any.
BecomeVisible(e) ==
    /\ e \in ToSet(log)
    /\ e.xid \notin visible
    /\ IsMysql => \A f \in ToSet(log) : f.idx < e.idx => f.xid \in visible
    /\ visible' = visible \union {e.xid}
    /\ rows' = [rows EXCEPT ![<<e.table, e.key>>] = Written(@, e)]
    /\ UNCHANGED <<config, logged, open, log, captured, wal>>

SqlServerCommit(t, k, kind) ==
    /\ IsSqlServer
    /\ Write(t, k, kind)
    /\ LET e == Change(t, k, kind)
       IN  /\ Append2Log(e, wal + 1)
           /\ visible' = visible \union {e.xid}
           /\ rows' = [rows EXCEPT ![<<t, k>>] = Written(@, e)]
    /\ wal' = wal + 1
    /\ UNCHANGED <<config, open, captured>>

Capture ==
    /\ IsSqlServer
    /\ captured < Len(log)
    /\ captured' = captured + 1
    /\ UNCHANGED <<config, rows, logged, open, log, visible, wal>>

\* How much of the log a replication stream has been sent.  A server may send a
\* transaction that no SELECT sees yet (config.streamsInvisible).
Available ==
    IF IsSqlServer THEN captured
    ELSE Max({n \in 0 .. Len(log) :
                 config.streamsInvisible \/ \A i \in 1 .. n : log[i].xid \in visible})

(***************************************************************************)
(* The backends.                                                           *)
(***************************************************************************)
\* PgSnapshotFence reduces ids to pgoutput's 32 bits.
Reduce(x) == x % XidSpan

PgSnapshotFence ==
    LET completed == visible \union {config.firstXid - 1}
        xmax == Max(completed) + 1
    IN  [xmax |-> Reduce(xmax),
         xip |-> {Reduce(e.xid) : e \in {f \in Unfinished : f.xid < xmax}}]

\* Mutant: the in-progress list alone, without the transactions above xmax.
was_invisible_xip_only(fence, x) == x \in fence.xip

was_invisible(fence, x) == x >= fence.xmax \/ x \in fence.xip

NoFence == [xmax |-> 0, xip |-> {}]

postgres_position == [pos |-> wal, fence |-> PgSnapshotFence, gtids |-> {}]

\* The executed GTIDs hold the history before the first modelled transaction.
mysql_position ==
    [pos |-> wal, fence |-> NoFence, gtids |-> visible \union {config.firstXid - 1}]

sqlserver_position == [pos |-> captured, fence |-> NoFence, gtids |-> {}]

current_position ==
    CASE IsPostgres -> postgres_position
      [] IsMysql -> mysql_position
      [] IsSqlServer -> sqlserver_position

default_bracket(e, low, high) ==
    CASE e.pos > high.pos -> "After"
      [] e.pos <= high.pos /\ e.pos > low.pos -> "Inside"
      [] OTHER -> "Before"

postgres_bracket(e, low, high) ==
    CASE e.pos > high.pos -> "After"
      [] e.pos <= high.pos /\ (e.pos > low.pos \/ was_invisible(low.fence, Reduce(e.xid))) -> "Inside"
      [] OTHER -> "Before"

mysql_bracket(e, low, high) ==
    CASE low.gtids = {} /\ high.gtids = {} -> default_bracket(e, low, high)
      [] e.xid \notin high.gtids -> "After"
      [] e.xid \in low.gtids -> "Before"
      [] OTHER -> "Inside"

event_in_bracket(e, low, high) ==
    CASE IsPostgres -> postgres_bracket(e, low, high)
      [] IsMysql -> mysql_bracket(e, low, high)
      [] IsSqlServer -> default_bracket(e, low, high)

\* One SELECT: the first `limit` rows past the cursor in key order.
fetch_chunk(t, cursor, limit) ==
    LET keys == SetToSortSeq({k \in Key : k > cursor /\ rows[<<t, k>>] # NoRow}, <)
        first == SubSeq(keys, 1, Min({limit, Len(keys)}))
    IN  [i \in DOMAIN first |-> [key |-> first[i], row |-> rows[<<t, first[i]>>]]]

SourceInit ==
    /\ config \in Scenarios
    /\ rows = [r \in RowId |-> IF r \in config.present THEN [a |-> 0, big |-> 0] ELSE NoRow]
    /\ logged = rows
    /\ open = {}
    /\ log = <<>>
    /\ visible = {}
    /\ captured = 0
    /\ wal = 0

SourceNext ==
    \/ \E t \in config.names, k \in Key, kind \in {"insert", "rewrite", "touch", "delete"} :
          \/ PostgresWrite(t, k, kind)
          \/ MysqlFlush(t, k, kind)
          \/ SqlServerCommit(t, k, kind)
    \/ \E e \in open : PostgresCommit(e)
    \/ \E e \in ToSet(log) : BecomeVisible(e)
    \/ Capture
=============================================================================

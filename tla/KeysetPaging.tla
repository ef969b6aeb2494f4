---------------------------- MODULE KeysetPaging ----------------------------
(***************************************************************************)
(* How a snapshot pages through one table by its primary key: the chunk    *)
(* SELECT each connector writes, the cursor it takes from the last row and *)
(* binds again as parameters, the operator's row filter, and what of this  *)
(* a restart restores.  `reader` is the incremental snapshot driver or the *)
(* bulk snapshot, which has no filter and reads a frozen view.             *)
(*                                                                         *)
(* A row is identified by two columns; the primary key is the first `pk`   *)
(* of them.  A third column, the tenant, is what a filter selects on: a    *)
(* filter is the set of tenants it accepts.  The text of a SELECT is       *)
(* abstracted to its WHERE clause as SQL reads it: AND binds tighter than  *)
(* OR, so the clause is a sequence of alternatives, each a set of factors. *)
(***************************************************************************)
EXTENDS Integers, Sequences, FiniteSets, TLC

CONSTANTS
    Setups,      \* the tables and configurations Init chooses from
    I64_MAX,     \* the largest number an i64 holds
    U64_MAX,     \* the largest number a u64 holds
    MaxWrites,   \* number of writes to the table while it is read
    MaxStarts    \* number of times the process starts

VARIABLES
    setup,       \* the chosen table and configuration
    rows,        \* the table: row identity -> tenant
    pk,          \* number of primary-key columns the catalog reports
    progress,    \* the reader's TableProgress, or Unknown when it has none
    saved,       \* the entry of the last checkpoint, or Unknown
    wanted,      \* the filter the operator asked for
    delivered,   \* identities of the rows handed over
    unwanted,    \* those of them that the filter rejects
    repeated,    \* those handed over twice by one process
    thisRun,     \* those handed over since the last start
    steady,      \* rows the filter accepted since the table was asked for
    blurred,     \* rows a rounded cursor could not tell from the one it stands for
    writes,
    starts

vars == <<setup, rows, pk, progress, saved, wanted, delivered, unwanted,
          repeated, thisRun, steady, blurred, writes, starts>>

None == <<>>
Some(x) == <<x>>
Tenants == {0, 1}
Unknown == [known |-> FALSE]
Incremental == setup.reader = "incremental"

(***************************************************************************)
(* The cursor: a key as the row's JSON carries it, and the parameters it   *)
(* is bound as.  FOR JSON writes a number, PostgreSQL a text, MySQL a      *)
(* number or a text after the column's type.  A double stands for two      *)
(* neighbouring numbers beyond I64_MAX, where the doubles grow sparse.     *)
(***************************************************************************)
Rounded(n) == n - (n % 2)
Number(n) == [json |-> "Number", value |-> n]
Text(n) == [json |-> "String", value |-> n]

CursorOf(row, width) ==
    [i \in 1 .. width |-> IF setup.backend = "postgres" THEN Text(row[i])
                          ELSE Number(row[i])]

Param(type, n) == [ok |-> TRUE, type |-> type, value |-> n]
Unbindable == [ok |-> FALSE]

\* PostgreSQL binds the text and casts it back to the column's type.
pg_cursor_param(json) == Param("exact", json.value)

mysql_json_value_to_param(json) ==
    IF json.json = "Number" /\ json.value > U64_MAX
    THEN Param("double", Rounded(json.value))
    ELSE Param("exact", json.value)

\* The incremental backend: i64, else f64.
json_value_to_cursor_param(json) ==
    IF json.json = "Number" /\ json.value > I64_MAX
    THEN Param("double", Rounded(json.value))
    ELSE Param("exact", json.value)

\* The bulk snapshot: i64, a u64 that does not fit is an error, else f64.
sqlserver_json_value_to_param(json) ==
    IF json.json = "String" \/ json.value <= I64_MAX THEN Param("exact", json.value)
    ELSE IF json.value <= U64_MAX THEN Unbindable
    ELSE Param("double", Rounded(json.value))

ParamOf(json) ==
    CASE setup.backend = "postgres" -> pg_cursor_param(json)
      [] setup.backend = "mysql" -> mysql_json_value_to_param(json)
      [] OTHER -> IF Incremental THEN json_value_to_cursor_param(json)
                  ELSE sqlserver_json_value_to_param(json)

\* The server compares a column with a double as doubles.
Column(row, i, param) == IF param.type = "double" THEN Rounded(row[i]) ELSE row[i]
Equal(row, i, param) == Column(row, i, param) = param.value
Greater(row, i, param) == Column(row, i, param) > param.value

(***************************************************************************)
(* The WHERE clause.  A factor is a key comparison or the row filter.      *)
(***************************************************************************)
Eq(i, param) == [is |-> "eq", column |-> i, param |-> param]
Gt(i, param) == [is |-> "gt", column |-> i, param |-> param]
RowGt(params) == [is |-> "row_gt", params |-> params]
Filter(condition) == [is |-> "filter", accepts |-> condition]

FactorHolds(f, row, tenant) ==
    CASE f.is = "eq" -> Equal(row, f.column, f.param)
      [] f.is = "gt" -> Greater(row, f.column, f.param)
      [] f.is = "row_gt" ->
            \E i \in DOMAIN f.params : /\ Greater(row, i, f.params[i])
                                       /\ \A j \in 1 .. i - 1 : Equal(row, j, f.params[j])
      [] f.is = "filter" -> tenant \in f.accepts

\* No alternative at all is no WHERE clause.
Holds(where, row, tenant) ==
    \/ where = <<>>
    \/ \E i \in DOMAIN where : \A f \in where[i] : FactorHolds(f, row, tenant)

\* Text appended to a clause joins its last alternative.
AndLast(where, f) == [where EXCEPT ![Len(where)] = @ \union {f}]

condition_clause(where, condition) ==
    IF condition = None THEN where
    ELSE IF where = <<>> THEN <<{Filter(condition[1])}>>
    ELSE AndLast(where, Filter(condition[1]))

\* A seek that compares every key column on its own (mutant of the next).
SeekWithoutPrefix(width, params) ==
    [i \in 1 .. width |-> {Gt(i, params[i])}]

\* (k1 > @P1) OR (k1 = @P1 AND k2 > @P2) ...
build_seek_where_clause(width, params) ==
    [i \in 1 .. width |-> {Eq(j, params[j]) : j \in 1 .. i - 1} \union {Gt(i, params[i])}]

\* The limit is the parameter after the cursor's.
build_snapshot_fetch_sql(width, params, limit, seek, condition) ==
    condition_clause(IF seek
                     THEN build_seek_where_clause(width, Append(params, Param("exact", limit)))
                     ELSE <<>>,
                     condition)

row_constructor_sql(params, seek, condition) ==
    condition_clause(IF seek THEN <<{RowGt(params)}>> ELSE <<>>, condition)

(***************************************************************************)
(* One chunk.                                                              *)
(***************************************************************************)
Less(a, b, width) ==
    \E i \in 1 .. width : a[i] < b[i] /\ \A j \in 1 .. i - 1 : a[j] = b[j]

Selected(where) == {r \in DOMAIN rows : Holds(where, r, rows[r])}

\* ORDER BY the key LIMIT n: those with fewer than n selected rows before them.
Page(where, width, limit) ==
    LET chosen == Selected(where) IN
    {r \in chosen : Cardinality({q \in chosen : Less(q, r, width)}) < limit}

LastOf(page, width) == CHOOSE r \in page : \A q \in page : ~Less(r, q, width)

Params(cursor) == [i \in DOMAIN cursor |-> ParamOf(cursor[i])]

\* The SELECT the server can run: every parameter binds, and the cursor has
\* the width the statement needs.  The bulk readers and PostgreSQL compare the
\* widths themselves; MySQL rejects the row constructor; SQL Server's statement
\* only lacks a parameter when the limit does not stand in for it.
Runs(p) ==
    p.cursor # None =>
       /\ \A i \in DOMAIN p.cursor[1] : ParamOf(p.cursor[1][i]).ok
       /\ IF setup.backend = "sqlserver" /\ Incremental
          THEN p.width <= Len(p.cursor[1]) + 1
          ELSE p.width = Len(p.cursor[1])

fetch_chunk(p) ==
    LET seek == p.cursor # None
        params == IF seek THEN Params(p.cursor[1]) ELSE <<>>
        where == IF setup.backend = "sqlserver"
                 THEN build_snapshot_fetch_sql(p.width, params, setup.limit, seek, p.condition)
                 ELSE row_constructor_sql(params, seek, p.condition)
    IN Page(where, p.width, setup.limit)

(***************************************************************************)
(* The driver.  Conditions are named tables with a filter each; a table is *)
(* found under the name the operator wrote or under its canonical name, in *)
(* the order of a hash map: any of them.                                   *)
(***************************************************************************)
lookup_condition(conditions, table_ref) ==
    LET named == DOMAIN conditions \intersect {table_ref, "public.orders"} IN
    IF named = {} THEN {None} ELSE {Some(conditions[n]) : n \in named}

describe_with_condition(conditions, table_ref) ==
    {[known |-> TRUE, width |-> pk, condition |-> c, cursor |-> None,
      is_complete |-> FALSE] : c \in lookup_condition(conditions, table_ref)}

Resumed(spec, entry) ==
    IF ~entry.known THEN spec
    ELSE [spec EXCEPT !.cursor = entry.cursor, !.is_complete = entry.is_complete]

\* A configured table: a cursor of another width is refused.
\* A table only the checkpoint knows: adopted unless it was finished.
Opened ==
    IF ~Incremental
    THEN {Resumed([known |-> TRUE, width |-> pk, condition |-> None, cursor |-> None,
                   is_complete |-> FALSE], saved)}
    ELSE IF setup.configured
    THEN {Resumed(s, saved) : s \in {x \in describe_with_condition(setup.conditions, setup.table_ref) :
              saved.known => (saved.cursor = None \/ Len(saved.cursor[1]) = x.width)}}
    ELSE IF saved.known /\ ~saved.is_complete
    THEN {Resumed(s, saved) : s \in describe_with_condition(setup.conditions, "public.orders")}
    ELSE {Unknown}

\* Rows the filter accepts now.
Accepted(filter) == {r \in DOMAIN rows : rows[r] \in filter}

\* What the operator asked for: the request's filter, else the configured one.
AskedFor ==
    IF setup.request # None /\ setup.request[1].conditions # <<>>
    THEN setup.request[1].conditions[CHOOSE n \in DOMAIN setup.request[1].conditions : TRUE]
    ELSE IF setup.conditions # <<>>
    THEN setup.conditions[CHOOSE n \in DOMAIN setup.conditions : TRUE]
    ELSE Tenants

Init ==
    /\ setup \in Setups
    /\ rows = setup.rows
    /\ pk = setup.pk
    /\ saved = Unknown
    /\ progress = Unknown
    /\ wanted = AskedFor
    /\ delivered = {} /\ unwanted = {} /\ repeated = {} /\ thisRun = {} /\ blurred = {}
    /\ steady = Accepted(AskedFor)
    /\ writes = 0
    /\ starts = 0

\* The process starts, after a crash or a stop at any moment:
\* IncrementalSnapshotDriver::new, or the bulk snapshot's start or resume.
new ==
    /\ starts < MaxStarts
    /\ progress' \in Opened
    /\ thisRun' = {}
    /\ starts' = starts + 1
    /\ UNCHANGED <<setup, rows, pk, saved, wanted, delivered, unwanted, repeated,
                   steady, blurred, writes>>

\* A snapshot asked for at runtime; the request's conditions override.
enqueue_tables ==
    /\ Incremental /\ starts > 0 /\ setup.request # None
    /\ ~progress.known /\ ~saved.known
    /\ progress' \in describe_with_condition(setup.request[1].conditions @@ setup.conditions,
                                             setup.request[1].table_ref)
    /\ steady' = Accepted(wanted)
    /\ UNCHANGED <<setup, rows, pk, saved, wanted, delivered, unwanted, repeated,
                   thisRun, blurred, writes, starts>>

\* History: rows that differ from the cursor in a column and compare equal to it
\* there, because the cursor is bound as a double.
Confused(cursor) ==
    IF cursor = None THEN {}
    ELSE {r \in DOMAIN rows : \E i \in DOMAIN cursor[1] :
            \E param \in {ParamOf(cursor[1][i])} :
                param.type = "double" /\ r[i] # cursor[1][i].value /\ Equal(r, i, param)}

\* Read a chunk and hand it over.  An empty one ends the table.
ReadChunk ==
    /\ progress.known /\ ~progress.is_complete
    /\ Runs(progress)
    /\ \E page \in {fetch_chunk(progress)} :
          /\ progress' = IF page = {} THEN [progress EXCEPT !.is_complete = TRUE]
                         ELSE [progress EXCEPT !.cursor =
                                 Some(CursorOf(LastOf(page, progress.width), progress.width))]
          /\ delivered' = delivered \union page
          /\ unwanted' = unwanted \union {r \in page : rows[r] \notin wanted}
          /\ repeated' = repeated \union (page \intersect thisRun)
          /\ thisRun' = thisRun \union page
    /\ blurred' = blurred \union Confused(progress.cursor)
    /\ UNCHANGED <<setup, rows, pk, saved, wanted, steady, writes, starts>>

\* The consumer acknowledges: the checkpoint carries the table's progress.
\* The restored state has no filter but the configured one.
save_position ==
    /\ progress.known /\ saved # progress
    /\ saved' = progress
    /\ UNCHANGED <<setup, rows, pk, progress, wanted, delivered, unwanted, repeated,
                   thisRun, steady, blurred, writes, starts>>

(***************************************************************************)
(* The application: rows come, go and change tenant between two chunks.    *)
(***************************************************************************)
Prefix(r, width) == SubSeq(r, 1, width)

Write ==
    /\ writes < MaxWrites
    /\ \E r \in setup.identities :
          \/ /\ "insert" \in setup.writes /\ r \notin DOMAIN rows
             /\ \A q \in DOMAIN rows : Prefix(q, pk) # Prefix(r, pk)
             /\ \E t \in Tenants : rows' = (r :> t) @@ rows
             /\ steady' = steady \ {r}
          \/ /\ "delete" \in setup.writes /\ r \in DOMAIN rows
             /\ rows' = [q \in DOMAIN rows \ {r} |-> rows[q]]
             /\ steady' = steady \ {r}
          \/ /\ "update" \in setup.writes /\ r \in DOMAIN rows
             /\ rows' = [rows EXCEPT ![r] = 1 - @]
             /\ steady' = steady \ {r}
    /\ writes' = writes + 1
    /\ UNCHANGED <<setup, pk, progress, saved, wanted, delivered, unwanted, repeated,
                   thisRun, blurred, starts>>

\* The primary key gains its second column, between two runs of the process.
WidenKey ==
    /\ "widen" \in setup.writes /\ pk = 1 /\ saved.known
    /\ starts < MaxStarts
    /\ pk' = 2
    /\ progress' = Unknown
    /\ UNCHANGED <<setup, rows, saved, wanted, delivered, unwanted, repeated,
                   thisRun, steady, blurred, writes, starts>>

Next == new \/ enqueue_tables \/ ReadChunk \/ save_position \/ Write \/ WidenKey

\* A process that is down is started, and a running one polls on.
Proceed == (~progress.known /\ new) \/ enqueue_tables \/ ReadChunk

Spec == Init /\ [][Next]_vars /\ WF_vars(Proceed)


(***************************************************************************)
(* Properties.                                                             *)
(***************************************************************************)
\* The state has the shape of the drivers' TableProgress and checkpoint entry.
TypeOK ==
    /\ setup \in Setups
    /\ DOMAIN rows \subseteq setup.identities /\ \A r \in DOMAIN rows : rows[r] \in Tenants
    /\ pk \in 1 .. 2
    /\ \A p \in {progress, saved} : p.known =>
          p.cursor = None \/ \A i \in DOMAIN p.cursor[1] : p.cursor[1][i].value \in Nat
    /\ writes \in 0 .. MaxWrites /\ starts \in 0 .. MaxStarts

\* The row filter selects which rows are snapshotted: no row it rejects is read,
\* whatever the key's width, the chunk, and the restarts in between.
FilterHolds == unwanted = {}

\* One process never reads a row twice: the cursor only moves forward, unless
\* it is bound as a double that another row's key rounds to.
ReadOnce == repeated \subseteq blurred

\* When the table is complete, every row the filter accepted all along was read,
\* but for those a rounded cursor could not tell from the last row of a chunk
\* (a SQL Server key beyond i64, incremental_snapshot.rs:106).
NoRowSkipped ==
    progress.known /\ progress.is_complete => steady \subseteq delivered \union blurred

\* The bulk snapshot of SQL Server cannot bind the cursor: an integer of u64.
Refused ==
    /\ progress.known /\ progress.cursor # None
    /\ \E i \in DOMAIN progress.cursor[1] : ~ParamOf(progress.cursor[1][i]).ok

\* A table that was configured or asked for is read to its end, by this process
\* or by the one whose checkpoint says so, or its cursor is refused.
Complete == Refused \/ \E p \in {progress, saved} : p.known /\ p.is_complete
PagingEnds == <>Complete

====

----------------------------- MODULE SchemaHistory -----------------------------
(***************************************************************************)
(* The schema history (schema_history/mod.rs) with the DDL capture that    *)
(* feeds it and the runtime that records a schema change before it         *)
(* announces it (core/runtime/runtime_poll.rs).  The source database runs  *)
(* a script of statements; processes that own the history file one after   *)
(* the other poll them, record them, hand them to the consumer and commit. *)
(***************************************************************************)
EXTENDS DdlCapture

CONSTANTS Setups,       \* scripts and deployments considered
          MaxFaults,    \* failed writes of the history file
          MaxCrashes

VARIABLES setup,       \* the deployment
          db,          \* the source's tables: name -> columns, key, and the key columns ALTER added
          ran,         \* statements the source has run
          disk,        \* the history file: table key -> entries
          lease,       \* the owner lease: a sequence of at most one process
          procs,       \* the processes
          checkpoint,  \* statements committed
          announced,   \* statements whose schema_change event the consumer has
          rejected,    \* statements the history refused, logged and passed on
          assigned,    \* statement -> versions record_ddl has answered with
          missed,      \* history: entries in the file that its next owner had not read
          faults, crashes
vars == <<setup, db, ran, disk, lease, procs, checkpoint, announced, rejected, assigned,
          missed, faults, crashes>>

Processes == 1..2
Empty == [key \in {} |-> <<>>]

(***************************************************************************)
(* The source database: what a client writes, and what it does.            *)
(***************************************************************************)
T(text) == [t |-> text, q |-> FALSE, sp |-> TRUE]
Tight(text) == [t |-> text, q |-> FALSE, sp |-> FALSE]
Id(name) == [t |-> name.n, q |-> name.q, sp |-> TRUE]
Words(texts) == [i \in DOMAIN texts |-> T(texts[i])]
Glued(ts) == [ts EXCEPT ![Len(ts)].sp = FALSE]
RECURSIVE Joined(_)
Joined(parts) ==
    IF Len(parts) <= 1 THEN IF parts = <<>> THEN <<>> ELSE parts[1]
    ELSE Glued(parts[1]) \o <<T(",")>> \o Joined(Tail(parts))

TargetOf(s) ==
    IF s.qualified THEN <<[Id(s.schema) EXCEPT !.sp = FALSE], Tight("."), Id(s.table)>>
    ELSE <<Id(s.table)>>

ColumnText(c) ==
    <<Id(c.name), Tight("DECIMAL"), Tight("("), Tight("10"), Tight(","), Tight("2"), T(")")>>
    \o (IF c.not_null THEN Words(<<"NOT", "NULL">>) ELSE <<>>)
    \o (IF c.pk THEN Words(<<"PRIMARY", "KEY">>) ELSE <<>>)

ClauseText(c) ==
    CASE c.do = "add" -> Words(IF c.keyword THEN <<"ADD", "COLUMN">> ELSE <<"ADD">>)
                         \o ColumnText(c.column)
      [] c.do = "add_if" -> Words(<<"ADD", "COLUMN", "IF", "NOT", "EXISTS">>) \o ColumnText(c.column)
      [] c.do = "drop" -> Words(IF c.keyword THEN <<"DROP", "COLUMN">> ELSE <<"DROP">>)
                          \o <<Id(c.column.name)>>
      [] c.do = "rename" -> Words(<<"RENAME", "COLUMN">>) \o <<Id(c.column.name), T("TO"), Id(c.to)>>
      [] c.do = "add_list" -> <<T("ADD"), Tight("(")>> \o Glued(ColumnText(c.column)) \o <<T(")")>>
      [] OTHER -> Words(<<"ADD", "UNIQUE", "(">>) \o <<Id(c.column.name), T(")")>>

Statement(s) ==
    CASE s.op = "create" ->
           Words(<<"CREATE", "TABLE">>)
           \o (IF s.guarded THEN Words(<<"IF", "NOT", "EXISTS">>) ELSE <<>>)
           \o (IF s.tight THEN Glued(TargetOf(s)) ELSE TargetOf(s)) \o <<Tight("(")>>
           \o Joined([i \in DOMAIN s.columns |-> ColumnText(s.columns[i])])
           \o (IF s.key = <<>> THEN <<>>
               ELSE <<T(",")>> \o Words(<<"PRIMARY", "KEY">>) \o <<Tight("(")>>
                    \o Joined([i \in DOMAIN s.key |-> <<Id(s.key[i])>>]) \o <<T(")")>>)
           \o <<T(")")>>
      [] s.op = "alter" ->
           Words(<<"ALTER", "TABLE">>)
           \o (IF s.guarded THEN Words(<<"IF", "EXISTS">>) ELSE <<>>)
           \o TargetOf(s) \o Joined([i \in DOMAIN s.clauses |-> ClauseText(s.clauses[i])])
      [] OTHER ->
           Words(<<"DROP", "TABLE">>)
           \o (IF s.guarded THEN Words(<<"IF", "EXISTS">>) ELSE <<>>) \o TargetOf(s)

NameOf(s) == <<<<s.schema.n>>, <<s.table.n>>>>
Col(c) == [name |-> <<c.name.n>>, nullable |-> ~c.not_null]
Renames(c, n) == IF n = <<c.column.name.n>> THEN <<c.to.n>> ELSE n

KeyColumn(c) == IF c.column.pk THEN {<<c.column.name.n>>} ELSE {}

AfterClause(table, c) ==
    CASE c.do \in {"add", "add_if", "add_list"} ->
           [table EXCEPT !.columns = @ \cup {Col(c.column)},
                         !.key = @ \cup KeyColumn(c), !.later = @ \cup KeyColumn(c)]
      [] c.do = "drop" ->
           [columns |-> {d \in table.columns : d.name # <<c.column.name.n>>},
            key |-> table.key \ {<<c.column.name.n>>}, later |-> table.later \ {<<c.column.name.n>>}]
      [] c.do = "rename" ->
           [columns |-> {[d EXCEPT !.name = Renames(c, @)] : d \in table.columns},
            key |-> {Renames(c, n) : n \in table.key}, later |-> {Renames(c, n) : n \in table.later}]
      [] OTHER -> table

Altered(table, clauses) ==
    LET f[n \in 0..Len(clauses)] ==
            IF n = 0 THEN table ELSE AfterClause(f[n - 1], clauses[n])
    IN  f[Len(clauses)]

Created(s) ==
    [columns |-> {Col(s.columns[i]) : i \in DOMAIN s.columns},
     key |-> {<<s.key[i].n>> : i \in DOMAIN s.key}
             \cup {<<s.columns[i].name.n>> : i \in {j \in DOMAIN s.columns : s.columns[j].pk}},
     later |-> {}]

Meaning(s) ==
    CASE s.op = "create" ->
           [n \in DOMAIN db \cup {NameOf(s)} |->
              IF n = NameOf(s) /\ n \notin DOMAIN db THEN Created(s) ELSE db[n]]
      [] s.op = "alter" -> [db EXCEPT ![NameOf(s)] = Altered(@, s.clauses)]
      [] OTHER -> [n \in DOMAIN db \ {NameOf(s)} |-> db[n]]
-----------------------------------------------------------------------------
(***************************************************************************)
(* The store: per table, the entries in the order they were recorded.      *)
(***************************************************************************)
table_key(ddl) == <<ddl.schema, ddl.table>>
EntriesOf(store, key) == IF key \in DOMAIN store THEN store[key] ELSE <<>>
LastOf(seq) == seq[Len(seq)]

next_version(store, key) ==
    IF EntriesOf(store, key) = <<>> THEN 1 ELSE LastOf(EntriesOf(store, key)).version + 1

existing_version_for_ddl(store, key, id) ==
    LET at == {i \in DOMAIN EntriesOf(store, key) : store[key][i].ddl_id = id}
    IN  IF id = Nothing \/ at = {} THEN Nothing ELSE Just(store[key][Least(at)].version)

latest_schema(store, key) ==
    IF EntriesOf(store, key) = <<>> THEN Nothing ELSE LastOf(store[key]).schema

ColumnNames(schema) == {schema.columns[i].name : i \in DOMAIN schema.columns}

\* One operation of a diff: the schema after it, or Nothing when it is refused.
ApplyOperation(schema, o) ==
    CASE o.op = "AddColumn" ->
           IF o.column.name \in ColumnNames(schema) THEN Nothing
           ELSE Just([columns |-> Append(schema.columns, o.column),
                      primary_keys |-> IF /\ "primary_key" \in o.column.constraints
                                          /\ \A i \in DOMAIN schema.primary_keys :
                                               schema.primary_keys[i] # o.column.name
                                       THEN Append(schema.primary_keys, o.column.name)
                                       ELSE schema.primary_keys])
      [] o.op = "DropColumn" ->
           IF o.name \notin ColumnNames(schema) THEN Nothing
           ELSE Just([columns |-> SelectSeq(schema.columns, LAMBDA c : c.name # o.name),
                      primary_keys |-> SelectSeq(schema.primary_keys, LAMBDA k : k # o.name)])
      [] o.op = "RenameColumn" ->
           IF o.to \in ColumnNames(schema) \/ o.from \notin ColumnNames(schema) THEN Nothing
           ELSE Just([columns |-> [i \in DOMAIN schema.columns |->
                          IF schema.columns[i].name = o.from
                          THEN [schema.columns[i] EXCEPT !.name = o.to] ELSE schema.columns[i]],
                      primary_keys |-> [i \in DOMAIN schema.primary_keys |->
                          IF schema.primary_keys[i] = o.from THEN o.to ELSE schema.primary_keys[i]]])
      [] OTHER -> Nothing

apply_schema_diff(schema, diff) ==
    LET f[n \in 0..Len(diff)] ==
            IF n = 0 THEN Just(schema)
            ELSE IF f[n - 1] = Nothing THEN Nothing ELSE ApplyOperation(f[n - 1][1], diff[n])
    IN  f[Len(diff)]

Pushed(store, key, schema, id) ==
    [k \in DOMAIN store \cup {key} |->
       IF k # key THEN store[k]
       ELSE Append(EntriesOf(store, key),
                   [version |-> next_version(store, key), schema |-> schema, ddl_id |-> id])]

\* The version answered and the store after; version Nothing when the DDL is refused.
record_ddl_in_store(store, id, ddl) ==
    LET key == table_key(ddl)
        known == existing_version_for_ddl(store, key, id)
        last == latest_schema(store, key)
        schema == CASE ddl.kind \in {"CreateTable", "AlterTable"} ->
                         Just([columns |-> ddl.columns, primary_keys |-> ddl.primary_keys])
                    [] ddl.kind = "AlterTableDiff" /\ last # Nothing ->
                         apply_schema_diff(last[1], ddl.diff)
                    [] OTHER -> Nothing
    IN  IF known # Nothing THEN [version |-> known, store |-> store]
        ELSE IF ddl.kind # "DropTable" /\ schema = Nothing
        THEN [version |-> Nothing, store |-> store]
        ELSE [version |-> Just(next_version(store, key)), store |-> Pushed(store, key, schema, id)]

apply_store_retention(store, keep) ==
    [k \in DOMAIN store |->
       IF Len(store[k]) > keep THEN From(store[k], Len(store[k]) - keep + 1) ELSE store[k]]

\* SchemaValidator::validate_event on a row: the columns reported.
validate_event(store, key, row) ==
    LET schema == latest_schema(store, key)
    IN  IF schema = Nothing THEN {<<"schema">>}
        ELSE LET columns == {schema[1].columns[i] : i \in DOMAIN schema[1].columns}
             IN  {c.name : c \in {d \in columns : d.name \notin row /\ ~d.nullable}}
                 \cup {n \in row : n \notin ColumnNames(schema[1])}
-----------------------------------------------------------------------------
Down == [stage |-> "down", store |-> Empty, next |-> 0]

Init ==
    /\ setup \in Setups
    /\ db = Empty /\ ran = 0
    /\ disk = Empty /\ lease = Nothing
    /\ procs = [p \in Processes |-> Down]
    /\ checkpoint = 0
    /\ announced = {} /\ rejected = {}
    /\ assigned = [i \in DOMAIN setup.script |-> {}]
    /\ missed = {}
    /\ faults = 0 /\ crashes = 0

Becomes(p, proc) == procs' = [procs EXCEPT ![p] = proc]

Runs ==
    /\ ran < Len(setup.script)
    /\ ran' = ran + 1
    /\ db' = Meaning(setup.script[ran + 1])
    /\ UNCHANGED <<setup, disk, lease, procs, checkpoint, announced, rejected, assigned, missed, faults, crashes>>

\* FileSchemaHistory::new reads the file first and takes the lease second.
load_store(p) ==
    /\ procs[p].stage = "down"
    /\ setup.overlap \/ \A q \in Processes : procs[q].stage = "down"
    /\ Becomes(p, [Down EXCEPT !.stage = "loaded",
                               !.store = IF setup.backend = "file" THEN disk ELSE Empty])
    /\ UNCHANGED <<setup, db, ran, disk, lease, checkpoint, announced, rejected, assigned, missed, faults, crashes>>

\* The entries of the file, each with its table, that a store does not hold.
Unread(store) ==
    UNION {{<<k, disk[k][i]>> : i \in {j \in DOMAIN disk[k] :
                \A h \in DOMAIN EntriesOf(store, k) : store[k][h] # disk[k][j]}} : k \in DOMAIN disk}

acquire(p) ==
    /\ procs[p].stage = "loaded"
    /\ IF lease # Nothing /\ procs[lease[1]].stage \in {"up", "failed"}
       THEN Becomes(p, Down) /\ UNCHANGED <<lease, missed>>
       ELSE /\ Becomes(p, [procs[p] EXCEPT !.stage = "up", !.next = checkpoint + 1])
            /\ lease' = Just(p)
            /\ missed' = missed \cup Unread(procs[p].store)
    /\ UNCHANGED <<setup, db, ran, disk, checkpoint, announced, rejected, assigned, faults, crashes>>

\* persist_store: an error before the rename leaves the file, one after it does not undo it.
persist_store(store, outcome) ==
    IF setup.backend = "memory" \/ outcome = "before" THEN UNCHANGED disk ELSE disk' = store

Announces(p, i, store) ==
    /\ announced' = announced \cup {i}
    /\ Becomes(p, [procs[p] EXCEPT !.store = store, !.next = i + 1])

PollFails(p, store) ==
    /\ Becomes(p, [procs[p] EXCEPT !.store = store, !.stage = "failed"])
    /\ UNCHANGED announced

\* verify_lease_still_held refuses the write before anything is written.
Outcomes(p) ==
    CASE setup.backend = "memory" -> {"ok"}
      [] setup.backend = "file" /\ lease # Just(p) -> {"before"}
      [] OTHER -> {"ok"} \cup IF faults < MaxFaults THEN {"before", "after"} ELSE {}

\* A recorded DDL is persisted, and once more when retention trims the store; the poll fails
\* when either write does.
Persists(p, before, recorded, kept) ==
    \/ /\ recorded = before /\ kept = recorded
       /\ Announces(p, procs[p].next, kept)
       /\ UNCHANGED <<disk, faults>>
    \/ /\ recorded # before \/ kept # recorded
       /\ "ok" \in Outcomes(p)
       /\ persist_store(kept, "ok")
       /\ Announces(p, procs[p].next, kept)
       /\ UNCHANGED faults
    \/ \E outcome \in Outcomes(p) \ {"ok"} :
         /\ faults' = faults + 1
         /\ \/ /\ recorded # before
               /\ persist_store(recorded, outcome)
               /\ PollFails(p, recorded)
            \/ /\ kept # recorded
               /\ persist_store(IF outcome = "before" THEN recorded ELSE kept, "ok")
               /\ PollFails(p, kept)

Records(p, recorded) ==
    \/ /\ recorded.version = Nothing
       /\ rejected' = rejected \cup {procs[p].next}
       /\ Announces(p, procs[p].next, procs[p].store)
       /\ UNCHANGED <<disk, assigned, faults>>
    \/ /\ recorded.version # Nothing
       /\ UNCHANGED rejected
       /\ assigned' = [assigned EXCEPT ![procs[p].next] = @ \cup {recorded.version[1]}]
       /\ Persists(p, procs[p].store, recorded.store,
                   apply_store_retention(recorded.store, setup.retention))

\* One schema_change event of a poll: record it, apply retention, then announce it.
record_schema_change_events(p) ==
    LET i == procs[p].next
    IN  /\ procs[p].stage = "up" /\ i <= ran
        /\ UNCHANGED <<setup, db, ran, lease, checkpoint, missed, crashes>>
        /\ \E captured \in {extract_captured_ddl("mysql", Statement(setup.script[i]))} :
             \/ /\ captured = Nothing
                /\ Becomes(p, [procs[p] EXCEPT !.next = i + 1])
                /\ UNCHANGED <<disk, announced, rejected, assigned, faults>>
             \/ /\ captured # Nothing
                /\ \E event \in {to_schema_event(from_event_payload(to_event(captured[1]).after)[1])} :
                     \/ /\ event = Nothing
                        /\ Announces(p, i, procs[p].store)
                        /\ UNCHANGED <<disk, rejected, assigned, faults>>
                     \/ /\ event # Nothing
                        /\ \E recorded \in {record_ddl_in_store(procs[p].store, Just(i), event[1])} :
                             Records(p, recorded)

Commits(p) ==
    /\ procs[p].stage = "up" /\ checkpoint < procs[p].next - 1
    /\ checkpoint' = procs[p].next - 1
    /\ UNCHANGED <<setup, db, ran, disk, lease, procs, announced, rejected, assigned, missed, faults, crashes>>

\* stop and start of the same runtime: the history object, and its memory, stay.
RestartsInPlace(p) ==
    /\ setup.in_place /\ procs[p].stage = "failed"
    /\ Becomes(p, [procs[p] EXCEPT !.stage = "up", !.next = checkpoint + 1])
    /\ UNCHANGED <<setup, db, ran, disk, lease, checkpoint, announced, rejected, assigned, missed, faults, crashes>>

\* A crash leaves the lease file behind; an orderly exit removes it.
Ends(p) ==
    /\ procs[p].stage # "down"
    /\ crashes < MaxCrashes \/ procs[p].stage = "failed"
    /\ crashes' = IF procs[p].stage = "failed" THEN crashes ELSE crashes + 1
    /\ Becomes(p, Down)
    /\ lease' \in IF lease = Just(p) THEN {lease, Nothing} ELSE {lease}
    /\ UNCHANGED <<setup, db, ran, disk, checkpoint, announced, rejected, assigned, missed, faults>>

Next ==
    \/ Runs
    \/ \E p \in Processes :
         \/ load_store(p) \/ acquire(p) \/ record_schema_change_events(p)
         \/ Commits(p) \/ RestartsInPlace(p) \/ Ends(p)

Spec == Init /\ [][Next]_vars
-----------------------------------------------------------------------------
\* Versions of a table ascend by one, the file holds what some process recorded, and a
\* running process polls no further than the source has written.
TypeOK ==
    /\ \A k \in DOMAIN disk : \A i \in 1..(Len(disk[k]) - 1) :
         disk[k][i + 1].version = disk[k][i].version + 1
    /\ checkpoint <= ran
    /\ \A p \in Processes : procs[p].next <= ran + 1
    /\ announced \subseteq 1..ran

\* A table none of whose entries was in the file, unread, when the lease changed hands;
\* and a statement none of whose predecessors on its table, nor itself, was.
Handed(k) == \A m \in missed : m[1] # k
HandedUpTo(i) == \A m \in missed : m[2].ddl_id[1] > i

\* A consumer never observes a schema change the durable history does not contain:
\* record_schema_change_events persists a DDL before the event announcing it is handed
\* on, through failed writes, crashes and replays.  An entry that the next owner of the
\* file had not read when it took the lease may be gone.
RecordedBeforeAnnounced ==
    setup.backend = "file" =>
      \A i \in announced \ rejected :
        \A v \in assigned[i] :
          \/ \E m \in missed : m[2].ddl_id = Just(i)
          \/ \E k \in DOMAIN disk :
               \/ \E j \in DOMAIN disk[k] : disk[k][j].ddl_id = Just(i)
               \/ disk[k] # <<>> /\ disk[k][1].version > v

\* A statement has one version however often it is delivered: record_ddl answers a
\* replay with the version it assigned, unless an owner of the file had not read the
\* entry of the statement or of an earlier one.
VersionsAreStable == \A i \in DOMAIN assigned : HandedUpTo(i) => Cardinality(assigned[i]) <= 1

\* Once every statement is recorded and none was refused, the latest schema of every
\* table is the source's: its columns, its key but for a column that ALTER TABLE added
\* as PRIMARY KEY, and a row of it passes validate_event; a dropped table has none.
\* Tables with an entry that an owner of the file had not read are excepted.
HistoryTracksTables ==
    \A p \in Processes :
      (procs[p].stage = "up" /\ procs[p].next > ran /\ rejected = {} /\ setup.backend = "file") =>
        LET store == procs[p].store
        IN  /\ \A n \in {t \in DOMAIN db : Handed(t)} :
                 LET schema == latest_schema(store, n)
                 IN  /\ schema # Nothing
                     /\ ColumnNames(schema[1]) = {c.name : c \in db[n].columns}
                     /\ {schema[1].primary_keys[i] : i \in DOMAIN schema[1].primary_keys}
                          = db[n].key \ db[n].later
                     /\ validate_event(store, n, {c.name : c \in db[n].columns}) = {}
            /\ \A k \in DOMAIN store \ DOMAIN db : Handed(k) => latest_schema(store, k) = Nothing

\* An entry in the file leaves it only by retention, oldest first, or because the owner
\* that rewrites the file read it before that entry was written and took the lease after:
\* FileSchemaHistory::new does not read again once it holds the lease.
KeepsEntries ==
    \A k \in DOMAIN disk : \A i \in DOMAIN disk[k] :
        \/ <<k, disk[k][i]>> \in missed
        \/ /\ k \in DOMAIN disk'
           /\ \/ \E j \in DOMAIN disk'[k] : disk'[k][j] = disk[k][i]
              \/ disk'[k] # <<>> /\ disk'[k][1].version > disk[k][i].version

EntriesStay == [][KeepsEntries]_vars
=============================================================================

------------------------------ MODULE DdlCapture ------------------------------
(***************************************************************************)
(* The DDL parser (ddl_capture/): from the tokens of a statement to the    *)
(* captured DDL, the schema_change event and the schema-history event.     *)
(*                                                                         *)
(* A token is [t, q, sp]: its text, whether it is a quoted identifier, and *)
(* whether whitespace follows it.  Keywords are upper case, so matching a  *)
(* keyword is matching an unquoted token.  A name is the tuple of the      *)
(* token texts it is made of: <<"users">>, or more when the parser runs    *)
(* past the end of it.  Statement and Meaning are the reference: how a     *)
(* client writes a statement, and what the database does for it.           *)
(***************************************************************************)
EXTENDS Integers, Sequences, FiniteSets

Nothing == <<>>
Just(x) == <<x>>

default_schema == [mysql |-> <<"default">>, postgres |-> <<"public">>, sqlserver |-> <<"dbo">>]

Is(token, text) == ~token.q /\ token.t = text
StartsWith(ts, keywords) ==
    /\ Len(ts) >= Len(keywords)
    /\ \A i \in DOMAIN keywords : Is(ts[i], keywords[i])
From(ts, i) == SubSeq(ts, i, Len(ts))
Positions(ts, texts) == {i \in DOMAIN ts : ~ts[i].q /\ ts[i].t \in texts}
Least(S) == CHOOSE i \in S : \A j \in S : i <= j
Greatest(S) == CHOOSE i \in S : \A j \in S : i >= j

\* The first whitespace-delimited word, and the tokens after it.
WordEnd(ts) == Least({i \in DOMAIN ts : ts[i].sp \/ i = Len(ts)})
Word(ts) == IF ts = <<>> THEN <<>> ELSE SubSeq(ts, 1, WordEnd(ts))
AfterWord(ts) == IF ts = <<>> THEN <<>> ELSE From(ts, WordEnd(ts) + 1)

(***************************************************************************)
(* Names.  Trailing separators are cut; quotes are removed.                *)
(***************************************************************************)
normalize_identifier(ts) ==
    LET kept == {i \in DOMAIN ts : ts[i].q \/ ts[i].t \notin {",", ";"}}
        end  == IF kept = {} THEN 0 ELSE Greatest(kept)
    IN  [i \in 1..end |-> ts[i].t]

strip_optional_keyword(ts, keywords) ==
    IF StartsWith(ts, keywords) /\ (ts[Len(keywords)].sp \/ Len(ts) = Len(keywords))
    THEN From(ts, Len(keywords) + 1)
    ELSE ts

strip_alter_target_modifiers(ts) ==
    strip_optional_keyword(strip_optional_keyword(ts, <<"ONLY">>), <<"IF", "EXISTS">>)

\* A word is cut at its dots; a parenthesis, comma or semicolon ends the name only
\* where a part would begin.
split_qualified_identifier_parts(ts) ==
    LET word == Word(ts)
        Starts(i) == i = 1 \/ Is(word[i - 1], ".")
        stops == {i \in Positions(word, {"(", ",", ";"}) : Starts(i)}
        name  == IF stops = {} THEN word ELSE SubSeq(word, 1, Least(stops) - 1)
        dots  == Positions(name, {"."})
        lows  == {1} \cup {d + 1 : d \in dots}
        Upper(l) == IF \E d \in dots : d >= l THEN Least({d \in dots : d >= l}) - 1
                    ELSE Len(name)
    IN  IF name = <<>> THEN <<>>
        ELSE [i \in 1..Cardinality(lows) |->
                LET l == CHOOSE x \in lows : Cardinality({y \in lows : y < x}) = i - 1
                IN  SubSeq(name, l, Upper(l))]

extract_qualified_name_with_default(ts, default) ==
    LET parts == split_qualified_identifier_parts(ts)
    IN  CASE parts = <<>> -> Nothing
          [] Len(parts) = 1 -> Just([schema |-> default, table |-> normalize_identifier(parts[1])])
          [] OTHER -> Just([schema |-> normalize_identifier(parts[Len(parts) - 1]),
                            table  |-> normalize_identifier(parts[Len(parts)])])

parse_schema_table_for_dialect(dialect, ts) ==
    LET after == From(ts, 3)
        target == CASE Is(ts[1], "ALTER") -> strip_alter_target_modifiers(after)
                    [] Is(ts[1], "DROP") -> strip_optional_keyword(after, <<"IF", "EXISTS">>)
                    [] OTHER -> after
    IN  extract_qualified_name_with_default(target, default_schema[dialect])

(***************************************************************************)
(* Clauses: cut at the commas outside parentheses.                         *)
(***************************************************************************)
Depth(ts, i) ==
    Cardinality({j \in 1..(i - 1) : Is(ts[j], "(")}) - Cardinality({j \in 1..(i - 1) : Is(ts[j], ")")})

split_sql_clauses(ts) ==
    LET cuts == {i \in Positions(ts, {","}) : Depth(ts, i) = 0}
        lows == {1} \cup {c + 1 : c \in cuts}
        Upper(l) == IF \E c \in cuts : c >= l THEN Least({c \in cuts : c >= l}) - 1 ELSE Len(ts)
        all == [i \in 1..Cardinality(lows) |->
                  LET l == CHOOSE x \in lows : Cardinality({y \in lows : y < x}) = i - 1
                  IN  SubSeq(ts, l, Upper(l))]
    IN  SelectSeq(all, LAMBDA clause : clause # <<>>)

\* A clause defines or names a column unless its first word is one of these.
is_column_clause_candidate(ts) ==
    /\ ts # <<>>
    /\ \/ ts[1].q
       \/ normalize_identifier(Word(ts)) \notin
            {<<k>> : k \in {"CONSTRAINT", "PRIMARY", "FOREIGN", "UNIQUE", "CHECK", "INDEX", "KEY",
                            "FULLTEXT", "SPATIAL", "PARTITION", "DEFAULT"}}

Mentions(ts, keywords) == \E i \in DOMAIN ts : StartsWith(From(ts, i), keywords)

parse_simple_column(ts) ==
    IF AfterWord(ts) = <<>> THEN Nothing
    ELSE Just([name |-> normalize_identifier(Word(ts)),
               nullable |-> ~Mentions(ts, <<"NOT", "NULL">>), constraints |-> {}])

\* The identifier ends at whitespace or at a separator, and a type must follow it.
extract_first_identifier(ts) ==
    LET ends == {i \in DOMAIN ts : ts[i].sp \/ ts[i].q \/ i = Len(ts)
                                   \/ ts[i + 1].t \in {"(", ",", ";"}}
    IN  SubSeq(ts, 1, Least(ends))

parse_enhanced_column(ts) ==
    LET id == extract_first_identifier(ts)
        rest == From(ts, Len(id) + 1)
    IN  IF rest = <<>> THEN Nothing
        ELSE Just([name |-> normalize_identifier(id),
                   nullable |-> ~Mentions(rest, <<"NOT", "NULL">>)
                                /\ ~Mentions(rest, <<"GENERATED", "ALWAYS", "AS">>),
                   constraints |-> {}])

Unsupported == [op |-> "Unsupported"]
AddColumn(column) == [op |-> "AddColumn", column |-> column]
DropColumn(name) == [op |-> "DropColumn", name |-> name]
RenameColumn(from, to) == [op |-> "RenameColumn", from |-> from, to |-> to]

ParseAdd(ts) ==
    LET raw == strip_optional_keyword(strip_optional_keyword(From(ts, 2), <<"COLUMN">>),
                                      <<"IF", "NOT", "EXISTS">>)
    IN  IF ~is_column_clause_candidate(raw) THEN Just(Unsupported)
        ELSE IF parse_simple_column(raw) = Nothing THEN Nothing
        ELSE Just(AddColumn(parse_simple_column(raw)[1]))

ParseDrop(ts) ==
    LET raw == strip_optional_keyword(strip_optional_keyword(From(ts, 2), <<"COLUMN">>),
                                      <<"IF", "EXISTS">>)
    IN  IF ~is_column_clause_candidate(raw) THEN Just(Unsupported)
        ELSE IF normalize_identifier(Word(raw)) = <<>> THEN Nothing
        ELSE Just(DropColumn(normalize_identifier(Word(raw))))

ParseRename(ts) ==
    LET raw == From(ts, 3)
        tos == Positions(raw, {"TO"})
    IN  IF tos = {} THEN Just(Unsupported)
        ELSE Just(RenameColumn(normalize_identifier(SubSeq(raw, 1, Least(tos) - 1)),
                               normalize_identifier(From(raw, Least(tos) + 1))))

parse_alter_clause(ts) ==
    CASE ts = <<>> -> Nothing
      [] Is(ts[1], "ADD") /\ ts[1].sp -> ParseAdd(ts)
      [] Is(ts[1], "DROP") /\ ts[1].sp -> ParseDrop(ts)
      [] StartsWith(ts, <<"RENAME", "COLUMN">>) -> ParseRename(ts)
      [] OTHER -> Just(Unsupported)

Justs(options) == LET some == SelectSeq(options, LAMBDA o : o # Nothing)
                  IN  [i \in DOMAIN some |-> some[i][1]]

parse_alter_table_diff_for_dialect(ts) ==
    LET clauses == split_sql_clauses(AfterWord(strip_alter_target_modifiers(From(ts, 3))))
        operations == Justs([i \in DOMAIN clauses |-> parse_alter_clause(clauses[i])])
    IN  IF operations = <<>> THEN Nothing ELSE Just(operations)

(***************************************************************************)
(* CREATE TABLE: the columns, and the primary key from a key clause or     *)
(* from the column definitions that say PRIMARY KEY.                       *)
(***************************************************************************)
Content(ts) ==
    LET opens == Positions(ts, {"("})
        closes == Positions(ts, {")"})
    IN  IF opens = {} \/ closes = {} THEN <<>>
        ELSE SubSeq(ts, Least(opens) + 1, Greatest(closes) - 1)

extract_columns_from_create(ts) ==
    LET clauses == SelectSeq(split_sql_clauses(Content(ts)), is_column_clause_candidate)
    IN  Justs([i \in DOMAIN clauses |-> parse_enhanced_column(clauses[i])])

extract_primary_keys(ts) ==
    LET at == {i \in DOMAIN ts : StartsWith(From(ts, i), <<"PRIMARY", "KEY">>)}
        rest == From(ts, Least(at) + 2)
        listed == split_sql_clauses(SubSeq(rest, 2, Least(Positions(rest, {")"})) - 1))
        inline == SelectSeq(split_sql_clauses(Content(ts)),
                            LAMBDA clause : Mentions(clause, <<"PRIMARY", "KEY">>))
    IN  IF at # {} /\ StartsWith(rest, <<"(">>)
        THEN [i \in DOMAIN listed |-> normalize_identifier(listed[i])]
        ELSE [i \in DOMAIN inline |-> normalize_identifier(Word(inline[i]))]

parse_create_table_schema(name, ts) ==
    [schema |-> name.schema, table |-> name.table,
     columns |-> extract_columns_from_create(ts), primary_keys |-> extract_primary_keys(ts)]

(***************************************************************************)
(* parse_ddl_statement, and the captured DDL carried by the event.         *)
(***************************************************************************)
Operation(ts) ==
    IF Len(ts) < 3 \/ ~Is(ts[2], "TABLE") \/ ts[1].t \notin {"CREATE", "ALTER", "DROP"}
    THEN Nothing ELSE Just(ts[1].t)

extract_captured_ddl(dialect, ts) ==
    LET name == parse_schema_table_for_dialect(dialect, ts)
        op == Operation(ts)
    IN  IF op = Nothing \/ name = Nothing THEN Nothing
        ELSE Just([ddl_type |-> op[1], schema |-> name[1].schema, table |-> name[1].table,
                   result_schema |-> IF op[1] = "CREATE"
                                     THEN Just(parse_create_table_schema(name[1], ts))
                                     ELSE Nothing,
                   schema_diff |-> IF op[1] = "ALTER"
                                   THEN parse_alter_table_diff_for_dialect(ts) ELSE Nothing])

\* The schema_change event: its payload carries only what the parser could derive.
to_event(captured) ==
    LET fields == {"ddl_type", "schema", "table"}
                  \cup (IF captured.result_schema # Nothing THEN {"result_schema"} ELSE {})
                  \cup (IF captured.schema_diff # Nothing THEN {"schema_diff"} ELSE {})
    IN  [op |-> "schema_change", table |-> Append(captured.table, "__ddl_events"),
         after |-> [f \in fields |-> IF f \in {"result_schema", "schema_diff"}
                                     THEN captured[f][1] ELSE captured[f]]]

from_event_payload(after) ==
    LET Optional(f) == IF f \in DOMAIN after THEN Just(after[f]) ELSE Nothing
    IN  IF ~({"ddl_type", "table"} \subseteq DOMAIN after) THEN Nothing
        ELSE Just([ddl_type |-> after["ddl_type"],
                   schema |-> IF "schema" \in DOMAIN after THEN after["schema"] ELSE <<>>,
                   table |-> after["table"],
                   result_schema |-> Optional("result_schema"),
                   schema_diff |-> Optional("schema_diff")])

to_schema_event(captured) ==
    LET full == captured.result_schema
        Event(kind, columns, primary_keys, diff) ==
            Just([kind |-> kind, schema |-> captured.schema, table |-> captured.table,
                  columns |-> columns, primary_keys |-> primary_keys, diff |-> diff])
    IN  CASE captured.ddl_type = "CREATE" /\ full # Nothing ->
               Event("CreateTable", full[1].columns, full[1].primary_keys, <<>>)
          [] captured.ddl_type = "ALTER" /\ full # Nothing /\ full[1].columns # <<>> ->
               Event("AlterTable", full[1].columns, full[1].primary_keys, <<>>)
          [] captured.ddl_type = "ALTER" /\ captured.schema_diff # Nothing ->
               Event("AlterTableDiff", <<>>, <<>>, captured.schema_diff[1])
          [] captured.ddl_type = "DROP" -> Event("DropTable", <<>>, <<>>, <<>>)
          [] OTHER -> Nothing
=============================================================================

------------------------------ MODULE GtidSets ------------------------------
(***************************************************************************)
(* The two readings the MySQL connector has of a GTID set.  The streaming  *)
(* position is a text to which every GtidEvent is merged (mysql/query.rs,  *)
(* lenient); a watermark of the incremental snapshot is the server's text  *)
(* parsed strictly (mysql/gtid.rs), in which membership is a binary search *)
(* over sorted intervals.                                                  *)
(*                                                                         *)
(* A text is a sequence of entries, each a source uuid, in either case,    *)
(* with its intervals as written: "m", "m-n", or a fragment that is no     *)
(* number.  Numbers are u64.                                               *)
(***************************************************************************)
EXTENDS Integers, Sequences, FiniteSets, TLC

CONSTANTS
    Texts,       \* what a server may report as its executed set
    Sources,     \* source uuids, in lower case
    U64_MAX,     \* the largest transaction number
    MaxMerges    \* number of GTIDs merged in a behaviour

VARIABLES
    position,    \* the stream's position: a text
    executed,    \* the transactions the position stands for: <<uuid, number>>
    merges

vars == <<position, executed, merges>>

\* An interval as written.
Single(n) == [written |-> "single", bounds |-> <<n>>]
Range(m, n) == [written |-> "range", bounds |-> <<m, n>>]
Garbled == [written |-> "garbled", bounds |-> <<>>]
Entry(uuid, upper, intervals) == [uuid |-> uuid, upper |-> upper, intervals |-> intervals]

MaxOf(a, b) == IF a < b THEN b ELSE a
Flat(s) == LET f[i \in 0 .. Len(s)] == IF i = 0 THEN <<>> ELSE f[i - 1] \o s[i] IN f[Len(s)]

\* Every interval the entries of one uuid hold, in the order of the text.  Both
\* parsers lower the uuid, so its case does not tell entries apart.
Gathered(text, uuid, Read(_)) ==
    Flat([i \in DOMAIN text |->
            IF text[i].uuid = uuid
            THEN Flat([j \in DOMAIN text[i].intervals |-> Read(text[i].intervals[j])])
            ELSE <<>>])

Before(a, b) == a[1] < b[1] \/ (a[1] = b[1] /\ a[2] < b[2])
saturating_add1(n) == IF n = U64_MAX THEN n ELSE n + 1

\* Sort, and merge overlapping or adjacent intervals.
coalesce(intervals) ==
    LET s == SortSeq(intervals, Before)
        merged[i \in 0 .. Len(s)] ==
            IF i = 0 THEN <<>>
            ELSE LET m == merged[i - 1] IN
                 IF m # <<>> /\ s[i][1] <= saturating_add1(m[Len(m)][2])
                 THEN [m EXCEPT ![Len(m)][2] = MaxOf(@, s[i][2])]
                 ELSE Append(m, s[i])
    IN merged[Len(s)]

(***************************************************************************)
(* mysql/gtid.rs: strict.                                                  *)
(***************************************************************************)
parse_interval(w) ==
    IF w.written = "single" THEN <<<<w.bounds[1], w.bounds[1]>>>> ELSE <<<<w.bounds[1], w.bounds[2]>>>>

Refused(w) == w.written = "garbled" \/ (w.written = "range" /\ w.bounds[2] < w.bounds[1])

Parses(text) ==
    \A i \in DOMAIN text :
       text[i].intervals # <<>> /\ \A j \in DOMAIN text[i].intervals : ~Refused(text[i].intervals[j])

parse(text) == [u \in Sources |-> coalesce(Gathered(text, u, parse_interval))]

\* binary_search_by on the starts: the last interval that starts at or below.
contains(set, uuid, seqno) ==
    LET below == Cardinality({i \in DOMAIN set[uuid] : set[uuid][i][1] <= seqno}) IN
    below > 0 /\ seqno <= set[uuid][below][2]

is_empty(set) == \A u \in Sources : set[u] = <<>>

(***************************************************************************)
(* mysql/query.rs: lenient, and back to text.                              *)
(***************************************************************************)
Leniently(w) ==
    CASE w.written = "garbled" -> <<>>
      [] w.written = "single" -> <<<<w.bounds[1], w.bounds[1]>>>>
      [] OTHER -> <<<<w.bounds[1], MaxOf(w.bounds[1], w.bounds[2])>>>>

parse_gtid_set_intervals(text) == [u \in Sources |-> Gathered(text, u, Leniently)]

Written(interval) ==
    IF interval[1] = interval[2] THEN Single(interval[1]) ELSE Range(interval[1], interval[2])

\* One entry per uuid that has an interval, in the order of the uuids.
render_gtid_set(parsed) ==
    LET named == {u \in Sources : parsed[u] # <<>>}
        order == SortSeq(CHOOSE s \in [1 .. Cardinality(named) -> named] :
                            {s[i] : i \in DOMAIN s} = named, LAMBDA a, b : a < b)
    IN [i \in DOMAIN order |->
          LET merged == coalesce(parsed[order[i]]) IN
          Entry(order[i], FALSE, [j \in DOMAIN merged |-> Written(merged[j])])]

merge_gtid_into_set(set, gtid) ==
    LET a == parse_gtid_set_intervals(set)
        b == parse_gtid_set_intervals(gtid)
    IN render_gtid_set([u \in Sources |-> a[u] \o b[u]])

(***************************************************************************)
(* The stream.                                                             *)
(***************************************************************************)
Numbers == 1 .. U64_MAX

\* Reference: the transactions a text names.
Named(text) ==
    UNION {UNION {IF w.written = "single" THEN {<<text[i].uuid, w.bounds[1]>>}
                  ELSE IF w.written = "range" THEN {text[i].uuid} \X (w.bounds[1] .. w.bounds[2])
                  ELSE {} : w \in {text[i].intervals[j] : j \in DOMAIN text[i].intervals}}
           : i \in DOMAIN text}

\* A stream starts at what the server reports, or resumes a checkpoint's text.
Init ==
    /\ position \in Texts
    /\ executed = Named(position)
    /\ merges = 0

\* A GtidEvent: transactions of a source arrive in any order when the server
\* commits in parallel, and again after a reconnect.
GtidEvent ==
    /\ merges < MaxMerges
    /\ \E u \in Sources, n \in Numbers :
          /\ position' = merge_gtid_into_set(position, <<Entry(u, FALSE, <<Single(n)>>)>>)
          /\ executed' = executed \union {<<u, n>>}
    /\ merges' = merges + 1

Next == GtidEvent

Spec == Init /\ [][Next]_vars

(***************************************************************************)
(* Properties.                                                             *)
(***************************************************************************)
\* The position is a text with numbers of 64 bits.
TypeOK ==
    /\ \A i \in DOMAIN position : position[i].uuid \in Sources
    /\ executed \subseteq Sources \X Numbers
    /\ merges \in 0 .. MaxMerges

\* The position names exactly the transactions that were read, however they
\* arrived, and a watermark parsed from it answers membership the same way:
\* merge_gtid_into_set is a union, and the strict and lenient readings agree.
PositionIsExecuted ==
    Parses(position) =>
       LET set == parse(position) IN
       /\ \A u \in Sources, n \in Numbers : contains(set, u, n) <=> <<u, n>> \in executed
       /\ is_empty(set) <=> executed = {}

\* Once merged the text is in the server's canonical form: one entry per uuid,
\* no two intervals touch, and a range has two different ends.
PositionIsCanonical ==
    merges > 0 =>
       /\ Parses(position)
       /\ \A i, j \in DOMAIN position : i < j => position[i].uuid < position[j].uuid
       /\ \A i \in DOMAIN position :
             LET ws == position[i].intervals IN
             /\ \A j \in DOMAIN ws : ws[j].written = "range" => ws[j].bounds[1] < ws[j].bounds[2]
             /\ \A j \in 1 .. Len(ws) - 1 :
                   ws[j].bounds[Len(ws[j].bounds)] + 1 < ws[j + 1].bounds[1]

====

----------------------- MODULE MCIncrementalSnapshot -----------------------
(***************************************************************************)
(* Small deployments for the incremental snapshot.  A table holds one or   *)
(* two rows; one to three transactions change them while the snapshot      *)
(* reads; the process crashes, reconnects or fails a read at most once.    *)
(***************************************************************************)
EXTENDS IncrementalSnapshot

Base ==
    [backend |-> "mysql", names |-> {1}, tables |-> <<1>>, keys |-> 2,
     present |-> {<<1, 1>>, <<1, 2>>}, chunk_size |-> 2, firstXid |-> 1, txs |-> 2,
     kinds |-> {"rewrite", "touch", "delete", "insert"}, streamsInvisible |-> FALSE,
     guard |-> FALSE, rebuild |-> FALSE, faults |-> 0, requests |-> 0]

OneRow == [Base EXCEPT !.keys = 1, !.present = {<<1, 1>>}]

\* Two rows whose transactions commit in either order, with partial updates.
Postgres == [Base EXCEPT !.backend = "postgres", !.kinds = {"touch", "delete", "insert"}]

\* The same with complete updates, and a restart.
PostgresRestarts == [Base EXCEPT !.backend = "postgres", !.kinds = {"rewrite", "delete"}, !.faults = 1]

\* One row changed up to three times; changed twice with a restart.
PostgresRow == [OneRow EXCEPT !.backend = "postgres", !.txs = 3]
PostgresRowRestarts == [OneRow EXCEPT !.backend = "postgres", !.faults = 1]

Mysql == [Base EXCEPT !.kinds = {"rewrite", "delete", "insert"}, !.faults = 1]
SqlServer == [Mysql EXCEPT !.backend = "sqlserver"]

\* Two chunks.
Chunks == [Mysql EXCEPT !.chunk_size = 1, !.txs = 1]

\* The last chunk, with more events behind it than one batch hands over.
LastChunkHeldBack ==
    [OneRow EXCEPT !.chunk_size = 1, !.txs = 3, !.kinds = {"rewrite"}, !.faults = 1]

\* A second table that only control requests bring in.
Controlled ==
    [OneRow EXCEPT !.names = {1, 2}, !.present = {<<1, 1>>, <<2, 1>>}, !.txs = 1,
                   !.kinds = {"rewrite"}, !.chunk_size = 1, !.requests = 2, !.faults = 1]

\* The idempotency guard and a second snapshot of the same rows.
Rebuilt ==
    [Base EXCEPT !.guard = TRUE, !.rebuild = TRUE, !.requests = 1,
                 !.kinds = {"rewrite", "delete"}, !.txs = 1]

MCScenarios ==
    { Postgres, PostgresRestarts, PostgresRow, PostgresRowRestarts, Mysql, SqlServer,
      Chunks, LastChunkHeldBack, Controlled, Rebuilt }

\* Two chunks, and more events past the first one's high watermark than one batch
\* hands over.
MCHeldBack == { [Base EXCEPT !.chunk_size = 1, !.kinds = {"rewrite"}, !.txs = 3] }

\* The server streams a commit before it is visible to a SELECT.
MCStreamedEarly ==
    { [Base EXCEPT !.backend = b, !.kinds = {"rewrite"}, !.chunk_size = 1, !.txs = 1,
                   !.streamsInvisible = TRUE] : b \in {"postgres", "mysql"} }

\* A partial update repaired from the chunk and held back, and a crash.
MCRepairedHeldBack == { [Postgres EXCEPT !.kinds = {"touch"}, !.faults = 1] }
=============================================================================

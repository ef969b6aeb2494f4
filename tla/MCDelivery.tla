----------------------------- MODULE MCDelivery -----------------------------
(* Delivery for small deployments. *)
EXTENDS Delivery

(* Bulk-snapshot rows, then changes in transactions of the given size.     *)
Log(rows, changes, size) ==
    [i \in 1..rows + changes |->
        LET k == (i - rows - 1) \div size
        IN  IF i <= rows THEN [tx |-> NoTx, first |-> i, last |-> i]
            ELSE [tx |-> k + 1, first |-> rows + k * size + 1, last |-> rows + (k + 1) * size]]

Options(max_buffer_size, transaction_boundary) ==
    [max_buffer_size      |-> max_buffer_size,
     max_event_bytes      |-> NoLimit,
     transaction_boundary |-> transaction_boundary]

(* PostgreSQL with a stored position and the default options, four changes *)
(* of one row each, an embedder that acknowledges whole batches.           *)
Default ==
    [connector         |-> "postgres",
     sql_peek          |-> FALSE,
     log               |-> Log(0, 4, 1),
     snapshot_rows     |-> 0,
     max_poll          |-> 2,
     has_checkpoint    |-> TRUE,
     options           |-> Options(2, "Split"),
     idempotency_guard |-> TRUE,
     partial_acks      |-> FALSE,
     poll_errors       |-> FALSE,
     retries_polls     |-> TRUE,
     force_stops       |-> FALSE,
     retries_exhaust   |-> FALSE]

(* Transactions of two rows in batches that keep them whole.               *)
WholeTx ==
    [Default EXCEPT !.log = Log(0, 6, 2), !.max_poll = 4,
                    !.options = Options(3, "PreserveTransactions"), !.retries_exhaust = TRUE]

Mysql == [WholeTx EXCEPT !.connector = "mysql", !.retries_exhaust = FALSE]

(* An embedder that replaces the runtime after a failed poll.              *)
Discarding == [WholeTx EXCEPT !.poll_errors = TRUE, !.retries_polls = FALSE]

SqlServer ==
    [Default EXCEPT !.connector = "sqlserver", !.log = Log(0, 4, 2), !.max_poll = 4,
                    !.partial_acks = TRUE]

Peek == [Default EXCEPT !.sql_peek = TRUE, !.partial_acks = TRUE]

Snapshot == [Default EXCEPT !.log = Log(2, 3, 1), !.snapshot_rows = 2, !.has_checkpoint = FALSE]

ForceStopping ==
    [Default EXCEPT !.log = Log(0, 3, 1), !.idempotency_guard = FALSE, !.force_stops = TRUE]

(* An embedder that goes on polling after a failed poll.                   *)
Retrying == [Default EXCEPT !.log = Log(0, 3, 1), !.poll_errors = TRUE]
RetryingMysql == [Retrying EXCEPT !.connector = "mysql"]

Sound ==
    {Mysql, Discarding, SqlServer, Peek, Snapshot, ForceStopping, Retrying, RetryingMysql}

ASSUME DeploymentsAreSound == \A d \in Sound : SoundDeployment(d)

(* Where the code does not keep what its documentation promises.           *)
SplitTransaction == {[Default EXCEPT !.log = Log(0, 2, 2), !.options = Options(1, "Split")]}
=============================================================================

----------------------------- MODULE MCBatching -----------------------------
(* Batching on every short log. *)
EXTENDS Batching

(* Every log of len events in which transactions are contiguous, an event  *)
(* has one of the sizes, and snapshot rows (NoTx) come first.              *)
ContiguousLogs(len, sizes) ==
    {f \in [1..len -> [tx : 0..len, bytes : sizes]] :
        /\ f[1].tx \in {NoTx, 1}
        /\ \A i \in 2..len : f[i].tx \in {f[i - 1].tx, f[i - 1].tx + 1}}

Split(bytes) ==
    [max_buffer_size |-> 3, max_event_bytes |-> bytes, transaction_boundary |-> "Split"]

Preserve(bytes) ==
    [max_buffer_size |-> 3, max_event_bytes |-> bytes,
     transaction_boundary |-> "PreserveTransactions"]

(* A byte budget that two small events fill and a large one exceeds, under *)
(* the default policy; and no byte budget under PreserveTransactions.      *)
BothPolicies ==
    [options : {Split(2)}, log : ContiguousLogs(4, {1, 4})]
        \cup [options : {Preserve(NoLimit)}, log : ContiguousLogs(6, {1})]
=============================================================================

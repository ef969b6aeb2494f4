-------------------------- MODULE MCFileCheckpoint --------------------------
(* Small installations of the file checkpoint store. *)
EXTENDS FileCheckpoint, TLC

At(stream, gtid, position) == [stream |-> stream, gtid |-> gtid, position |-> position]

\* A supervisor restarts the process, which opens two handles on the directory.
Supervised ==
    [process |-> "a1" :> "a" @@ "a2" :> "a", host |-> "a" :> "h",
     supervised |-> TRUE, drops |-> FALSE, restores |-> FALSE, max_starts |-> 3,
     source |-> "mysql",
     offsets |-> [stream |-> {At(1, FALSE, 0), At(1, FALSE, 1), At(1, TRUE, 0)},
                  snapshot |-> {At(1, FALSE, 1)}]]

\* Two processes of one host start on the same directory.
Contended ==
    [Supervised EXCEPT !.process = "a1" :> "a" @@ "a2" :> "a" @@ "b1" :> "b",
                       !.host = "a" :> "h" @@ "b" :> "h",
                       !.supervised = FALSE, !.max_starts = 2, !.source = "sqlserver",
                       !.offsets = [stream |-> {At(1, FALSE, 1), At(1, FALSE, 2)}, snapshot |-> {}]]

\* Two processes of different hosts share the directory.
TwoHosts ==
    [Contended EXCEPT !.host = "a" :> "h" @@ "b" :> "g", !.source = "snowflake",
                      !.offsets.stream = {At(1, FALSE, 1), At(1, FALSE, 2), At(2, FALSE, 1)}]

\* An operator seeds the directory between two runs.
Seeded ==
    [Supervised EXCEPT !.process = "a1" :> "a", !.restores = TRUE, !.max_starts = 2,
                       !.source = "postgres",
                       !.offsets.stream = {At(1, FALSE, 0), At(1, FALSE, 1), At(1, FALSE, 2)}]

\* Three processes of one host race for a dead owner's lease.
Racing ==
    [Contended EXCEPT !.process = "a1" :> "a" @@ "b1" :> "b" @@ "c1" :> "c",
                      !.host = "a" :> "h" @@ "b" :> "h" @@ "c" :> "h",
                      !.max_starts = 3, !.offsets.stream = {At(1, FALSE, 1)}]

\* The futures of saves are dropped half-way.
Dropping == [Contended EXCEPT !.drops = TRUE, !.offsets.stream = {At(1, FALSE, 1)}]

Installations == {Supervised, Contended, TwoHosts, Seeded, Racing, Dropping}
=============================================================================

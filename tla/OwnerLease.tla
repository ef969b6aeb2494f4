----------------------------- MODULE OwnerLease -----------------------------
(***************************************************************************)
(* The owner lease of a store directory: a lock file that holds the host   *)
(* and pid of its owner, and a registry of the leases held inside each     *)
(* process.  Every file-system call is a step of its own, so the steps of  *)
(* two processes interleave the way the operating system lets them.        *)
(***************************************************************************)
EXTENDS Naturals

CONSTANT Scenarios  \* the installations: process, host, supervised, drops, max_starts

VARIABLES
    config,         \* the installation, chosen once
    lock,           \* the lock file: "absent", "unwritten" or its owner
    alive,          \* alive[p]: process p is running
    refs,           \* refs[p]: LEASE_REFS of p has an entry for the lock path
    phase,          \* phase[h]: how far handle h is with its lease
    starts,         \* processes started so far
    displaced       \* a lock file was replaced or removed under the handle that had it

leaseVars == <<config, lock, alive, refs, phase, starts, displaced>>

Processes == DOMAIN config.host
Handles == DOMAIN config.process
Process(h) == config.process[h]
HandlesOf(p) == {h \in Handles : Process(h) = p}
Phases == {"none", "creating", "examining", "replacing", "rechecking", "held", "removing"}

(***************************************************************************)
(* An installation says which handle belongs to which process, on which    *)
(* host each process runs, whether a supervisor keeps a single process     *)
(* running, whether callers drop the futures of their saves, and how many  *)
(* processes are started at most (a bound).                                *)
(***************************************************************************)
LeaseTypeOK ==
    /\ config \in Scenarios
    /\ config.process \in [Handles -> Processes]
    /\ lock \in {"absent", "unwritten"} \cup Processes
    /\ alive \in [Processes -> BOOLEAN]
    /\ refs \in [Processes -> BOOLEAN]
    /\ phase \in [Handles -> Phases]
    /\ starts \in 0..config.max_starts
    /\ displaced \in BOOLEAN

LeaseInit ==
    /\ config \in Scenarios
    /\ lock = "absent"
    /\ alive = [p \in Processes |-> FALSE]
    /\ refs = [p \in Processes |-> FALSE]
    /\ phase = [h \in Handles |-> "none"]
    /\ starts = 0
    /\ displaced = FALSE

SetPhase(h, to) == phase' = [phase EXCEPT ![h] = to]
SetRef(h, held) == refs' = [refs EXCEPT ![Process(h)] = held]

(* rename(2) and unlink(2) hit whatever file has the lock's name by then,  *)
(* also one that another handle has created, holds or is about to remove.  *)
Displaces(h) ==
    displaced' = (displaced \/ \E g \in Handles \ {h} : phase[g] \in {"creating", "held", "removing"})

-----------------------------------------------------------------------------
(* A mutant of the definition below. *)

\* The registry is not consulted, as before reserve_in_process existed.
ReserveUnchecked(h) == TRUE

-----------------------------------------------------------------------------
(* reserve_in_process: no other handle of this process has the path. *)
reserve_in_process(h) == ~refs[Process(h)]

(* The row of the decision table that clears a stale lease. *)
IsStale(owner, h) ==
    /\ owner \in Processes
    /\ config.host[owner] = config.host[Process(h)]
    /\ ~alive[owner]

(***************************************************************************)
(* acquire: reserve in process, then create the lock file exclusively.  A  *)
(* handle without reservation is refused and nothing changes.              *)
(***************************************************************************)
acquire(h) ==
    /\ alive[Process(h)]
    /\ phase[h] = "none"
    /\ reserve_in_process(h)
    /\ SetRef(h, TRUE)
    /\ IF lock = "absent"
       THEN lock' = "unwritten" /\ SetPhase(h, "creating")
       ELSE UNCHANGED lock /\ SetPhase(h, "examining")
    /\ UNCHANGED <<config, alive, starts, displaced>>

(* A failed acquisition gives the reservation back. *)
Refuse(h) ==
    /\ SetPhase(h, "none")
    /\ SetRef(h, FALSE)
    /\ UNCHANGED <<config, lock, alive, starts, displaced>>

Granted(h) ==
    /\ SetPhase(h, "held")
    /\ UNCHANGED <<config, alive, refs, starts, displaced>>

(* The token is written into the file this handle created. *)
WriteToken(h) ==
    /\ phase[h] = "creating"
    /\ lock' = IF lock = "unwritten" THEN Process(h) ELSE lock
    /\ Granted(h)

(* The write or its fsync fails: the empty file stays behind. *)
WriteTokenFails(h) ==
    /\ phase[h] = "creating"
    /\ Refuse(h)

(* AlreadyExists, and the file names this process. *)
Reenter(h) ==
    /\ phase[h] = "examining"
    /\ lock = Process(h)
    /\ UNCHANGED lock
    /\ Granted(h)

(* AlreadyExists, and the owner is a dead process of this host. *)
FindStale(h) ==
    /\ phase[h] = "examining"
    /\ lock # Process(h)
    /\ IsStale(lock, h)
    /\ SetPhase(h, "replacing")
    /\ UNCHANGED <<config, lock, alive, refs, starts, displaced>>

(* AlreadyExists otherwise: a live owner, another host, or no token. *)
FindOwned(h) ==
    /\ phase[h] = "examining"
    /\ lock # Process(h)
    /\ ~IsStale(lock, h)
    /\ Refuse(h)

(* atomic_write_lease renames a file with this process's token over the lock. *)
atomic_write_lease(h) ==
    /\ phase[h] = "replacing"
    /\ lock' = Process(h)
    /\ Displaces(h)
    /\ SetPhase(h, "rechecking")
    /\ UNCHANGED <<config, alive, refs, starts>>

(* The re-read after the rename: another process may have renamed later. *)
WinTakeover(h) ==
    /\ phase[h] = "rechecking"
    /\ lock = Process(h)
    /\ UNCHANGED lock
    /\ Granted(h)

LoseTakeover(h) ==
    /\ phase[h] = "rechecking"
    /\ lock # Process(h)
    /\ Refuse(h)

verify_still_held(h) == phase[h] = "held" /\ lock = Process(h)

(* Drop: the registry entry goes first, then the file, whoever owns it by then. *)
DropLease(h) ==
    /\ phase[h] = "held"
    /\ SetPhase(h, "removing")
    /\ SetRef(h, FALSE)
    /\ UNCHANGED <<config, lock, alive, starts, displaced>>

RemoveLock(h) ==
    /\ phase[h] = "removing"
    /\ lock' = "absent"
    /\ Displaces(h)
    /\ SetPhase(h, "none")
    /\ UNCHANGED <<config, alive, refs, starts>>

-----------------------------------------------------------------------------
(* The environment: processes start and die. *)
Start(p) ==
    /\ ~alive[p]
    /\ starts < config.max_starts
    /\ config.supervised => \A q \in Processes : ~alive[q]
    /\ alive' = [alive EXCEPT ![p] = TRUE]
    /\ starts' = starts + 1
    /\ UNCHANGED <<config, lock, refs, phase, displaced>>

Die(dead) ==
    /\ alive' = [p \in Processes |-> alive[p] /\ p \notin dead]
    /\ refs' = [p \in Processes |-> refs[p] /\ p \notin dead]
    /\ phase' = [h \in Handles |-> IF Process(h) \in dead THEN "none" ELSE phase[h]]
    /\ UNCHANGED <<config, starts, displaced>>

LeaseGranted(h) == WriteToken(h) \/ Reenter(h) \/ WinTakeover(h)

LeaseStep(h) ==
    \/ acquire(h)
    \/ FindStale(h)
    \/ FindOwned(h)
    \/ atomic_write_lease(h)
    \/ LoseTakeover(h)
    \/ RemoveLock(h)
=============================================================================

--------------------------- MODULE FileCheckpoint ---------------------------
(***************************************************************************)
(* The file-backed checkpoint store on a directory guarded by OwnerLease.  *)
(* A save runs on a blocking worker: it verifies the lease, validates the  *)
(* record against the file it replaces, writes and fsyncs a temp file,     *)
(* renames it and fsyncs the directory.  Processes crash between any two   *)
(* of these steps, and the machine loses power, which forgets a rename the *)
(* directory fsync has not reached.                                        *)
(***************************************************************************)
EXTENDS OwnerLease, FiniteSets, FiniteSetsExt

CONSTANTS
    MaxCount,       \* bound: the highest event count saved
    MaxFaults       \* bound: file-system calls that fail

VARIABLES
    visible,        \* visible[f]: the checkpoint file f a reader finds
    durable,        \* durable[f]: what of it survives a power loss for certain
    committed,      \* committed[h]: the event count handle h's runtime is at
    loaded,         \* loaded[h]: the runtime behind h has loaded its checkpoint
    workers,        \* saves in progress on blocking workers
    acknowledged,   \* the highest count a save returned Ok for
    faults

storeVars == <<visible, durable, committed, loaded, workers, acknowledged, faults>>
vars == <<leaseVars, storeVars>>

\* checkpoint_<source>.json and checkpoint_<source>_snapshot.json
Files == {"stream", "snapshot"}
Offset == [stream : 1..2, gtid : BOOLEAN, position : Nat]
NoFile == [count |-> 0, readable |-> TRUE, synced |-> TRUE]
Record == [count : Nat, offset : Offset]
File == [count : Nat, offset : Offset, readable : BOOLEAN, synced : BOOLEAN] \cup {NoFile}
Worker == [handle : Handles, file : Files, record : Record, awaited : BOOLEAN,
           step : {"verified", "written", "discarded", "renamed"}]

\* Every handle belongs to a process, no process is called what the lock file is
\* without an owner, and an installation reads one of the sources.
ASSUME StoreConstants ==
    /\ MaxCount \in Nat /\ MaxFaults \in Nat
    /\ \A s \in Scenarios :
          /\ s.process \in [DOMAIN s.process -> DOMAIN s.host]
          /\ {"absent", "unwritten"} \cap DOMAIN s.host = {}
          /\ s.supervised \in BOOLEAN /\ s.drops \in BOOLEAN
          /\ s.source \in {"postgres", "mysql", "sqlserver", "snowflake"}
          /\ \A f \in Files : s.offsets[f] \subseteq Offset

\* The fields are well typed and a worker only runs for a handle that has its lease.
TypeOK ==
    /\ LeaseTypeOK
    /\ visible \in [Files -> File]
    /\ durable \in [Files -> File]
    /\ committed \in [Handles -> 0..MaxCount]
    /\ loaded \in [Handles -> BOOLEAN]
    /\ workers \subseteq Worker
    /\ \A w \in workers : phase[w.handle] = "held" /\ loaded[w.handle]
    /\ acknowledged \in 0..MaxCount
    /\ faults \in 0..MaxFaults

Init ==
    /\ LeaseInit
    /\ visible = [f \in Files |-> NoFile]
    /\ durable = visible
    /\ committed = [h \in Handles |-> 0]
    /\ loaded = [h \in Handles |-> FALSE]
    /\ workers = {}
    /\ acknowledged = 0
    /\ faults = 0

-----------------------------------------------------------------------------
(* Mutants of the definitions below. *)

\* A binlog coordinate is never compared, GTID or not.
RegressionUnlessMysql(source, before, after) ==
    /\ source \in {"sqlserver", "snowflake"}
    /\ after.position < before.position

\* The parent directory is not fsynced.
SyncNothing == durable' = durable

-----------------------------------------------------------------------------
(***************************************************************************)
(* stream_position_regression: PostgreSQL positions may legitimately go    *)
(* back, so only a zero is refused; MySQL defers to a GTID; a position of  *)
(* another slot, flavour or database is not comparable; only the stream    *)
(* file's source type is compared at all.                                  *)
(***************************************************************************)
stream_position_regression(source, before, after) ==
    \/ /\ source = "postgres"
       /\ before.stream = after.stream
       /\ before.position > 0 /\ after.position = 0
    \/ /\ source = "mysql"
       /\ ~after.gtid /\ before.stream = after.stream
       /\ after.position < before.position
    \/ /\ source = "sqlserver"
       /\ after.position < before.position
    \/ /\ source = "snowflake"
       /\ before.stream = after.stream
       /\ after.position < before.position

SourceType(f) == IF f = "stream" THEN config.source ELSE "snapshot"

validate_checkpoint_progress(f, existing, next) ==
    existing # NoFile =>
        /\ existing.count <= next.count
        /\ existing.count = next.count => existing.offset = next.offset
        /\ ~stream_position_regression(SourceType(f), existing.offset, next.offset)

(* A record that is not whole does not have the checksum written with it. *)
verify_checksum(file) == file.readable

(* validate_monotonic_progress: an existing record must also be readable. *)
validate_monotonic_progress(f, next) ==
    /\ verify_checksum(visible[f])
    /\ validate_checkpoint_progress(f, visible[f], next)

(* load_latest_record: any unreadable file is an error, the highest count wins. *)
Readable(files) == \A f \in Files : verify_checksum(files[f])
LatestCount(files) == Max({files[f].count : f \in Files})

TempFile(record) ==
    [count |-> record.count, offset |-> record.offset, readable |-> TRUE, synced |-> TRUE]

(* The fsync of the directory covers every rename done in it so far. *)
sync_parent_directory == durable' = visible'

-----------------------------------------------------------------------------
(***************************************************************************)
(* ensure_owner_lease: once the lease is granted, every temp file of the   *)
(* directory is discarded.                                                 *)
(***************************************************************************)
Discard(w) == IF w.step = "written" THEN [w EXCEPT !.step = "discarded"] ELSE w

ensure_owner_lease(h) ==
    /\ LeaseGranted(h)
    /\ workers' = {Discard(w) : w \in workers}
    /\ UNCHANGED <<visible, durable, committed, loaded, acknowledged, faults>>

LeaseWaits(h) ==
    /\ LeaseStep(h)
    /\ UNCHANGED storeVars

LeaseWriteFails(h) ==
    /\ WriteTokenFails(h)
    /\ faults < MaxFaults
    /\ faults' = faults + 1
    /\ UNCHANGED <<visible, durable, committed, loaded, workers, acknowledged>>

(* load and get_committed_count, as the runtime's start calls them. *)
load(h) ==
    /\ phase[h] = "held"
    /\ ~loaded[h]
    /\ Readable(visible)
    /\ loaded' = [loaded EXCEPT ![h] = TRUE]
    /\ committed' = [committed EXCEPT ![h] = LatestCount(visible)]
    /\ UNCHANGED <<leaseVars, visible, durable, workers, acknowledged, faults>>

(***************************************************************************)
(* save: the caller awaits it with an exclusive borrow, so a handle has at *)
(* most one save in progress that is awaited.  A save that finds the lease *)
(* gone returns an error and changes nothing.                              *)
(***************************************************************************)
verify_lease_still_held(h) == phase[h] = "held" /\ verify_still_held(h)

save(h, f, offset) ==
    /\ loaded[h]
    /\ \A w \in workers : w.handle = h => ~w.awaited
    /\ committed[h] < MaxCount
    /\ verify_lease_still_held(h)
    /\ workers' = workers \cup
         {[handle |-> h, file |-> f, record |-> [count |-> committed[h] + 1, offset |-> offset],
           awaited |-> TRUE, step |-> "verified"]}
    /\ UNCHANGED <<leaseVars, visible, durable, committed, loaded, acknowledged, faults>>

Move(w, to) == workers' = (workers \ {w}) \cup {[w EXCEPT !.step = to]}

WriteTempFile(w) ==
    /\ w.step = "verified"
    /\ validate_monotonic_progress(w.file, w.record)
    /\ Move(w, "written")
    /\ UNCHANGED <<leaseVars, visible, durable, committed, loaded, acknowledged, faults>>

SaveRefused(w) ==
    /\ w.step = "verified"
    /\ ~validate_monotonic_progress(w.file, w.record)
    /\ workers' = workers \ {w}
    /\ UNCHANGED <<leaseVars, visible, durable, committed, loaded, acknowledged, faults>>

Rename(w) ==
    /\ w.step = "written"
    /\ visible' = [visible EXCEPT ![w.file] = TempFile(w.record)]
    /\ Move(w, "renamed")
    /\ UNCHANGED <<leaseVars, durable, committed, loaded, acknowledged, faults>>

(* Another handle discarded the temp file: the rename finds nothing. *)
RenameFindsNothing(w) ==
    /\ w.step = "discarded"
    /\ workers' = workers \ {w}
    /\ UNCHANGED <<leaseVars, visible, durable, committed, loaded, acknowledged, faults>>

SaveReturns(w) ==
    /\ w.step = "renamed"
    /\ UNCHANGED visible
    /\ sync_parent_directory
    /\ workers' = workers \ {w}
    /\ IF w.awaited
       THEN /\ committed' = [committed EXCEPT ![w.handle] = w.record.count]
            /\ acknowledged' = Max({acknowledged, w.record.count})
       ELSE UNCHANGED <<committed, acknowledged>>
    /\ UNCHANGED <<leaseVars, loaded, faults>>

(* Creating, writing, syncing or renaming fails: what is visible stays. *)
SaveFails(w) ==
    /\ faults < MaxFaults
    /\ faults' = faults + 1
    /\ workers' = workers \ {w}
    /\ UNCHANGED <<leaseVars, visible, durable, committed, loaded, acknowledged>>

(***************************************************************************)
(* The future of a save is dropped: the worker runs on, and the caller's   *)
(* next save covers the events of this one as well.                        *)
(***************************************************************************)
SaveDropped(w) ==
    /\ config.drops
    /\ w.awaited
    /\ workers' = (workers \ {w}) \cup {[w EXCEPT !.awaited = FALSE]}
    /\ committed' = [committed EXCEPT ![w.handle] = w.record.count]
    /\ UNCHANGED <<leaseVars, visible, durable, loaded, acknowledged, faults>>

(* The last reference to the store is dropped; a worker holds one too. *)
DropStore(h) ==
    /\ DropLease(h)
    /\ \A w \in workers : w.handle # h
    /\ loaded' = [loaded EXCEPT ![h] = FALSE]
    /\ committed' = [committed EXCEPT ![h] = 0]
    /\ UNCHANGED <<visible, durable, workers, acknowledged, faults>>

(* An operator seeds the directory while nothing runs on it. *)
restore_from_record(f, offset) ==
    /\ config.restores
    /\ \A p \in Processes : ~alive[p]
    /\ faults < MaxFaults
    /\ faults' = faults + 1
    /\ visible' = [visible EXCEPT ![f] = TempFile([count |-> 1, offset |-> offset])]
    /\ sync_parent_directory
    /\ acknowledged' = LatestCount(visible')
    /\ UNCHANGED <<leaseVars, committed, loaded, workers>>

-----------------------------------------------------------------------------
Forget(dead) ==
    /\ Die(dead)
    /\ loaded' = [h \in Handles |-> loaded[h] /\ Process(h) \notin dead]
    /\ committed' = [h \in Handles |-> IF Process(h) \in dead THEN 0 ELSE committed[h]]
    /\ workers' = {w \in workers : Process(w.handle) \notin dead}
    /\ UNCHANGED <<acknowledged, faults>>

(* A process is killed: the page cache survives it. *)
Crash(p) ==
    /\ alive[p]
    /\ Forget({p})
    /\ UNCHANGED <<lock, visible, durable>>

(* After a power loss unsynced content is torn. *)
AfterPowerLoss(file) ==
    IF file = NoFile THEN NoFile ELSE [file EXCEPT !.readable = @ /\ file.synced]

(***************************************************************************)
(* The machine loses power: each rename the directory fsync has not        *)
(* covered is kept or forgotten, and so is the lock file, whose directory  *)
(* entry is never fsynced.                                                 *)
(***************************************************************************)
PowerLoss ==
    /\ \E p \in Processes : alive[p]
    /\ Forget(Processes)
    /\ lock' \in {lock, "absent"}
    /\ \E kept \in SUBSET Files :
         visible' = [f \in Files |-> AfterPowerLoss(IF f \in kept THEN visible[f] ELSE durable[f])]
    /\ durable' = visible'

StartProcess(p) ==
    /\ Start(p)
    /\ UNCHANGED storeVars

Next ==
    \/ \E p \in Processes : StartProcess(p)
    \/ \E p \in Processes : Crash(p)
    \/ PowerLoss
    \/ \E h \in Handles : LeaseWaits(h)
    \/ \E h \in Handles : LeaseWriteFails(h)
    \/ \E h \in Handles : ensure_owner_lease(h)
    \/ \E h \in Handles : load(h)
    \/ \E h \in Handles, f \in Files : \E offset \in config.offsets[f] : save(h, f, offset)
    \/ \E w \in workers : WriteTempFile(w)
    \/ \E w \in workers : SaveRefused(w)
    \/ \E w \in workers : Rename(w)
    \/ \E w \in workers : RenameFindsNothing(w)
    \/ \E w \in workers : SaveReturns(w)
    \/ \E w \in workers : SaveFails(w)
    \/ \E w \in workers : SaveDropped(w)
    \/ \E h \in Handles : DropStore(h)
    \/ \E f \in Files : \E offset \in config.offsets[f] : restore_from_record(f, offset)

Spec == Init /\ [][Next]_vars

-----------------------------------------------------------------------------
(***************************************************************************)
(* One writer per directory: while a save is on its worker, the lock file  *)
(* names the process of its handle and no other handle, of this or of      *)
(* another process, has a save in progress; a handle whose caller awaits   *)
(* its saves has a single one.  The registry, the exclusive creation, the  *)
(* re-read after a takeover and the order of a drop have to work together  *)
(* for it.  It holds until a rename or a removal displaces the lock file   *)
(* of another handle: nothing compares the file with what was read when it *)
(* was decided to replace or to remove it.                                 *)
(***************************************************************************)
OneWriter ==
    ~displaced =>
        \A w \in workers :
            /\ lock = Process(w.handle)
            /\ \A v \in workers : v.handle = w.handle /\ (~config.drops => v = w)

(***************************************************************************)
(* A save that returned Ok survives: whatever crash, failed call, power    *)
(* loss or change of owner follows, every file the machine can come back   *)
(* with is readable and the record load picks covers at least the events   *)
(* that were acknowledged.  It rests on a single writer, and on callers    *)
(* that await their saves: a dropped one may be overtaken by its successor *)
(* and rename last.                                                        *)
(***************************************************************************)
AcknowledgedSaveSurvives ==
    ~displaced /\ ~config.drops =>
        \A kept \in SUBSET Files :
            LET files == [f \in Files |->
                            AfterPowerLoss(IF f \in kept THEN visible[f] ELSE durable[f])]
            IN  Readable(files) /\ LatestCount(files) >= acknowledged

(* A record is replaced by one of more events or by itself, and not by an  *)
(* earlier position of the same ordered stream.                            *)
MovesForward(f, old, new) ==
    /\ new # NoFile
    /\ new.count >= old.count
    /\ new.count = old.count => new = old
    /\ (f = "stream" /\ new.offset.stream = old.offset.stream /\ ~new.offset.gtid) =>
         \/ new.offset.position >= old.offset.position
         \/ config.source = "postgres" /\ new.offset.position > 0

(***************************************************************************)
(* While the machine has power and no operator seeds the directory, no     *)
(* step replaces a record by one with fewer events, by a different         *)
(* position for the same events, or by an earlier position of the same     *)
(* ordered stream: validation and rename are separate steps, so this is    *)
(* also about what happens between them.  Like the survival of a save, it  *)
(* rests on a single writer that awaits its saves.                         *)
(***************************************************************************)
RecordNeverMovesBack ==
    [][~displaced /\ ~config.drops =>
         \A f \in Files :
            \/ visible[f] = NoFile \/ PowerLoss \/ \A p \in Processes : ~alive[p]
            \/ MovesForward(f, visible[f], visible'[f])]_vars
=============================================================================

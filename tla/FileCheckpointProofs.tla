------------------------ MODULE FileCheckpointProofs ------------------------
(***************************************************************************)
(* What the file checkpoint store promises for any number of processes,    *)
(* hosts, handles, restarts, takeovers, crashes, power losses and records, *)
(* as long as no rename or removal has hit the lock file of another handle *)
(* (displaced).                                                            *)
(*                                                                         *)
(* The argument goes from the lock file up.  LeaseInv says which handle a  *)
(* content of the lock file admits, so at most one handle holds the lease; *)
(* HolderInv puts every save behind a held lease.  Where callers await     *)
(* their saves, WorkerInv follows: a single save is in progress, and what  *)
(* it validated is still what it replaces; FileInv then relates what is    *)
(* visible, what is durable and what was acknowledged.                     *)
(***************************************************************************)
EXTENDS FileCheckpoint, TLAPS

Installed == config \in Scenarios

LeaseInv ==
    /\ alive \in [Processes -> BOOLEAN]
    /\ refs \in [Processes -> BOOLEAN]
    /\ phase \in [Handles -> Phases]
    /\ \A h \in Handles :
          /\ phase[h] # "none" => alive[Process(h)]
          /\ phase[h] \notin {"none", "removing"} => refs[Process(h)]
          /\ phase[h] = "creating" => lock = "unwritten"
          /\ phase[h] \in {"held", "removing"} => lock = Process(h)
    /\ \A g, h \in Handles :
          phase[g] \notin {"none", "removing"} /\ phase[h] \notin {"none", "removing"} =>
              /\ Process(g) = Process(h) => g = h
              /\ phase[g] = "creating" /\ phase[h] = "creating" => g = h

(* Every save runs for a handle that holds the lease.                      *)
HolderInv ==
    \A w \in workers :
        "handle" \in DOMAIN w /\ w.handle \in Handles /\ phase[w.handle] = "held"

(* A save runs alone, for a handle that holds the lease.                   *)
WorkerInv ==
    /\ workers \subseteq Worker
    /\ \A w \in workers :
          /\ phase[w.handle] = "held"
          /\ w.awaited
          /\ w.step = "written" => validate_checkpoint_progress(w.file, visible[w.file], w.record)
          /\ w.step = "renamed" => visible[w.file] = TempFile(w.record)
    /\ \A v, w \in workers : v = w

WholeFile == {NoFile} \cup {TempFile(r) : r \in Record}

(* A forgotten rename falls back to a record that is older, but not older  *)
(* than what was acknowledged.                                             *)
FileInv ==
    /\ visible \in [Files -> WholeFile]
    /\ durable \in [Files -> WholeFile]
    /\ \A f \in Files : durable[f].count <= visible[f].count
    /\ acknowledged \in Nat
    /\ \E f \in Files : acknowledged <= durable[f].count
    /\ committed \in [Handles -> Nat]

StoreInv == LeaseInv /\ WorkerInv /\ FileInv

SInv ==
    /\ config \in Scenarios
    /\ displaced \in BOOLEAN
    /\ ~displaced => LeaseInv /\ HolderInv
    /\ ~displaced /\ ~config.drops => StoreInv

-----------------------------------------------------------------------------
(* Every handle has a process, and no process is an ownerless lock file.   *)
LEMMA Owners ==
    ASSUME config \in Scenarios
    PROVE  /\ \A h \in Handles : Process(h) \in Processes
           /\ "absent" \notin Processes /\ "unwritten" \notin Processes
  BY StoreConstants DEF Handles, Processes, Process

(* What is fixed with the installation.                                    *)
LEMMA InstallationIsFixed ==
    ASSUME UNCHANGED config
    PROVE  /\ Handles' = Handles /\ Processes' = Processes
           /\ \A h : Process(h)' = Process(h)
  BY DEF Handles, Processes, Process

(* The lease is taken, lost and given back without a second owner.         *)
LEMMA LeaseActionsKeep ==
    ASSUME Installed, LeaseInv, ~displaced', NEW h \in Handles,
           LeaseStep(h) \/ LeaseGranted(h) \/ WriteTokenFails(h) \/ DropLease(h)
    PROVE  LeaseInv' /\ config' = config
<1> USE DEF SetPhase, SetRef
<1>0. /\ \A g \in Handles : Process(g) \in Processes
      /\ "absent" \notin Processes /\ "unwritten" \notin Processes
  BY Owners DEF Installed
<1>1. config' = config
  BY DEF LeaseStep, LeaseGranted, WriteTokenFails, DropLease, acquire, FindStale, FindOwned,
         atomic_write_lease, LoseTakeover, RemoveLock, WriteToken, Reenter, WinTakeover, Refuse, Granted
<1>2. /\ Handles' = Handles /\ Processes' = Processes
      /\ \A g : Process(g)' = Process(g)
  BY <1>1, InstallationIsFixed
<1>3. CASE acquire(h)
  <2>1. \A g \in Handles : Process(g) = Process(h) => phase[g] \in {"none", "removing"}
    BY <1>0, <1>3 DEF acquire, reserve_in_process, LeaseInv
  <2>2. /\ alive[Process(h)] /\ alive' = alive
        /\ refs' = [refs EXCEPT ![Process(h)] = TRUE]
        /\ \/ lock = "absent" /\ lock' = "unwritten" /\ phase' = [phase EXCEPT ![h] = "creating"]
           \/ lock' = lock /\ phase' = [phase EXCEPT ![h] = "examining"]
    BY <1>3 DEF acquire
  <2> QED
    BY <1>0, <1>1, <1>2, <2>1, <2>2 DEF LeaseInv, Phases
<1>4. CASE WriteToken(h)
  BY <1>0, <1>1, <1>2, <1>4 DEF WriteToken, Granted, LeaseInv, Phases
<1>5. CASE WriteTokenFails(h) \/ FindOwned(h) \/ LoseTakeover(h)
  <2>1. /\ phase[h] \in {"creating", "examining", "rechecking"}
        /\ phase' = [phase EXCEPT ![h] = "none"]
        /\ refs' = [refs EXCEPT ![Process(h)] = FALSE]
        /\ lock' = lock /\ alive' = alive
    BY <1>5 DEF WriteTokenFails, FindOwned, LoseTakeover, Refuse
  <2> QED
    BY <1>0, <1>1, <1>2, <2>1 DEF LeaseInv, Phases
<1>6. CASE Reenter(h) \/ WinTakeover(h)
  BY <1>0, <1>1, <1>2, <1>6 DEF Reenter, WinTakeover, Granted, LeaseInv, Phases
<1>7. CASE FindStale(h)
  BY <1>0, <1>1, <1>2, <1>7 DEF FindStale, LeaseInv, Phases
<1>8. CASE atomic_write_lease(h)
  <2>1. \A g \in Handles : g # h => phase[g] \notin {"creating", "held", "removing"}
    BY <1>8 DEF atomic_write_lease, Displaces
  <2> QED
    BY <1>0, <1>1, <1>2, <1>8, <2>1 DEF atomic_write_lease, LeaseInv, Phases
<1>9. CASE RemoveLock(h)
  <2>1. \A g \in Handles : g # h => phase[g] \notin {"creating", "held", "removing"}
    BY <1>9 DEF RemoveLock, Displaces
  <2> QED
    BY <1>0, <1>1, <1>2, <1>9, <2>1 DEF RemoveLock, LeaseInv, Phases
<1>10. CASE DropLease(h)
  BY <1>0, <1>1, <1>2, <1>10 DEF DropLease, LeaseInv, Phases
<1> QED
  BY <1>1, <1>3, <1>4, <1>5, <1>6, <1>7, <1>8, <1>9, <1>10 DEF LeaseStep, LeaseGranted

(* Processes start and die without leaving a second owner behind.          *)
LEMMA ProcessesKeepLease ==
    ASSUME Installed, LeaseInv,
           \/ \E p \in Processes : Start(p)
           \/ \E dead \in SUBSET Processes : Die(dead) /\ (lock' = lock \/ dead = Processes)
    PROVE  LeaseInv' /\ config' = config
<1>0. \A g \in Handles : Process(g) \in Processes
  BY Owners DEF Installed
<1>1. config' = config
  BY DEF Start, Die
<1>2. /\ Handles' = Handles /\ Processes' = Processes
      /\ \A g : Process(g)' = Process(g)
  BY <1>1, InstallationIsFixed
<1>3. ASSUME NEW p \in Processes, Start(p)
      PROVE  LeaseInv'
  BY <1>0, <1>1, <1>2, <1>3 DEF Start, LeaseInv
<1>4. ASSUME NEW dead \in SUBSET Processes, Die(dead), lock' = lock \/ dead = Processes
      PROVE  LeaseInv'
  BY <1>0, <1>1, <1>2, <1>4 DEF Die, LeaseInv, Phases
<1> QED
  BY <1>1, <1>3, <1>4

(* At most one handle holds the lease.                                     *)
LEMMA SingleHolder ==
    ASSUME LeaseInv, NEW g \in Handles, NEW h \in Handles,
           phase[g] = "held", phase[h] = "held"
    PROVE  g = h
  BY DEF LeaseInv

-----------------------------------------------------------------------------
(* The record load_latest_record picks has the highest count of the two.   *)
LEMMA LatestCountIsHighest ==
    ASSUME NEW files, \A f \in Files : files[f].count \in Nat
    PROVE  /\ LatestCount(files) \in Nat
           /\ \A f \in Files : files[f].count <= LatestCount(files)
           /\ \E f \in Files : LatestCount(files) = files[f].count
<1> DEFINE S == {files[f].count : f \in Files}
<1>1. \E x \in S : \A y \in S : x >= y
  BY DEF Files
<1>2. Max(S) \in S /\ \A y \in S : Max(S) >= y
  <2> HIDE DEF S
  <2> QED
    BY <1>1 DEF Max
<1> QED
  BY <1>2 DEF LatestCount

(* The higher of two event counts is one of them and bounds both.          *)
LEMMA HigherOfTwo ==
    ASSUME NEW a \in Nat, NEW b \in Nat
    PROVE  Max({a, b}) \in {a, b} /\ a <= Max({a, b}) /\ b <= Max({a, b})
<1>1. \E x \in {a, b} : \A y \in {a, b} : x >= y
  OBVIOUS
<1>2. Max({a, b}) \in {a, b} /\ \A y \in {a, b} : Max({a, b}) >= y
  BY <1>1 DEF Max
<1> QED
  BY <1>2

(* Every file a save installs was synced before its rename, so a power     *)
(* loss does not tear it.                                                  *)
LEMMA WholeFilesSurvive ==
    ASSUME NEW file \in WholeFile
    PROVE  /\ AfterPowerLoss(file) = file
           /\ file.count \in Nat
           /\ file.readable
<1>1. CASE file = NoFile
  BY <1>1 DEF NoFile, AfterPowerLoss
<1>2. ASSUME NEW r \in Record, file = TempFile(r)
      PROVE  AfterPowerLoss(file) = file /\ file.count \in Nat /\ file.readable
  <2> DEFINE whole(b, c) == [count |-> r.count, offset |-> r.offset, readable |-> b, synced |-> c]
             x == whole(TRUE, TRUE)
  <2>1. file = x
    BY <1>2 DEF TempFile
  <2>2. \A b, c, d : [whole(b, c) EXCEPT !.readable = d] = whole(d, c)
    OBVIOUS
  <2>3. x.readable /\ x.synced /\ x.count \in Nat
    BY DEF Record
  <2> HIDE DEF whole
  <2>4. (x.readable /\ x.synced) = TRUE
    BY <2>3
  <2>5. [x EXCEPT !.readable = x.readable /\ x.synced] = x
    BY ONLY <2>2, <2>4, Zenon
  <2> HIDE DEF x
  <2>6. [file EXCEPT !.readable = @ /\ file.synced] = file
    BY <2>1, <2>5
  <2> QED
    BY <2>1, <2>3, <2>6 DEF AfterPowerLoss
<1> QED
  BY <1>1, <1>2 DEF WholeFile

(* A whole record is not the absence of one.                               *)
LEMMA RecordIsAFile ==
    ASSUME NEW r \in Record
    PROVE  /\ TempFile(r) # NoFile
           /\ TempFile(r) \in WholeFile
           /\ TempFile(r).count = r.count /\ r.count \in Nat
           /\ TempFile(r).offset = r.offset
<1>1. "offset" \in DOMAIN TempFile(r) /\ "offset" \notin DOMAIN NoFile
  BY DEF TempFile, NoFile
<1> QED
  BY <1>1 DEF TempFile, WholeFile, Record

-----------------------------------------------------------------------------
(* Saves that end, and steps that leave the files alone, keep WorkerInv.   *)
LEMMA WorkersKeep ==
    ASSUME WorkerInv, UNCHANGED <<config, visible>>, workers' \subseteq workers,
           \A w \in workers' : phase'[w.handle] = "held"
    PROVE  WorkerInv'
<1>1. Worker' = Worker
  BY DEF Worker, Handles
<1>2. \A f, a, b : validate_checkpoint_progress(f, a, b)' <=> validate_checkpoint_progress(f, a, b)
  BY DEF validate_checkpoint_progress, SourceType
<1> QED
  BY <1>1, <1>2 DEF WorkerInv

(* Steps that leave files and acknowledgements alone keep FileInv.         *)
LEMMA FilesKeep ==
    ASSUME FileInv, UNCHANGED <<config, visible, durable, acknowledged>>,
           committed' \in [Handles -> Nat]
    PROVE  FileInv'
  BY DEF FileInv, Handles

(* The next step of the only save in progress.                             *)
LEMMA MovedWorker ==
    ASSUME WorkerInv, UNCHANGED config, NEW w \in workers,
           NEW to \in {"written", "renamed"}, Move(w, to),
           phase' = phase,
           to = "written" => validate_checkpoint_progress(w.file, visible'[w.file], w.record),
           to = "renamed" => visible'[w.file] = TempFile(w.record)
    PROVE  WorkerInv'
<1> DEFINE v == [w EXCEPT !.step = to]
<1>1. workers' = {v}
  BY DEF WorkerInv, Move
<1>2. w \in Worker /\ phase[w.handle] = "held" /\ w.awaited
  BY DEF WorkerInv
<1>3. /\ v \in Worker
      /\ v.handle = w.handle /\ v.file = w.file /\ v.record = w.record /\ v.step = to
      /\ v.awaited <=> w.awaited
  BY <1>2 DEF Worker
<1>4. Worker' = Worker
  BY DEF Worker, Handles
<1>5. \A f, a, b : validate_checkpoint_progress(f, a, b)' <=> validate_checkpoint_progress(f, a, b)
  BY DEF validate_checkpoint_progress, SourceType
<1> HIDE DEF v
<1> QED
  BY <1>1, <1>2, <1>3, <1>4, <1>5 DEF WorkerInv

(* A lease is only granted when no save is in progress.                    *)
LEMMA GrantFindsNoSave ==
    ASSUME Installed, LeaseInv, HolderInv, NEW h \in Handles, LeaseGranted(h)
    PROVE  workers = {}
<1> SUFFICES ASSUME NEW w \in workers
             PROVE  FALSE
  OBVIOUS
<1>1. w.handle \in Handles /\ phase[w.handle] = "held"
  BY DEF HolderInv
<1>2. lock = Process(w.handle) /\ Process(w.handle) \in Processes /\ "unwritten" \notin Processes
  BY <1>1, Owners DEF LeaseInv, Installed
<1>3. phase[h] \in {"creating", "examining", "rechecking"}
  BY DEF LeaseGranted, WriteToken, Reenter, WinTakeover
<1>4. lock = "unwritten" \/ lock = Process(h)
  BY DEF LeaseGranted, WriteToken, Reenter, WinTakeover, LeaseInv
<1> QED
  BY <1>1, <1>2, <1>3, <1>4 DEF LeaseInv

(* The save that starts is the only one.                                   *)
LEMMA SaveStartsAlone ==
    ASSUME Installed, LeaseInv, WorkerInv, FileInv,
           NEW h \in Handles, NEW f \in Files, NEW offset \in config.offsets[f], save(h, f, offset)
    PROVE  WorkerInv'
<1> DEFINE v == [handle |-> h, file |-> f, record |-> [count |-> committed[h] + 1, offset |-> offset],
                 awaited |-> TRUE, step |-> "verified"]
<1>1. /\ UNCHANGED <<config, phase, visible>>
      /\ phase[h] = "held"
      /\ \A w \in workers : w.handle = h => ~w.awaited
      /\ workers' = workers \cup {v}
  BY DEF save, verify_lease_still_held, leaseVars
<1>2. workers = {}
  <2> SUFFICES ASSUME NEW w \in workers
               PROVE  FALSE
    OBVIOUS
  <2>1. w.handle \in Handles /\ phase[w.handle] = "held" /\ w.awaited
    BY DEF WorkerInv, Worker
  <2>2. w.handle = h
    BY <1>1, <2>1, SingleHolder
  <2> QED
    BY <1>1, <2>1, <2>2
<1>3. offset \in Offset /\ committed[h] + 1 \in Nat
  BY StoreConstants DEF Installed, FileInv
<1>4. /\ v \in Worker
      /\ v.handle = h /\ v.step = "verified" /\ v.awaited
  BY <1>3 DEF Worker, Record
<1>5. Worker' = Worker
  BY <1>1 DEF Worker, Handles
<1> HIDE DEF v
<1>6. workers' = {v}
  BY <1>1, <1>2
<1> QED
  BY <1>1, <1>4, <1>5, <1>6 DEF WorkerInv

(* A rename replaces a record by one that covers at least as much.         *)
LEMMA RenameKeepsFiles ==
    ASSUME WorkerInv, FileInv, NEW w \in workers, Rename(w)
    PROVE  FileInv'
<1>1. /\ visible' = [visible EXCEPT ![w.file] = TempFile(w.record)]
      /\ UNCHANGED <<config, durable, committed, acknowledged>>
      /\ validate_checkpoint_progress(w.file, visible[w.file], w.record)
  BY DEF Rename, WorkerInv, leaseVars
<1>2. w.file \in Files /\ w.record \in Record
  BY DEF WorkerInv, Worker
<1>3. /\ TempFile(w.record) \in WholeFile
      /\ TempFile(w.record).count = w.record.count /\ w.record.count \in Nat
  BY <1>2, RecordIsAFile
<1>4. visible[w.file].count <= w.record.count
  BY <1>1, <1>3 DEF validate_checkpoint_progress, NoFile
<1>5. durable[w.file].count \in Nat /\ visible[w.file].count \in Nat
  BY <1>2, WholeFilesSurvive DEF FileInv
<1>6. \A f \in Files : durable[f].count <= visible'[f].count
  BY <1>1, <1>2, <1>3, <1>4, <1>5 DEF FileInv
<1> QED
  BY <1>1, <1>2, <1>3, <1>6 DEF FileInv, Handles

(* After the fsync of the directory the acknowledged record is durable.    *)
LEMMA ReturnKeepsFiles ==
    ASSUME WorkerInv, FileInv, NEW w \in workers, SaveReturns(w)
    PROVE  FileInv'
<1>1. w.file \in Files /\ w.record \in Record /\ w.handle \in Handles /\ w.awaited
  BY DEF WorkerInv, Worker
<1>2. /\ UNCHANGED <<config, visible>> /\ durable' = visible
      /\ committed' = [committed EXCEPT ![w.handle] = w.record.count]
      /\ acknowledged' = Max({acknowledged, w.record.count})
      /\ visible[w.file] = TempFile(w.record)
  BY <1>1 DEF SaveReturns, sync_parent_directory, WorkerInv, leaseVars
<1>3. visible[w.file].count = w.record.count /\ w.record.count \in Nat
  BY <1>1, <1>2, RecordIsAFile
<1>4. acknowledged' \in {acknowledged, w.record.count} /\ acknowledged' \in Nat
  BY <1>2, <1>3, HigherOfTwo DEF FileInv
<1>5. \A f \in Files : visible[f].count \in Nat /\ durable[f].count \in Nat
  BY WholeFilesSurvive DEF FileInv
<1>6. \E f \in Files : acknowledged' <= visible[f].count
  BY <1>1, <1>3, <1>4, <1>5 DEF FileInv
<1>7. committed' \in [Handles -> Nat] /\ Handles' = Handles
  BY <1>1, <1>2, <1>3 DEF FileInv, Handles
<1>8. /\ visible' \in [Files -> WholeFile] /\ durable' \in [Files -> WholeFile]
      /\ \A f \in Files : durable'[f].count <= visible'[f].count
  BY <1>2, <1>5 DEF FileInv
<1>9. \E f \in Files : acknowledged' <= durable'[f].count
  BY <1>2, <1>6
<1> QED
  BY <1>4, <1>7, <1>8, <1>9 DEF FileInv

(* Whichever renames a power loss forgets, what was acknowledged is left.  *)
LEMMA PowerLossKeepsFiles ==
    ASSUME Installed, WorkerInv, FileInv, PowerLoss
    PROVE  FileInv' /\ workers' = {}
<1>1. /\ config' = config /\ durable' = visible' /\ acknowledged' = acknowledged
      /\ committed' = [h \in Handles |-> IF Process(h) \in Processes THEN 0 ELSE committed[h]]
      /\ workers' = {w \in workers : Process(w.handle) \notin Processes}
  BY DEF PowerLoss, Forget, Die
<1>2. PICK kept \in SUBSET Files :
          visible' = [f \in Files |-> AfterPowerLoss(IF f \in kept THEN visible[f] ELSE durable[f])]
  BY DEF PowerLoss
<1>3. \A f \in Files : /\ visible[f] \in WholeFile /\ durable[f] \in WholeFile
                       /\ visible[f].count \in Nat /\ durable[f].count \in Nat
                       /\ AfterPowerLoss(visible[f]) = visible[f]
                       /\ AfterPowerLoss(durable[f]) = durable[f]
  BY WholeFilesSurvive DEF FileInv
<1>4. visible' = [f \in Files |-> IF f \in kept THEN visible[f] ELSE durable[f]]
  BY <1>2, <1>3
<1>5. visible' \in [Files -> WholeFile] /\ \A f \in Files : visible'[f].count \in Nat
  BY <1>3, <1>4
<1>6. PICK f \in Files : acknowledged <= durable[f].count
  BY DEF FileInv
<1>7. durable[f].count <= visible'[f].count
  BY <1>3, <1>4 DEF FileInv
<1>8. acknowledged <= visible'[f].count /\ acknowledged \in Nat
  BY <1>3, <1>5, <1>6, <1>7 DEF FileInv
<1>9. committed' \in [Handles -> Nat]
  BY <1>1 DEF FileInv
<1>10. workers' = {}
  BY <1>1, Owners DEF Installed, WorkerInv, Worker
<1> QED
  BY <1>1, <1>5, <1>8, <1>9, <1>10 DEF FileInv, Handles

-----------------------------------------------------------------------------
(* The invariant holds on an empty directory.                              *)
LEMMA InitSInv == Init => SInv
<1> SUFFICES ASSUME Init
             PROVE  SInv
  OBVIOUS
<1> USE DEF Init, LeaseInit
<1>1. LeaseInv
  BY DEF LeaseInv, Phases
<1>2. WorkerInv
  BY DEF WorkerInv
<1>3. FileInv
  <2>1. NoFile \in WholeFile /\ NoFile.count = 0
    BY DEF WholeFile, NoFile
  <2> QED
    BY <2>1 DEF FileInv, Files
<1> QED
  BY <1>1, <1>2, <1>3 DEF SInv, StoreInv, HolderInv

(* Every step of the lease, of a save and of the environment keeps the     *)
(* invariant, in an installation whose callers await their saves.          *)
LEMMA StepStoreInv ==
    ASSUME Installed, ~config.drops, StoreInv, ~displaced', [Next]_vars
    PROVE  StoreInv' /\ config' = config
<1>0. LeaseInv /\ WorkerInv /\ FileInv
  BY DEF StoreInv
<1>same. ASSUME UNCHANGED leaseVars
         PROVE  LeaseInv' /\ config' = config /\ phase' = phase
  BY <1>0, <1>same DEF leaseVars, LeaseInv, Handles, Processes, Process
<1>held. \A w \in workers : w.handle \in Handles /\ phase[w.handle] = "held"
  BY <1>0 DEF WorkerInv, Worker
<1>nat. committed \in [Handles -> Nat]
  BY <1>0 DEF FileInv
<1>1. ASSUME NEW p \in Processes, StartProcess(p)
      PROVE  StoreInv' /\ config' = config
  <2>1. LeaseInv' /\ config' = config
    BY <1>0, <1>1, ProcessesKeepLease DEF StartProcess
  <2>2. phase' = phase /\ UNCHANGED storeVars
    BY <1>1 DEF StartProcess, Start
  <2>3. WorkerInv' /\ FileInv'
    BY <1>0, <1>held, <1>nat, <2>1, <2>2, WorkersKeep, FilesKeep DEF storeVars
  <2> QED
    BY <2>1, <2>3 DEF StoreInv
<1>2. ASSUME NEW p \in Processes, Crash(p)
      PROVE  StoreInv' /\ config' = config
  <2>1. LeaseInv' /\ config' = config
    <3>1. {p} \in SUBSET Processes /\ Die({p}) /\ lock' = lock
      BY <1>2 DEF Crash, Forget
    <3> QED
      BY <1>0, <3>1, ProcessesKeepLease
  <2>2. /\ phase' = [h \in Handles |-> IF Process(h) \in {p} THEN "none" ELSE phase[h]]
        /\ workers' = {w \in workers : Process(w.handle) \notin {p}}
        /\ committed' = [h \in Handles |-> IF Process(h) \in {p} THEN 0 ELSE committed[h]]
        /\ UNCHANGED <<visible, durable, acknowledged>>
    BY <1>2 DEF Crash, Forget, Die
  <2>3. WorkerInv'
    <3>1. workers' \subseteq workers /\ \A w \in workers' : phase'[w.handle] = "held"
      BY <1>held, <2>2
    <3> QED
      BY <1>0, <2>1, <2>2, <3>1, WorkersKeep
  <2>4. FileInv'
    <3>1. committed' \in [Handles -> Nat]
      BY <1>nat, <2>2
    <3> QED
      BY <1>0, <2>1, <2>2, <3>1, FilesKeep
  <2> QED
    BY <2>1, <2>3, <2>4 DEF StoreInv
<1>3. CASE PowerLoss
  <2>1. LeaseInv' /\ config' = config
    <3>1. Processes \in SUBSET Processes /\ Die(Processes)
      BY <1>3 DEF PowerLoss, Forget
    <3> QED
      BY <1>0, <3>1, ProcessesKeepLease
  <2>2. FileInv' /\ workers' = {}
    BY <1>0, <1>3, PowerLossKeepsFiles
  <2>3. WorkerInv'
    BY <2>2 DEF WorkerInv
  <2> QED
    BY <2>1, <2>2, <2>3 DEF StoreInv
<1>4. ASSUME NEW h \in Handles, LeaseWaits(h) \/ LeaseWriteFails(h)
      PROVE  StoreInv' /\ config' = config
  <2>1. LeaseStep(h) \/ WriteTokenFails(h)
    BY <1>4 DEF LeaseWaits, LeaseWriteFails
  <2>2. LeaseInv' /\ config' = config
    BY <1>0, <2>1, LeaseActionsKeep
  <2>3. UNCHANGED <<visible, durable, committed, workers, acknowledged>>
    BY <1>4 DEF LeaseWaits, LeaseWriteFails, storeVars
  <2>4. phase[h] # "held" /\ \E to : phase' = [phase EXCEPT ![h] = to]
    BY <2>1 DEF LeaseStep, WriteTokenFails, acquire, FindStale, FindOwned, atomic_write_lease,
                LoseTakeover, RemoveLock, Refuse, SetPhase
  <2>5. \A w \in workers' : phase'[w.handle] = "held"
    BY <1>0, <1>held, <2>3, <2>4 DEF LeaseInv
  <2>6. WorkerInv' /\ FileInv'
    BY <1>0, <1>nat, <2>2, <2>3, <2>5, WorkersKeep, FilesKeep
  <2> QED
    BY <2>2, <2>6 DEF StoreInv
<1>5. ASSUME NEW h \in Handles, ensure_owner_lease(h)
      PROVE  StoreInv' /\ config' = config
  <2>1. LeaseGranted(h) /\ UNCHANGED <<visible, durable, committed, acknowledged>>
    BY <1>5 DEF ensure_owner_lease
  <2>2. LeaseInv' /\ config' = config
    BY <1>0, <2>1, LeaseActionsKeep
  <2>3. workers' = {}
    <3>1. workers = {}
      BY <1>0, <1>held, <2>1, GrantFindsNoSave DEF HolderInv, WorkerInv, Worker
    <3> QED
      BY <1>5, <3>1 DEF ensure_owner_lease
  <2>4. WorkerInv'
    BY <2>3 DEF WorkerInv
  <2>5. FileInv'
    BY <1>0, <1>nat, <2>1, <2>2, FilesKeep
  <2> QED
    BY <2>2, <2>4, <2>5 DEF StoreInv
<1>6. ASSUME NEW h \in Handles, load(h)
      PROVE  StoreInv' /\ config' = config
  <2>1. /\ UNCHANGED leaseVars /\ UNCHANGED <<visible, durable, workers, acknowledged>>
        /\ committed' = [committed EXCEPT ![h] = LatestCount(visible)]
    BY <1>6 DEF load
  <2>2. LatestCount(visible) \in Nat
    <3>1. \A f \in Files : visible[f].count \in Nat
      BY <1>0, WholeFilesSurvive DEF FileInv
    <3> QED
      BY <3>1, LatestCountIsHighest
  <2>3. LeaseInv' /\ config' = config /\ phase' = phase
    BY <1>same, <2>1
  <2>4. committed' \in [Handles -> Nat]
    BY <1>nat, <2>1, <2>2
  <2>5. WorkerInv' /\ FileInv'
    BY <1>0, <1>held, <2>1, <2>3, <2>4, WorkersKeep, FilesKeep
  <2> QED
    BY <2>3, <2>5 DEF StoreInv
<1>7. ASSUME NEW h \in Handles, NEW f \in Files, NEW offset \in config.offsets[f], save(h, f, offset)
      PROVE  StoreInv' /\ config' = config
  <2>1. UNCHANGED leaseVars /\ UNCHANGED <<visible, durable, committed, acknowledged>>
    BY <1>7 DEF save
  <2>2. LeaseInv' /\ config' = config
    BY <1>same, <2>1
  <2>3. WorkerInv'
    BY <1>0, <1>7, SaveStartsAlone
  <2>4. FileInv'
    BY <1>0, <1>nat, <2>1, <2>2, FilesKeep
  <2> QED
    BY <2>2, <2>3, <2>4 DEF StoreInv
<1>8. ASSUME NEW w \in workers, WriteTempFile(w)
      PROVE  StoreInv' /\ config' = config
  <2>1. /\ UNCHANGED leaseVars /\ UNCHANGED <<visible, durable, committed, acknowledged>>
        /\ Move(w, "written")
        /\ validate_checkpoint_progress(w.file, visible[w.file], w.record)
    BY <1>8 DEF WriteTempFile, validate_monotonic_progress
  <2>2. LeaseInv' /\ config' = config /\ phase' = phase
    BY <1>same, <2>1
  <2>3. WorkerInv'
    BY <1>0, <2>1, <2>2, MovedWorker
  <2>4. FileInv'
    BY <1>0, <1>nat, <2>1, <2>2, FilesKeep
  <2> QED
    BY <2>2, <2>3, <2>4 DEF StoreInv
<1>9. ASSUME NEW w \in workers, SaveRefused(w) \/ RenameFindsNothing(w) \/ SaveFails(w)
      PROVE  StoreInv' /\ config' = config
  <2>1. /\ UNCHANGED leaseVars /\ UNCHANGED <<visible, durable, committed, acknowledged>>
        /\ workers' \subseteq workers
    BY <1>9 DEF SaveRefused, RenameFindsNothing, SaveFails
  <2>2. LeaseInv' /\ config' = config /\ phase' = phase
    BY <1>same, <2>1
  <2>3. WorkerInv' /\ FileInv'
    BY <1>0, <1>held, <1>nat, <2>1, <2>2, WorkersKeep, FilesKeep
  <2> QED
    BY <2>2, <2>3 DEF StoreInv
<1>10. ASSUME NEW w \in workers, Rename(w)
       PROVE  StoreInv' /\ config' = config
  <2>1. /\ UNCHANGED leaseVars
        /\ Move(w, "renamed")
        /\ visible' = [visible EXCEPT ![w.file] = TempFile(w.record)]
    BY <1>10 DEF Rename
  <2>2. LeaseInv' /\ config' = config /\ phase' = phase
    BY <1>same, <2>1
  <2>3. visible'[w.file] = TempFile(w.record)
    BY <1>0, <2>1 DEF WorkerInv, Worker, FileInv
  <2>4. WorkerInv'
    BY <1>0, <2>1, <2>2, <2>3, MovedWorker
  <2>5. FileInv'
    BY <1>0, <1>10, RenameKeepsFiles
  <2> QED
    BY <2>2, <2>4, <2>5 DEF StoreInv
<1>11. ASSUME NEW w \in workers, SaveReturns(w)
       PROVE  StoreInv' /\ config' = config
  <2>1. UNCHANGED leaseVars /\ visible' = visible /\ workers' \subseteq workers
    BY <1>11 DEF SaveReturns
  <2>2. LeaseInv' /\ config' = config /\ phase' = phase
    BY <1>same, <2>1
  <2>3. WorkerInv'
    BY <1>0, <1>held, <2>1, <2>2, WorkersKeep
  <2>4. FileInv'
    BY <1>0, <1>11, ReturnKeepsFiles
  <2> QED
    BY <2>2, <2>3, <2>4 DEF StoreInv
<1>12. ASSUME NEW w \in workers, SaveDropped(w)
       PROVE  FALSE
  BY <1>12 DEF SaveDropped
<1>13. ASSUME NEW h \in Handles, DropStore(h)
       PROVE  StoreInv' /\ config' = config
  <2>1. /\ DropLease(h) /\ \A w \in workers : w.handle # h
        /\ committed' = [committed EXCEPT ![h] = 0]
        /\ UNCHANGED <<visible, durable, workers, acknowledged>>
    BY <1>13 DEF DropStore
  <2>2. LeaseInv' /\ config' = config
    BY <1>0, <2>1, LeaseActionsKeep
  <2>3. \A w \in workers' : phase'[w.handle] = "held"
    BY <1>0, <1>held, <2>1 DEF DropLease, SetPhase, LeaseInv
  <2>4. committed' \in [Handles -> Nat]
    BY <1>nat, <2>1
  <2>5. WorkerInv' /\ FileInv'
    BY <1>0, <2>1, <2>2, <2>3, <2>4, WorkersKeep, FilesKeep
  <2> QED
    BY <2>2, <2>5 DEF StoreInv
<1>14. ASSUME NEW f \in Files, NEW offset \in config.offsets[f], restore_from_record(f, offset)
       PROVE  StoreInv' /\ config' = config
  <2> DEFINE r == [count |-> 1, offset |-> offset]
  <2>1. /\ UNCHANGED leaseVars /\ UNCHANGED <<committed, workers>>
        /\ \A p \in Processes : ~alive[p]
        /\ visible' = [visible EXCEPT ![f] = TempFile(r)]
        /\ durable' = visible'
        /\ acknowledged' = LatestCount(visible')
    BY <1>14 DEF restore_from_record, sync_parent_directory
  <2>2. LeaseInv' /\ config' = config /\ phase' = phase
    BY <1>same, <2>1
  <2>3. workers' = {}
    BY <1>0, <1>held, <2>1, Owners DEF LeaseInv, Installed
  <2>4. r \in Record
    BY StoreConstants DEF Installed, Record
  <2> HIDE DEF r
  <2>5. visible' \in [Files -> WholeFile]
    BY <1>0, <2>1, <2>4, RecordIsAFile DEF FileInv
  <2>6. \A g \in Files : visible'[g].count \in Nat
    BY <2>5, WholeFilesSurvive
  <2>7. LatestCount(visible') \in Nat /\ \E g \in Files : LatestCount(visible') = visible'[g].count
    BY <2>6, LatestCountIsHighest
  <2>8. FileInv'
    <3>1. committed' \in [Handles' -> Nat] /\ acknowledged' \in Nat
      BY <1>nat, <2>1, <2>2, <2>7 DEF Handles
    <3>2. durable' \in [Files -> WholeFile] /\ \A g \in Files : durable'[g].count <= visible'[g].count
      BY <2>1, <2>5, <2>6
    <3>3. \E g \in Files : acknowledged' <= durable'[g].count
      BY <2>1, <2>6, <2>7
    <3> QED
      BY <2>5, <3>1, <3>2, <3>3 DEF FileInv
  <2>9. WorkerInv'
    BY <2>3 DEF WorkerInv
  <2> QED
    BY <2>2, <2>8, <2>9 DEF StoreInv
<1>15. CASE UNCHANGED vars
  <2>1. UNCHANGED leaseVars /\ UNCHANGED <<visible, durable, committed, workers, acknowledged>>
    BY <1>15 DEF vars, storeVars
  <2>2. LeaseInv' /\ config' = config /\ phase' = phase
    BY <1>same, <2>1
  <2>3. WorkerInv' /\ FileInv'
    BY <1>0, <1>held, <1>nat, <2>1, <2>2, WorkersKeep, FilesKeep, SMTT(30)
  <2> QED
    BY <2>2, <2>3 DEF StoreInv
<1> QED
  BY <1>1, <1>2, <1>3, <1>4, <1>5, <1>6, <1>7, <1>8, <1>9, <1>10, <1>11, <1>12, <1>13, <1>14, <1>15
  DEF Next

(* Whatever callers do with their saves, a save only runs behind a lease.  *)
LEMMA StepHolders ==
    ASSUME Installed, LeaseInv, HolderInv, ~displaced', [Next]_vars
    PROVE  LeaseInv' /\ HolderInv'
<1>same. ASSUME UNCHANGED leaseVars
         PROVE  LeaseInv' /\ phase' = phase /\ Handles' = Handles
  BY <1>same DEF leaseVars, LeaseInv, Handles, Processes, Process
<1>1. ASSUME NEW p \in Processes, StartProcess(p)
      PROVE  LeaseInv' /\ HolderInv'
  <2>1. LeaseInv' /\ config' = config
    BY <1>1, ProcessesKeepLease DEF StartProcess
  <2>2. phase' = phase /\ workers' = workers
    BY <1>1 DEF StartProcess, Start, storeVars
  <2> QED
    BY <2>1, <2>2 DEF HolderInv, Handles
<1>2. ASSUME NEW dead \in SUBSET Processes, Forget(dead), lock' = lock \/ dead = Processes
      PROVE  LeaseInv' /\ HolderInv'
  <2>1. LeaseInv' /\ config' = config
    BY <1>2, ProcessesKeepLease DEF Forget
  <2>2. /\ phase' = [h \in Handles |-> IF Process(h) \in dead THEN "none" ELSE phase[h]]
        /\ workers' = {w \in workers : Process(w.handle) \notin dead}
    BY <1>2 DEF Forget, Die
  <2> QED
    BY <2>1, <2>2 DEF HolderInv, Handles
<1>3. ASSUME NEW h \in Handles, LeaseWaits(h) \/ LeaseWriteFails(h)
      PROVE  LeaseInv' /\ HolderInv'
  <2>1. LeaseStep(h) \/ WriteTokenFails(h)
    BY <1>3 DEF LeaseWaits, LeaseWriteFails
  <2>2. LeaseInv' /\ config' = config
    BY <2>1, LeaseActionsKeep
  <2>3. workers' = workers
    BY <1>3 DEF LeaseWaits, LeaseWriteFails, storeVars
  <2>4. phase[h] # "held" /\ \E to : phase' = [phase EXCEPT ![h] = to]
    BY <2>1 DEF LeaseStep, WriteTokenFails, acquire, FindStale, FindOwned, atomic_write_lease,
                LoseTakeover, RemoveLock, Refuse, SetPhase
  <2> QED
    BY <2>2, <2>3, <2>4 DEF HolderInv, LeaseInv, Handles
<1>4. ASSUME NEW h \in Handles, ensure_owner_lease(h)
      PROVE  LeaseInv' /\ HolderInv'
  <2>1. LeaseGranted(h)
    BY <1>4 DEF ensure_owner_lease
  <2>2. LeaseInv' /\ workers = {}
    BY <2>1, LeaseActionsKeep, GrantFindsNoSave
  <2> QED
    BY <1>4, <2>2 DEF ensure_owner_lease, HolderInv
<1>5. ASSUME NEW h \in Handles, NEW f \in Files, NEW offset \in config.offsets[f], save(h, f, offset)
      PROVE  LeaseInv' /\ HolderInv'
  BY <1>5, <1>same DEF save, verify_lease_still_held, HolderInv
<1>6. ASSUME NEW w \in workers, NEW to, Move(w, to), UNCHANGED leaseVars
      PROVE  LeaseInv' /\ HolderInv'
  <2> DEFINE v == [w EXCEPT !.step = to]
  <2>1. workers' = (workers \ {w}) \cup {v}
    BY <1>6 DEF Move
  <2>2. "handle" \in DOMAIN v /\ v.handle = w.handle
    BY <1>6 DEF HolderInv
  <2> HIDE DEF v
  <2> QED
    BY <1>6, <1>same, <2>1, <2>2 DEF HolderInv
<1>7. ASSUME NEW w \in workers, SaveDropped(w)
      PROVE  LeaseInv' /\ HolderInv'
  <2> DEFINE v == [w EXCEPT !.awaited = FALSE]
  <2>1. workers' = (workers \ {w}) \cup {v} /\ UNCHANGED leaseVars
    BY <1>7 DEF SaveDropped
  <2>2. "handle" \in DOMAIN v /\ v.handle = w.handle
    BY <1>7 DEF HolderInv
  <2> HIDE DEF v
  <2> QED
    BY <1>same, <2>1, <2>2 DEF HolderInv
<1>8. ASSUME workers' \subseteq workers, UNCHANGED leaseVars
      PROVE  LeaseInv' /\ HolderInv'
  BY <1>8, <1>same DEF HolderInv
<1>9. ASSUME NEW h \in Handles, DropStore(h)
      PROVE  LeaseInv' /\ HolderInv'
  <2>1. DropLease(h) /\ workers' = workers /\ \A w \in workers : w.handle # h
    BY <1>9 DEF DropStore
  <2>2. LeaseInv' /\ config' = config
    BY <2>1, LeaseActionsKeep
  <2> QED
    BY <2>1, <2>2 DEF DropLease, SetPhase, HolderInv, LeaseInv, Handles
<1>10. ASSUME NEW p \in Processes, Crash(p)
       PROVE  LeaseInv' /\ HolderInv'
  <2>1. {p} \in SUBSET Processes /\ Forget({p}) /\ lock' = lock
    BY <1>10 DEF Crash
  <2> QED
    BY <1>2, <2>1
<1>11. CASE PowerLoss
  <2>1. Processes \in SUBSET Processes /\ Forget(Processes)
    BY <1>11 DEF PowerLoss
  <2> QED
    BY <1>2, <2>1
<1>12. CASE \/ \E h \in Handles : load(h)
            \/ \E w \in workers : SaveRefused(w) \/ RenameFindsNothing(w) \/ SaveReturns(w) \/ SaveFails(w)
            \/ \E f \in Files : \E offset \in config.offsets[f] : restore_from_record(f, offset)
            \/ UNCHANGED vars
  <2>1. workers' \subseteq workers /\ UNCHANGED leaseVars
    BY <1>12 DEF load, SaveRefused, RenameFindsNothing, SaveReturns, SaveFails, restore_from_record,
                 vars, storeVars
  <2> QED
    BY <1>8, <2>1
<1>13. ASSUME NEW w \in workers, WriteTempFile(w) \/ Rename(w)
       PROVE  LeaseInv' /\ HolderInv'
  BY <1>6, <1>13 DEF WriteTempFile, Rename
<1> QED
  BY <1>1, <1>3, <1>4, <1>5, <1>7, <1>9, <1>10, <1>11, <1>12, <1>13 DEF Next

(* An installation is never exchanged.                                     *)
LEMMA ConfigStays == [Next]_vars => config' = config
  BY DEF Next, vars, leaseVars, StartProcess, Start, Crash, PowerLoss, Forget, Die, LeaseWaits,
         LeaseWriteFails, ensure_owner_lease, LeaseStep, LeaseGranted, WriteTokenFails, acquire,
         FindStale, FindOwned, atomic_write_lease, LoseTakeover, RemoveLock, WriteToken, Reenter,
         WinTakeover, Refuse, Granted, load, save, WriteTempFile, SaveRefused, Rename,
         RenameFindsNothing, SaveReturns, SaveFails, SaveDropped, DropStore, DropLease,
         restore_from_record

(* Only a step on the lock file of another handle displaces one.           *)
LEMMA WhoDisplaces == [Next]_vars => displaced' = displaced \/ \E h \in Handles : Displaces(h)
  BY DEF Next, vars, leaseVars, StartProcess, Start, Crash, PowerLoss, Forget, Die, LeaseWaits,
         LeaseWriteFails, ensure_owner_lease, LeaseStep, LeaseGranted, WriteTokenFails, acquire,
         FindStale, FindOwned, atomic_write_lease, LoseTakeover, RemoveLock, WriteToken, Reenter,
         WinTakeover, Refuse, Granted, load, save, WriteTempFile, SaveRefused, Rename,
         RenameFindsNothing, SaveReturns, SaveFails, SaveDropped, DropStore, DropLease,
         restore_from_record

(* What was displaced stays so.                                            *)
LEMMA DisplacedStays ==
    ASSUME [Next]_vars, displaced \in BOOLEAN
    PROVE  displaced' \in BOOLEAN /\ (displaced => displaced')
  BY WhoDisplaces, Zenon DEF Displaces

(* The inductive invariant of the store, in every installation: what is    *)
(* known of the lease, of the saves behind it and of the files, until a    *)
(* lock file is displaced.                                                 *)
THEOREM StoreInvariant == Spec => []SInv
<1>1. Init => SInv
  BY InitSInv
<1>2. ASSUME SInv, [Next]_vars
      PROVE  SInv'
  <2>1. config' = config /\ displaced' \in BOOLEAN /\ (displaced => displaced')
    BY <1>2, ConfigStays, DisplacedStays DEF SInv
  <2>2. ASSUME ~displaced'
        PROVE  LeaseInv' /\ HolderInv'
    BY <1>2, <2>1, <2>2, StepHolders DEF SInv, Installed
  <2>3. ASSUME ~displaced', ~config.drops
        PROVE  StoreInv'
    BY <1>2, <2>1, <2>3, StepStoreInv DEF SInv, Installed
  <2> QED
    BY <1>2, <2>1, <2>2, <2>3 DEF SInv
<1> QED
  BY <1>1, <1>2, PTL DEF Spec

(* A single handle writes at a time, and the lock file names its process,  *)
(* for any number of processes, hosts, handles, takeovers, restarts and    *)
(* power losses, until a rename or a removal hits a lock file that another *)
(* handle has by then: the re-read after a takeover catches every other    *)
(* race (acquire_on_disk, owner_lease.rs:346-359).                         *)
THEOREM LeaseAdmitsOneWriter == Spec => []OneWriter
<1>1. SInv => OneWriter
  <2> SUFFICES ASSUME SInv, ~displaced, NEW w \in workers
               PROVE  /\ lock = Process(w.handle)
                      /\ \A v \in workers : v.handle = w.handle /\ (~config.drops => v = w)
    BY DEF OneWriter
  <2>1. LeaseInv /\ HolderInv
    BY DEF SInv
  <2>2. \A v \in workers : v.handle = w.handle
    BY <2>1, SingleHolder DEF HolderInv
  <2>3. ~config.drops => \A v \in workers : v = w
    BY DEF SInv, StoreInv, WorkerInv
  <2> QED
    BY <2>1, <2>2, <2>3 DEF HolderInv, LeaseInv
<1> QED
  BY <1>1, StoreInvariant, PTL

(* What a save returned Ok for is found after every crash and power loss,  *)
(* whichever unsynced renames are forgotten (save, checkpoint/mod.rs:1387), *)
(* where callers await their saves and no lock file was displaced.         *)
THEOREM AcknowledgedSavesSurvive == Spec => []AcknowledgedSaveSurvives
<1>1. SInv => AcknowledgedSaveSurvives
  <2> SUFFICES ASSUME SInv, ~displaced, ~config.drops, NEW kept \in SUBSET Files
               PROVE  LET files == [f \in Files |->
                                      AfterPowerLoss(IF f \in kept THEN visible[f] ELSE durable[f])]
                      IN  Readable(files) /\ LatestCount(files) >= acknowledged
    BY DEF AcknowledgedSaveSurvives
  <2> DEFINE files == [f \in Files |-> AfterPowerLoss(IF f \in kept THEN visible[f] ELSE durable[f])]
  <2>1. FileInv
    BY DEF SInv, StoreInv
  <2>2. \A f \in Files : /\ visible[f] \in WholeFile /\ durable[f] \in WholeFile
                         /\ visible[f].count \in Nat /\ durable[f].count \in Nat
                         /\ visible[f].readable /\ durable[f].readable
                         /\ AfterPowerLoss(visible[f]) = visible[f]
                         /\ AfterPowerLoss(durable[f]) = durable[f]
    BY <2>1, WholeFilesSurvive DEF FileInv
  <2>3. \A f \in Files : files[f] = IF f \in kept THEN visible[f] ELSE durable[f]
    BY <2>2
  <2> HIDE DEF files
  <2>4. Readable(files) /\ \A f \in Files : files[f].count \in Nat
    BY <2>2, <2>3 DEF Readable, verify_checksum
  <2>5. PICK f \in Files : acknowledged <= durable[f].count
    BY <2>1 DEF FileInv
  <2>6. durable[f].count <= files[f].count
    BY <2>1, <2>2, <2>3 DEF FileInv
  <2>7. files[f].count <= LatestCount(files) /\ LatestCount(files) \in Nat
    BY <2>4, LatestCountIsHighest
  <2>8. LatestCount(files) >= acknowledged
    BY <2>1, <2>2, <2>4, <2>5, <2>6, <2>7 DEF FileInv
  <2> QED
    BY <2>4, <2>8 DEF files
<1> QED
  BY <1>1, StoreInvariant, PTL

(* A record that stays is no step back.                                    *)
LEMMA StayingIsForward ==
    ASSUME NEW f, NEW file \in WholeFile, file # NoFile
    PROVE  MovesForward(f, file, file)
<1>1. PICK r \in Record : file = TempFile(r)
  BY DEF WholeFile
<1>2. file.count \in Nat /\ file.offset.position \in Nat
  BY <1>1 DEF TempFile, Record, Offset
<1> QED
  BY <1>2 DEF MovesForward

(* What validate_checkpoint_progress lets pass is a step forward.          *)
LEMMA ValidatedIsForward ==
    ASSUME Installed, NEW f \in Files, NEW file \in WholeFile, file # NoFile, NEW next \in Record,
           validate_checkpoint_progress(f, file, next)
    PROVE  MovesForward(f, file, TempFile(next))
<1>1. PICK r \in Record : file = TempFile(r)
  BY DEF WholeFile
<1>2. /\ file.count = r.count /\ file.offset = r.offset
      /\ TempFile(next).count = next.count /\ TempFile(next).offset = next.offset
      /\ TempFile(next) # NoFile
      /\ r.count \in Nat /\ next.count \in Nat
  BY <1>1, RecordIsAFile
<1>3. /\ r.offset.position \in Nat /\ next.offset.position \in Nat
  BY DEF Record, Offset
<1>4. /\ r.count <= next.count
      /\ r.count = next.count => r.offset = next.offset
      /\ ~stream_position_regression(SourceType(f), r.offset, next.offset)
  BY <1>2 DEF validate_checkpoint_progress
<1>5. next.count = r.count => TempFile(next) = file
  BY <1>1, <1>4 DEF TempFile
<1>6. ASSUME f = "stream", next.offset.stream = r.offset.stream, ~next.offset.gtid
      PROVE  \/ next.offset.position >= r.offset.position
             \/ config.source = "postgres" /\ next.offset.position > 0
  <2>1. SourceType(f) = config.source
    BY <1>6 DEF SourceType
  <2>2. config.source \in {"postgres", "mysql", "sqlserver", "snowflake"}
    BY StoreConstants DEF Installed
  <2> QED
    BY <1>3, <1>4, <1>6, <2>1, <2>2 DEF stream_position_regression
<1> QED
  BY <1>2, <1>4, <1>5, <1>6 DEF MovesForward

(* Only a rename, a power loss and an operator change what a reader finds. *)
LEMMA WhoChangesFiles ==
    ASSUME Next
    PROVE  \/ visible' = visible
           \/ \E w \in workers : Rename(w)
           \/ PowerLoss
           \/ \A p \in Processes : ~alive[p]
  BY DEF Next, storeVars, StartProcess, Crash, LeaseWaits, LeaseWriteFails, ensure_owner_lease, load,
         save, WriteTempFile, SaveRefused, RenameFindsNothing, SaveReturns, SaveFails, SaveDropped,
         DropStore, restore_from_record

(* No save moves a stored record back, although it was validated against a *)
(* file that others could have replaced before its rename                  *)
(* (validate_monotonic_progress, checkpoint/mod.rs:1283).                  *)
THEOREM SavesMoveForward == Spec => RecordNeverMovesBack
<1>1. ASSUME SInv, [Next]_vars
      PROVE  [~displaced /\ ~config.drops =>
                \A f \in Files :
                   \/ visible[f] = NoFile \/ PowerLoss \/ \A p \in Processes : ~alive[p]
                   \/ MovesForward(f, visible[f], visible'[f])]_vars
  <2> SUFFICES ASSUME Next, ~displaced, ~config.drops, NEW f \in Files,
                      visible[f] # NoFile, ~PowerLoss, ~(\A p \in Processes : ~alive[p])
               PROVE  MovesForward(f, visible[f], visible'[f])
    BY <1>1
  <2>1. Installed /\ WorkerInv /\ FileInv
    BY <1>1 DEF SInv, StoreInv, Installed
  <2>2. visible[f] \in WholeFile
    BY <2>1 DEF FileInv
  <2>3. CASE visible'[f] = visible[f]
    BY <2>2, <2>3, StayingIsForward
  <2>4. CASE visible'[f] # visible[f]
    <3>1. PICK w \in workers : Rename(w)
      BY <2>4, WhoChangesFiles
    <3>2. w.file \in Files /\ w.record \in Record
      BY <2>1 DEF WorkerInv, Worker
    <3>3. w.file = f /\ visible'[f] = TempFile(w.record)
      BY <2>1, <2>4, <3>1, <3>2, SMTT(30) DEF Rename, FileInv
    <3>4. validate_checkpoint_progress(f, visible[f], w.record)
      BY <2>1, <3>1, <3>3 DEF Rename, WorkerInv
    <3> QED
      BY <2>1, <2>2, <3>2, <3>3, <3>4, ValidatedIsForward
  <2> QED
    BY <2>3, <2>4
<1> QED
  BY <1>1, StoreInvariant, PTL DEF Spec, RecordNeverMovesBack
=============================================================================

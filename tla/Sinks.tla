------------------------------- MODULE Sinks -------------------------------
(***************************************************************************)
(* The sinks (sink/mod.rs, sink/file_jsonl.rs, sink/stdout.rs), the two    *)
(* composites over them (FanOutSinkAdapter, TableRouter) and the delivery  *)
(* loop that sends a batch, flushes and only then acknowledges.            *)
(*                                                                         *)
(* A file is a sequence of lines: an event number, or Torn for the         *)
(* fragment of a line that a failed write or a crash left.  What follows   *)
(* a fragment shares its line and cannot be read back.  The directory a    *)
(* file stands in is never synced: a power loss keeps some prefix of the   *)
(* creations and renames made in it.                                       *)
(***************************************************************************)
EXTENDS Integers, Sequences, SequencesExt, FiniteSets, FiniteSetsExt

CONSTANTS
    Setups,          \* the sink trees and the failures explored
    Events,          \* bound: events delivered
    Batch,           \* events of one batch
    BATCH_MAX_LINES, \* lines FileJsonlSink queues before it writes
    MaxFaults        \* bound: failed calls, crashes and shutdowns

VARIABLES
    setup,      \* composite, children and options
    sinks,      \* the children, in order
    closed,     \* TableRouter's own flag
    acked,      \* events acknowledged
    position,   \* events of the current batch that were sent
    barrier,    \* what the last barrier call returned: "none", "begun", "failed", "ended"
    faults

vars == <<setup, sinks, closed, acked, position, barrier, faults>>

Torn == 0

(* A failed call leaves the runtime's acknowledgement where it was.        *)
Setup ==
    [composite : {"leaf", "fan_out", "router"}, kinds : Seq({"jsonl", "stdout", "memory"}),
     routes : Seq(SUBSET (1..Events)), drop_unrouted : BOOLEAN, rotate : Nat, fsync_every : Nat,
     failing : SUBSET {"write", "torn", "sync", "rename", "open", "crash", "power", "timeout", "barrier"},
     retries_flush : BOOLEAN]

Sink(kind) ==
    [kind |-> kind, pending |-> <<>>, buffer |-> <<>>, file |-> <<>>, synced |-> 0,
     archives |-> <<>>, renamed |-> FALSE, bytes |-> 0, flushes |-> 0, begun |-> FALSE, closed |-> FALSE,
     anchored |-> 0,        \* directory operations a power loss has left in place
     forgotten |-> {}]      \* history: events lost where the sink does not promise to keep them

(* open_with: append to what the path holds; a file that was renamed away  *)
(* is an archive.                                                          *)
Opened(s) ==
    LET kept == IF s.renamed THEN <<>> ELSE s.file
    IN  [Sink(s.kind) EXCEPT
            !.archives = IF s.renamed THEN Append(s.archives, s.file) ELSE s.archives,
            !.file = IF s.kind = "memory" THEN <<>> ELSE kept,
            !.synced = IF s.renamed THEN 0 ELSE s.synced,
            !.bytes = Len(kept), !.anchored = s.anchored, !.forgotten = s.forgotten]

Outcome(s, ok) == [sink |-> s, ok |-> ok]
Failing(what) == what \in setup.failing /\ faults < MaxFaults
If(condition, outcomes) == IF condition THEN outcomes ELSE {}

-----------------------------------------------------------------------------
(* FileJsonlSink.  Each operator is the set of outcomes of one method, the *)
(* failed ones where an await of it returned an error.                     *)

(* BufWriter::flush.  A failed write keeps a prefix of what was buffered,  *)
(* and perhaps a fragment of the next line.                                *)
WriterFlushed(s) == [s EXCEPT !.file = @ \o s.buffer, !.buffer = <<>>]

WriterFailed(s) ==
    {[s EXCEPT !.file = @ \o SubSeq(s.buffer, 1, k) \o tail, !.buffer = <<>>] :
        k \in If(Failing("write"), 0..Len(s.buffer) - 1), tail \in {<<>>} \cup If(Failing("torn"), {<<Torn>>})}

Synced(s) == [s EXCEPT !.synced = Len(s.file)]

(* rotate: flush, sync, rename, then open the path again.  The directory   *)
(* is not synced.  When the path cannot be opened the writer keeps the     *)
(* renamed file and bytes_written, and every later rotation fails at the   *)
(* rename: the path is gone.                                               *)
rotate(s) ==
    LET flushed == WriterFlushed(s)
        safe == Synced(flushed)
        fresh == [safe EXCEPT !.archives = Append(@, safe.file), !.file = <<>>, !.synced = 0, !.bytes = 0]
    IN  {Outcome(f, FALSE) : f \in WriterFailed(s)}
        \cup If(Failing("sync"), {Outcome(flushed, FALSE)})
        \cup If(s.renamed \/ Failing("rename"), {Outcome(safe, FALSE)})
        \cup If(~s.renamed /\ Failing("open"), {Outcome([safe EXCEPT !.renamed = TRUE], FALSE)})
        \cup If(~s.renamed, {Outcome(fresh, TRUE)})

write_line(s, line) ==
    LET Written(r) == [r EXCEPT !.buffer = Append(@, line), !.bytes = @ + 1]
    IN  IF setup.rotate > 0 /\ s.bytes > 0 /\ s.bytes + 1 > setup.rotate
        THEN {IF o.ok THEN Outcome(Written(o.sink), TRUE) ELSE o : o \in rotate(s)}
        ELSE {Outcome(Written(s), TRUE)}

flush_writer(s) ==
    LET flushed == [WriterFlushed(s) EXCEPT !.flushes = (@ + 1) % setup.fsync_every]
        due == flushed.flushes = 0
    IN  {Outcome(f, FALSE) : f \in WriterFailed(s)}
        \cup If(due /\ Failing("sync"), {Outcome(flushed, FALSE)})
        \cup {Outcome(IF due THEN Synced(flushed) ELSE flushed, TRUE)}

(* flush_pending: the queue is taken before the first line is written, and *)
(* the lines after a failed one go with it.                                *)
WriteAll(s, lines) ==
    LET after[k \in 0..Len(lines)] ==
            IF k = 0 THEN {Outcome(s, TRUE)}
            ELSE UNION {IF o.ok THEN write_line(o.sink, lines[k]) ELSE {o} : o \in after[k - 1]}
    IN  after[Len(lines)]

flush_pending(s) ==
    UNION {IF o.ok THEN flush_writer(o.sink) ELSE {o} :
             o \in WriteAll([s EXCEPT !.pending = <<>>], s.pending)}

(* What a flush that is never resumed leaves: some lines handed to the     *)
(* writer, and perhaps on to the file.                                     *)
Abandoned(s) ==
    LET started == UNION {WriteAll([s EXCEPT !.pending = <<>>], SubSeq(s.pending, 1, k)) : k \in 0..Len(s.pending)}
        written == {o.sink : o \in started}
    IN  IF s.kind # "jsonl" \/ s.closed THEN {s}
        ELSE {s} \cup written \cup {WriterFlushed(w) : w \in written}

JsonlSend(s, e) ==
    LET queued == [s EXCEPT !.pending = Append(@, e)]
    IN  IF Len(queued.pending) >= BATCH_MAX_LINES THEN flush_pending(queued)
        ELSE {Outcome(queued, TRUE)}

JsonlClose(s) ==
    UNION {IF ~o.ok THEN {o}
           ELSE If(Failing("sync"), {Outcome(o.sink, FALSE)})
                \cup {Outcome([Synced(o.sink) EXCEPT !.closed = TRUE], TRUE)} : o \in flush_pending(s)}

-----------------------------------------------------------------------------
(* StdoutSink and MemorySinkAdapter hand an event over at once.            *)
DirectSend(s, e) ==
    {Outcome([s EXCEPT !.file = Append(@, e)], TRUE)}
    \cup If(s.kind = "stdout" /\ Failing("write"), {Outcome(s, FALSE)})

DirectFlush(s) ==
    {Outcome(s, TRUE)} \cup If(s.kind = "stdout" /\ Failing("write"), {Outcome(s, FALSE)})

send(s, e) ==
    CASE s.closed -> {Outcome(s, FALSE)}
      [] s.kind = "jsonl" -> JsonlSend(s, e)
      [] OTHER -> DirectSend(s, e)

flush(s) ==
    CASE s.closed -> {Outcome(s, FALSE)}
      [] s.kind = "jsonl" -> flush_pending(s)
      [] OTHER -> DirectFlush(s)

close(s) ==
    IF s.kind = "jsonl" THEN IF s.closed THEN {Outcome(s, TRUE)} ELSE JsonlClose(s)
    ELSE {Outcome([s EXCEPT !.closed = TRUE], TRUE)}

-----------------------------------------------------------------------------
(* The composites.  Both call every child whatever another one answers;    *)
(* BoxedSink only forwards.                                                *)
Children == 1..Len(setup.kinds)

(* join_first_err, flush_all, close_all: every child's outcome, Ok when    *)
(* none failed.  One fault is spent per call.                              *)
JoinFirstErr(outcomes) ==
    {f \in [DOMAIN outcomes -> UNION {outcomes[i] : i \in DOMAIN outcomes}] :
        /\ \A i \in DOMAIN f : f[i] \in outcomes[i]
        /\ Cardinality({i \in DOMAIN f : ~f[i].ok}) <= 1}

(* TableRouter::send: the first route that matches, else the default (the  *)
(* child after the routes).                                                *)
RouteFor(e) ==
    LET hits == {i \in 1..Len(setup.routes) : e \in setup.routes[i]}
    IN  IF hits # {} THEN {Min(hits)}
        ELSE {i \in Children : i = Len(setup.routes) + 1}

Receivers(e) == IF setup.composite = "router" THEN RouteFor(e) ELSE Children

Applied(f) == sinks' = [i \in Children |-> IF i \in DOMAIN f THEN f[i].sink ELSE sinks[i]]
AllOk(f) == \A i \in DOMAIN f : f[i].ok
Spent(f) == faults' = IF AllOk(f) THEN faults ELSE Min({faults + 1, MaxFaults})

BatchEnd == Min({acked + Batch, Events})
NextEvent == acked + position + 1

(* An event no route takes: refused, or with drop_unrouted accepted.       *)
Unroutable(e) == Receivers(e) = {} /\ ~setup.drop_unrouted

Init ==
    /\ setup \in Setups
    /\ sinks = [i \in Children |-> Sink(setup.kinds[i])]
    /\ closed = FALSE
    /\ acked = 0 /\ position = 0
    /\ barrier = "none"
    /\ faults = 0

(* run_sink_loop.  A refused event or flush ends the run; the batch was    *)
(* not acknowledged and is delivered again from its first event.           *)
SendsEvent ==
    /\ ~closed /\ acked + position < BatchEnd /\ ~Unroutable(NextEvent)
    /\ \E f \in JoinFirstErr([i \in Receivers(NextEvent) |-> send(sinks[i], NextEvent)]) :
         /\ Applied(f)
         /\ Spent(f)
         /\ position' = IF AllOk(f) THEN position + 1 ELSE 0
    /\ UNCHANGED <<setup, closed, acked, barrier>>

(* A caller that keeps the batch and retries only the flush: flush_pending *)
(* has taken the queue, and what it did not write is gone.                 *)
Unqueued(f) ==
    [i \in DOMAIN f |-> IF f[i].ok THEN f[i]
                        ELSE [f[i] EXCEPT !.sink.forgotten = @ \cup acked + 1..BatchEnd]]

FlushesBatch ==
    /\ ~closed /\ acked + position = BatchEnd /\ position > 0
    /\ \E f \in JoinFirstErr([i \in Children |-> flush(sinks[i])]) :
         /\ Applied(IF AllOk(f) \/ ~setup.retries_flush THEN f ELSE Unqueued(f))
         /\ Spent(f)
         /\ acked' = IF AllOk(f) THEN BatchEnd ELSE acked
         /\ position' = IF AllOk(f) \/ ~setup.retries_flush THEN 0 ELSE position
    /\ UNCHANGED <<setup, closed, barrier>>

(* stop closes the sink; close_with_timeout drops a close that is slow     *)
(* between two awaits.  A process that stopped reopens the files later.    *)
Closes ==
    /\ ~closed /\ faults < MaxFaults
    /\ \E f \in JoinFirstErr([i \in Children |-> close(sinks[i])]) : Applied(f)
    /\ closed' = TRUE
    /\ position' = 0
    /\ faults' = faults + 1
    /\ UNCHANGED <<setup, acked, barrier>>

CloseTimesOut ==
    /\ ~closed /\ Failing("timeout")
    /\ \E i \in Children : \E s \in Abandoned(sinks[i]) : sinks' = [sinks EXCEPT ![i] = s]
    /\ closed' = TRUE
    /\ position' = 0
    /\ faults' = faults + 1
    /\ UNCHANGED <<setup, acked, barrier>>

(* A process that dies loses its queues; losing power also loses what the  *)
(* last sync did not cover, and may leave a fragment.                      *)
Restarts(after) ==
    /\ sinks' = [i \in Children |-> Opened(after[i])]
    /\ position' = 0 /\ closed' = FALSE
    /\ barrier' = "none"
    /\ faults' = faults + 1
    /\ UNCHANGED <<setup, acked>>

Crashes ==
    /\ Failing("crash")
    /\ \E i \in Children : \E s \in Abandoned(sinks[i]) : Restarts([sinks EXCEPT ![i] = s])

(* The directory after a power loss.  Its operations are, in order: create *)
(* the first file, rename it, create the second, rename it, ...  `n` of    *)
(* them are kept; the files they do not reach are lost with their lines.   *)
Files(s) == Append(s.archives, s.file)
DirectoryOps(s) == 2 * Len(Files(s)) - (IF s.renamed THEN 0 ELSE 1)
Lines(files) == UNION {ToSet(files[k]) : k \in DOMAIN files}

DirectoryKept(s, n) ==
    LET all == Files(s)
        named == (n + 1) \div 2
        active == n % 2 = 1
    IN  IF n = DirectoryOps(s) THEN [s EXCEPT !.anchored = n]
        ELSE [s EXCEPT !.archives = SubSeq(all, 1, n \div 2), !.renamed = FALSE, !.anchored = n,
                       !.file = IF active THEN all[named] ELSE <<>>,
                       !.synced = IF ~active THEN 0 ELSE IF named < Len(all) THEN Len(all[named]) ELSE s.synced,
                       !.forgotten = @ \cup Lines(SubSeq(all, named + 1, Len(all)))]

(* What a power loss leaves of the active file: at least the lines synced, *)
(* and perhaps a fragment.  With fsync_every > 1 a flush need not sync.    *)
DataKept(s, k, tail) ==
    [s EXCEPT !.file = SubSeq(@, 1, k) \o tail,
              !.forgotten = IF setup.fsync_every = 1 THEN @ ELSE @ \cup ToSet(SubSeq(s.file, k + 1, Len(s.file)))]

LosesPower ==
    /\ Failing("power")
    /\ \E i \in Children : \E s \in Abandoned(sinks[i]) :
         \E k \in s.synced..Len(s.file), tail \in {<<>>} \cup If(Failing("torn"), {<<Torn>>}),
            n \in s.anchored..DirectoryOps(s) :
            /\ tail # <<>> => k < Len(s.file) \/ s.buffer # <<>>
            /\ Restarts([sinks EXCEPT ![i] = DirectoryKept(DataKept(s, k, tail), n)])

Reopens ==
    /\ closed
    /\ sinks' = [i \in Children |-> Opened(sinks[i])]
    /\ closed' = FALSE
    /\ barrier' = "none"
    /\ UNCHANGED <<setup, acked, position, faults>>

-----------------------------------------------------------------------------
(* The checkpoint barrier: begun child by child, what was begun is aborted *)
(* in reverse when one refuses; committed or aborted on every child.       *)
Begun(upto) == [i \in Children |-> [sinks[i] EXCEPT !.begun = i < upto]]
Aborted(s) == [i \in Children |-> [s[i] EXCEPT !.begun = FALSE]]

BeginsBarrier ==
    /\ "barrier" \in setup.failing /\ ~closed /\ barrier \in {"none", "ended", "failed"}
    /\ \/ /\ sinks' = Begun(Len(sinks) + 1)
          /\ barrier' = "begun"
          /\ UNCHANGED faults
       \/ /\ faults < MaxFaults
          /\ \E refuses \in Children : sinks' = Aborted(Begun(refuses))
          /\ barrier' = "failed"
          /\ faults' = faults + 1
    /\ UNCHANGED <<setup, closed, acked, position>>

EndsBarrier ==
    /\ barrier = "begun" /\ ~closed
    /\ sinks' = Aborted(sinks)
    /\ barrier' = "ended"
    /\ UNCHANGED <<setup, closed, acked, position, faults>>

Delivers == SendsEvent \/ FlushesBatch \/ Reopens

Next == Delivers \/ Closes \/ CloseTimesOut \/ Crashes \/ LosesPower \/ BeginsBarrier \/ EndsBarrier

Spec == Init /\ [][Next]_vars /\ WF_vars(Delivers)

-----------------------------------------------------------------------------
TypeOK ==
    /\ setup \in Setups /\ closed \in BOOLEAN
    /\ acked \in 0..Events /\ position \in 0..Batch /\ faults \in 0..MaxFaults
    /\ barrier \in {"none", "begun", "failed", "ended"}
    /\ \A i \in Children : /\ sinks[i].synced \in 0..Len(sinks[i].file)
                           /\ Len(sinks[i].pending) < BATCH_MAX_LINES

(* What a reader of the line-delimited files gets back, and the lines that *)
(* were written directly behind a fragment.                                *)
ReadableIn(file) == {file[k] : k \in {j \in 1..Len(file) : file[j] # Torn /\ (j = 1 \/ file[j - 1] # Torn)}}
Readable(s) == UNION {ReadableIn(Files(s)[k]) : k \in DOMAIN Files(s)}
SwallowedIn(file) == {file[k] : k \in {j \in 2..Len(file) : file[j - 1] = Torn}}
Swallowed(s) == UNION {SwallowedIn(Files(s)[k]) : k \in DOMAIN Files(s)}

(* An acknowledged event can be read back from every file it was sent to,  *)
(* through rotations, failed flushes, partial failures of a fan-out,       *)
(* closes that timed out, crashes, power losses and reopened files.  There *)
(* are exactly four ways to lose one: it was written directly behind a     *)
(* fragment; a power loss forgot the file's name, which nothing synced, or *)
(* a line that fsync_every > 1 had left unsynced; or the caller retried    *)
(* the failed flush without the batch.                                     *)
AckedIsReadable ==
    \A e \in 1..acked : \A i \in Receivers(e) :
        sinks[i].kind = "jsonl" => e \in Readable(sinks[i]) \cup Swallowed(sinks[i]) \cup sinks[i].forgotten

(* A sink receives its events in delivery order, redeliveries aside: the   *)
(* first copy of an event comes after the first copy of every earlier one, *)
(* but for those a power loss forgot or a flush retried alone left out.    *)
InOrder ==
    \A i \in Children :
        LET mine == SelectSeq(FlattenSeq(Files(sinks[i])), LAMBDA x : x # Torn)
        IN  \A k \in 1..Len(mine) : \A e \in 1..mine[k] :
               i \in Receivers(e) => e \in sinks[i].forgotten \/ \E j \in 1..k : mine[j] = e

(* A barrier call that failed leaves no child in a barrier, and one that   *)
(* succeeded leaves none out.                                              *)
BarrierWhole ==
    \A i \in Children : sinks[i].begun <=> barrier = "begun"

(* Delivery goes on: once calls stop failing everything is acknowledged,   *)
(* unless a rotation could not open the path again and the process was not *)
(* restarted since.                                                        *)
AllAcked ==
    \/ acked = Events
    \/ Unroutable(acked + position + 1)
    \/ \E i \in Children : sinks[i].renamed
EverythingAcked == <>AllAcked
=============================================================================

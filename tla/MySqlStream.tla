---------------------------- MODULE MySqlStream ----------------------------
(* The MySQL / MariaDB change stream: the binlog and what the server still *)
(* keeps of it, the provider that decodes binlog events into messages, the *)
(* handle that reassembles transactions and tracks a position and a GTID   *)
(* set, and the consumer whose checkpoint is copied from the last event it *)
(* acknowledged.                                                           *)
(*                                                                         *)
(* The binlog is one sequence of events.  `at` is where the event ends     *)
(* (file and offset as one number, 0 is not a position a dump can start    *)
(* from), `log_pos` what its header says, and `item` the transaction or    *)
(* statement it belongs to, whose GTID is the item's number.               *)
EXTENDS Integers, Sequences, FiniteSetsExt

CONSTANTS
    Deployments,        \* the settings and workloads explored
    MaxMessagesPerPoll, \* events read before a poll's deadline
    MaxRestarts         \* crashes and lost connections explored

VARIABLES
    config,       \* the deployment: gtid_mode_enabled, log, items
    written,      \* binlog events the server has written
    purged,       \* items whose binlog the server has expired
    provider,     \* LiveMysqlBinlogProvider, NoProvider, or Refused
    stream,       \* MysqlStreamHandle
    handed,       \* events returned by next_events and not yet acknowledged
    checkpoint,   \* the durable offset: position and GTID set
    acked,        \* items the consumer has acknowledged
    restarts

vars == <<config, written, purged, provider, stream, handed, checkpoint, acked, restarts>>

NoProvider == [open |-> FALSE, refused |-> FALSE]
Refused == [open |-> FALSE, refused |-> TRUE]
NoTx == 0
NoGtid == 0
ImplicitGtid == -1      \* commit_current_transaction called with gtid None

Items == 1..config.items
EventsOfItem(i) == SelectSeq(config.log, LAMBDA e : e.item = i)
CapturedKinds == {"row", "ddl", "truncate"}
EventCount(i) == Len(SelectSeq(EventsOfItem(i), LAMBDA e : e.kind \in CapturedKinds))
LastOf(i) == Max({k \in DOMAIN config.log : config.log[k].item = i})
WrittenItems == {i \in Items : LastOf(i) <= written}
Visible(i) == EventCount(i) > 0

(***************************************************************************)
(* The provider: binlog events become messages.                            *)
(***************************************************************************)
AdvanceAlways(current, event_log_pos) == event_log_pos

(* Events inside a compressed payload, and artificial ones, say position 0 *)
(* and leave the position where it was.                                    *)
AdvanceBinlogPos(current, event_log_pos) == IF event_log_pos > 0 THEN event_log_pos ELSE current

(* The open transaction, or a new one under the next number.               *)
EnsureActiveTx(p) ==
    IF p.active_tx_id # NoTx THEN p
    ELSE [p EXCEPT !.active_tx_id = p.next_tx_id, !.next_tx_id = @ + 1]

Xid(p) == [kind |-> "xid", tx_id |-> p.active_tx_id, pos |-> p.next_pos, gtid |-> p.active_gtid]
At(p, e) == [kind |-> e.kind, pos |-> p.next_pos, item |-> e.item]
Emit(p, messages) == [p EXCEPT !.out = @ \o messages]

DecodeQuery(p, e) ==
    CASE e.kind = "begin" ->
            LET q == EnsureActiveTx(p) IN Emit(q, <<[kind |-> "begin", tx_id |-> q.active_tx_id]>>)
      [] e.kind \in {"ddl", "skip_ddl"} -> Emit(p, <<At(p, e)>>)
      [] e.kind = "truncate" ->
            IF p.active_tx_id = NoTx THEN Emit(p, <<At(p, e)>>)
            ELSE Emit([p EXCEPT !.active_tx_id = NoTx, !.active_gtid = NoGtid], <<Xid(p), At(p, e)>>)
      [] OTHER -> p                          \* a statement of no interest

DecodeRows(p, e) ==
    LET q == EnsureActiveTx(p)
        opening == IF p.active_tx_id = NoTx THEN <<[kind |-> "begin", tx_id |-> q.active_tx_id]>> ELSE <<>>
    IN  Emit(q, Append(opening, [kind |-> e.kind, item |-> e.item]))

DecodeXid(p) ==
    LET q == EnsureActiveTx(p)               \* an unnumbered commit takes a number
    IN  Emit([q EXCEPT !.active_tx_id = NoTx, !.active_gtid = NoGtid], <<Xid(q)>>)

DecodeGtid(p, e) == Emit([p EXCEPT !.active_gtid = e.item], <<[kind |-> "gtid", gtid |-> e.item]>>)

DecodeRotate(p, e) ==
    Emit([p EXCEPT !.next_pos = e.at], <<[kind |-> "rotate", pos |-> e.at]>>)

(* MariaDB's own event types: the GTID is decoded, the others are skipped. *)
DecodeMariadbEvent(p, e) == IF e.kind = "maria_gtid" THEN DecodeGtid(p, e) ELSE p

DecodeEventData(p, e) ==
    CASE e.kind \in {"begin", "ddl", "skip_ddl", "truncate", "commit"} -> DecodeQuery(p, e)
      [] e.kind \in {"row", "skip"} -> DecodeRows(p, e)
      [] e.kind = "xid" -> DecodeXid(p)
      [] e.kind = "rotate" -> DecodeRotate(p, e)
      [] e.kind = "gtid" -> DecodeGtid(p, e)
      [] OTHER -> p                          \* the head of a compressed payload, a heartbeat

(* Events first..last of this connection, each decoded after its header.   *)
PollEvents(p, events) ==
    LET after[k \in 0..Len(events)] ==
            IF k = 0 THEN [p EXCEPT !.out = <<>>]
            ELSE LET q == [after[k - 1] EXCEPT !.next_pos = AdvanceBinlogPos(@, events[k].log_pos),
                                               !.read = @ + 1]
                 IN  IF events[k].kind \in {"maria_gtid", "maria_annotate"}
                     THEN DecodeMariadbEvent(q, events[k]) ELSE DecodeEventData(q, events[k])
    IN  after[Len(events)]

(***************************************************************************)
(* The handle: messages become events.                                     *)
(***************************************************************************)
Offset(s) == [pos |-> s.pos, gtid |-> s.gtid]

BuildEvent(s, item) ==
    [item |-> item, tx_id |-> s.current_tx_id, offset |-> [pos |-> 0, gtid |-> {}],
     event_index |-> Len(s.partial_tx_events), total_events |-> -1]

(* Every buffered event gets the position of the commit and, where the     *)
(* message names one, the GTID of the commit.                              *)
CommitCurrentTransaction(s, pos, gtid) ==
    LET effective_gtid == IF gtid \in {NoGtid, ImplicitGtid} THEN s.gtid ELSE {gtid}
        total == Len(s.partial_tx_events)
    IN  [s EXCEPT !.committed = @ \o [k \in 1..total |->
                        [s.partial_tx_events[k] EXCEPT
                            !.total_events = total, !.event_index = k - 1,
                            !.offset = [pos |-> pos, gtid |-> effective_gtid]]],
                  !.pos = pos, !.gtid = effective_gtid,
                  !.current_tx_id = NoTx, !.partial_tx_events = <<>>]

(* A statement that commits implicitly: an open transaction is released    *)
(* first, the position moves whether or not the statement is captured.     *)
CommitImplicitly(s, m) ==
    LET flushed == IF s.partial_tx_events = <<>> THEN s
                   ELSE IF s.current_tx_id # NoTx THEN CommitCurrentTransaction(s, m.pos, ImplicitGtid)
                   ELSE [s EXCEPT !.partial_tx_events = <<>>]
        moved   == [flushed EXCEPT !.pos = m.pos]
    IN  IF m.kind = "skip_ddl" THEN moved
        ELSE [moved EXCEPT !.committed = Append(@,
                [item |-> m.item, tx_id |-> NoTx, offset |-> Offset(moved),
                 event_index |-> 0, total_events |-> 1])]

OnMessage(s, m) ==
    CASE m.kind = "begin" -> [s EXCEPT !.current_tx_id = m.tx_id, !.partial_tx_events = <<>>]
      [] m.kind = "row"   -> [s EXCEPT !.partial_tx_events = Append(@, BuildEvent(s, m.item))]
      [] m.kind = "skip"  -> s
      [] m.kind = "xid"   -> CommitCurrentTransaction([s EXCEPT !.current_tx_id = m.tx_id], m.pos, m.gtid)
      [] m.kind = "rotate" -> [s EXCEPT !.pos = m.pos]
      [] m.kind = "gtid"  -> [s EXCEPT !.gtid = @ \cup {m.gtid}]
      [] m.kind \in {"ddl", "skip_ddl", "truncate"} -> CommitImplicitly(s, m)

ProcessMessages(s, messages) ==
    LET after[k \in 0..Len(messages)] ==
            IF k = 0 THEN s ELSE OnMessage(after[k - 1], messages[k])
    IN  after[Len(messages)]

(***************************************************************************)
(* Where a dump starts: at a set of GTIDs the replica has, or a position.  *)
(***************************************************************************)
(* The connection's events: with a GTID set, every item outside it; else   *)
(* everything after the position.  The server sends what it has written.   *)
Sends(start, e) ==
    IF config.gtid_mode_enabled /\ start.gtid # {} THEN e.item \notin start.gtid ELSE e.at > start.pos

Dump(start) == SelectSeq(SubSeq(config.log, 1, written), LAMBDA e : Sends(start, e))

Unread == LET sent == Dump(provider.start) IN SubSeq(sent, provider.read + 1, Len(sent))

(* Everything up to here is executed on the server.                        *)
GtidExecuted == {e.item : e \in {config.log[k] : k \in {k \in 1..written :
                    config.log[k].kind \in {"gtid", "maria_gtid"}}}} \cup config.executed_before

ResolveStreamStartPosition ==
    [pos  |-> checkpoint.pos,
     gtid |-> IF checkpoint.gtid # {} THEN checkpoint.gtid ELSE GtidExecuted]

Init ==
    /\ config \in Deployments
    /\ written = 0
    /\ purged = {}
    /\ provider = NoProvider
    /\ stream = [pos |-> 0, gtid |-> {}, current_tx_id |-> NoTx, partial_tx_events |-> <<>>,
                 committed |-> <<>>]
    /\ handed = <<>>
    /\ checkpoint = [pos |-> 0, gtid |-> config.executed_before]
    /\ acked = {}
    /\ restarts = 0

(* A commit writes a transaction's events to the binlog in one go.         *)
ServerWrites ==
    /\ written < Len(config.log)
    /\ written' = LET i == config.log[written + 1].item IN IF i \in Items THEN LastOf(i) ELSE written + 1
    /\ UNCHANGED <<config, purged, provider, stream, handed, checkpoint, acked, restarts>>

(* Binlog retention passes items the consumer has finished with or, while  *)
(* no dump is being read, any item.                                        *)
ServerPurges ==
    /\ \E i \in Items :
          /\ \/ config.purges # "never" /\ \A j \in 1..i : Visible(j) => j \in acked
             \/ config.purges = "anything" /\ ~provider.open
          /\ 1..i \subseteq WrittenItems /\ i \notin purged
          /\ purged' = purged \cup 1..i
    /\ UNCHANGED <<config, written, provider, stream, handed, checkpoint, acked, restarts>>

(* GTID_SUBSET(gtid_purged, position): asked of any checkpoint that names  *)
(* GTIDs.  A position names the GTIDs of its last commit only, so what was *)
(* acknowledged before and then purged is refused as well.                 *)
GtidPositionStillAvailable(gtid) ==
    gtid = {} \/ purged \cap GtidExecuted \subseteq gtid

NewProvider(start) ==
    [open |-> TRUE, refused |-> FALSE, start |-> start, read |-> 0, next_pos |-> start.pos,
     active_gtid |-> NoGtid, active_tx_id |-> NoTx, next_tx_id |-> 1, out |-> <<>>]
NewHandle(start) ==
    [pos |-> start.pos, gtid |-> start.gtid, current_tx_id |-> NoTx,
     partial_tx_events |-> <<>>, committed |-> <<>>]

(* A refusal is Unrecoverable, which nothing retries.                      *)
StartStream ==
    LET start == ResolveStreamStartPosition
    IN  /\ provider = NoProvider
        /\ IF GtidPositionStillAvailable(checkpoint.gtid)
           THEN provider' = NewProvider(start) /\ stream' = NewHandle(start)
           ELSE provider' = Refused /\ UNCHANGED stream
        /\ UNCHANGED <<config, written, purged, handed, checkpoint, acked, restarts>>

(* next_events: a deadline may end a poll after any event, a transaction's *)
(* middle included.                                                        *)
NextEvents ==
    /\ provider.open /\ handed = <<>>
    /\ \E n \in 1..Min({MaxMessagesPerPoll, Len(Unread)}) :
          LET polled    == PollEvents(provider, SubSeq(Unread, 1, n))
              processed == ProcessMessages(stream, polled.out)
          IN  /\ provider' = [polled EXCEPT !.out = <<>>]
              /\ stream' = [processed EXCEPT !.committed = <<>>]
              /\ handed' = processed.committed
    /\ UNCHANGED <<config, written, purged, checkpoint, acked, restarts>>

(* The consumer acknowledges whole items; the offset saved is the last     *)
(* event's own.  The server is not told.                                   *)
EndsItem(n) == n = Len(handed) \/ handed[n].item # handed[n + 1].item

Acknowledge ==
    \E n \in {n \in DOMAIN handed : EndsItem(n)} :
        /\ checkpoint' = handed[n].offset
        /\ acked' = acked \cup {handed[k].item : k \in 1..n}
        /\ handed' = SubSeq(handed, n + 1, Len(handed))
        /\ UNCHANGED <<config, written, purged, provider, stream, restarts>>

Crash ==
    /\ provider.open /\ restarts < MaxRestarts
    /\ restarts' = restarts + 1
    /\ provider' = NoProvider
    /\ handed' = <<>>
    /\ UNCHANGED <<config, written, purged, stream, checkpoint, acked>>

AllAcknowledged == \A i \in Items : Visible(i) => i \in acked

Idle == written = Len(config.log) /\ AllAcknowledged /\ UNCHANGED vars

Next == ServerWrites \/ ServerPurges \/ StartStream \/ NextEvents \/ Acknowledge \/ Crash \/ Idle

(* The runtime's loop keeps starting, polling and acknowledging.           *)
Fairness == WF_vars(StartStream) /\ WF_vars(NextEvents) /\ WF_vars(Acknowledge) /\ WF_vars(ServerWrites)

Spec == Init /\ [][Next]_vars /\ Fairness
-----------------------------------------------------------------------------
TypeOK ==
    /\ config \in Deployments
    /\ written \in 0..Len(config.log)
    /\ acked \subseteq Items /\ purged \subseteq Items
    /\ checkpoint.pos \in {0} \cup {config.log[k].at : k \in 1..written}
    /\ checkpoint.gtid \subseteq Items \cup config.executed_before
    /\ restarts \in 0..MaxRestarts

(* What a restart at this moment would be sent.                            *)
Resent(i) ==
    \A k \in DOMAIN config.log :
        config.log[k].item = i => Sends(ResolveStreamStartPosition, config.log[k])

(* No committed change is skipped: it is acknowledged, or the dump a       *)
(* restart would ask for still contains it, whether the stream is          *)
(* positioned by GTID set or by file and position, wherever polls cut the  *)
(* binlog and whichever statements commit implicitly.  One that the server *)
(* purged before it was read makes every restart fail.                     *)
MyNothingLost ==
    \A i \in WrittenItems :
        Visible(i) /\ i \notin acked =>
            IF i \in purged THEN ~provider.open /\ ~GtidPositionStillAvailable(checkpoint.gtid) ELSE Resent(i)

(* Events of one item are handed out whole, in order and numbered within   *)
(* the item; a DDL or a TRUNCATE in the middle of the stream splits none.  *)
MyWholeTransactions ==
    \A n \in DOMAIN handed :
        /\ handed[n].total_events = EventCount(handed[n].item)
        /\ handed[n].event_index =
              Cardinality({k \in 1..n - 1 : handed[k].item = handed[n].item})
        /\ EndsItem(n) => handed[n].event_index + 1 = handed[n].total_events

(* A durable position is one the server can start a dump from: the end of  *)
(* an item, never inside a transaction and never the 0 that events of a    *)
(* compressed payload report.                                              *)
MyResumesAtBoundary ==
    acked # {} => \E i \in Items : checkpoint.pos = config.log[LastOf(i)].at

(* Everything is acknowledged, or the start was refused for good.          *)
Settled == AllAcknowledged \/ provider.refused

(* A GTID position claims every transaction the consumer has acknowledged: *)
(* resuming from it never replays what came before.                        *)
GtidSetCoversAcknowledged ==
    config.gtid_mode_enabled => acked \subseteq checkpoint.gtid
=============================================================================

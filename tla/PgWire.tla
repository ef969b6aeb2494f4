------------------------------- MODULE PgWire -------------------------------
(* The replication connection to PostgreSQL: the socket and its buffered   *)
(* reader, the handshake, the CopyBoth loop with its time budget, and the  *)
(* status updates.  A frame is a tag, a length that counts itself, and the *)
(* payload; a read returns any non-empty part of what is in flight, so a   *)
(* frame can be cut anywhere.  Log record i of the server has the LSN i.   *)
EXTENDS Integers, Sequences, FiniteSetsExt

CONSTANTS
    Servers,                \* the endpoints and connector settings explored
    READ_CHUNK,             \* units one read of the socket may return
    MAX_MESSAGE_LEN,        \* the sanity limit of a declared payload
    MAX_SCRAM_ITERATIONS,
    MaxConnects             \* connections explored

VARIABLES
    config,        \* the endpoint: transport, tls_reply, auth, reply, log, copy, max_messages
    phase,         \* "Closed", or the stage the connection is in
    inflight,      \* units the server has sent and the socket has not returned
    turn,          \* authentication turns the server has taken
    buffer,        \* MessageReader::buffer
    scram,         \* the ScramExchange: "None", "started" or "final"
    applied_lsn,   \* ReplicationStream::applied_lsn
    due,           \* the status interval has elapsed
    poll,          \* messages of the poll_xlog_data in progress, or NoPoll
    returned,      \* pgoutput messages handed to the stream handle, still encoded
    durable,       \* LSN the consumer has made durable
    slot,          \* confirmed_flush_lsn on the server
    answered,      \* keepalives of this connection that asked for a reply and got one
    connects

vars == <<config, phase, inflight, turn, buffer, scram, applied_lsn, due, poll, returned, durable, slot,
          answered, connects>>

-----------------------------------------------------------------------------
(* The pgoutput decoder.  A message is a sequence of units: a byte, an     *)
(* integer of any width and a character take one unit each, so a field     *)
(* that ends early is a sequence that ends early.  Every reader takes the  *)
(* data and a position and returns the value with the position after it.   *)

Char(letter) ==
    CASE letter = "B" -> 66 [] letter = "C" -> 67 [] letter = "D" -> 68 [] letter = "I" -> 73
      [] letter = "K" -> 75 [] letter = "N" -> 78 [] letter = "O" -> 79 [] letter = "R" -> 82
      [] letter = "T" -> 84 [] letter = "U" -> 85 [] letter = "b" -> 98 [] letter = "n" -> 110
      [] letter = "t" -> 116 [] letter = "u" -> 117

Got(value, pos) == [ok |-> TRUE, value |-> value, pos |-> pos]
Bad == [ok |-> FALSE, value |-> <<>>, pos |-> 0]

(* Fields read one after the other: the first that fails fails them all.   *)
Then(read, Next(_)) == IF read.ok THEN Next(read) ELSE Bad

read_one(data, pos) == IF pos < Len(data) THEN Got(data[pos + 1], pos + 1) ELSE Bad

read_n_bytes(data, pos, n) ==
    IF pos + n > Len(data) THEN Bad ELSE Got(SubSeq(data, pos + 1, pos + n), pos + n)

(* Up to the terminating zero, which is consumed and not returned.         *)
read_cstring(data, pos) ==
    LET zeros == {k \in pos + 1..Len(data) : data[k] = 0}
    IN  IF zeros = {} THEN Bad
        ELSE LET end == CHOOSE k \in zeros : \A j \in zeros : k <= j
             IN  Got(SubSeq(data, pos + 1, end - 1), end)

(* n items of one kind, in order.                                          *)
Repeated(Item(_), n, pos) ==
    LET items[k \in 0..n] ==
            IF k = 0 THEN Got(<<>>, pos)
            ELSE Then(items[k - 1], LAMBDA before :
                    Then(Item(before.pos), LAMBDA item : Got(Append(before.value, item.value), item.pos)))
    IN  items[n]

(* A length that is negative is refused before anything is read.           *)
Counted(kind, data, pos) ==
    Then(read_one(data, pos), LAMBDA length :
        IF length.value < 0 THEN Bad
        ELSE Then(read_n_bytes(data, length.pos, length.value), LAMBDA text :
                Got([kind |-> kind, text |-> text.value], text.pos)))

decode_tuple_data(data, pos) ==
    LET Datum(at) ==
            Then(read_one(data, at), LAMBDA kind :
                CASE kind.value = Char("n") -> Got([kind |-> "Null", text |-> <<>>], kind.pos)
                  [] kind.value = Char("u") -> Got([kind |-> "Unchanged", text |-> <<>>], kind.pos)
                  [] kind.value = Char("t") -> Counted("Text", data, kind.pos)
                  [] kind.value = Char("b") -> Counted("Hex", data, kind.pos)
                  [] OTHER -> Bad)
    IN  Then(read_one(data, pos), LAMBDA columns : Repeated(Datum, columns.value, columns.pos))

None == <<>>
Some(tuple) == <<tuple>>

(* The decoded messages and what each of them carries.                     *)
PgOutputMessage ==
    [Begin |-> {"final_lsn", "xid"}, Commit |-> {"commit_lsn", "end_lsn"},
     Relation |-> {"oid", "namespace", "name", "columns"}, Insert |-> {"oid", "new"},
     Update |-> {"oid", "key", "old", "new"}, Delete |-> {"oid", "key", "old"}, Truncate |-> {"oids"},
     Unknown |-> {}]

decode_begin(data, pos) ==
    Then(read_n_bytes(data, pos, 3), LAMBDA f :
        Got([kind |-> "Begin", final_lsn |-> f.value[1], xid |-> f.value[3]], f.pos))

decode_commit(data, pos) ==
    Then(read_n_bytes(data, pos, 4), LAMBDA f :
        Got([kind |-> "Commit", commit_lsn |-> f.value[2], end_lsn |-> f.value[3]], f.pos))

decode_relation(data, pos) ==
    LET Column(at) ==
            Then(read_one(data, at), LAMBDA flags :
                Then(read_cstring(data, flags.pos), LAMBDA name :
                    Then(read_n_bytes(data, name.pos, 2), LAMBDA types :
                        Got([name |-> name.value, flags |-> flags.value, type_oid |-> types.value[1]],
                            types.pos))))
    IN  Then(read_one(data, pos), LAMBDA oid :
            Then(read_cstring(data, oid.pos), LAMBDA namespace :
                Then(read_cstring(data, namespace.pos), LAMBDA name :
                    Then(read_n_bytes(data, name.pos, 2), LAMBDA shape :
                        Then(Repeated(Column, shape.value[2], shape.pos), LAMBDA columns :
                            Got([kind |-> "Relation", oid |-> oid.value, namespace |-> namespace.value,
                                 name |-> name.value, columns |-> columns.value], columns.pos))))))

decode_insert(data, pos) ==
    Then(read_n_bytes(data, pos, 2), LAMBDA f :
        IF f.value[2] # Char("N") THEN Bad
        ELSE Then(decode_tuple_data(data, f.pos), LAMBDA new :
                Got([kind |-> "Insert", oid |-> f.value[1], new |-> new.value], new.pos)))

(* The identity of the old row comes as a key, as a whole row or not at    *)
(* all, and the new row always follows.                                    *)
decode_update(data, pos) ==
    LET Row(oid, key, old, at) ==
            Then(decode_tuple_data(data, at), LAMBDA new :
                Got([kind |-> "Update", oid |-> oid, key |-> key, old |-> old, new |-> new.value], new.pos))
    IN  Then(read_n_bytes(data, pos, 2), LAMBDA f :
            CASE f.value[2] = Char("N") -> Row(f.value[1], None, None, f.pos)
              [] f.value[2] \in {Char("K"), Char("O")} ->
                    Then(decode_tuple_data(data, f.pos), LAMBDA before :
                        Then(read_one(data, before.pos), LAMBDA marker :
                            CASE marker.value # Char("N") -> Bad
                              [] f.value[2] = Char("K") -> Row(f.value[1], Some(before.value), None, marker.pos)
                              [] OTHER -> Row(f.value[1], None, Some(before.value), marker.pos)))
              [] OTHER -> Bad)

decode_delete(data, pos) ==
    Then(read_n_bytes(data, pos, 2), LAMBDA f :
        IF f.value[2] \notin {Char("K"), Char("O")} THEN Bad
        ELSE Then(decode_tuple_data(data, f.pos), LAMBDA row :
                Got([kind |-> "Delete", oid |-> f.value[1],
                     key |-> IF f.value[2] = Char("K") THEN Some(row.value) ELSE None,
                     old |-> IF f.value[2] = Char("O") THEN Some(row.value) ELSE None], row.pos)))

decode_truncate(data, pos) ==
    Then(read_n_bytes(data, pos, 2), LAMBDA f :
        Then(read_n_bytes(data, f.pos, f.value[1]), LAMBDA oids :
            Got([kind |-> "Truncate", oids |-> oids.value], oids.pos)))

(* An unknown type is a message of its own, never an error.                *)
decode_pgoutput_message(data) ==
    Then(read_one(data, 0), LAMBDA type :
        CASE type.value = Char("B") -> decode_begin(data, type.pos)
          [] type.value = Char("C") -> decode_commit(data, type.pos)
          [] type.value = Char("R") -> decode_relation(data, type.pos)
          [] type.value = Char("I") -> decode_insert(data, type.pos)
          [] type.value = Char("U") -> decode_update(data, type.pos)
          [] type.value = Char("D") -> decode_delete(data, type.pos)
          [] type.value = Char("T") -> decode_truncate(data, type.pos)
          [] OTHER -> Got([kind |-> "Unknown"], type.pos))

(***************************************************************************)
(* What the server writes for a message (the pgoutput plugin).             *)
(***************************************************************************)
Flattened(parts) ==
    LET joined[k \in 0..Len(parts)] == IF k = 0 THEN <<>> ELSE joined[k - 1] \o parts[k]
    IN  joined[Len(parts)]

DatumUnits(d) ==
    CASE d.kind = "Null" -> <<Char("n")>>
      [] d.kind = "Unchanged" -> <<Char("u")>>
      [] d.kind = "Text" -> <<Char("t"), Len(d.text)>> \o d.text
      [] d.kind = "Hex" -> <<Char("b"), Len(d.text)>> \o d.text

TupleUnits(row) == <<Len(row)>> \o Flattened([k \in DOMAIN row |-> DatumUnits(row[k])])

ColumnUnits(c) == <<c.flags>> \o c.name \o <<0, c.type_oid, -1>>

OldUnits(m) == CASE m.key # None -> <<Char("K")>> \o TupleUnits(m.key[1])
                 [] m.old # None -> <<Char("O")>> \o TupleUnits(m.old[1])
                 [] OTHER -> <<>>

EncodedBy(m) ==
    CASE m.kind = "Begin"    -> <<Char("B"), m.final_lsn, 0, m.xid>>
      [] m.kind = "Commit"   -> <<Char("C"), 0, m.commit_lsn, m.end_lsn, 0>>
      [] m.kind = "Relation" -> <<Char("R"), m.oid>> \o m.namespace \o <<0>> \o m.name
                                \o <<0, Char("D"), Len(m.columns)>>
                                \o Flattened([k \in DOMAIN m.columns |-> ColumnUnits(m.columns[k])])
      [] m.kind = "Insert"   -> <<Char("I"), m.oid, Char("N")>> \o TupleUnits(m.new)
      [] m.kind = "Update"   -> <<Char("U"), m.oid>> \o OldUnits(m) \o <<Char("N")>> \o TupleUnits(m.new)
      [] m.kind = "Delete"   -> <<Char("D"), m.oid>> \o OldUnits(m)
      [] m.kind = "Truncate" -> <<Char("T"), Len(m.oids), 0>> \o m.oids
      [] m.kind = "Unknown"  -> <<Char("O"), 0, 0>>

-----------------------------------------------------------------------------
Handshake == {"authenticate", "await_ready", "start_replication"}
NoPoll == [open |-> FALSE]

(* Backend tags (an authentication tag is 'R', a ready tag 'Z', ...).      *)
Tag == [auth |-> 1, error |-> 2, notice |-> 3, parameter |-> 4, key |-> 5, ready |-> 6, copy_both |-> 7,
        copy_data |-> 8, copy_done |-> 9, row |-> 10, other |-> 11]
Auth == [ok |-> 0, cleartext |-> 3, md5 |-> 5, sasl |-> 10, continue |-> 11, final |-> 12]
XLOG_DATA == 119
KEEPALIVE == 107
SCRAM_SHA_256 == 1

(***************************************************************************)
(* The server's side of the wire (external).                               *)
(***************************************************************************)
Frame(tag, payload) == <<tag, Len(payload) + 1>> \o payload
Frames(messages) == Flattened([k \in DOMAIN messages |-> Frame(messages[k][1], messages[k][2])])

CopyUnits(c) ==
    CASE c.kind = "wal"       -> Frame(Tag.copy_data, <<XLOG_DATA, c.lsn, c.lsn, 0>> \o EncodedBy(config.log[c.lsn]))
      [] c.kind = "keepalive" -> Frame(Tag.copy_data, <<KEEPALIVE, c.lsn, 0, IF c.reply THEN 1 ELSE 0>>)
      [] c.kind = "unknown"   -> Frame(Tag.copy_data, <<0>>)
      [] OTHER                -> Frame(Tag[c.kind], <<0>>)

(* From the first record past the position the client asked for.           *)
SentFrom(lsn) == SelectSeq(config.copy, LAMBDA c : c.kind = "wal" => c.lsn > lsn)
StartLsn == Max({applied_lsn, slot})
Asked == Cardinality({k \in DOMAIN SentFrom(0) : SentFrom(0)[k].kind = "keepalive" /\ SentFrom(0)[k].reply})

(***************************************************************************)
(* MessageReader.  A frame is taken off the buffer only when all of it has *)
(* arrived.                                                                *)
(***************************************************************************)
try_decode ==
    IF Len(buffer) < 2 THEN [is |-> "pending"]
    ELSE LET payload_len == buffer[2] - 1
         IN  CASE payload_len < 0 \/ payload_len > MAX_MESSAGE_LEN -> [is |-> "error"]
               [] Len(buffer) < payload_len + 2 -> [is |-> "pending"]
               [] OTHER -> [is |-> "message", tag |-> buffer[1], payload |-> SubSeq(buffer, 3, payload_len + 2),
                            rest |-> SubSeq(buffer, payload_len + 3, Len(buffer))]

fill ==
    \E n \in 1..Min({READ_CHUNK, Len(inflight)}) :
        /\ buffer' = buffer \o SubSeq(inflight, 1, n)
        /\ inflight' = SubSeq(inflight, n + 1, Len(inflight))

(* A budget that expires inside the read: nothing has left the socket.     *)
TimedOutMidFrame == buffer' = <<>> /\ UNCHANGED inflight
TimedOut == UNCHANGED <<inflight, buffer>>

(***************************************************************************)
(* Connecting.                                                             *)
(***************************************************************************)
(* The handle, its reader and the poll in progress go; the server keeps    *)
(* the slot and the consumer what it made durable.                         *)
Disconnects ==
    /\ phase' = "Closed" /\ inflight' = <<>> /\ buffer' = <<>> /\ poll' = NoPoll
    /\ scram' = "None" /\ due' = FALSE /\ turn' = 0 /\ answered' = 0
    /\ returned' = SubSeq(returned, 1, durable)
    /\ UNCHANGED <<config, applied_lsn, durable, slot, connects>>

(* TLS or nothing: a server that refuses it, or answers with anything      *)
(* else, ends the attempt before the startup packet is sent.               *)
request_tls == config.transport = "plaintext" \/ config.tls_reply = "S"

ReplicationStream_connect ==
    /\ phase = "Closed" /\ connects < MaxConnects
    /\ connects' = connects + 1
    /\ applied_lsn' = durable
    /\ IF request_tls
       THEN phase' = "authenticate" /\ turn' = 1 /\ inflight' = Frames(config.auth[1])
       ELSE UNCHANGED <<phase, turn, inflight>>
    /\ UNCHANGED <<config, buffer, scram, due, poll, returned, durable, slot, answered>>

(* connect_timeout bounds the whole handshake, and the peer may be gone.   *)
HandshakeEnds ==
    /\ phase \in Handshake
    /\ \/ try_decode.is = "error"
       \/ try_decode.is = "pending" /\ inflight = <<>>
       \/ connects < MaxConnects
    /\ Disconnects

HandshakeReads ==
    /\ phase \in Handshake /\ try_decode.is = "pending"
    /\ fill
    /\ UNCHANGED <<config, phase, turn, scram, applied_lsn, due, poll, returned, durable, slot, answered, connects>>

(* A message sent to the server makes it take its next turn.               *)
Taken(d) == buffer' = d.rest
Answers(d, messages) == Taken(d) /\ inflight' = inflight \o Frames(messages)
PasswordSent(d) ==
    /\ Answers(d, IF turn < Len(config.auth) THEN config.auth[turn + 1] ELSE <<>>)
    /\ turn' = turn + 1

select_sasl_mechanism(offered) == SCRAM_SHA_256 \in {offered[k] : k \in DOMAIN offered}

(* A nonce, a salt, and a count within (0, MAX_SCRAM_ITERATIONS].          *)
ServerFirst_parse(body) == Len(body) = 3 /\ body[3] \in 1..MAX_SCRAM_ITERATIONS

(* The server's nonce has to extend the client's, which is 1 here.         *)
client_final(body) == ServerFirst_parse(body) /\ body[1] = 1

(* The signature expected was computed by client_final.                    *)
verify_server_final(body) == scram = "final" /\ body = <<1>>

(* The kinds of request that can be answered; every other one is an error. *)
Acceptable(kind, body) ==
    CASE kind = Auth.ok        -> TRUE
      [] kind = Auth.cleartext -> config.transport # "plaintext"
      [] kind = Auth.md5       -> Len(body) >= 1
      [] kind = Auth.sasl      -> select_sasl_mechanism(body)
      [] kind = Auth.continue  -> scram # "None" /\ client_final(body)
      [] kind = Auth.final     -> scram # "None" /\ verify_server_final(body)
      [] OTHER                 -> FALSE

authenticate(d) ==
    LET kind == d.payload[1]
        body == Tail(d.payload)
    IN  IF d.tag # Tag.auth \/ ~Acceptable(kind, body) THEN Disconnects
        ELSE /\ CASE kind = Auth.ok    -> Taken(d) /\ UNCHANGED <<inflight, turn>>
                  [] kind = Auth.final -> Taken(d) /\ UNCHANGED <<inflight, turn>>
                  [] OTHER             -> PasswordSent(d)
             /\ phase' = IF kind = Auth.ok THEN "await_ready" ELSE phase
             /\ scram' = CASE kind = Auth.sasl -> "started" [] kind = Auth.continue -> "final" [] OTHER -> scram
             /\ UNCHANGED <<config, applied_lsn, due, poll, returned, durable, slot, answered, connects>>

(* READY sends START_REPLICATION at the position to resume from, with the  *)
(* slot and the publication checked to be plain identifiers first.         *)
await_ready(d) ==
    CASE d.tag = Tag.ready /\ config.identifiers_valid ->
            /\ phase' = "start_replication" /\ Answers(d, config.reply)
            /\ UNCHANGED <<config, turn, scram, applied_lsn, due, poll, returned, durable, slot, answered, connects>>
      [] d.tag \in {Tag.parameter, Tag.key} ->
            /\ Taken(d)
            /\ UNCHANGED <<config, phase, inflight, turn, scram, applied_lsn, due, poll, returned, durable, slot,
                           answered, connects>>
      [] OTHER -> Disconnects

start_replication(d) ==
    CASE d.tag = Tag.copy_both ->
            /\ phase' = "streaming" /\ Taken(d)
            /\ inflight' = inflight \o Flattened([k \in DOMAIN SentFrom(StartLsn) |-> CopyUnits(SentFrom(StartLsn)[k])])
            /\ UNCHANGED <<config, turn, scram, applied_lsn, due, poll, returned, durable, slot, answered, connects>>
      [] d.tag = Tag.row ->
            /\ Taken(d)
            /\ UNCHANGED <<config, phase, inflight, turn, scram, applied_lsn, due, poll, returned, durable, slot,
                           answered, connects>>
      [] OTHER -> Disconnects

(* read_backend_message: an error ends the connection, a notice is passed  *)
(* over, and anything else is for the stage the handshake is in.           *)
read_backend_message ==
    /\ phase \in Handshake /\ try_decode.is = "message"
    /\ \E d \in {try_decode} :
        CASE d.tag = Tag.error  -> Disconnects
          [] d.tag = Tag.notice -> /\ Taken(d)
                                   /\ UNCHANGED <<config, phase, inflight, turn, scram, applied_lsn, due, poll,
                                                  returned, durable, slot, answered, connects>>
          [] OTHER -> \/ phase = "authenticate" /\ authenticate(d)
                      \/ phase = "await_ready" /\ await_ready(d)
                      \/ phase = "start_replication" /\ start_replication(d)

(***************************************************************************)
(* Streaming.  poll_xlog_data blocks for its first record and then takes   *)
(* what is already buffered.                                               *)
(***************************************************************************)
(* write, flush and apply all carry applied_lsn.                           *)
send_status_update(lsn) == slot' = Max({slot, lsn}) /\ due' = FALSE

send_status_update_if_due ==
    IF due THEN send_status_update(applied_lsn) ELSE UNCHANGED <<slot, due>>

PollBegins ==
    /\ phase = "streaming" /\ poll = NoPoll
    /\ poll' = [open |-> TRUE, messages |-> <<>>]
    /\ UNCHANGED <<config, phase, inflight, turn, buffer, scram, applied_lsn, due, returned, durable, slot, answered,
                   connects>>

PollReturns(messages) == poll' = NoPoll /\ returned' = returned \o messages

(* A record fills the poll up to max_messages; a keepalive is not data and *)
(* the poll goes on, after its answer when the server asked for one.       *)
KeepaliveIgnored(wal_end, reply_requested) == UNCHANGED <<slot, due, answered>>
KeepaliveAnswer(wal_end, reply_requested) ==
    IF reply_requested
    THEN send_status_update(applied_lsn) /\ answered' = answered + 1
    ELSE UNCHANGED <<slot, due, answered>>

decode_copy_data(payload) ==
    CASE payload[1] = XLOG_DATA ->
            LET messages == Append(poll.messages, SubSeq(payload, 5, Len(payload)))
            IN  /\ IF Len(messages) >= config.max_messages
                   THEN PollReturns(messages)
                   ELSE poll' = [poll EXCEPT !.messages = messages] /\ UNCHANGED returned
                /\ UNCHANGED <<slot, due, answered>>
      [] payload[1] = KEEPALIVE ->
            KeepaliveAnswer(payload[2], payload[4] # 0) /\ UNCHANGED <<poll, returned>>
      [] OTHER -> UNCHANGED <<poll, returned, slot, due, answered>>

recv ==
    /\ phase = "streaming" /\ poll.open /\ try_decode.is = "message"
    /\ \E d \in {try_decode} :
        IF d.tag \in {Tag.error, Tag.copy_done, Tag.ready} THEN Disconnects
        ELSE /\ Taken(d)
             /\ IF d.tag = Tag.copy_data THEN decode_copy_data(d.payload)
                ELSE UNCHANGED <<poll, returned, slot, due, answered>>
             /\ UNCHANGED <<config, phase, inflight, turn, scram, applied_lsn, durable, connects>>

(* Nothing complete is buffered: feedback first, then the read, under what *)
(* is left of the budget.                                                  *)
recv_fills ==
    /\ phase = "streaming" /\ poll.open /\ poll.messages = <<>> /\ try_decode.is = "pending"
    /\ send_status_update_if_due
    /\ fill
    /\ UNCHANGED <<config, phase, turn, scram, applied_lsn, poll, returned, durable, answered, connects>>

(* The budget is spent; once a record has arrived it is zero.              *)
recv_times_out ==
    /\ phase = "streaming" /\ poll.open /\ try_decode.is = "pending"
    /\ send_status_update_if_due
    /\ TimedOut
    /\ PollReturns(poll.messages)
    /\ UNCHANGED <<config, phase, turn, scram, applied_lsn, durable, answered, connects>>

(* The peer closes, or a frame is impossible.                              *)
recv_fails ==
    /\ phase = "streaming" /\ poll.open
    /\ \/ try_decode.is = "error"
       \/ try_decode.is = "pending" /\ poll.messages = <<>>
    /\ connects < MaxConnects
    /\ Disconnects

(* The consumer makes a prefix of what it was given durable and confirms   *)
(* it, reported at once when it is an advance.                             *)
confirm_lsn(lsn) ==
    /\ phase = "streaming" /\ poll = NoPoll /\ lsn > durable
    /\ durable' = lsn
    /\ applied_lsn' = Max({applied_lsn, lsn})
    /\ IF lsn > applied_lsn THEN send_status_update(lsn) ELSE UNCHANGED <<slot, due>>
    /\ UNCHANGED <<config, phase, inflight, turn, buffer, scram, poll, returned, answered, connects>>

IntervalElapses ==
    /\ phase = "streaming" /\ ~due
    /\ due' = TRUE
    /\ UNCHANGED <<config, phase, inflight, turn, buffer, scram, applied_lsn, poll, returned, durable, slot, answered,
                   connects>>

Init ==
    /\ config \in Servers
    /\ phase = "Closed" /\ inflight = <<>> /\ turn = 0 /\ buffer = <<>> /\ scram = "None" /\ applied_lsn = 0
    /\ due = FALSE /\ poll = NoPoll /\ returned = <<>> /\ durable = 0 /\ slot = 0 /\ answered = 0 /\ connects = 0

Polls == PollBegins \/ recv \/ recv_times_out

Next ==
    \/ ReplicationStream_connect \/ HandshakeReads \/ HandshakeEnds \/ read_backend_message
    \/ PollBegins \/ recv \/ recv_fills \/ recv_times_out \/ recv_fails
    \/ \E lsn \in 1..Len(returned) : confirm_lsn(lsn)
    \/ IntervalElapses

(* A runtime that keeps polling, with budgets that do not all expire while *)
(* data waits in the socket.                                               *)
Spec == Init /\ [][Next]_vars /\ WF_vars(Polls) /\ SF_vars(recv_fills)

(***************************************************************************)
(* Properties.                                                             *)
(***************************************************************************)
(* Every variable of the connection holds a value of its type.             *)
TypeOK ==
    /\ config \in Servers
    /\ phase \in Handshake \cup {"Closed", "streaming"}
    /\ scram \in {"None", "started", "final"}
    /\ {applied_lsn, durable, slot, answered, turn, connects} \subseteq Nat
    /\ due \in BOOLEAN
    /\ poll = NoPoll \/ poll.open
    /\ \A k \in DOMAIN config.log : DOMAIN config.log[k] = PgOutputMessage[config.log[k].kind] \cup {"kind"}

(* However the socket cuts the frames and whenever a poll's budget runs    *)
(* out, the stream handle gets the server's messages whole, in order and   *)
(* none twice: the reader never takes part of a frame, and the decoder     *)
(* gives back what the server encoded.                                     *)
RecordsIntact ==
    /\ Len(returned) <= Len(config.log)
    /\ \A k \in DOMAIN returned :
        LET decoded == decode_pgoutput_message(returned[k])
        IN  decoded.ok /\ decoded.value = config.log[k]

(* The server is never told of a position past what the consumer has made  *)
(* durable: neither the answer to a keepalive nor the periodic status nor  *)
(* a reconnect releases log the consumer still needs.                      *)
ReportsOnlyDurable == slot <= durable

(* While the stream is polled, everything the server sent arrives and      *)
(* every keepalive that asked for a reply gets one, unless the connection  *)
(* ends first.                                                             *)
Streaming == phase = "streaming"
DeliveredOrClosed == phase = "Closed" \/ (Len(returned) = Len(config.log) /\ answered = Asked)
EverythingArrives == Streaming ~> DeliveredOrClosed
=============================================================================

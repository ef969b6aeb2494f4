------------------------------ MODULE EventModel ------------------------------
(***************************************************************************)
(* The event envelope (core/event.rs), the identities derived from it      *)
(* (core/idempotency.rs) and what each codec's encoder and decoder do to   *)
(* it (codec/*.rs), as operators.                                          *)
(*                                                                         *)
(* A name is the tuple of its dot-separated segments, so the path "doc.x"  *)
(* and the flattened column "doc.x" are both <<"doc", "x">>.  An Option is *)
(* a sequence of at most one element.  A JSON value is a record tagged     *)
(* with its kind; objects and arrays map names to values.  The connectors  *)
(* emit every scalar as text: Number(n) is the text of the numeral n.      *)
(***************************************************************************)
EXTENDS Integers, Sequences, FiniteSets

CONSTANTS WORD     \* bits of the unsigned integers of the envelope

None == <<>>
Some(x) == <<x>>

Null == [kind |-> "null"]
Number(n) == [kind |-> "number", n |-> n]
Text(t) == [kind |-> "text", t |-> t]
Object(f) == [kind |-> "object", fields |-> f]
IsObject(payload) == payload # None /\ payload[1].kind = "object"

Names(seq) == {seq[i] : i \in DOMAIN seq}

EVENT_ENVELOPE_VERSION == 1

(***************************************************************************)
(* Row identity.  The key is read from the before-image of a DELETE and    *)
(* from the after-image of anything else, and it is all or nothing.        *)
(***************************************************************************)
KeyImage(e) ==
    IF e.op = "delete" THEN e.before ELSE IF e.after # None THEN e.after ELSE e.before

declares_key(e) == e.primary_key # None /\ e.primary_key[1] # <<>>

has_resolvable_key(e) ==
    /\ declares_key(e)
    /\ IsObject(KeyImage(e))
    /\ \A k \in Names(e.primary_key[1]) : k \in DOMAIN KeyImage(e)[1].fields

primary_key_values(e) ==
    IF has_resolvable_key(e)
    THEN Some([k \in Names(e.primary_key[1]) |-> KeyImage(e)[1].fields[k]])
    ELSE None

is_data_change(op) == op \in {"insert", "update", "delete"}

(***************************************************************************)
(* Event::row_write: the write a consumer is to make for an event.         *)
(***************************************************************************)
row_write(e) ==
    LET key == primary_key_values(e)
        none == [write |-> "None"]
    IN  CASE e.op = "truncate" -> [write |-> "Truncate"]
          [] e.op = "schema_change" -> none
          [] e.op = "delete" -> IF key # None THEN [write |-> "Delete", key |-> key] ELSE none
          [] OTHER ->
               IF e.after = None THEN none
               ELSE IF e.unavailable_columns = <<>>
               THEN [write |-> "Replace", key |-> key, row |-> e.after[1]]
               ELSE IF key # None
               THEN [write |-> "Merge", key |-> key, row |-> e.after[1]]
               ELSE none

(***************************************************************************)
(* Event::validate, as the set of fields it reports.                       *)
(***************************************************************************)
Contradicts(columns, payload) ==
    IsObject(payload) /\ Names(columns) \cap DOMAIN payload[1].fields # {}

ImagesOf ==
    [insert        |-> [needs |-> {"after"},           forbids |-> {"before"}],
     update        |-> [needs |-> {"after", "before"}, forbids |-> {}],
     delete        |-> [needs |-> {"before"},          forbids |-> {"after"}],
     read          |-> [needs |-> {"after"},           forbids |-> {}],
     schema_change |-> [needs |-> {"after"},           forbids |-> {}],
     truncate      |-> [needs |-> {},                  forbids |-> {"before", "after"}]]

validate(e) ==
    LET has == {f \in {"before", "after"} : e[f] # None}
        tx == e.transaction
    IN  {f \in {"ts"} : e.ts = 0}
        \cup {f \in {"envelope_version"} : e.envelope_version # EVENT_ENVELOPE_VERSION}
        \cup (ImagesOf[e.op].needs \ has) \cup (ImagesOf[e.op].forbids \cap has)
        \cup {f \in {"transaction"} :
                /\ tx # None
                /\ tx[1].total_events # None
                /\ tx[1].event_index >= tx[1].total_events[1]}
        \cup {f \in {"before_is_key_only"} :
                /\ e.before_is_key_only
                /\ (e.op \in {"update", "delete"} => e.before = None)}
        \cup {f \in {"unavailable_columns"} :
                \/ Contradicts(e.unavailable_columns, e.after)
                \/ /\ e.op \in {"truncate", "schema_change"}
                   /\ e.unavailable_columns \o e.before_unavailable_columns # <<>>}
        \cup {f \in {"before_unavailable_columns"} :
                \/ Contradicts(e.before_unavailable_columns, e.before)
                \/ e.before_is_key_only /\ e.before_unavailable_columns # <<>>}

(***************************************************************************)
(* Identities.  Both fingerprints digest the same fields; the digest is    *)
(* modelled by what goes into it.  The CloudEvents id is the transaction   *)
(* sequence where there is one and the stable fingerprint otherwise.       *)
(***************************************************************************)
fingerprint_event_stable(e) ==
    [offset |-> e.offset, table |-> e.table, op |-> e.op,
     primary_key |-> IF e.primary_key = None THEN <<>> ELSE e.primary_key[1],
     transaction |-> IF e.transaction = None THEN <<>>
                     ELSE <<e.transaction[1].tx_id, e.transaction[1].event_index,
                            IF e.transaction[1].total_events = None THEN 0
                            ELSE e.transaction[1].total_events[1]>>,
     before |-> e.before, after |-> e.after]

\* The in-memory one keeps the option around the key and no marker between images.
fingerprint_event_transient(e) ==
    [offset |-> e.offset, table |-> e.table, op |-> e.op, primary_key |-> e.primary_key,
     transaction |-> fingerprint_event_stable(e).transaction,
     images |-> e.before \o e.after]

event_is_identifiable(e) ==
    \/ e.transaction # None
    \/ e.op \in {"truncate", "schema_change"}
    \/ has_resolvable_key(e)

\* Mutant of CloudEventsId: the position in the transaction is left out.
CloudEventsIdOfTransaction(e) ==
    IF e.transaction # None
    THEN <<"tx", <<e.offset, e.transaction[1].tx_id>>>>
    ELSE <<"content", fingerprint_event_stable(e)>>

CloudEventsId(e) ==
    IF e.transaction # None
    THEN <<"tx", <<e.offset, e.transaction[1].tx_id, e.transaction[1].event_index>>>>
    ELSE <<"content", fingerprint_event_stable(e)>>

(***************************************************************************)
(* Integers.  Avro has only signed integers, so the envelope's unsigned    *)
(* ones are cast on the way out and cast back on the way in.               *)
(***************************************************************************)
AsSigned(n) == IF n >= 2 ^ (WORD - 1) THEN n - 2 ^ WORD ELSE n
AsUnsigned(n) == n % (2 ^ WORD)

(***************************************************************************)
(* Avro (codec/avro.rs).  An absent transaction size is written as 0, an   *)
(* absent key as an empty array.                                           *)
(***************************************************************************)
op_avro_symbol ==
    [insert |-> "INSERT", update |-> "UPDATE", delete |-> "DELETE", read |-> "READ",
     schema_change |-> "SCHEMA_CHANGE", truncate |-> "TRUNCATE"]

event_to_avro_value(e) ==
    [e EXCEPT
        !.op = op_avro_symbol[e.op],
        !.ts = AsSigned(@),
        !.primary_key = IF @ = None THEN <<>> ELSE @[1],
        !.snapshot = IF @ = None THEN None
                     ELSE Some([@[1] EXCEPT !.chunk_index = AsSigned(@)]),
        !.transaction = IF @ = None THEN None
                        ELSE Some([@[1] EXCEPT
                               !.tx_id = AsSigned(@),
                               !.total_events = AsSigned(IF @ = None THEN 0 ELSE @[1]),
                               !.event_index = AsSigned(@)])]

avro_value_to_event(v) ==
    [v EXCEPT
        !.op = CHOOSE op \in DOMAIN op_avro_symbol : op_avro_symbol[op] = @,
        !.ts = AsUnsigned(@),
        !.primary_key = IF @ = <<>> THEN None ELSE Some(@),
        !.snapshot = IF @ = None THEN None
                     ELSE Some([@[1] EXCEPT !.chunk_index = AsUnsigned(@)]),
        !.transaction = IF @ = None THEN None
                        ELSE Some([@[1] EXCEPT
                               !.tx_id = AsUnsigned(@),
                               !.total_events = IF AsUnsigned(@) > 0
                                                THEN Some(AsUnsigned(@)) ELSE None,
                               !.event_index = AsUnsigned(@)])]

(***************************************************************************)
(* Protobuf (codec/protobuf.rs).  Operations are numbered from 1: the zero *)
(* of an absent field is refused.                                          *)
(***************************************************************************)
ProtoOperation == <<"insert", "update", "delete", "read", "schema_change", "truncate">>

ProtoEvent_from_event(e) ==
    [e EXCEPT
        !.op = CHOOSE i \in DOMAIN ProtoOperation : ProtoOperation[i] = @,
        !.primary_key = IF @ = None THEN <<>> ELSE @[1],
        !.transaction = IF @ = None THEN None
                        ELSE Some([@[1] EXCEPT !.total_events = IF @ = None THEN 0 ELSE @[1]])]

ProtoEvent_into_event(p) ==
    [p EXCEPT
        !.op = ProtoOperation[@],
        !.primary_key = IF @ = <<>> THEN None ELSE Some(@),
        !.transaction = IF @ = None THEN None
                        ELSE Some([@[1] EXCEPT
                               !.total_events = IF @ # 0 THEN Some(@) ELSE None])]

(***************************************************************************)
(* JSON (codec/json.rs, serde on Event).  A payload that is the JSON null  *)
(* reads back as an absent one.                                            *)
(***************************************************************************)
Event_to_json(e) == e

NullToNone(payload) == IF payload = Some(Null) THEN None ELSE payload

Event_from_json(j) == [j EXCEPT !.before = NullToNone(@), !.after = NullToNone(@)]

(***************************************************************************)
(* CloudEvents (codec/cloudevents.rs): what the data member carries, as an *)
(* event, under the id.  An absent image and a null one are both null.     *)
(***************************************************************************)
CloudEvent(e) ==
    [id |-> CloudEventsId(e),
     data |-> [e EXCEPT !.before = NullToNone(@), !.after = NullToNone(@)]]

Codecs == {"json", "avro", "protobuf", "cloudevents"}

encode(codec, e) ==
    CASE codec = "json" -> Event_to_json(e)
      [] codec = "avro" -> event_to_avro_value(e)
      [] codec = "protobuf" -> ProtoEvent_from_event(e)
      [] codec = "cloudevents" -> CloudEvent(e)

decode(codec, wire) ==
    CASE codec = "json" -> Event_from_json(wire)
      [] codec = "avro" -> avro_value_to_event(wire)
      [] codec = "protobuf" -> ProtoEvent_into_event(wire)
      [] codec = "cloudevents" -> wire.data

\* The message key: EventEncoder::encode_key's default, the primary key values.
encode_key(e) == primary_key_values(e)

\* EncoderCodec::encode: key first, then value.
Codec_encode(codec, e) == [key |-> encode_key(e), value |-> encode(codec, e)]
=============================================================================

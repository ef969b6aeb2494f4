---------------------------- MODULE SchemaRegistry ----------------------------
(***************************************************************************)
(* The schema-registry encoders and decoders (codec/schema_registry.rs):   *)
(* configuration and preflight, the construction of an encoder, the        *)
(* resolution of subjects on the encode path, the framing of a message     *)
(* with a schema id, and the decoding of a message by the id it carries.   *)
(* Every registry call is a step of its own, so that other producers and   *)
(* other teams act between any two of them.                                *)
(*                                                                         *)
(* A schema text is [form, layout]: its canonical form, and the formatting *)
(* and comments the canonical form strips.  A form is [type, role, gen].   *)
(***************************************************************************)
EXTENDS Integers, Sequences, FiniteSets

CONSTANTS Setups,       \* the deployments considered
          MaxForeign,   \* steps of other teams in the registry
          MaxFaults     \* failed calls

VARIABLES setup,      \* the deployment
          subjects,   \* subject -> sequence of the ids of its live versions
          texts,      \* the registered texts; a text's position is its id
          purged,     \* ids removed from the registry for good
          producers,  \* the encoders
          topic,      \* messages produced
          consumer,   \* the decoder
          foreign,
          faults
vars == <<setup, subjects, texts, purged, producers, topic, consumer, foreign, faults>>

Targets == {"value", "key"}
None == <<>>
Some(x) == <<x>>

(***************************************************************************)
(* What an encoder is configured with: the defaults of                     *)
(* SchemaRegistryConfig::new and GlueAvroConfig::new, and what the         *)
(* conversion from the Apicurio configuration carries over.                *)
(***************************************************************************)
SchemaRegistryConfig_new(type) ==
    [type |-> type, strategy |-> "TopicName", auto_register |-> TRUE,
     normalize_schemas |-> FALSE, preflights |-> FALSE]

(* build: the client takes the transport options with it, and whether the  *)
(* registry normalises; topic, strategy and registration policy stay with  *)
(* the encoder.                                                            *)
SchemaRegistryConfig_build(config) == [normalizes |-> config.normalize_schemas]

GlueAvroConfig_new == [SchemaRegistryConfig_new("glue") EXCEPT !.strategy = "Name"]

as_schema_registry_config(apicurio) ==
    [SchemaRegistryConfig_new(apicurio.type) EXCEPT
        !.strategy = apicurio.strategy, !.auto_register = apicurio.auto_register,
        !.preflights = apicurio.preflights]

(***************************************************************************)
(* The schemas an encoder writes with, and the subjects they live under.   *)
(***************************************************************************)
SchemaType(config) == IF config.type = "glue" THEN "avro" ELSE config.type

schema_set_for(config, target) ==
    [form |-> [type |-> SchemaType(config), role |-> target, gen |-> 1], layout |-> 1]

RecordName(config, target) ==
    <<IF config.type = "protobuf" THEN "rustcdc" ELSE "io.rustcdc", target>>

subject_name(config, target) ==
    CASE config.strategy = "RecordName" -> RecordName(config, target)
      [] config.strategy = "TopicRecordName" -> <<"topic">> \o RecordName(config, target)
      [] OTHER -> <<config.strategy, target>>

(***************************************************************************)
(* The registry.  Registering a text a subject already carries answers     *)
(* with its id; without normalisation a reformatted copy is another text.  *)
(***************************************************************************)
VersionsOf(s) == IF s \in DOMAIN subjects THEN subjects[s] ELSE <<>>
LatestOf(s) == VersionsOf(s)[Len(VersionsOf(s))]
SameText(a, b, normalize) == IF normalize THEN a.form = b.form ELSE a = b

check_compatible(s, text) ==
    \/ VersionsOf(s) = <<>>
    \/ /\ texts[LatestOf(s)].form.type = text.form.type
       /\ texts[LatestOf(s)].form.role = text.form.role

Carried(s, text, normalize) ==
    {VersionsOf(s)[i] : i \in {j \in DOMAIN VersionsOf(s) :
                                 SameText(texts[VersionsOf(s)[j]], text, normalize)}}
KnownIds(text) == {i \in DOMAIN texts : texts[i] = text /\ i \notin purged}
IdFor(text) == IF KnownIds(text) # {} THEN CHOOSE i \in KnownIds(text) : TRUE
               ELSE Len(texts) + 1

\* register_schema as the states it may leave: an id, or nothing when it is rejected.
RegisteredId(s, text, normalize) ==
    IF Carried(s, text, normalize) # {}
    THEN Some(CHOOSE i \in Carried(s, text, normalize) : TRUE)
    ELSE IF check_compatible(s, text) THEN Some(IdFor(text)) ELSE None

Registers(s, text, normalize) ==
    IF Carried(s, text, normalize) # {} \/ ~check_compatible(s, text)
    THEN UNCHANGED <<subjects, texts>>
    ELSE /\ subjects' = [x \in DOMAIN subjects \cup {s} |->
                           IF x = s THEN Append(VersionsOf(s), IdFor(text)) ELSE subjects[x]]
         /\ texts' = IF IdFor(text) \in DOMAIN texts THEN texts ELSE Append(texts, text)

(***************************************************************************)
(* The identity check: canonical forms are compared, not texts.            *)
(***************************************************************************)
SchemaMatchesAlways(registered, expected) == TRUE

assert_registry_schema_matches(registered, expected) == registered.form = expected.form

map_registry_error(error) ==
    CASE error = "retryable" -> "NetworkTransient"
      [] error = "not_found" -> "SchemaMismatch"
      [] error = "auth"      -> "AuthFailed"
      [] OTHER               -> "SchemaError"

(***************************************************************************)
(* What each operation asks of the registry, call by call.                 *)
(***************************************************************************)
Both(call) == <<[call |-> call, target |-> "value"], [call |-> call, target |-> "key"]>>

assert_subjects_preregistered == Both("match")

preflight_schema_registry(config) ==
    <<[call |-> "health_check", target |-> "value"]>> \o
    Both(IF config.auto_register THEN "check_compatible" ELSE "match")

ConfluentAvroEncoder_new(config) ==
    IF config.auto_register THEN Both("register_schema") ELSE Both("get_latest_schema")

NewUnchecked(config) == <<>>

ConfluentJsonSchemaEncoder_new(config) ==
    IF config.auto_register THEN <<>> ELSE assert_subjects_preregistered

ConfluentProtobufEncoder_new(config) ==
    IF config.auto_register THEN <<>> ELSE assert_subjects_preregistered

GlueAvroEncoder_new(config) == Both("register_schema")

Encoder_new(config) ==
    CASE config.type = "avro" -> ConfluentAvroEncoder_new(config)
      [] config.type = "json" -> ConfluentJsonSchemaEncoder_new(config)
      [] config.type = "protobuf" -> ConfluentProtobufEncoder_new(config)
      [] OTHER -> GlueAvroEncoder_new(config)

\* A Confluent Avro encoder frames a null key for a keyless event; the others send no key.
PartsOf(config, keyed) ==
    IF keyed \/ config.type = "avro" THEN <<"key", "value">> ELSE <<"value">>

\* JSON Schema and Protobuf resolve each subject by registering on its first use.
encode_async(p, keyed) ==
    LET parts == PartsOf(p.config, keyed)
        unresolved == SelectSeq(parts, LAMBDA t : p.ids[t] = None)
    IN  [i \in DOMAIN unresolved |-> [call |-> "register_schema", target |-> unresolved[i]]]

(***************************************************************************)
(* A message: per part, the schema id stamped on it and the form of the    *)
(* bytes behind it.                                                        *)
(***************************************************************************)
encode_wire_format(p, target) ==
    [id |-> p.ids[target][1], form |-> schema_set_for(p.config, target).form]

Message(p, keyed) ==
    [event |-> p.event,
     parts |-> LET parts == PartsOf(p.config, keyed)
               IN  [i \in DOMAIN parts |-> encode_wire_format(p, parts[i])]]

(***************************************************************************)
(* What decoding the last part, the value, of a message yields.            *)
(***************************************************************************)
ValueOf(message) == message.parts[Len(message.parts)]

\* Avro bytes are positional: read with another schema they shift; JSON and
\* Protobuf decoders refuse.
decode(message) ==
    LET writer == texts[ValueOf(message).id].form
    IN  CASE writer = ValueOf(message).form -> message.event
          [] ValueOf(message).form.type = "avro" -> "shifted"
          [] OTHER -> "refused"
-----------------------------------------------------------------------------
Producer(config) ==
    [config |-> config, stage |-> "down", plan |-> <<>>,
     ids |-> [t \in Targets |-> None], event |-> 1,
     overtaken |-> {}]  \* history: subjects deleted since this encoder looked them up

Init ==
    /\ setup \in Setups
    /\ texts = setup.registered
    /\ subjects = setup.subjects
    /\ purged = {}
    /\ producers = [i \in DOMAIN setup.configs |-> Producer(setup.configs[i])]
    /\ topic = <<>>
    /\ consumer = [read |-> 0, cache |-> {}, decoded |-> <<>>, error |-> None]
    /\ foreign = 0
    /\ faults = 0

Registry == <<subjects, texts, purged>>

Keyed(p) == setup.keyed[p.event]
Enters(p, stage) ==
    [p EXCEPT !.stage = stage,
              !.plan = CASE stage = "preflight" -> preflight_schema_registry(p.config)
                         [] stage = "new" -> Encoder_new(p.config)
                         [] OTHER -> <<>>]

Starts(i) ==
    /\ producers[i].stage = "down"
    /\ LET p == producers[i]
           q == Enters(p, IF p.config.preflights /\ p.config.type # "glue"
                          THEN "preflight" ELSE "new")
       IN  producers' = [producers EXCEPT ![i] =
               IF q.plan = <<>> THEN Enters(q, "built") ELSE q]
    /\ UNCHANGED <<setup, subjects, texts, purged, topic, consumer, foreign, faults>>

\* The encoder is built once both ids are known and, when looked up, both schemas match.
Builds(p) ==
    IF \A t \in Targets : p.ids[t] # None =>
          assert_registry_schema_matches(texts'[p.ids[t][1]], schema_set_for(p.config, t))
    THEN Enters(p, "built")
    ELSE Producer(p.config)

\* After a call: the next call of the plan, or what its completion leads to.
Completes(i, p) ==
    IF p.plan # <<>>
    THEN producers' = [producers EXCEPT ![i] = p] /\ UNCHANGED topic
    ELSE CASE p.stage = "preflight" ->
                /\ LET q == Enters(p, "new")
                   IN  producers' = [producers EXCEPT ![i] =
                           IF q.plan = <<>> THEN Enters(q, "built") ELSE q]
                /\ UNCHANGED topic
           [] p.stage = "new" ->
                producers' = [producers EXCEPT ![i] = Builds(p)] /\ UNCHANGED topic
           [] OTHER ->
                /\ producers' = [producers EXCEPT ![i] = [p EXCEPT !.event = @ + 1]]
                /\ topic' = Append(topic, Message(p, Keyed(p)))

\* A rejected or failed call: construction starts over, an event is encoded again.
Fails(i) ==
    LET p == producers[i]
    IN  producers' = [producers EXCEPT ![i] =
            IF p.stage = "built" THEN [p EXCEPT !.plan = <<>>]
            ELSE [Producer(p.config) EXCEPT !.event = p.event]]

Answered(c, s, text, normalize) ==
    CASE c.call = "health_check" -> TRUE
      [] c.call = "check_compatible" -> check_compatible(s, text)
      [] c.call = "get_latest_schema" -> VersionsOf(s) # <<>>
      [] c.call = "match" ->
           VersionsOf(s) # <<>> /\ assert_registry_schema_matches(texts[LatestOf(s)], text)
      [] OTHER -> RegisteredId(s, text, normalize) # None

Resolved(c, s, text, normalize) ==
    CASE c.call = "get_latest_schema" -> Some(LatestOf(s))
      [] c.call = "register_schema" -> RegisteredId(s, text, normalize)
      [] OTHER -> None

Calls(i) ==
    LET p == producers[i]
        c == Head(p.plan)
        s == subject_name(p.config, c.target)
        text == schema_set_for(p.config, c.target)
        normalize == SchemaRegistryConfig_build(p.config).normalizes
        id == Resolved(c, s, text, normalize)
        next == [p EXCEPT !.plan = Tail(@),
                          !.ids[c.target] = IF id # None THEN id ELSE @]
    IN  /\ p.plan # <<>>
        /\ UNCHANGED <<setup, purged, consumer, foreign, faults>>
        /\ IF Answered(c, s, text, normalize)
           THEN /\ IF c.call = "register_schema"
                   THEN Registers(s, text, normalize)
                   ELSE UNCHANGED <<subjects, texts>>
                /\ Completes(i, next)
           ELSE Fails(i) /\ UNCHANGED <<subjects, texts, topic>>

CallFails(i) ==
    /\ faults < MaxFaults
    /\ producers[i].plan # <<>>
    /\ Fails(i)
    /\ faults' = faults + 1
    /\ UNCHANGED <<setup, subjects, texts, purged, topic, consumer, foreign>>

Encodes(i) ==
    LET p == producers[i]
    IN  /\ p.stage = "built" /\ p.plan = <<>>
        /\ p.event <= Len(setup.keyed)
        /\ Completes(i, [p EXCEPT !.plan = encode_async(p, Keyed(p))])
        /\ UNCHANGED <<setup, subjects, texts, purged, consumer, foreign, faults>>

invalidate_subject(i) ==
    LET p == producers[i]
    IN  /\ p.config.type = "protobuf" /\ p.stage = "built" /\ p.plan = <<>>
        /\ p.ids["value"] # None
        /\ foreign < MaxForeign /\ foreign' = foreign + 1
        /\ producers' = [producers EXCEPT ![i].ids["value"] = None]
        /\ UNCHANGED <<setup, subjects, texts, purged, topic, consumer, faults>>
-----------------------------------------------------------------------------
(***************************************************************************)
(* Other teams: register a text, soft-delete a subject, or remove a schema *)
(* for good.                                                               *)
(***************************************************************************)
ForeignRegisters ==
    \E f \in setup.foreign :
        /\ f.does = "register"
        /\ RegisteredId(f.subject, f.text, FALSE) # None
        /\ Registers(f.subject, f.text, FALSE)
        /\ foreign' = foreign + 1
        /\ UNCHANGED <<setup, purged, producers, topic, consumer, faults>>

\* No lookup of the subject is left in the encoder's plan.
LookedUp(p, s) ==
    /\ p.stage \in {"new", "built"}
    /\ \A k \in DOMAIN p.plan :
         p.plan[k].call = "match" => subject_name(p.config, p.plan[k].target) # s

ForeignDeletes ==
    \E f \in setup.foreign :
        /\ f.does \in {"delete", "purge"}
        /\ VersionsOf(f.subject) # <<>>
        /\ subjects' = [subjects EXCEPT ![f.subject] = <<>>]
        /\ purged' = IF f.does = "purge"
                     THEN purged \cup {VersionsOf(f.subject)[i] : i \in DOMAIN VersionsOf(f.subject)}
                     ELSE purged
        /\ producers' = [i \in DOMAIN producers |->
               IF LookedUp(producers[i], f.subject)
               THEN [producers[i] EXCEPT !.overtaken = @ \cup {f.subject}] ELSE producers[i]]
        /\ foreign' = foreign + 1
        /\ UNCHANGED <<setup, texts, topic, consumer, faults>>

(***************************************************************************)
(* The consumer: a schema is fetched once and cached; a retryable failure  *)
(* is retried and any other ends the consumption.                          *)
(***************************************************************************)
Fetchable(id) == id \in consumer.cache \/ id \notin purged
Decoding == consumer.read < Len(topic) /\ consumer.error = None

Decodes ==
    /\ Decoding
    /\ LET m == topic[consumer.read + 1]
       IN  consumer' =
             IF Fetchable(ValueOf(m).id)
             THEN [consumer EXCEPT !.read = @ + 1, !.cache = @ \cup {ValueOf(m).id},
                                   !.decoded = Append(@, decode(m))]
             ELSE [consumer EXCEPT !.error = Some(map_registry_error("not_found"))]
    /\ UNCHANGED <<setup, subjects, texts, purged, producers, topic, foreign, faults>>

DecodeFails ==
    /\ Decoding
    /\ faults < MaxFaults /\ faults' = faults + 1
    /\ \E error \in {"retryable", "auth"} :
         consumer' = [consumer EXCEPT !.error =
             IF map_registry_error(error) = "NetworkTransient" THEN None
             ELSE Some(map_registry_error(error))]
    /\ UNCHANGED <<setup, subjects, texts, purged, producers, topic, foreign>>

\* Best effort: what is fetched is cached whatever else fails.
warm_schema_cache ==
    /\ setup.warms /\ consumer.cache = {} /\ DOMAIN texts \ purged # {}
    /\ consumer' = [consumer EXCEPT !.cache = DOMAIN texts \ purged]
    /\ UNCHANGED <<setup, subjects, texts, purged, producers, topic, foreign, faults>>

Next ==
    \/ \E i \in DOMAIN producers :
         Starts(i) \/ Calls(i) \/ CallFails(i) \/ Encodes(i) \/ invalidate_subject(i)
    \/ foreign < MaxForeign /\ (ForeignRegisters \/ ForeignDeletes)
    \/ Decodes \/ DecodeFails \/ warm_schema_cache

Spec == Init /\ [][Next]_vars
-----------------------------------------------------------------------------
\* Every subject names registered schemas, every plan is for an encoder that is up, and
\* the consumer reads behind the producers.
TypeOK ==
    /\ \A s \in DOMAIN subjects : \A i \in DOMAIN subjects[s] : subjects[s][i] \in DOMAIN texts
    /\ \A i \in DOMAIN producers :
         /\ producers[i].stage \in {"down", "preflight", "new", "built"}
         /\ producers[i].stage = "down" => producers[i].plan = <<>>
    /\ consumer.read = Len(consumer.decoded) /\ consumer.read <= Len(topic)

\* Every key and every value on the topic carries the id of a schema with exactly the
\* form it was written in, whoever registered what and whenever (the identity check of
\* assert_registry_schema_matches and the ids an encoder keeps), so that every message
\* decoded is the event that was encoded.
StampedIdsResolve ==
    /\ \A i \in DOMAIN topic : \A j \in DOMAIN topic[i].parts :
         texts[topic[i].parts[j].id].form = topic[i].parts[j].form
    /\ \A i \in DOMAIN consumer.decoded : consumer.decoded[i] = topic[i].event

\* A subject no longer holds the exact text an encoder found there: it was deleted after
\* the lookup, or the lookup accepted a reformatted copy of the text, which a registry
\* that does not normalise takes for another one.
NoLongerHeld(p, s) ==
    \/ s \in p.overtaken
    \/ /\ ~SchemaRegistryConfig_build(p.config).normalizes
       /\ \E t \in Targets : \E v \in DOMAIN VersionsOf(s) :
            /\ subject_name(p.config, t) = s
            /\ assert_registry_schema_matches(texts[VersionsOf(s)[v]], schema_set_for(p.config, t))

\* A Confluent producer with auto_register off adds no version to a subject, and the
\* register_schema on the encode path of its JSON Schema or Protobuf encoder answers with
\* the version assert_subjects_preregistered found, unless that version no longer holds
\* the exact text.  The Glue encoder has no lookup and registers whatever the setting.
OnlyLooksUp ==
    \A i \in DOMAIN producers :
        LET p == producers[i]
        IN  (producers'[i] # p /\ foreign' = foreign
               /\ ~p.config.auto_register /\ p.config.type # "glue") =>
              \A s \in DOMAIN subjects' :
                (s \in DOMAIN subjects /\ subjects'[s] = subjects[s]) \/ NoLongerHeld(p, s)

RequiresSchemasToExist == [][OnlyLooksUp]_vars
=============================================================================

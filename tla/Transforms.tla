------------------------------ MODULE Transforms ------------------------------
(***************************************************************************)
(* The built-in transforms (transform/*.rs) and the pipeline that runs     *)
(* them (transform/mod.rs).  A stage is a record holding its configuration *)
(* under the name of its transform; applying it gives the event it leaves  *)
(* and whether the event is kept, dropped or the stage failed.             *)
(***************************************************************************)
EXTENDS EventModel, SequencesExt

Keep(e) == [result |-> "keep", event |-> e]
Drop(e) == [result |-> "drop", event |-> e]
Fail(e) == [result |-> "err", event |-> e]
error == [kind |-> "error"]
KeepUnlessError(e, out) ==
    IF out.before = <<error>> \/ out.after = <<error>> THEN Fail(e) ELSE Keep(out)

Without(f, names) == [k \in DOMAIN f \ names |-> f[k]]
With(f, name, v) == [k \in DOMAIN f \cup {name} |-> IF k = name THEN v ELSE f[k]]
Dropping(columns, names) == SelectSeq(columns, LAMBDA c : c \notin names)

(***************************************************************************)
(* FilterProjectionTransform.  A rule is [field, path, operator, value];   *)
(* a rule on a field the image does not have cannot match.                 *)
(***************************************************************************)
filter_projection_new(cfg) ==
    /\ cfg.include = None \/ cfg.exclude = None
    /\ \A rule \in cfg.filters : rule.value # Text("")

RECURSIVE extract_json_field(_, _)
extract_json_field(value, path) ==
    IF path = <<>> THEN Some(value)
    ELSE IF value.kind # "object" \/ <<Head(path)>> \notin DOMAIN value.fields THEN None
    ELSE extract_json_field(value.fields[<<Head(path)>>], Tail(path))

apply_operator(left, operator, value) ==
    CASE operator = "Eq" -> left = value
      [] operator = "Ne" -> left # value
      [] operator = "Lt" -> left.kind = "number" /\ left.n < value.n
      [] operator = "GtEq" -> left.kind = "number" /\ left.n >= value.n

evaluate_rule(e, rule) ==
    LET image == IF rule.field = "before" THEN e.before ELSE e.after
        found == IF image = None THEN None ELSE extract_json_field(image[1], rule.path)
    IN  CASE rule.field = "op" -> apply_operator(Text(e.op), rule.operator, rule.value)
          [] rule.field = "table" -> apply_operator(Text(e.table), rule.operator, rule.value)
          [] OTHER -> found # None /\ apply_operator(found[1], rule.operator, rule.value)

evaluate_filter(cfg, e) ==
    \/ cfg.pass_through_truncate /\ e.op = "truncate"
    \/ cfg.filters = {}
    \/ cfg.filter_mode = "All" /\ \A rule \in cfg.filters : evaluate_rule(e, rule)
    \/ cfg.filter_mode = "Any" /\ \E rule \in cfg.filters : evaluate_rule(e, rule)

\* include and exclude are options; projecting every column away is an error.
Projected(cfg, names) ==
    {k \in names : /\ cfg.include # None => k \in cfg.include[1]
                   /\ cfg.exclude # None => k \notin cfg.exclude[1]}

project_payload(cfg, payload) ==
    IF ~IsObject(payload) THEN payload
    ELSE LET f == payload[1].fields
         IN  Some(Object(Without(f, DOMAIN f \ Projected(cfg, DOMAIN f))))

Emptied(cfg, payload) ==
    cfg.include \o cfg.exclude # <<>> /\ IsObject(payload) /\ payload[1].fields = <<>>

project_unavailable(cfg, columns) ==
    Dropping(columns, Names(columns) \ Projected(cfg, Names(columns)))

filter_projection_apply(cfg, e) ==
    LET p == [e EXCEPT
                !.before = project_payload(cfg, @),
                !.after = project_payload(cfg, @),
                !.before_unavailable_columns = project_unavailable(cfg, @),
                !.unavailable_columns = project_unavailable(cfg, @)]
    IN  IF ~evaluate_filter(cfg, e) THEN Drop(e)
        ELSE IF Emptied(cfg, p.before) \/ Emptied(cfg, p.after) THEN Fail(e)
        ELSE Keep(p)

(***************************************************************************)
(* FieldMappingTransform: copies, then renames, then literals, then        *)
(* removals, each in the order they are configured.                        *)
(***************************************************************************)
field_mapping_new(cfg) ==
    \A rule \in Names(cfg.rules) : \A f \in {"to", "path"} \cap DOMAIN rule : rule[f] # <<>>

get_path(root, path) == extract_json_field(root, path)

RECURSIVE remove_path(_, _)
remove_path(root, path) ==
    IF root.kind # "object" \/ <<Head(path)>> \notin DOMAIN root.fields THEN root
    ELSE IF Len(path) = 1 THEN Object(Without(root.fields, {path}))
    ELSE Object(With(root.fields, <<Head(path)>>,
                     remove_path(root.fields[<<Head(path)>>], Tail(path))))

\* Creates the parents that are missing; a parent that is no object is an error.
RECURSIVE set_path(_, _, _)
set_path(root, path, v) ==
    IF root.kind # "object" THEN error
    ELSE IF Len(path) = 1 THEN Object(With(root.fields, path, v))
    ELSE LET parent == <<Head(path)>>
             child == IF parent \in DOMAIN root.fields THEN root.fields[parent]
                      ELSE Object(<<>>)
             new == set_path(child, Tail(path), v)
         IN  IF new.kind = "error" THEN new ELSE Object(With(root.fields, parent, new))

\* One rule on one payload.
MapField(cfg, value, rule) ==
    LET source == get_path(value, IF rule.rule = "remove" THEN rule.path ELSE rule.from)
        missing == IF cfg.strict THEN error ELSE value
    IN  CASE value.kind = "error" -> value
          [] rule.rule = "copy" ->
               IF source = None THEN missing ELSE set_path(value, rule.to, source[1])
          [] rule.rule = "rename" ->
               IF source = None THEN missing
               ELSE set_path(remove_path(value, rule.from), rule.to, source[1])
          [] rule.rule = "set" -> set_path(value, rule.to, rule.from)
          [] rule.rule = "remove" ->
               IF source = None THEN missing ELSE remove_path(value, rule.path)

field_mapping_rules(cfg) ==
    LET Kind(k) == SelectSeq(cfg.rules, LAMBDA r : r.rule = k)
    IN  Kind("copy") \o Kind("rename") \o Kind("set") \o Kind("remove")

field_mapping_payload(cfg, payload) ==
    IF payload = None THEN payload
    ELSE IF payload[1].kind # "object" THEN Some(error)
    ELSE LET rules == field_mapping_rules(cfg)
             after[n \in 0..Len(rules)] ==
                 IF n = 0 THEN payload[1] ELSE MapField(cfg, after[n - 1], rules[n])
         IN  Some(after[Len(rules)])

\* Mutant of remap_unavailable: a rename leaves the list alone.
RemapForgettingRenames(cfg, columns) ==
    Dropping(columns, {r.to : r \in {x \in Names(cfg.rules) : x.rule \in {"copy", "set"}}}
                          \cup {r.path : r \in {x \in Names(cfg.rules) : x.rule = "remove"}})

\* Only single-segment paths are columns.  A copied-to or literal column is no
\* longer unavailable, a rename carries the property, a removal ends it.
remap_unavailable(cfg, columns) ==
    LET Rules(k) == {r \in Names(cfg.rules) : r.rule \in k}
        valued == {r.to : r \in Rules({"copy", "set"})}
        renames == {r \in Rules({"rename"}) : Len(r.from) = 1 /\ Len(r.to) = 1}
        NewName(c) == IF \E r \in renames : r.from = c
                      THEN (CHOOSE r \in renames : r.from = c).to ELSE c
        kept == Dropping(columns, valued)
    IN  Dropping([i \in DOMAIN kept |-> NewName(kept[i])],
                 {r.path : r \in Rules({"remove"})})

field_mapping_apply(cfg, e) ==
    KeepUnlessError(e, [e EXCEPT
        !.before = field_mapping_payload(cfg, @),
        !.after = field_mapping_payload(cfg, @),
        !.before_unavailable_columns = remap_unavailable(cfg, @),
        !.unavailable_columns = remap_unavailable(cfg, @)])

(***************************************************************************)
(* UnwrapTransform: the leaves of an object, named by their path.  An      *)
(* empty container is a leaf, and so is an array unless arrays are         *)
(* flattened too.                                                          *)
(***************************************************************************)
Flattens(cfg, v) ==
    v.kind \in (IF cfg.flatten_arrays THEN {"object", "array"} ELSE {"object"}) /\ v.fields # <<>>

RECURSIVE flatten_into(_, _, _, _)
flatten_into(cfg, key, value, depth) ==
    IF depth > cfg.max_depth THEN {[path |-> key, value |-> error]}
    ELSE IF ~Flattens(cfg, value) THEN {[path |-> key, value |-> value]}
    ELSE UNION {flatten_into(cfg, key \o child, value.fields[child], depth + 1)
                  : child \in DOMAIN value.fields}

flatten_payload(cfg, payload) ==
    IF ~IsObject(payload) THEN payload
    ELSE LET leaves == UNION {flatten_into(cfg, key, payload[1].fields[key], 1)
                                : key \in DOMAIN payload[1].fields}
         IN  IF \E leaf \in leaves : leaf.value.kind = "error"
             THEN Some(error)
             ELSE Some(Object([path \in {leaf.path : leaf \in leaves} |->
                                 (CHOOSE leaf \in leaves : leaf.path = path).value]))

unwrap_apply(cfg, e) ==
    IF ~cfg.enabled THEN Keep(e)
    ELSE KeepUnlessError(e, [e EXCEPT !.before = flatten_payload(cfg, @),
                                      !.after = flatten_payload(cfg, @)])

(***************************************************************************)
(* MaskHashTransform.  A digest is modelled by what it digests, a          *)
(* ciphertext by what it hides, its nonce and the table and path it is     *)
(* bound to: two encryptions of one value differ, two digests do not.      *)
(***************************************************************************)
mask_hash_new(cfg) ==
    /\ <<>> \notin DOMAIN cfg.mask_rules
    /\ ({cfg.mask_rules[p] : p \in DOMAIN cfg.mask_rules} \cup {cfg.default_rule})
         \cap {"Truncate(0)", "Redact(empty)"} = {}

field_aad(table, path) == <<table, path>>

apply_rule(value, rule, aad, nonce) ==
    CASE rule = "UnsaltedSha256" -> [kind |-> "digest", of |-> value]
      [] rule = "Redact" -> Text("***")
      [] rule = "Null" -> Null
      [] rule = "Encrypt" -> [kind |-> "cipher", of |-> value, aad |-> aad, nonce |-> nonce]
      [] rule = "Decrypt" ->
           IF value.kind = "cipher" /\ value.aad = aad THEN value.of ELSE error

\* The rule of a leaf: its own path, else its parent's wildcard, else the default.
lookup_rule(cfg, path) ==
    LET wildcard == SubSeq(path, 1, Len(path) - 1) \o <<"*">>
    IN  IF path \in DOMAIN cfg.mask_rules THEN cfg.mask_rules[path]
        ELSE IF Len(path) > 1 /\ wildcard \in DOMAIN cfg.mask_rules
        THEN cfg.mask_rules[wildcard] ELSE cfg.default_rule

\* A container with a rule of its own is masked whole, any other is descended into.
RECURSIVE walk_value(_, _, _, _, _)
walk_value(cfg, value, path, table, nonce) ==
    LET container == value.kind \in {"object", "array"}
        rule == IF container
                THEN IF path \in DOMAIN cfg.mask_rules THEN cfg.mask_rules[path]
                     ELSE "Passthrough"
                ELSE lookup_rule(cfg, path)
    IN  IF path # <<>> /\ rule # "Passthrough"
        THEN apply_rule(value, rule, field_aad(table, path), nonce)
        ELSE IF container
        THEN [value EXCEPT !.fields =
                [k \in DOMAIN @ |-> walk_value(cfg, @[k], path \o k, table, nonce)]]
        ELSE value

Undecryptable(payload) ==
    IsObject(payload) /\ \E k \in DOMAIN payload[1].fields : payload[1].fields[k].kind = "error"

mask_hash_apply(cfg, e, nonce) ==
    LET Masked(payload, image) ==
            IF payload = None THEN payload
            ELSE Some(walk_value(cfg, payload[1], <<>>, e.table, <<nonce, image>>))
        m == [e EXCEPT !.before = Masked(@, "before"), !.after = Masked(@, "after")]
    IN  IF Undecryptable(m.before) \/ Undecryptable(m.after) THEN Fail(e) ELSE Keep(m)

(***************************************************************************)
(* OutboxTransform: an INSERT into the outbox table becomes the business   *)
(* event it carries, with the aggregate id as its declared key column.     *)
(***************************************************************************)
outbox_apply(cfg, e) ==
    LET after == IF IsObject(e.after) THEN e.after[1].fields ELSE <<>>
        IsText(c) == <<c>> \in DOMAIN after /\ after[<<c>>].kind = "text"
    IN  IF ~cfg.enabled \/ e.table # cfg.outbox_table \/ e.op # "insert" THEN Keep(e)
        ELSE IF IsText("aggregate_id") /\ IsText("event_type") /\ <<"payload">> \in DOMAIN after
        THEN Keep([e EXCEPT !.table = after[<<"event_type">>].t,
                            !.after = Some(after[<<"payload">>]),
                            !.primary_key = Some(<< <<after[<<"aggregate_id">>].t>> >>)])
        ELSE Fail(e)

(***************************************************************************)
(* RouteTransform: the exact rule, else the first pattern that matches (a  *)
(* pattern is the set of names it matches), else the default.              *)
(***************************************************************************)
destination_for(cfg, table) ==
    LET matching == {i \in DOMAIN cfg.patterns : table \in cfg.patterns[i].matches}
    IN  IF table \in DOMAIN cfg.routing_table THEN Some(cfg.routing_table[table])
        ELSE IF matching # {}
        THEN Some(cfg.patterns[CHOOSE i \in matching : \A j \in matching : i <= j].to)
        ELSE cfg.default_destination

route_apply(cfg, e) ==
    LET d == destination_for(cfg, e.table)
        adds == cfg.add_destination_field /\ IsObject(e.after)
    IN  IF d = None THEN Fail(e)
        ELSE Keep([e EXCEPT
               !.table = IF cfg.update_table THEN d[1] ELSE @,
               !.after = IF adds
                         THEN Some(Object(With(@[1].fields, <<"_destination">>, Text(d[1]))))
                         ELSE @])

(***************************************************************************)
(* The pipeline.                                                           *)
(***************************************************************************)
Stage_new(stage) ==
    CASE stage.name = "filter_projection" -> filter_projection_new(stage.config)
      [] stage.name = "field_mapping" -> field_mapping_new(stage.config)
      [] stage.name = "mask_hash" -> mask_hash_new(stage.config)
      [] OTHER -> TRUE

Stage_apply(stage, e, nonce) ==
    CASE stage.name = "filter_projection" -> filter_projection_apply(stage.config, e)
      [] stage.name = "field_mapping" -> field_mapping_apply(stage.config, e)
      [] stage.name = "unwrap" -> unwrap_apply(stage.config, e)
      [] stage.name = "mask_hash" -> mask_hash_apply(stage.config, e, nonce)
      [] stage.name = "outbox" -> outbox_apply(stage.config, e)
      [] stage.name = "route" -> route_apply(stage.config, e)

KeyDestroyed(e) == declares_key(e) /\ ~has_resolvable_key(e)

AfterStage(key_before, prev, next) ==
    IF prev.result # "keep" THEN prev
    ELSE IF next.result = "keep" /\ key_before /\ KeyDestroyed(next.event) THEN Fail(next.event)
    ELSE next

\* TransformPipeline::apply: one event through every stage; the key it came with
\* is looked at once, before the first.
Pipeline_apply(stages, e, nonce) ==
    LET after[n \in 0..Len(stages)] ==
            IF n = 0 THEN Keep(e)
            ELSE AfterStage(is_data_change(e.op) /\ has_resolvable_key(e), after[n - 1],
                            Stage_apply(stages[n], after[n - 1].event, nonce))
    IN  after[Len(stages)]

KeptEvents(out) ==
    LET kept == SelectSeq(out, LAMBDA o : o.result = "keep")
    IN  [i \in DOMAIN kept |-> kept[i].event]

keyed_tables(batch) ==
    {e.table : e \in {x \in Names(batch) : is_data_change(x.op) /\ has_resolvable_key(x)}}

BatchAfterStage(keyed, out) ==
    [ok |-> /\ \A o \in Names(out) : o.result # "err"
            /\ \A e \in Names(KeptEvents(out)) :
                  ~(is_data_change(e.op) /\ KeyDestroyed(e) /\ e.table \in keyed),
     events |-> KeptEvents(out)]

\* TransformPipeline::apply_batch: every event through a stage before any reaches
\* the next; keyed is a property of the tables that entered the stage.
Pipeline_apply_batch(stages, events, nonce) ==
    LET after[n \in 0..Len(stages)] ==
            IF n = 0 THEN [ok |-> TRUE, events |-> events]
            ELSE LET prev == after[n - 1]
                 IN  IF ~prev.ok THEN prev
                     ELSE BatchAfterStage(keyed_tables(prev.events),
                              [i \in DOMAIN prev.events |->
                                 Stage_apply(stages[n], prev.events[i], nonce + i)])
    IN  after[Len(stages)]
=============================================================================

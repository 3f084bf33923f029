------------------------------- MODULE RuleEngine -------------------------------
(***************************************************************************)
(* The validation and the transform engine (rules/engine.py).              *)
(*                                                                         *)
(* A validation rule is a record [type, field, accepts, then]: accepts is  *)
(* the set of texts a format, a list or a range lets through, or the text  *)
(* that triggers a cross-field rule, and then the fields that one requires.*)
(* A mapping is a record [type, source, target, sort_order, value, table]. *)
(***************************************************************************)
EXTENDS StwTransforms

Rule(type, field, accepts, then) ==
    [type |-> type, field |-> field, accepts |-> accepts, then |-> then, enabled |-> TRUE]
Mapping(type, source, target, order) ==
    [type |-> type, source |-> source, target |-> target, sort_order |-> order,
     value |-> None, table |-> <<>>, enabled |-> TRUE]

-----------------------------------------------------------------------------
(* Validation: every enabled rule on every record.  The values a unique    *)
(* rule has met are kept per field for the list of records it is given: it *)
(* refuses a value that an earlier record has, also a refused one, or that *)
(* an earlier rule has met in the same record.                             *)

SameUnique(rules, m, n) == rules[m].type = "unique" /\ rules[m].field = rules[n].field
MetAlone(records, rules, k, n) == \E m \in 1..(n - 1) : SameUnique(rules, m, n)
Met(records, rules, k, n) ==
    \E j \in 1..k, m \in 1..Len(rules) :
        /\ SameUnique(rules, m, n) /\ (j < k \/ m < n)
        /\ Get(records[j], rules[n].field) = Get(records[k], rules[n].field)

Violates(records, rules, k, n) ==
    LET record == records[k]
        rule == rules[n]
        value == Get(record, rule.field)
    IN CASE rule.type = "required" -> IsEmpty(value)
         [] rule.type \in {"format", "in_list", "range"} -> ~IsEmpty(value) /\ value \notin rule.accepts
         [] rule.type = "cross_field" ->
               value \in rule.accepts /\ \E f \in rule.then : IsEmpty(Get(record, f))
         [] rule.type = "unique" -> ~IsEmpty(value) /\ Met(records, rules, k, n)

EnabledRules(rules) == Picked(rules, {n \in 1..Len(rules) : rules[n].enabled})
Refused(records, rules) ==
    {k \in 1..Len(records) : \E n \in 1..Len(rules) : Violates(records, rules, k, n)}
validation_apply(records, rules) ==
    LET refused == Refused(records, EnabledRules(rules))
    IN [valid |-> Picked(records, (1..Len(records)) \ refused), invalid |-> Picked(records, refused)]

-----------------------------------------------------------------------------
(* Transformation: the enabled mappings in their order, each reading the   *)
(* source record with what earlier mappings have produced laid over it.    *)
(* A date that does not parse raises an exception, and so does not give a  *)
(* record at all.                                                          *)

Raised == "raised"
(* A field that is there without a value is spelt out: None.               *)
Concat(working, fields, sep) ==
    FoldLeft(LAMBDA text, f : IF f \notin DOMAIN working \/ working[f] = "" THEN text
                              ELSE IF text = "" THEN working[f] ELSE text \o sep \o working[f],
             "", fields)

Or(value, otherwise) == IF value = None THEN otherwise ELSE value

(* Lookups and conversions (upper, lower, pad_left, regex_replace) are the *)
(* table of the texts they change.                                         *)
apply_mapping(working, mapping, rules, context) ==
    LET value == IF mapping.source = None THEN None ELSE Get(working, mapping.source)
        type == mapping.type
    IN CASE type = "constant"    -> mapping.value
         [] type = "default"     -> IF IsEmpty(value) THEN mapping.value ELSE value
         [] type = "lookup"      -> Of(mapping.table, value,
                                       IF mapping.value = None THEN value ELSE mapping.value)
         [] type = "concat"      -> Concat(working, mapping.table, " ")
         [] type = "conditional" -> Of(mapping.table, value, mapping.value)
         [] type = "convert"     -> IF value = None THEN None ELSE Of(mapping.table, value, value)
         [] type = "date_format" -> IF IsEmpty(value) THEN None ELSE Of(mapping.table, value, Raised)
         [] type = "stw_property_type" -> transform_property_type(working, rules.property_type)
         [] type = "stw_area_code" -> transform_area_code(working, rules.area_code, context).value
         [] type = "stw_rateband_lookup" ->
               Or(FirstOf(transform_rateband(working, rules.rateband, context.tariffs),
                          <<mapping.source, "rate_band">>), mapping.value)
         [] OTHER                -> value

(* The area code mapping also writes the sibling code into what the later  *)
(* mappings read; only fields that have a mapping reach the target.        *)
AfterMapping(working, mapping, rules, context) ==
    IF mapping.type = "stw_area_code"
    THEN transform_area_code(working, rules.area_code, context).record ELSE working
Assign(out, working, field, value) ==
    [out |-> With(out, field, value),
     working |-> IF value = None THEN working ELSE With(working, field, value)]
map_field(state, mapping, rules, context) ==
    Assign(state.out, AfterMapping(state.working, mapping, rules, context), mapping.target,
           apply_mapping(state.working, mapping, rules, context))

(* A stable sort: the turn of a mapping is the number of enabled ones that *)
(* are not applied after it.                                               *)
NotAfter(mappings, j, i) ==
    \/ mappings[j].sort_order < mappings[i].sort_order
    \/ mappings[j].sort_order = mappings[i].sort_order /\ j <= i
Turn(mappings, enabled, i) == Cardinality({j \in enabled : NotAfter(mappings, j, i)})
EnabledMappings(mappings) ==
    LET enabled == {i \in 1..Len(mappings) : mappings[i].enabled}
    IN [k \in 1..Cardinality(enabled) |->
            mappings[CHOOSE i \in enabled : Turn(mappings, enabled, i) = k]]
transform_one(record, mappings, rules, context) ==
    LET after[k \in 0..Len(mappings)] ==
            IF k = 0 THEN [out |-> <<>>, working |-> record]
            ELSE map_field(after[k - 1], mappings[k], rules, context)
    IN after[Len(mappings)].out

transform_apply(records, mappings, rules, context) ==
    IF EnabledMappings(mappings) = <<>> THEN records
    ELSE [i \in 1..Len(records) |->
              transform_one(records[i], EnabledMappings(mappings), rules, context)]
RaisesIn(records) == \E i \in 1..Len(records) : \E f \in DOMAIN records[i] : records[i][f] = Raised
=============================================================================

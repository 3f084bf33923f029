------------------------------- MODULE RecordFlow -------------------------------
(***************************************************************************)
(* What happens to the records themselves in a migration run: chunk after  *)
(* chunk of one batch through the four stage handlers                      *)
(* (rules/pipeline_hooks.py), the target adapter, the load records and the *)
(* reconciliation report; with the transform overrides of the project,     *)
(* which other requests edit meanwhile.                                    *)
(*                                                                         *)
(* Selection made a candidate of every record of the batch.  Checkpoints,  *)
(* several batches and audit sampling are BatchPipeline's.                 *)
(***************************************************************************)
EXTENDS RuleEngine

CONSTANTS Chunks,        \* the staged records of the batch, cut by run_chunk_size
          Entity,        \* contract of the staged entity
          RuleSets,      \* approved rule sets: [validation, mappings]
          ProjectConfigs,   \* what requests store as the config of the project
          Plugin,        \* destination plug-in the project was switched to
          TargetSystem,  \* target_system of the project
          Answers,       \* how the destination may answer a request
          Patches,       \* edits of the overrides: [key, rules]
          Editors,       \* concurrent requests that edit
          LoadedElsewhere,  \* ids that other runs of the project may load
          MaxResumes

(* A batch is handled in at least one chunk, which may hold no record.     *)
ASSUME RecordAssumption ==
    /\ Chunks # <<>> /\ Chunks \in Seq(Seq(UNION {ToSet(Chunks[c]) : c \in 1..Len(Chunks)}))
    /\ \A set \in RuleSets : /\ set.validation \in Seq(ToSet(set.validation))
                             /\ set.mappings \in Seq(ToSet(set.mappings))
                             /\ \A mapping \in ToSet(set.mappings) : mapping.sort_order \in Int
    /\ \A c \in ProjectConfigs :
          c = [overrides |-> c.overrides, tariffs |-> c.tariffs, zones |-> c.zones]
    /\ Plugin \in Plugins
    /\ Answers \subseteq {"lists", "failed_only", "http_error"}
    /\ MaxResumes \in Nat

VARIABLES config,      \* of the project, as stored: [overrides, tariffs, zones], which are its
                       \* stw_transform_rules, its stw_tariff_table and its tariff_mappings
          editing,     \* config each editor has loaded
          ruleset, allow,   \* of the run: its rule set, allow_validation_errors
          status,      \* of the run
          cfg,         \* config of the attempt
          next,        \* chunk being processed
          stage,       \* handler to run next
          meta,        \* ctx.metadata of the chunk
          known,       \* loaded_external_ids of the attempt
          results,     \* all_loaded and all_failed of the attempt
          loads,       \* load records of the run
          candidates,  \* status of each candidate, by its place in the chunks
          resumes

flow == <<status, cfg, next, stage, meta, known, results, loads, candidates, resumes>>
vars == <<config, editing, ruleset, allow, flow>>

Unset == <<>>            \* no overrides at all
NotEditing == [closed |-> TRUE]
Fresh == [records |-> <<>>, valid |-> <<>>, invalid |-> <<>>, transformed |-> <<>>,
          loaded |-> <<>>, failed |-> <<>>]
NoResults == [loaded |-> <<>>, failed |-> <<>>]
Places == UNION {{c} \X (1..Len(Chunks[c])) : c \in 1..Len(Chunks)}
At(p) == Chunks[p[1]][p[2]]

Init ==
    /\ config \in ProjectConfigs
    /\ editing = [e \in Editors |-> NotEditing]
    /\ ruleset \in RuleSets /\ allow \in BOOLEAN
    /\ status = "queued" /\ cfg = config /\ next = 1 /\ stage = "ingest"
    /\ meta = Fresh /\ known = {} /\ results = NoResults /\ loads = <<>>
    /\ candidates = [p \in Places |-> "selected"]
    /\ resumes = 0

-----------------------------------------------------------------------------
(* PATCH projects/{id}: the config as it is given, with the overrides of   *)
(* any transforms, as POST projects stores it too.                         *)

update_project ==
    /\ config' \in ProjectConfigs
    /\ UNCHANGED <<editing, ruleset, allow, flow>>

(* PUT stw-transform-rules/{rule_key} and POST reset                       *)

LoadProject(e) ==
    /\ editing[e] = NotEditing
    /\ editing' = [editing EXCEPT ![e] = config]
    /\ UNCHANGED <<config, ruleset, allow, flow>>

(* The first edit adds a key to a copy of the config, and is stored.  Any  *)
(* later one is merged into the dictionary the loaded config itself holds: *)
(* the old and the new value are equal when the session compares them, and *)
(* nothing is written.                                                     *)
Patched(loaded, patch) ==
    [loaded EXCEPT !.overrides =
        [key \in DOMAIN @ \cup {patch.key} |->
            IF key # patch.key THEN @[key]
            ELSE deep_merge(IF key \in DOMAIN @ THEN @[key] ELSE <<>>, patch.rules)]]
Stored(loaded, patch) == IF loaded.overrides = Unset THEN Patched(loaded, patch) ELSE config

update_stw_rule(e, patch) ==
    /\ editing[e] # NotEditing
    /\ config' = Stored(editing[e], patch)
    /\ editing' = [editing EXCEPT ![e] = NotEditing]
    /\ UNCHANGED <<ruleset, allow, flow>>

(* A reset takes the tariff table away too.                                *)
reset_stw_transform_rules ==
    /\ config' = [config EXCEPT !.overrides = Unset, !.tariffs = <<>>]
    /\ UNCHANGED <<editing, ruleset, allow, flow>>

-----------------------------------------------------------------------------
(* execute_run                                                             *)

external_id(record) ==
    LET keys == <<"accountId", "id", "KUNNR", "krakenAccountId", "sapCustomerNumber", "external_id">>
        key == FirstIn(keys, LAMBDA k : Get(record, k) # None)
    IN IF key = None THEN "unknown" ELSE record[key]
LoadedIds == {loads[i].id : i \in {i \in 1..Len(loads) : loads[i].status = "loaded"}}

(* The config and the ids that the project has loaded, in this run or in   *)
(* another, are read once for an attempt.                                  *)
StartRun ==
    /\ status = "queued"
    /\ status' = "running" /\ stage' = "ingest"
    /\ cfg' = config
    /\ \E elsewhere \in SUBSET LoadedElsewhere : known' = known \cup LoadedIds \cup elsewhere
    /\ results' = NoResults /\ meta' = Fresh
    /\ UNCHANGED <<config, editing, ruleset, allow, next, loads, candidates, resumes>>

InStage(s) == status = "running" /\ stage = s
Environment == <<config, editing, ruleset, allow, cfg, known, resumes>>

(* The end of the batch, whole or at a failing chunk: results become load  *)
(* records, and every candidate gets the status of the batch.              *)
LoadRecord(record, outcome) == [id |-> external_id(record), status |-> outcome, payload |-> record]
build_mappings(all) ==
    [i \in 1..Len(all.loaded) |-> LoadRecord(all.loaded[i], "loaded")]
    \o [i \in 1..Len(all.failed) |-> LoadRecord(all.failed[i], "failed")]
FinishBatch(all, success) ==
    /\ status' = IF success THEN "completed" ELSE "failed"
    /\ loads' = loads \o build_mappings(all)
    /\ candidates' = [p \in DOMAIN candidates |-> IF success THEN "loaded" ELSE "failed"]
    /\ results' = all /\ stage' = "ingest"
FailBatch == FinishBatch(results, FALSE) /\ UNCHANGED <<next, meta>>

run_ingest ==
    /\ InStage("ingest")
    /\ meta' = [Fresh EXCEPT !.records = Chunks[next]]
    /\ stage' = "validate"
    /\ UNCHANGED <<status, next, results, loads, candidates>> /\ UNCHANGED Environment

(* Without rules the connector checks the schema of the entity.            *)
Passes(record) == validate_one(Entity, record).errors = {}
Passing(records) == {i \in 1..Len(records) : Passes(records[i])}
source_validate(records) ==
    LET passing == Picked(records, Passing(records))
    IN [k \in 1..Len(passing) |-> validate_one(Entity, passing[k]).coerced]
ValidatedAll(records) == [valid |-> records, invalid |-> <<>>]
Validated(records) ==
    IF ruleset.validation # <<>> THEN validation_apply(records, ruleset.validation)
    ELSE [valid |-> source_validate(records),
          invalid |-> Picked(records, (1..Len(records)) \ Passing(records))]
run_validate ==
    /\ InStage("validate")
    /\ LET checked == Validated(meta.records)
       IN IF checked.invalid = <<>> \/ allow
          THEN /\ meta' = [meta EXCEPT !.valid = checked.valid, !.invalid = checked.invalid]
               /\ stage' = "transform"
               /\ UNCHANGED <<status, next, results, loads, candidates>>
          ELSE FailBatch
    /\ UNCHANGED Environment

Transformed(records) ==
    transform_apply(records, ruleset.mappings, get_stw_rules(cfg.overrides), cfg)
run_transform ==
    /\ InStage("transform")
    /\ \E transformed \in {Transformed(meta.valid)} :
          IF RaisesIn(transformed) THEN FailBatch
          ELSE /\ meta' = [meta EXCEPT !.transformed = transformed]
               /\ stage' = "load"
               /\ UNCHANGED <<status, next, results, loads, candidates>>
    /\ UNCHANGED Environment

-----------------------------------------------------------------------------
(* The load stage.  An empty result of the transform stage is taken for a  *)
(* missing one: the chunk is read again, checked against the schema only,  *)
(* and transformed.                                                        *)

ToLoad(m) == IF m.transformed # <<>> THEN m.transformed
             ELSE Transformed(source_validate(m.records))

(* validate_target_payload and load of the adapters                        *)
Adapter == AdapterOf(Plugin)
Shaped(records) == IF Adapter = "sap" THEN [i \in 1..Len(records) |-> to_sap_record(records[i])]
                   ELSE records
PreparedUnchecked(records) == [valid |-> Shaped(records), invalid |-> <<>>]
Prepared(records) ==
    IF Adapter \in {"kraken", "sap"}
    THEN validate_against_target(Shaped(records), TargetSystem, "account")
    ELSE [valid |-> records, invalid |-> <<>>]
Skips(record) == Adapter = "kraken" /\ external_id(record) \in known
partition_idempotent(records) ==
    LET skipped == {i \in 1..Len(records) : Skips(records[i])}
    IN [skipped |-> Picked(records, skipped), to_load |-> Picked(records, (1..Len(records)) \ skipped)]

(* A request is answered with the lists of loaded and of failed records,   *)
(* with a list of the failed ones alone, when all count as loaded, or with *)
(* an error, which becomes one failed record without any field.  All the   *)
(* requests of a chunk are answered in one way here.                       *)
Responses(records) ==
    LET all == 1..Len(records)
        Failures == IF Adapter = "kraken" THEN SUBSET all ELSE {{}}
    IN UNION {
        IF answer = "lists"
        THEN {[loaded |-> Picked(records, all \ f), failed |-> Picked(records, f)] : f \in Failures}
        ELSE IF answer = "failed_only"
        THEN {[loaded |-> records, failed |-> Picked(records, f)] : f \in Failures}
        ELSE {[loaded |-> Picked(records, all \ f),
               failed |-> IF f = {} THEN <<>> ELSE << <<>> >>] : f \in Failures}
        : answer \in Answers}

(* The results join those of the attempt: the next chunk is due, unless a  *)
(* record of this one has failed, or it was the last.                      *)
EndChunk(loaded, failed) ==
    LET all == [loaded |-> results.loaded \o loaded, failed |-> results.failed \o failed]
    IN /\ meta' = [meta EXCEPT !.loaded = loaded, !.failed = failed]
       /\ IF failed = <<>> /\ next < Len(Chunks)
          THEN /\ next' = next + 1 /\ stage' = "ingest" /\ results' = all
               /\ UNCHANGED <<status, loads, candidates>>
          ELSE FinishBatch(all, failed = <<>>) /\ UNCHANGED next

run_load ==
    /\ InStage("load")
    /\ \E records \in {ToLoad(meta)} :
       IF RaisesIn(records) THEN FailBatch
       ELSE \E prepared \in {Prepared(records)} :
            \E split \in {partition_idempotent(prepared.valid)} :
            \E answer \in Responses(split.to_load) :
                EndChunk(answer.loaded \o split.skipped, prepared.invalid \o answer.failed)
    /\ UNCHANGED Environment

(* POST runs/{id}/resume: the next attempt begins at the failing chunk.    *)
Resume ==
    /\ status = "failed" /\ resumes < MaxResumes
    /\ status' = "queued" /\ resumes' = resumes + 1
    /\ UNCHANGED <<config, editing, ruleset, allow, cfg, next, stage, meta, known,
                   results, loads, candidates>>

Next ==
    \/ \E e \in Editors : LoadProject(e) \/ \E patch \in Patches : update_stw_rule(e, patch)
    \/ update_project \/ reset_stw_transform_rules
    \/ StartRun \/ run_ingest \/ run_validate \/ run_transform \/ run_load \/ Resume

Spec == Init /\ [][Next]_vars

-----------------------------------------------------------------------------
(* The reconciliation report of the run (reconciliation/service.py).       *)

CountLoads(outcome) == Cardinality({i \in 1..Len(loads) : loads[i].status = outcome})
ReconciledByAnyLoad(selected, loaded, failed) ==
    IF selected = 0 THEN "no_candidates" ELSE IF loaded > 0 THEN "balanced" ELSE "variance"
reconciliation_status(selected, loaded, failed) ==
    IF selected = 0 THEN "no_candidates"
    ELSE IF loaded + failed >= selected /\ selected - loaded - failed = 0 THEN "balanced"
    ELSE IF loaded > 0 THEN "partial" ELSE "variance"
run_report ==
    LET selected == Cardinality(DOMAIN candidates)
        loaded == CountLoads("loaded")
        failed == CountLoads("failed")
    IN [candidates_selected |-> selected, target_loaded |-> loaded, target_failed |-> failed,
        unaccounted |-> selected - loaded - failed,
        reconciliation_status |-> reconciliation_status(selected, loaded, failed)]

-----------------------------------------------------------------------------
(* What lets an account be followed from its staged record to its load     *)
(* record: its id is not repeated in the batch, and the mappings of every  *)
(* rule set pass it on, whatever overrides an attempt finds.  A record     *)
(* reaches them as it was staged or as the schema check leaves it.         *)

Edited(patch) == Patched([overrides |-> Unset], patch).overrides
Configs ==
    [overrides : {Unset} \cup {c.overrides : c \in ProjectConfigs} \cup {Edited(p) : p \in Patches},
     tariffs : {<<>>} \cup {c.tariffs : c \in ProjectConfigs},
     zones : {c.zones : c \in ProjectConfigs}]
Forms(record) == {record} \cup IF Passes(record) THEN {validate_one(Entity, record).coerced} ELSE {}
Sent(record, set, loaded) ==
    Shaped(transform_apply(<<record>>, set.mappings, get_stw_rules(loaded.overrides), loaded))[1]

KeepsIds ==
    \A p \in Places, set \in RuleSets, loaded \in Configs : \A form \in Forms(At(p)) :
        external_id(Sent(form, set, loaded)) = At(p).id
IdsDiffer == \A p, q \in Places : At(p).id = At(q).id => p = q

(* The mappings of a rule set that see to it: the id is copied to the      *)
(* field that load records are kept under, as the sample mappings do       *)
(* (rules/service.py:155), and written nowhere else.                       *)
EnabledOf(set) == {mapping \in ToSet(set.mappings) : mapping.enabled}
IdsMapped ==
    /\ "id" \in FieldsOf(Entity) /\ \A p \in Places : ~IsEmpty(Get(At(p), "id"))
    /\ \A set \in RuleSets :
        /\ \E mapping \in EnabledOf(set) : mapping.target = "accountId"
        /\ \A mapping \in EnabledOf(set) :
            /\ mapping.target # "id" /\ (Adapter = "sap" => mapping.target # "KUNNR")
            /\ mapping.target = "accountId" => mapping.type = "copy" /\ mapping.source = "id"

(* A record is staged with the fields of its entity, and mappings are      *)
(* applied as their targets need each other: a rate band is looked up      *)
(* after the property type is there and writes nothing it is looked up by; *)
(* an area code and the codes of the two services are each mapped from     *)
(* what the record has for them.  The overrides may be of anything else    *)
(* than the profiles, the categories of accounts and the copying of codes. *)
Siblings == {"fresh_area_code", "waste_area_code"}
BandFields == {"target_product_code", "target_rate_band", "kraken_start_date",
               "account_category", "category", "metered"}
BandTable(loaded) == TableOf(get_stw_rules(loaded.overrides).rateband, loaded.tariffs)
StagedFields == \A p \in Places : DOMAIN At(p) \subseteq FieldsOf(Entity)
BandsMapped ==
    /\ StagedFields
    /\ \A loaded \in Configs :
          /\ get_stw_rules(loaded.overrides).rateband.lookup_profiles = RatebandProfiles
          /\ BandTable(loaded) \in Seq(ToSet(BandTable(loaded)))
    /\ \A set \in RuleSets :
        /\ EnabledOf(set) # {}
        /\ \A mapping \in EnabledOf(set) :
            /\ mapping.target \notin BandFields
            /\ mapping.target = "rate_band" =>
                /\ mapping.type = "stw_rateband_lookup"
                /\ mapping.source = "kraken_rate_band" /\ mapping.value = None
                /\ \A other \in EnabledOf(set) :
                       other.target = "property_type" => other.sort_order < mapping.sort_order
AreasMapped ==
    /\ StagedFields
    /\ \A loaded \in Configs :
        LET rules == get_stw_rules(loaded.overrides).area_code
        IN rules.propagate_area_code_except_owc /\ rules.category_aliases = CategoryAliases
    /\ \A set \in RuleSets :
        /\ \A mapping \in EnabledOf(set) :
            /\ mapping.target = "area_code" <=> mapping.type = "stw_area_code"
            /\ mapping.target \notin {"account_category", "category"}
            /\ mapping.target \in Siblings => mapping.type = "copy" /\ mapping.source = mapping.target
        /\ \A m, n \in 1..Len(set.mappings) :
            LET One(k) == set.mappings[k].enabled /\ set.mappings[k].target = "area_code"
            IN One(m) /\ One(n) => m = n

-----------------------------------------------------------------------------
Ids(records) == {records[k].id : k \in 1..Len(records)}
AllIds == {At(p).id : p \in Places}
Raw(id) == At(CHOOSE p \in Places : At(p).id = id)
LoadedPayloads == {loads[i] : i \in {i \in 1..Len(loads) : loads[i].status = "loaded"}}
UnderRules == ruleset.validation # <<>>
ValidIn(c) == validation_apply(Chunks[c], ruleset.validation).valid

(* The shape of a run: the handlers go through the stages in order, the    *)
(* results are those of records of the batch, and the config is one that   *)
(* requests have stored or edited.                                         *)
RecordTypeOK ==
    /\ config \in Configs
    /\ status \in {"queued", "running", "failed", "completed"} /\ next \in 1..Len(Chunks)
    /\ stage \in {"ingest", "validate", "transform", "load"}
    /\ Len(meta.valid) + Len(meta.invalid) <= Len(meta.records)
    /\ \A i \in 1..Len(loads) : loads[i].id \in AllIds \cup {"unknown"}

(* An edit of the rules that is answered is stored: the overrides of the   *)
(* three transforms are "edit lookup tables, advanced JSON"                *)
(* (docs/STW_TRANSFORM_RULES.md:42).  The code does not do so: once the    *)
(* config has an override, the dictionary is changed in place and nothing  *)
(* is written (transforms/stw/config.py:32).                               *)
EditIsStored ==
    \A e \in Editors, patch \in Patches : editing[e] # NotEditing =>
        patch.key \in DOMAIN Stored(editing[e], patch).overrides

(* A record the rule set refuses is loaded only if the rule set refuses    *)
(* every record of its chunk: then the load stage takes the empty result   *)
(* for a missing one (rules/pipeline_hooks.py:117).                        *)
RefusedOnlyWithWholeChunk ==
    UnderRules => \A c \in 1..Len(Chunks) :
        LoadedIds \cap (Ids(Chunks[c]) \ Ids(ValidIn(c))) # {} => ValidIn(c) = <<>>

(* A unique rule holds within a chunk: of two records of one chunk that    *)
(* share the value one is loaded at most, unless nothing in it is valid.   *)
UniqueWithinChunk ==
    \A n \in 1..Len(ruleset.validation), c \in 1..Len(Chunks) :
        LET rule == ruleset.validation[n]
        IN rule.type = "unique" /\ rule.enabled /\ ValidIn(c) # <<>> =>
            \A r, q \in ToSet(Chunks[c]) :
                /\ Get(r, rule.field) = Get(q, rule.field) /\ ~IsEmpty(Get(r, rule.field))
                /\ {r.id, q.id} \subseteq LoadedIds
                => r.id = q.id

(* Whatever path a record took to the destination, it has the fields the   *)
(* target system requires.                                                 *)
LoadedMeetsTarget ==
    Adapter \in {"kraken", "sap"} =>
        \A load \in LoadedPayloads : PassesTarget(TargetSystem, "account", load.payload)

(* The rate band of a loaded account is that of a tariff row of its own    *)
(* product, band and year; and of its property type, if its profiles look  *)
(* for one and any such row of the same zone and product code has it.      *)
Band(row) == FirstOf(row, <<"kraken_rate_band", "rate_band">>)
SameZone(a, b) == \A f \in {"area_code", "kraken_product_code"} : Get(a, f) = Get(b, f)
LooksForType(account) ==
    \A n \in 1..Len(RatebandProfiles) :
        match_profile(account, RatebandProfiles[n]) =>
            RatebandProfiles[n].fallback_keys = {"property_type"}
RateBandOfItsTariff ==
    \A load \in LoadedPayloads :
        Get(load.payload, "rate_band") # None =>
            \E loaded \in Configs :
                LET raw == Raw(load.id)
                    type == Get(load.payload, "property_type")
                    own == {row \in ToSet(BandTable(loaded)) : Agrees(row, row_key(raw, Key3))}
                IN \E row \in own :
                    /\ Band(row) = load.payload.rate_band
                    /\ LooksForType(raw) /\ ~IsEmpty(type) /\ Get(row, "property_type") # type =>
                        ~\E other \in own : SameZone(other, row) /\ Get(other, "property_type") = type

(* An account staged without the area code of one of its two services, and *)
(* with that of the other, is loaded with the code of the account for it   *)
(* if the mapping of the field comes after the one of the area code, but   *)
(* for OWC and assessed accounts; in every other case it is loaded without *)
(* one or with that code, never with another zone                          *)
(* (transforms/stw/area_code.py:101).                                      *)
Mapped(m, field) == ruleset.mappings[m].enabled /\ ruleset.mappings[m].target = field
MappedAfterArea(f) ==
    \E m, n \in 1..Len(ruleset.mappings) :
        /\ Mapped(m, "area_code") /\ Mapped(n, f)
        /\ ~NotAfter(ruleset.mappings, n, m)
HasOther(raw, f) == \E g \in Siblings \ {f} : ~IsEmpty(Get(raw, g))
CopiesArea(raw, f) ==
    HasOther(raw, f) /\ MappedAfterArea(f) /\ Category(raw, CategoryAliases) \notin {"owc", "assessed"}
SiblingGetsOwnArea ==
    \A load \in LoadedPayloads, f \in Siblings :
        LET raw == Raw(load.id)
        IN IsEmpty(Get(raw, f)) /\ (CopiesArea(raw, f) \/ ~IsEmpty(Get(load.payload, f))) =>
               Get(load.payload, f) = Get(load.payload, "area_code")

(* "Propagate fresh/waste area code (except OWC)"                          *)
(* (docs/STW_TRANSFORM_RULES.md:34): whatever the order of the mappings.   *)
(* The code does so only for a field that is mapped later.                 *)
AreaPropagated ==
    \A load \in LoadedPayloads, f \in Siblings :
        LET raw == Raw(load.id)
        IN /\ IsEmpty(Get(raw, f)) /\ HasOther(raw, f)
           /\ \E m \in 1..Len(ruleset.mappings) : Mapped(m, f)
           /\ Category(raw, CategoryAliases) # "owc"
           => ~IsEmpty(Get(load.payload, f))

(* A run that reports itself balanced has a load record for each candidate,*)
(* but for those in a request answered with an error, unless some account  *)
(* has two records, as after a resume.                                     *)
Balanced == run_report.reconciliation_status = "balanced"
RecordedTwice == \E i, j \in 1..Len(loads) : i # j /\ loads[i].id = loads[j].id
BalancedAccountsForAll ==
    Balanced /\ ~RecordedTwice =>
        LET recorded == {loads[i].id : i \in 1..Len(loads)}
        IN Cardinality(AllIds \ recorded) <= Cardinality(recorded \cap {"unknown"})
=============================================================================

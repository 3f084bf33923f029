----------------------------- MODULE StwTransforms -----------------------------
(***************************************************************************)
(* The three utility transforms (transforms/stw/): the property type of a  *)
(* supply address, its area code, and the tariff row of a rate band, with  *)
(* the default rules and the overrides of a project merged over them.      *)
(*                                                                         *)
(* A source record is a function from field names to strings.  What a text *)
(* says to a regular expression or a conversion is given by constants:     *)
(* the words of an address, the zone number in a free text, and the text   *)
(* in lower case with underscores.  A context is what the config of the    *)
(* project gives besides its rules: its tariffs and its zones by product.  *)
(***************************************************************************)
EXTENDS DestinationSchemas, SequencesExt

CONSTANTS WordsOf,     \* [address -> set of lower-case words]
          ZoneIn,      \* [free text -> zone it names, as "ZONE_7"]
          Snake        \* [category text -> lower case, "_" for " "]

StartsWith(text, prefix) ==
    Len(text) >= Len(prefix) /\ SubSeq(text, 1, Len(prefix)) = prefix
Of(table, text, otherwise) == IF text \in DOMAIN table THEN table[text] ELSE otherwise
FirstIn(seq, Test(_)) ==
    LET hits == {i \in 1..Len(seq) : Test(seq[i])}
    IN IF hits = {} THEN None ELSE seq[CHOOSE i \in hits : \A j \in hits : i <= j]

-----------------------------------------------------------------------------
(* The default rules (defaults.py).  Names of source fields are constants  *)
(* of the operators below; what a project edits are these tables.          *)

CategoryAliases ==
    [s \in {"STW Measured", "STW Unmeasured", "Assessed", "OWC", "BDS", "Watersure"} |->
        CASE s = "STW Measured" -> "stw_measured" [] s = "STW Unmeasured" -> "stw_unmeasured"
          [] s = "Assessed" -> "assessed" [] s = "OWC" -> "owc"
          [] s = "BDS" -> "bds" [] s = "Watersure" -> "watersure"]

PropertyRules == [
    value_map |-> ("Terraced" :> "TERRACED" @@ "Semi Detached" :> "SEMI_DETACHED"
                   @@ "Detached" :> "DETACHED" @@ "Not Known" :> "DETACHED"),
    not_known_applies_to |-> {"stw_measured", "assessed"},
    mdd_product_map |-> [MDD01 |-> "DETACHED", MDD02 |-> "SEMI_DETACHED",
                         MDD03 |-> "TERRACED", MDD04 |-> "FLAT"],
    mdd_rule_metered_categories |-> {"stw_measured", "bds", "watersure"},
    mdd_rule_unmeasured_categories |-> {"assessed"},
    flat_address_keywords |-> {"flat", "apartment", "apartments", "studio"},
    flat_rule_categories |-> {"stw_unmeasured", "bds", "watersure"},
    category_aliases |-> CategoryAliases]

AreaRules == [
    zone_map |->
        ("Zone 01 - STW Shropshire (Upper Severn)" :> "ZONE_1"
         @@ "Zone 02 - STW Worcester/Gloucester (Lower Severn)" :> "ZONE_2"
         @@ "Zone 03 - STW Coventry/North Warks (Avon)" :> "ZONE_3"
         @@ "Zone 04 - STW Leicestershire (Soar)" :> "ZONE_4"
         @@ "Zone 05 - STW Nottinghamshire (Lower Trent)" :> "ZONE_5"
         @@ "Zone 06 - STW Derbyshire (Derwent)" :> "ZONE_6"
         @@ "Zone 07 - STW Staffordshire (Upper Trent)" :> "ZONE_7"
         @@ "Zone 08 - STW Birmingham (Tame)" :> "ZONE_8"
         @@ "Zone 23 - STW Chester" :> "ZONE_8" @@ "Zone 11 - North West Water" :> "ZONE_11"
         @@ "Zone 14 - Thames Water" :> "ZONE_14" @@ "Zone 10 - Yorkshire Water" :> "ZONE_10"
         @@ "Zone 24 - STW Wrexham" :> "ZONE_10" @@ "Zone 12 - Welsh Water" :> "ZONE_12"),
    default_zone |-> "ZONE_1",
    assessed_product_prefixes |-> {"ASB", "AVB", "MDD"},
    assessed_suffix_zone_map |-> ("24" :> "ZONE_9" @@ "21" :> "ZONE_9" @@ "34" :> "ZONE_10"),
    assessed_mdd_priority |-> TRUE,
    blank_default |-> [bds |-> "ZONE_1"],
    blank_use_tariff |-> {"owc", "stw_measured", "watersure"},
    propagate_area_code_except_owc |-> TRUE,
    category_aliases |-> CategoryAliases]

Drainage == {"ISTV-HA", "ISTV-HS", "ISTV-MOD"}
Key3 == {"product_code", "rate_band", "start_year"}
Profile(categories, metered, prefixes, drainage, keys, fallback) ==
    [categories |-> categories, metered |-> metered, product_prefixes |-> prefixes,
     drainage |-> drainage, keys |-> keys, fallback_keys |-> fallback]
Anything == {}      \* a profile without the condition

RatebandProfiles == <<
    Profile({"watersure"}, {TRUE}, Anything, FALSE, Key3, {"property_type"}),
    Profile({"bds"}, {TRUE}, Anything, FALSE, Key3, {}),
    Profile({"bds"}, {FALSE}, Anything, FALSE, Key3, {}),
    Profile({"owc"}, {TRUE}, Anything, FALSE, Key3, {"property_type"}),
    Profile({"owc"}, {FALSE}, Anything, FALSE, Key3, {}),
    Profile({"assessed"}, {FALSE}, {"AVE"}, FALSE, Key3 \cup {"area_code"}, {"property_type"}),
    Profile(Anything, BOOLEAN, {"ASE"}, FALSE, Key3, {"property_type"}),
    Profile({"stw_unmeasured"}, {FALSE}, Anything, FALSE, Key3 \cup {"area_code"}, {}),
    Profile({"stw_measured"}, {TRUE}, Anything, FALSE, Key3, {"property_type"}),
    Profile({"assessed"}, {FALSE}, Anything, TRUE, Key3 \cup {"kraken_product_code"},
            {"property_type"}),
    Profile(Anything, {FALSE}, Anything, TRUE,
            Key3 \cup {"area_code", "kraken_product_code"}, {"property_type"}) >>

DefaultRules == [property_type |-> PropertyRules, area_code |-> AreaRules,
                 rateband |-> [lookup_profiles |-> RatebandProfiles]]

(* Overrides are merged entry by entry, and table by table inside an entry *)
(* (config.py); a list or a scalar is replaced.                            *)
Tables == {"value_map", "mdd_product_map", "zone_map", "assessed_suffix_zone_map",
           "blank_default", "category_aliases"}
deep_merge(base, over) ==
    [k \in DOMAIN base \cup DOMAIN over |->
        IF k \notin DOMAIN over THEN base[k]
        ELSE IF k \in DOMAIN base /\ k \in Tables THEN over[k] @@ base[k] ELSE over[k]]
get_stw_rules(overrides) ==
    [key \in DOMAIN DefaultRules |->
        IF key \in DOMAIN overrides THEN deep_merge(DefaultRules[key], overrides[key])
        ELSE DefaultRules[key]]

-----------------------------------------------------------------------------
(* What the transforms share.                                              *)

normalize_category(raw, aliases) ==
    IF raw = None THEN "" ELSE IF raw \in DOMAIN aliases THEN aliases[raw] ELSE Of(Snake, raw, raw)
Category(record, aliases) ==
    normalize_category(FirstOf(record, <<"account_category", "category">>), aliases)

(* The tariff rows of the project; without any, those of the rules.        *)
TableOf(rules, tariffs) == IF tariffs # <<>> THEN tariffs ELSE Of(rules, "tariff_table", <<>>)

(* An explicit flag decides, an empty one for unmetered; else a meter tag  *)
(* that is not to be ignored, in the fields the rules name for it.         *)
TagFields == <<"meter_tag", "meterTag", "has_meter">>
is_metered(record, tagFields) ==
    LET flag == Get(record, "metered")
    IN IF flag # None THEN flag \in {"true", "1", "yes", "y", "metered"}
       ELSE /\ FirstOf(record, tagFields) # None
            /\ Get(record, "should_be_ignored") \notin {"true", "1", "yes"}

-----------------------------------------------------------------------------
(* property_type.py.  A type outside the table is written in capitals: it  *)
(* stands for itself here.                                                 *)

flat_from_address(record, rules) ==
    \E f \in {"supply_address", "address", "supplyAddress", "ADDR_LINE"} :
        /\ ~IsEmpty(Get(record, f))
        /\ Of(WordsOf, record[f], {}) \cap rules.flat_address_keywords # {}

TwoDigits(text) == Len(text) = 2 /\ \A k \in 1..2 : SubSeq(text, k, k) \in
                        {"0", "1", "2", "3", "4", "5", "6", "7", "8", "9"}
mdd_product_code(record) ==
    LET code == FirstOf(record, <<"product_code", "target_product_code", "MDD_CODE">>)
        at == {k \in 1..(Len(code) - 4) : SubSeq(code, k, k + 2) = "MDD"
                                          /\ TwoDigits(SubSeq(code, k + 3, k + 4))}
    IN IF code = None THEN None
       ELSE IF \E p \in {"MDD", "ASB", "AVB"} : StartsWith(code, p)
            THEN SubSeq(code, 1, Min({5, Len(code)}))
       ELSE IF at = {} THEN None ELSE SubSeq(code, Min(at), Min(at) + 4)

transform_property_type(record, rules) ==
    LET category == Category(record, rules.category_aliases)
        by == IF is_metered(record, TagFields) THEN rules.mdd_rule_metered_categories
              ELSE rules.mdd_rule_unmeasured_categories
        mdd == mdd_product_code(record)
        raw == FirstOf(record, <<"property_type", "propertyType">>)
    IN IF category \in rules.flat_rule_categories /\ flat_from_address(record, rules)
       THEN "FLAT"
       ELSE IF category \in by /\ mdd \in DOMAIN rules.mdd_product_map
       THEN rules.mdd_product_map[mdd]
       ELSE IF raw = None \/ (raw = "Not Known" /\ category \notin rules.not_known_applies_to)
       THEN None
       ELSE Of(rules.value_map, raw, IF raw = "Not Known" THEN "DETACHED" ELSE raw)

-----------------------------------------------------------------------------
(* area_code.py                                                            *)

map_zone(raw, zone_map) ==
    IF IsEmpty(raw) THEN None ELSE IF raw \in DOMAIN zone_map THEN zone_map[raw]
    ELSE IF StartsWith(raw, "ZONE_") THEN raw ELSE Of(ZoneIn, raw, None)

Suffix(code) == SubSeq(code, Max({1, Len(code) - 1}), Len(code))
assessed_zone(record, rules) ==
    LET codes == SelectSeq(<<Get(record, "product_code"), Get(record, "target_product_code")>>,
                           LAMBDA c : ~IsEmpty(c))
        IsMdd(c) == StartsWith(c, "MDD")
        tried == IF rules.assessed_mdd_priority
                 THEN SelectSeq(codes, IsMdd) \o SelectSeq(codes, LAMBDA c : ~IsMdd(c)) ELSE codes
        Zoned(c) == /\ \E p \in rules.assessed_product_prefixes : StartsWith(c, p)
                    /\ Suffix(c) \in DOMAIN rules.assessed_suffix_zone_map
        code == FirstIn(tried, Zoned)
    IN IF code = None THEN None ELSE rules.assessed_suffix_zone_map[Suffix(code)]

(* The first row of the product that names a zone; without one, the zone   *)
(* the project lists for the product (tariff_mappings).                    *)
tariff_zone(record, rules, context) ==
    LET product == FirstOf(record, <<"product_code", "target_product_code">>)
        zoned == SelectSeq(TableOf(rules, context.tariffs),
                           LAMBDA row : /\ Get(row, "product_code") = product
                                        /\ ~IsEmpty(FirstOf(row, <<"area_code", "zone">>)))
    IN IF product = None THEN None
       ELSE IF zoned = <<>> THEN Of(context.zones, product, None)
       ELSE FirstOf(zoned[1], <<"area_code", "zone">>)

(* The zone, and the record with the code of the sibling service filled in *)
(* when only one of fresh and waste is there.                              *)
PropagatedUnmapped(record, rules, category, zone) ==
    IF IsEmpty(Get(record, "fresh_area_code")) THEN record
    ELSE With(record, "waste_area_code", record.fresh_area_code)
Propagated(record, rules, category, zone) ==
    LET fresh == ~IsEmpty(Get(record, "fresh_area_code"))
        waste == ~IsEmpty(Get(record, "waste_area_code"))
    IN IF ~rules.propagate_area_code_except_owc \/ category = "owc" \/ fresh = waste THEN record
       ELSE With(record, IF fresh THEN "waste_area_code" ELSE "fresh_area_code", zone)

transform_area_code(record, rules, context) ==
    LET category == Category(record, rules.category_aliases)
        assessed == IF category = "assessed" THEN assessed_zone(record, rules) ELSE None
        Mapped(f) == map_zone(Get(record, f), rules.zone_map)
        blank == IF category \in DOMAIN rules.blank_default THEN rules.blank_default[category]
                 ELSE IF category \in rules.blank_use_tariff THEN tariff_zone(record, rules, context)
                 ELSE None
        zone == FirstIn(<<Mapped("area_code"), Mapped("fresh_area_code"),
                          Mapped("waste_area_code"), blank, rules.default_zone>>,
                        LAMBDA z : z # None)
    IN IF assessed # None THEN [value |-> assessed, record |-> record]
       ELSE [value |-> zone, record |-> Propagated(record, rules, category, zone)]

-----------------------------------------------------------------------------
(* rateband.py                                                             *)

SourceField(key) == CASE key = "product_code" -> "target_product_code"
                      [] key = "rate_band" -> "target_rate_band"
                      [] key = "start_year" -> "kraken_start_date"
                      [] OTHER -> key
Year(text) == IF Len(text) < 4 \/ ~TwoDigits(SubSeq(text, 1, 2)) \/ ~TwoDigits(SubSeq(text, 3, 4))
              THEN None ELSE SubSeq(text, 1, 4)
KeyValue(record, key) ==
    LET value == Get(record, SourceField(key))
    IN IF key = "start_year" /\ ~IsEmpty(value) THEN Year(value) ELSE value

(* Keys the record has no value for are left out of the comparison.        *)
row_key(record, keys) ==
    [k \in {k \in keys : ~IsEmpty(KeyValue(record, k))} |-> KeyValue(record, k)]
Agrees(row, key) == \A k \in DOMAIN key : Get(row, k) = key[k]
lookup_rows(table, key) == Picked(table, {i \in 1..Len(table) : Agrees(table[i], key)})

(* The category is normalised here without the aliases of the rules, and   *)
(* the rules name no field for a meter tag.                                *)
RatebandMetered(record) == is_metered(record, <<>>)
match_profile(record, profile) ==
    LET product == FirstOf(record, <<"target_product_code">>)
        Begins(p) == product # None /\ StartsWith(product, p)
    IN /\ profile.drainage = (\E p \in Drainage : Begins(p))
       /\ profile.categories # Anything => Category(record, <<>>) \in profile.categories
       /\ RatebandMetered(record) \in profile.metered
       /\ profile.product_prefixes # Anything => \E p \in profile.product_prefixes : Begins(p)

(* The row of the first profile that finds any.                            *)
FirstRowUnnarrowed(matches, record, profile) == matches[1]
FirstRow(matches, record, profile) ==
    LET narrowed == lookup_rows(matches, row_key(record, profile.fallback_keys))
    IN IF Len(matches) > 1 /\ profile.fallback_keys # {} /\ narrowed # <<>>
       THEN narrowed[1] ELSE matches[1]
transform_rateband(record, rules, tariffs) ==
    LET profiles == rules.lookup_profiles
        Rows(p) == lookup_rows(TableOf(rules, tariffs), row_key(record, p.keys))
        finding == {n \in 1..Len(profiles) :
                       match_profile(record, profiles[n]) /\ Rows(profiles[n]) # <<>>}
        first == profiles[CHOOSE n \in finding : \A m \in finding : n <= m]
    IN IF finding = {} THEN [none |-> None] ELSE FirstRow(Rows(first), record, first)
=============================================================================

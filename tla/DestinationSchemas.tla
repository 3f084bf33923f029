-------------------------- MODULE DestinationSchemas --------------------------
(***************************************************************************)
(* The field contracts of the two ends of a migration: what a destination  *)
(* plug-in publishes (plugins/), what the load stage requires of a payload *)
(* (schema/target_registry.py, connectors/target_validation.py) and what a *)
(* staged source row keeps (schema/registry.py, schema/validation.py).     *)
(*                                                                         *)
(* A contract is the set of its required and the set of its optional       *)
(* fields; types, enumerations and descriptions only reach the screens.    *)
(* A record is a function from the names of its fields to values, "" being *)
(* an empty value and None the value of an absent field.                   *)
(***************************************************************************)
EXTENDS Naturals, Sequences, FiniteSets

None == "none"
Get(record, field) == IF field \in DOMAIN record THEN record[field] ELSE None
IsEmpty(value) == value \in {None, ""}
With(record, field, value) ==
    [f \in DOMAIN record \cup {field} |-> IF f = field THEN value ELSE record[f]]

Contract(required, optional) == [required |-> required, optional |-> optional]
NoContract == Contract({}, {})
FieldsOf(contract) == contract.required \cup contract.optional
Both(c, d) == Contract(c.required \cup d.required, c.optional \cup d.optional)

(* The entries of a list whose places are in mask, in the order of the     *)
(* list: what a filtering loop or comprehension collects.                  *)
Rank(mask, i) == Cardinality({j \in mask : j <= i})
Picked(list, mask) ==
    [k \in 1..Cardinality(mask) |-> list[CHOOSE i \in mask : Rank(mask, i) = k]]

-----------------------------------------------------------------------------
(* kraken-billing-v3: the account contract, by the groups of its fields.   *)

KrakenCore == Contract(
    {"number", "accountType", "status", "balance"},
    {"brand", "overdueBalance", "billingName", "billingEmail", "createdAt", "urn",
     "isMeasured", "commsDeliveryPreference", "documentAccessibility"})
KrakenWater == Contract(
    {"isOnSteppedTariff", "hasActiveWatersureAgreement", "hasActiveSocialAgreement"},
    {"hasActiveHardshipAgreements"})
KrakenAddresses == Contract({},
    {"billingAddressLine1", "billingAddressLine2", "billingAddressLine3",
     "billingAddressLine4", "billingAddressLine5", "billingAddressPostcode",
     "billingCountryCode", "address.line1", "address.line2", "address.postcode",
     "address.countryCode"})
KrakenApplication == Contract({},
    {"isMigrated", "migrationSource", "dateOfSale", "preferredSsd", "salesChannel",
     "salesSubchannel"})
KrakenBilling == Contract(
    {"billingOptions.isFixed"},
    {"billingOptions.periodStartDay", "billingOptions.periodLength",
     "billingOptions.nextBillingDate"})
KrakenProvenance == Contract({}, {"paymentStatus", "repaymentStatus", "consentEventSource"})

KrakenAccount == Both(Both(Both(KrakenCore, KrakenWater), Both(KrakenAddresses, KrakenApplication)),
                      Both(KrakenBilling, KrakenProvenance))
KrakenTariff == Contract({"productCode"}, {"displayName", "freshWaterWholesaler"})

(* The other plug-ins publish an account contract only.                    *)
SapAccount  == Contract({"KUNNR", "NAME1"}, {"STATUS", "STCD1", "TELF1", "SMTP_ADDR"})
FileAccount == Contract({"id", "name", "status"}, {"metadata"})
MockAccount == Contract({"id", "name", "status"}, {})

Plugins == {"kraken-billing-v3", "sap-crm-v1", "file-export-v1", "mock-v1"}
get_schema(plugin, entity) ==
    CASE plugin = "kraken-billing-v3" /\ entity = "tariff" -> KrakenTariff
      [] entity # "account"                                -> NoContract
      [] plugin = "kraken-billing-v3"                      -> KrakenAccount
      [] plugin = "sap-crm-v1"                             -> SapAccount
      [] plugin = "file-export-v1"                         -> FileAccount
      [] plugin = "mock-v1"                                -> MockAccount

(* A project names its plug-in, or has the default one of its adapter.     *)
ADAPTER_TO_DEFAULT_PLUGIN(adapter) ==
    CASE adapter \in {"kraken", "api_import"} -> "kraken-billing-v3"
      [] adapter = "sap"                      -> "sap-crm-v1"
      [] adapter = "file_export"              -> "file-export-v1"
      [] OTHER                                -> "mock-v1"
AdapterOf(plugin) == CASE plugin = "kraken-billing-v3" -> "kraken"
                       [] plugin = "sap-crm-v1"        -> "sap"
                       [] plugin = "file-export-v1"    -> "file_export"
                       [] plugin = "mock-v1"           -> "mock"
resolve_plugin_id(project) ==
    IF project.plugin # None THEN project.plugin
    ELSE ADAPTER_TO_DEFAULT_PLUGIN(project.adapter)

-----------------------------------------------------------------------------
(* What the adapters require before they load: a table of its own, keyed   *)
(* by the target system; a system without an entry requires nothing.       *)
TargetRequired(system, entity) ==
    CASE system = "kraken"  /\ entity = "account" -> {"accountId", "accountName", "accountStatus"}
      [] system = "kraken"  /\ entity = "tariff"  -> {"productCode"}
      [] system = "generic" /\ entity = "account" -> {"id", "name", "status"}
      [] system = "sap"     /\ entity = "account" -> {"KUNNR", "NAME1"}
      [] OTHER                                    -> {}
PassesTarget(system, entity, record) ==
    \A f \in TargetRequired(system, entity) : ~IsEmpty(Get(record, f))
validate_against_target(records, system, entity) ==
    LET passing == {i \in 1..Len(records) : PassesTarget(system, entity, records[i])}
    IN [valid   |-> Picked(records, passing),
        invalid |-> Picked(records, (1..Len(records)) \ passing)]

(* The SAP adapter rewrites every record to the three fields of a DEBMAS   *)
(* posting, taking each from the first of its names that has a value.      *)
FirstOf(record, names) ==
    LET full == {i \in 1..Len(names) : ~IsEmpty(Get(record, names[i]))}
    IN IF full = {} THEN None
       ELSE record[names[CHOOSE i \in full : \A j \in full : i <= j]]
to_sap_record(record) ==
    [KUNNR  |-> FirstOf(record, <<"KUNNR", "accountId", "id">>),
     NAME1  |-> FirstOf(record, <<"NAME1", "accountName", "name">>),
     STATUS |-> FirstOf(record, <<"STATUS", "accountStatus", "status">>)]

-----------------------------------------------------------------------------
(* The source side: an uploaded record is refused when it lacks a required *)
(* field, and what is staged of it are the fields of the entity, no other. *)
SourceAccount == Contract({"id", "name", "status"}, {})
validate_one(entity, raw) ==
    [errors  |-> {f \in entity.required : IsEmpty(Get(raw, f))},
     coerced |-> [f \in FieldsOf(entity) |-> IF IsEmpty(Get(raw, f)) THEN None ELSE raw[f]]]
=============================================================================

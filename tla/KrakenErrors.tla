----------------------------- MODULE KrakenErrors -----------------------------
(***************************************************************************)
(* The catalogue of Kraken error codes and the two classifiers built on    *)
(* it (kraken/errors): 57 codes with a confirmed message, the ranges in    *)
(* which every other code is indexed, the codes each health check          *)
(* predicts, and the classification of what the destination answers.       *)
(*                                                                         *)
(* A code is a pair <<prefix, number>>.  A message is named by the number  *)
(* of the first code that carries it, so that codes with one wording share *)
(* a name.  A text is the set of messages it contains and the code it      *)
(* quotes, if any; triggers, labels and wording are left out.              *)
(***************************************************************************)
EXTENDS Integers, Sequences, FiniteSets

NoCode == <<"none", 0>>

-----------------------------------------------------------------------------
(* Confirmed entries: detailed.py.                                         *)

(* "Invalid data." is the message of four codes, "Mutation not enabled in  *)
(* this environment." of three.                                            *)
MessageOf(n) == CASE n \in {10203, 10204, 10302} -> 10202
                  [] n \in {10304, 10312}        -> 10303
                  [] OTHER                       -> n

Err(n, type, phase, relevance, owner, category) ==
    [num |-> n, error_type |-> type, migration_phase |-> phase,
     migration_relevance |-> relevance, owner_role |-> owner,
     category |-> category, is_blocker |-> TRUE, message |-> MessageOf(n)]

AtLoad(n, type, relevance) ==
    Err(n, type, "at_load", relevance, "migration_engineer", "contracts_agreements")
Mapping(n, type, relevance) ==
    Err(n, type, "pre_migration", relevance, "mapping_lead", "contracts_agreements")
Operational(n, type, relevance) ==
    Err(n, type, "operational", relevance, "billing_ops", "contracts_agreements")

About(entry, category) == [entry EXCEPT !.category = category]
Harmless(entry) == [entry EXCEPT !.is_blocker = FALSE]

ContractPartyErrors == <<
    AtLoad(10001, "VALIDATION", "high"),
    AtLoad(10003, "NOT_FOUND", "high"),
    Mapping(10005, "VALIDATION", "high"),
    About(AtLoad(10006, "NOT_FOUND", "high"), "account_business_migration"),
    AtLoad(10007, "APPLICATION", "medium"),
    Operational(10008, "APPLICATION", "high"),
    Mapping(10009, "VALIDATION", "high"),
    Mapping(10010, "VALIDATION", "high"),
    AtLoad(10011, "APPLICATION", "medium"),
    AtLoad(10012, "APPLICATION", "medium"),
    Mapping(10013, "VALIDATION", "high"),
    Mapping(10015, "VALIDATION", "medium"),
    AtLoad(10017, "NOT_FOUND", "medium") >>

ContractStateErrors == <<
    Mapping(10018, "VALIDATION", "high"),
    AtLoad(10019, "APPLICATION", "high"),
    Mapping(10020, "VALIDATION", "high"),
    About(AtLoad(10021, "NOT_FOUND", "high"), "account_business_migration"),
    Operational(10022, "VALIDATION", "high"),
    Operational(10023, "VALIDATION", "medium"),
    Operational(10024, "VALIDATION", "high"),
    Operational(10025, "VALIDATION", "high"),
    AtLoad(10026, "VALIDATION", "high"),
    About(Operational(10027, "VALIDATION", "high"), "leave_supplier_switching"),
    Mapping(10028, "VALIDATION", "high"),
    Harmless(Err(10029, "VALIDATION", "pre_migration", "low",
                 "migration_engineer", "contracts_agreements")) >>

ContractJourneyErrors == <<
    Harmless(AtLoad(10030, "SERVICE_AVAILABILITY", "low")),
    Mapping(10031, "VALIDATION", "medium"),
    Operational(10032, "VALIDATION", "medium"),
    Err(10033, "VALIDATION", "at_load", "medium", "mapping_lead", "contracts_agreements"),
    AtLoad(10034, "APPLICATION", "medium"),
    Operational(10035, "APPLICATION", "high"),
    AtLoad(10036, "APPLICATION", "medium"),
    Harmless(AtLoad(10037, "SERVICE_AVAILABILITY", "low")),
    Harmless(Mapping(10038, "VALIDATION", "low")),
    AtLoad(10039, "VALIDATION", "high"),
    AtLoad(10040, "APPLICATION", "medium"),
    Operational(10041, "VALIDATION", "medium"),
    AtLoad(10042, "VALIDATION", "high") >>

TopUpErrors == <<
    Mapping(10043, "VALIDATION", "high"),
    Mapping(10044, "VALIDATION", "high"),
    Harmless(Err(10201, "SERVICE_AVAILABILITY", "at_load", "none",
                 "migration_engineer", "auto_topup_prepay")),
    Err(10202, "VALIDATION", "pre_migration", "low", "metering", "auto_topup_prepay"),
    Err(10203, "VALIDATION", "pre_migration", "low", "metering", "auto_topup_prepay"),
    Err(10204, "VALIDATION", "pre_migration", "low", "billing_ops", "auto_topup_prepay"),
    Harmless(Err(10205, "NOT_FOUND", "at_load", "low", "billing_ops", "auto_topup_prepay")) >>

LeaveSupplierErrors == LET Leave(e) == About(e, "leave_supplier_switching") IN <<
    Leave(Operational(10301, "VALIDATION", "high")),
    Leave(Operational(10302, "NOT_FOUND", "medium")),
    Leave(AtLoad(10303, "SERVICE_AVAILABILITY", "medium")),
    Leave(AtLoad(10304, "SERVICE_AVAILABILITY", "medium")),
    Leave(Operational(10305, "APPLICATION", "high")),
    Leave(AtLoad(10306, "SERVICE_AVAILABILITY", "medium")),
    Leave(Operational(10307, "APPLICATION", "high")),
    Leave(Operational(10308, "APPLICATION", "high")),
    Leave(AtLoad(10309, "SERVICE_AVAILABILITY", "medium")),
    Leave(Operational(10310, "APPLICATION", "high")),
    Leave(Operational(10311, "APPLICATION", "high")),
    About(AtLoad(10312, "SERVICE_AVAILABILITY", "medium"), "enrollment") >>

DETAILED_ENTRIES == ContractPartyErrors \o ContractStateErrors
                    \o ContractJourneyErrors \o TopUpErrors \o LeaveSupplierErrors

(* The messages that occur in the wording of message m: "Failed to cancel  *)
(* leave supplier process." begins that of 10311.                          *)
Wording(m) == IF m = 10311 THEN {10308, 10311} ELSE {m}

-----------------------------------------------------------------------------
(* Ranges of indexed codes: ranges.py, in file order, since the first      *)
(* range that holds a number wins.                                         *)

ErrRange(prefix, first, last, relevance, phase, owner) ==
    [prefix |-> prefix, start |-> first, end |-> last, migration_relevance |-> relevance,
     default_phase |-> phase, default_owner |-> owner]
Ct(first, last, relevance) ==
    ErrRange("KT-CT", first, last, relevance, "at_load", "migration_engineer")
CtPre(first, last, relevance, owner) ==
    ErrRange("KT-CT", first, last, relevance, "pre_migration", owner)
Gb(first, last) == ErrRange("KT-GB", first, last, "high", "pre_migration", "mapping_lead")
GbOf(first, last, owner) == ErrRange("KT-GB", first, last, "high", "pre_migration", owner)

KT_CT_RANGES == LET engineer == "migration_engineer" IN <<
    CtPre(10001, 10044, "high", engineer), Ct(10201, 10205, "none"),
    ErrRange("KT-CT", 10301, 10358, "high", "operational", "billing_ops"),
    Ct(10703, 10703, "low"), Ct(10801, 10821, "low"),
    CtPre(10901, 10991, "high", engineer), Ct(11100, 11112, "medium"),
    Ct(1111, 1163, "medium"), CtPre(11201, 11218, "high", engineer),
    Ct(11301, 11333, "medium"), Ct(11401, 11404, "medium"), Ct(1140, 1199, "medium"),
    CtPre(12001, 12106, "medium", engineer), Ct(12201, 12301, "low"),
    Ct(12401, 12612, "none"), Ct(12701, 12905, "low"),
    CtPre(13001, 13104, "high", "billing_ops"), Ct(13201, 13808, "low"),
    Ct(1401, 1409, "low"), Ct(14101, 14802, "low"), Ct(1501, 1701, "low"),
    CtPre(3810, 3997, "high", "metering"), Ct(4010, 4413, "medium"),
    Ct(4501, 4930, "medium"), CtPre(5211, 5821, "high", "mapping_lead"),
    Ct(6323, 6732, "medium"), Ct(7010, 7731, "medium"), Ct(7810, 8011, "medium"),
    Ct(8101, 8956, "high"), Ct(9010, 9911, "medium") >>

KT_GB_RANGES == <<
    Gb(10101, 10103), Gb(10206, 10208), Gb(10501, 10504), Gb(10601, 10609),
    Gb(10701, 10701), Gb(11001, 11019), Gb(1120, 1121), Gb(12401, 12402),
    Gb(12801, 12803), Gb(1301, 1301), Gb(13901, 13903), Gb(14001, 14002),
    Gb(1501, 1502), GbOf(3810, 3812, "metering"), GbOf(3910, 3931, "metering"),
    Gb(4011, 4058), Gb(4101, 4144), Gb(4210, 4245), Gb(4301, 4305), Gb(4513, 4513),
    Gb(4610, 4629), Gb(5110, 5117), Gb(5411, 5419), Gb(5601, 5611),
    GbOf(6111, 6219, "billing_ops"), GbOf(6312, 6314, "billing_ops"),
    Gb(6411, 6640), Gb(6811, 6814), Gb(7601, 7601), Gb(8801, 8801),
    Gb(9310, 9327), Gb(9510, 9521), Gb(9710, 9711) >>

ALL_RANGES == KT_CT_RANGES \o KT_GB_RANGES

-----------------------------------------------------------------------------
(* Lookups: catalog.py.                                                    *)

Holds(s, P(_)) == {i \in 1..Len(s) : P(s[i])}
Earliest(I) == CHOOSE i \in I : \A j \in I : i <= j

RangesOf(code) ==
    Holds(ALL_RANGES, LAMBDA r : /\ r.prefix = code[1]
                                 /\ r.start <= code[2] /\ code[2] <= r.end)
range_for_number(code) == ALL_RANGES[Earliest(RangesOf(code))]

DetailsOf(code) ==
    IF code[1] = "KT-CT" THEN Holds(DETAILED_ENTRIES, LAMBDA e : e.num = code[2]) ELSE {}

Resolves(code) == DetailsOf(code) # {} \/ RangesOf(code) # {}

(* get(): what is known of a code that resolves; a confirmed entry before  *)
(* the range.                                                              *)
index_entry(code) ==
    IF DetailsOf(code) # {}
    THEN LET e == DETAILED_ENTRIES[Earliest(DetailsOf(code))]
         IN [code |-> code, error_type |-> e.error_type, owner_role |-> e.owner_role,
             migration_phase |-> e.migration_phase, is_blocker |-> e.is_blocker]
    ELSE LET r == range_for_number(code)
         IN [code |-> code, error_type |-> "INDEXED", owner_role |-> r.default_owner,
             migration_phase |-> r.default_phase,
             is_blocker |-> r.migration_relevance \in {"high", "medium"}]

(* A text that contains a confirmed message is the first entry with such a *)
(* message, whatever code the text quotes; only then does its code count.  *)
MessageHits(text) == Holds(DETAILED_ENTRIES, LAMBDA e : e.message \in text.says)
lookup_by_message(text) ==
    IF MessageHits(text) # {}
    THEN <<"KT-CT", DETAILED_ENTRIES[Earliest(MessageHits(text))].num>>
    ELSE IF Resolves(text.quotes) THEN text.quotes ELSE NoCode

-----------------------------------------------------------------------------
(* Classifiers: classifier.py.                                             *)

CT(n) == <<"KT-CT", n>>

CHECK_TO_KRAKEN == [
    missing_account_number        |-> <<CT(10005), CT(10006)>>,
    missing_business_ref          |-> <<CT(10021)>>,
    missing_required_kraken_field |-> <<CT(10039)>>,
    contract_expired              |-> <<CT(10024)>>,
    contract_terminated           |-> <<CT(10022)>>,
    active_contract_journey       |-> <<CT(10008), CT(10035)>>,
    ongoing_provider_switch       |-> <<CT(10027), CT(10301)>>,
    leave_supplier_in_progress    |-> <<CT(10305), CT(10310), CT(10311)>>,
    pending_payment               |-> <<CT(13001)>>,
    bill_due_unpaid               |-> <<CT(13001)>>,
    meter_appointment_pending     |-> <<CT(3810)>>,
    invalid_account_type          |-> <<CT(10901)>>,
    duplicate_account_number      |-> <<CT(10001)>>,
    overdue_balance_blocker       |-> <<CT(13001)>> ]

ROOT_CAUSE_BY_CHECK(check) ==
    CASE check \in {"missing_required_kraken_field", "invalid_account_type"} -> "mapping"
      [] check \in {"missing_account_number", "missing_business_ref",
                    "duplicate_account_number"} -> "data_quality"
      [] OTHER -> "operational_blocker"

OWNER_BY_CHECK == [
    pending_payment |-> "billing_ops", bill_due_unpaid |-> "billing_ops",
    meter_appointment_pending |-> "metering", active_contract_journey |-> "billing_ops",
    ongoing_provider_switch |-> "billing_ops", leave_supplier_in_progress |-> "billing_ops",
    missing_required_kraken_field |-> "mapping_lead" ]

(* The entry of the first predicted code decides; an unknown code blocks.  *)
classify_validation_finding(check) ==
    LET primary == CHECK_TO_KRAKEN[check][1]
    IN [root |-> ROOT_CAUSE_BY_CHECK(check), code |-> primary,
        owner |-> IF check \in DOMAIN OWNER_BY_CHECK THEN OWNER_BY_CHECK[check]
                  ELSE IF Resolves(primary) THEN index_entry(primary).owner_role
                  ELSE "data_team",
        is_blocker |-> IF Resolves(primary) THEN index_entry(primary).is_blocker ELSE TRUE]

RootOfType(type) == CASE type = "VALIDATION"           -> "kraken_validation"
                      [] type = "NOT_FOUND"            -> "data_quality"
                      [] type = "SERVICE_AVAILABILITY" -> "environment"
                      [] OTHER                         -> "kraken_application"

(* A response is a record with a message, error or detail, a code field,   *)
(* and the _error the load stage adds: the last is not looked at, and the  *)
(* code only when there is no message.                                     *)
NoText == [says |-> {}, quotes |-> NoCode]
TextOf(payload) == IF payload.message # NoText THEN payload.message
                   ELSE [says |-> {}, quotes |-> payload.code]
classify_kraken_response(payload) ==
    LET code == lookup_by_message(TextOf(payload))
    IN IF code = NoCode
       THEN [root |-> "kraken_application", code |-> NoCode,
             owner |-> "migration_engineer", is_blocker |-> TRUE]
       ELSE [root |-> RootOfType(index_entry(code).error_type), code |-> code,
             owner |-> index_entry(code).owner_role,
             is_blocker |-> index_entry(code).is_blocker]
=============================================================================

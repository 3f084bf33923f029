----------------------------- MODULE AccountHealth -----------------------------
(***************************************************************************)
(* The account health assessment (account_health/): fourteen checks on     *)
(* each staged row, a readiness score and status, the counts of a cohort,  *)
(* and the gate in front of a migration wave that reads them.              *)
(*                                                                         *)
(* A payload is a function from field names to values (strings).  Numbers  *)
(* only matter in an overdue balance, which is positive, zero or not a     *)
(* number.                                                                 *)
(***************************************************************************)
EXTENDS DestinationSchemas, KrakenErrors, SequencesExt

(* Source field aliases, in the order in which they are tried.             *)
ACCOUNT_ID_KEYS == <<"number", "accountId", "account_id", "CUST_ACCOUNT_NO", "external_id">>
BUSINESS_KEYS == <<"businessId", "business_id", "BUSINESS_REF">>
OVERDUE_KEYS == <<"overdueBalance", "overdue_balance", "OVERDUE_BAL">>
PENDING_PAYMENT_KEYS == <<"pendingPayment", "pending_payment", "PENDING_PAYMENT", "hasPendingPayment">>
BILL_DUE_KEYS == <<"billDue", "bill_due", "BILL_DUE", "unpaidBill", "hasUnpaidBill">>
METER_APPT_KEYS == <<"meterAppointment", "meter_appointment", "METER_APPT", "scheduledMeterVisit">>
ACTIVE_JOURNEY_KEYS == <<"activeJourney", "active_journey", "contractJourneyActive", "ACTIVE_JOURNEY">>
PROVIDER_SWITCH_KEYS == <<"providerSwitch", "provider_switch", "ongoingProviderSwitch", "SUPPLIER_SWITCH">>
LEAVE_SUPPLIER_KEYS == <<"leaveSupplier", "leave_supplier", "leaveSupplierInProgress">>
CONTRACT_STATUS_KEYS == <<"contractStatus", "contract_status", "CONTRACT_STATUS">>
ACCOUNT_TYPE_KEYS == <<"accountType", "account_type", "CUST_TYPE_FLAG">>

Truthy(value) == value \in {"Y", "YES", "TRUE", "1", "T", "ACTIVE", "PENDING", "OPEN"}
PositiveNumbers == {"1", "12", "250"}

AccountTypes == {"DOMESTIC", "BUSINESS", "OCCUPIER", "VACANT", "MANAGED", "PORTFOLIO_LEAD",
                 "D", "B", "DOM", "BUS"}

-----------------------------------------------------------------------------
(* The checks, each on row i of the cohort: the third looks at the rows    *)
(* before it, whatever else is wrong with them.                            *)

Account(payload) == FirstOf(payload, ACCOUNT_ID_KEYS)
SignalKeys == [pending_payment |-> PENDING_PAYMENT_KEYS, bill_due_unpaid |-> BILL_DUE_KEYS,
               meter_appointment_pending |-> METER_APPT_KEYS,
               active_contract_journey |-> ACTIVE_JOURNEY_KEYS,
               ongoing_provider_switch |-> PROVIDER_SWITCH_KEYS,
               leave_supplier_in_progress |-> LEAVE_SUPPLIER_KEYS]

MissingRequired(payload, required) ==
    \E f \in required : IF f = "number" THEN Account(payload) = None
                        ELSE IsEmpty(Get(payload, f))
DuplicatedOffByOne(rows, i) ==
    /\ Account(rows[i]) # None
    /\ \E j \in 1..(i - 2) : Account(rows[j]) = Account(rows[i])
Duplicated(rows, i) ==
    /\ Account(rows[i]) # None
    /\ \E j \in 1..(i - 1) : Account(rows[j]) = Account(rows[i])
InvalidType(payload) ==
    LET raw == FirstOf(payload, ACCOUNT_TYPE_KEYS) IN raw # None /\ raw \notin AccountTypes
MissingBusiness(payload) ==
    /\ FirstOf(payload, ACCOUNT_TYPE_KEYS) \in {"BUSINESS", "B", "BUS"}
    /\ FirstOf(payload, BUSINESS_KEYS) = None

Fails(check, rows, i, required) ==
    LET payload == rows[i]
        contract == FirstOf(payload, CONTRACT_STATUS_KEYS)
    IN CASE check = "missing_account_number"        -> Account(payload) = None
         [] check = "missing_required_kraken_field" -> MissingRequired(payload, required)
         [] check = "duplicate_account_number"      -> Duplicated(rows, i)
         [] check = "invalid_account_type"          -> InvalidType(payload)
         [] check = "missing_business_ref"          -> MissingBusiness(payload)
         [] check = "contract_expired"              -> contract \in {"EXPIRED", "EXP"}
         [] check = "contract_terminated"           -> contract \in {"TERMINATED", "TERM", "REVOKED"}
         [] check = "overdue_balance_blocker"       -> FirstOf(payload, OVERDUE_KEYS) \in PositiveNumbers
         [] OTHER                                   -> Truthy(FirstOf(payload, SignalKeys[check]))

Blocker(id, weight) == [id |-> id, severity |-> "blocker", weight |-> weight]
Warning(id, weight) == [id |-> id, severity |-> "warning", weight |-> weight]

DEFAULT_HEALTH_CHECKS == <<
    Blocker("missing_account_number", 40), Blocker("missing_required_kraken_field", 30),
    Blocker("duplicate_account_number", 35), Blocker("invalid_account_type", 25),
    Blocker("missing_business_ref", 25), Blocker("pending_payment", 20),
    Blocker("bill_due_unpaid", 20), Blocker("meter_appointment_pending", 15),
    Blocker("active_contract_journey", 20), Blocker("ongoing_provider_switch", 20),
    Blocker("leave_supplier_in_progress", 20), Warning("contract_expired", 10),
    Warning("contract_terminated", 10), Blocker("overdue_balance_blocker", 15) >>

-----------------------------------------------------------------------------
(* The assessment of a cohort: service.py.                                 *)

(* What a row fails are places in the list of checks; its findings are the *)
(* checks at these places.                                                 *)
failing(rows, i, required) ==
    {n \in 1..Len(DEFAULT_HEALTH_CHECKS) : Fails(DEFAULT_HEALTH_CHECKS[n].id, rows, i, required)}
findings(failed) == Picked(DEFAULT_HEALTH_CHECKS, failed)

Deduct(check, score) == IF score > check.weight THEN score - check.weight ELSE 0
readiness_score(found) == FoldSeq(Deduct, 100, found)

(* A finding blocks by its severity or by the catalogue's word for the     *)
(* code it predicts.                                                       *)
blocks(check) == check.severity = "blocker" \/ classify_validation_finding(check.id).is_blocker
has_blocker(failed) == \E n \in failed : blocks(DEFAULT_HEALTH_CHECKS[n])

readiness_status(score, blocker) ==
    IF blocker \/ score < 60 THEN "blocked" ELSE IF score < 85 THEN "conditional" ELSE "ready"

assess_row(rows, i, required) ==
    LET failed == failing(rows, i, required)
        found == findings(failed)
    IN [row_number |-> i, account |-> Account(rows[i]), score |-> readiness_score(found),
        status |-> readiness_status(readiness_score(found), has_blocker(failed)),
        checks |-> [k \in 1..Len(found) |-> found[k].id]]

(* A request may limit the assessment to the first rows.                   *)
NoLimit == 0
Cohort(rows, limit) ==
    IF limit = NoLimit \/ limit >= Len(rows) THEN rows ELSE SubSeq(rows, 1, limit)
assess_project(rows, required, limit) ==
    LET cohort == Cohort(rows, limit)
    IN [i \in 1..Len(cohort) |-> assess_row(cohort, i, required)]

(* The gate takes the latest assessment: an average score, compared here   *)
(* without the rounding to one decimal, and the share of blocked rows.     *)
TotalScore(records) == FoldSeq(LAMBDA r, sum : r.score + sum, 0, records)
BlockedRows(records) == {i \in 1..Len(records) : records[i].status = "blocked"}
check_health_gate(records, minScore, maxBlockedPct) ==
    /\ Len(records) > 0
    /\ TotalScore(records) >= minScore * Len(records)
    /\ 100 * Cardinality(BlockedRows(records)) <= maxBlockedPct * Len(records)
=============================================================================

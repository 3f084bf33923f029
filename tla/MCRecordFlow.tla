------------------------------ MODULE MCRecordFlow ------------------------------
(* Instances of RecordFlow for TLC: two chunks of water accounts, with a       *)
(* repeated meter, a missing name, a date that does not parse, a household     *)
(* metered by its tag only, and one with a fresh area code only.               *)
EXTENDS RecordFlow

CONSTANT e1

Words == "Flat 2, High Street" :> {"flat", "2", "high", "street"}
Zones == "Zone 23 - Chester" :> "ZONE_23"
Lower == CategoryAliases

WideEntity == Contract({"id", "name", "status"},
    {"account_category", "metered", "meter_tag", "meter", "property_type", "supply_address",
     "area_code", "fresh_area_code", "waste_area_code", "product_code", "target_product_code",
     "target_rate_band", "kraken_start_date"})
Blank == [f \in FieldsOf(WideEntity) |-> None]
Household(id, changes) == changes @@ [Blank EXCEPT !.id = id, !.name = "n", !.status = "active",
    !.target_product_code = "WTR-01", !.target_rate_band = "RB1", !.kraken_start_date = "2024-06-01"]

Metered == Household("a", [account_category |-> "STW Measured", metered |-> "yes", meter |-> "m1",
                           property_type |-> "Semi Detached", fresh_area_code |-> "Zone 23 - STW Chester"])
Flat == Household("e", [account_category |-> "Watersure", metered |-> "yes", meter |-> "m2",
                        supply_address |-> "Flat 2, High Street", area_code |-> "ZONE_3"])
Nameless == Household("b", [account_category |-> "OWC", name |-> "", meter |-> "m3"])
Tagged == Household("c", [account_category |-> "STW Measured", meter_tag |-> "T9", meter |-> "m1",
                          property_type |-> "Terraced", product_code |-> "MDD02",
                          fresh_area_code |-> "Zone 23 - Chester"])
Assessed == Household("d", [account_category |-> "Assessed", target_product_code |-> "AVE21",
                            product_code |-> "ASB24", status |-> "closed", meter |-> "m1",
                            kraken_start_date |-> "2023-06-01"])
TwoChunks == << <<Tagged, Assessed>>, <<Metered, Flat, Nameless>> >>

Row(product, year, type, band) == [product_code |-> product, rate_band |-> "RB1", start_year |-> year,
    property_type |-> type, area_code |-> "ZONE_8", kraken_rate_band |-> band]
Tariffs == << Row("WTR-01", "2023", "FLAT", "old"), Row("WTR-01", "2024", "DETACHED", "d"),
              Row("WTR-01", "2024", "FLAT", "f"), Row("AVE21", "2023", "DETACHED", "v") >>

Fields(areaAt, wasteAt) == <<
    Mapping("copy", "id", "accountId", 1), Mapping("copy", "name", "accountName", 2),
    [Mapping("lookup", "status", "accountStatus", 3) EXCEPT !.table = [active |-> "ACTIVE"]],
    Mapping("stw_property_type", "property_type", "property_type", 4),
    Mapping("stw_area_code", "area_code", "area_code", areaAt),
    Mapping("copy", "waste_area_code", "waste_area_code", wasteAt),
    Mapping("stw_rateband_lookup", "kraken_rate_band", "rate_band", 7) >>
UniqueMeter == <<Rule("unique", "meter", {}, {})>>
OnlyClosed == <<Rule("in_list", "status", {"closed"}, {}), Rule("required", "name", {}, {})>>
Dated == [Mapping("date_format", "kraken_start_date", "startDate", 8) EXCEPT
              !.table = [x \in {"2024-06-01"} |-> "01/06/2024"]]
Sets == { [validation |-> UniqueMeter, mappings |-> Fields(5, 6)],
          [validation |-> OnlyClosed, mappings |-> Fields(6, 5)],
          [validation |-> <<>>, mappings |-> Append(Fields(5, 6), Dated)] }
Unchecked == { [validation |-> <<>>, mappings |-> Fields(5, 6)] }
AllSets == Sets \cup Unchecked

(* The zone of a product without a row that names one, and a config with   *)
(* overrides of several transforms, whose tariffs are those of its rules.  *)
ZonesByProduct == ("WTR-01" :> "ZONE_6")
Renamed == [key |-> "property_type", rules |-> [value_map |-> [Terraced |-> "TOWNHOUSE"]]]
Edits == {Renamed}
Plain == [overrides |-> Unset, tariffs |-> Tariffs, zones |-> <<>>]
Overridden == [
    overrides |-> [area_code |-> [default_zone |-> "ZONE_2"], rateband |-> [tariff_table |-> Tariffs]],
    tariffs |-> <<>>, zones |-> ZonesByProduct]
BothConfigs == {Plain, Overridden}
OnlyPlain == {Plain}
OtherRuns == {"e"}
OneEditor == {e1}
AllAnswers == {"lists", "failed_only", "http_error"}

\* The accounts of this batch can be followed by their ids, and its mappings are in order.
ASSUME FollowedById == KeepsIds /\ IdsDiffer /\ IdsMapped
ASSUME MappedInOrder == BandsMapped /\ AreasMapped
=============================================================================

CONSTANTS
    Sessions = {s1}
    RunConfigs <- MCUnblocked
    SeedMappings = 2
    MaxSets = 2
    MaxWrites <- MCMaxWrites
    Kinds = {"rules", "tariff"}
    Roles = {"business_analyst", "product_owner"}
SPECIFICATION Spec
CHECK_DEADLOCK FALSE
INVARIANTS
    UnapprovedBlocksRun

CONSTANTS
    Sessions = {s1, s2}
    RunConfigs <- MCRunConfigs
    SeedMappings = 2
    MaxSets = 2
    MaxWrites <- MCMaxWrites
    Kinds = {"rules", "tariff"}
    Roles = {"business_analyst", "product_owner"}
SPECIFICATION Spec
SYMMETRY MCSymmetry
CHECK_DEADLOCK FALSE
INVARIANTS
    ApprovalTypeOK
    VersionsAreSuccessive
    SignedOffWasAgreed
    ApprovalTrail
    RunsTakeAgreed
    TargetTakesSignedOff
    MixedOnlyIfOverlapping
    SeedApprovesAllRules
PROPERTIES
    LockHoldsOnceReadersAreGone

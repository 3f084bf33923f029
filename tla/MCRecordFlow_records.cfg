\* A chunk of two records and one of three, every way to answer a request, one resume, one editor and resets.
SPECIFICATION Spec
CONSTANTS
    e1 = e1
    WordsOf <- Words
    ZoneIn <- Zones
    Snake <- Lower
    Chunks <- TwoChunks
    Entity <- WideEntity
    RuleSets <- AllSets
    ProjectConfigs <- BothConfigs
    Plugin = "kraken-billing-v3"
    TargetSystem = "kraken"
    Answers <- AllAnswers
    Patches <- Edits
    Editors <- OneEditor
    LoadedElsewhere <- OtherRuns
    MaxResumes = 1
INVARIANTS RefusedOnlyWithWholeChunk UniqueWithinChunk LoadedMeetsTarget RateBandOfItsTariff SiblingGetsOwnArea BalancedAccountsForAll

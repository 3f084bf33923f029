\* The mappings of the sibling codes before and after the one of the area code.
SPECIFICATION Spec
CONSTANTS
    e1 = e1
    WordsOf <- Words
    ZoneIn <- Zones
    Snake <- Lower
    Chunks <- TwoChunks
    Entity <- WideEntity
    RuleSets <- AllSets
    ProjectConfigs <- OnlyPlain
    Plugin = "kraken-billing-v3"
    TargetSystem = "kraken"
    Answers <- AllAnswers
    Patches = {}
    Editors <- OneEditor
    LoadedElsewhere = {}
    MaxResumes = 0
INVARIANT AreaPropagated

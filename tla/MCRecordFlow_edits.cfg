\* Overrides of two transforms are stored, and a request edits the rules of a third.
SPECIFICATION Spec
CONSTANTS
    e1 = e1
    WordsOf <- Words
    ZoneIn <- Zones
    Snake <- Lower
    Chunks <- TwoChunks
    Entity <- WideEntity
    RuleSets <- AllSets
    ProjectConfigs <- BothConfigs
    Plugin = "kraken-billing-v3"
    TargetSystem = "kraken"
    Answers <- AllAnswers
    Patches <- Edits
    Editors <- OneEditor
    LoadedElsewhere <- OtherRuns
    MaxResumes = 1
INVARIANT EditIsStored

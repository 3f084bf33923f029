\* An account that is staged again after it was blocked.
SPECIFICATION Spec
CONSTANTS
    s1 = s1  s2 = s2
    Sessions <- TwoSessions
    SourceRows <- Upload
    Entity <- WideEntity
    Project <- KrakenProject
    Responses <- Answers
    Decisions <- OnlyResolve
    MaxStaged = 2
    MaxErrors = 1
    MaxAssessments = 2
    MaxItems = 1
INVARIANT RemediatedPasses
SYMMETRY SessionSymmetry
CHECK_DEADLOCK FALSE

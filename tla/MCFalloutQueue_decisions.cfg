\* One request resolves an item that an upload has queued.
SPECIFICATION Spec
CONSTANTS
    s1 = s1  s2 = s2
    Sessions <- TwoSessions
    SourceRows <- Upload
    Entity <- WideEntity
    Project <- KrakenProject
    Responses <- Answers
    Decisions <- OnlyResolve
    MaxStaged = 1
    MaxErrors = 1
    MaxAssessments = 1
    MaxItems = 1
INVARIANT AnswerKept
SYMMETRY SessionSymmetry
CHECK_DEADLOCK FALSE

\* Two overlapping requests, two staged rows, two assessments.
SPECIFICATION Spec
CONSTANTS
    s1 = s1  s2 = s2
    Sessions <- TwoSessions
    SourceRows <- Upload
    Entity <- WideEntity
    Project <- KrakenProject
    Responses <- Answers
    Decisions <- OnlyResolve
    MaxStaged = 2
    MaxErrors = 1
    MaxAssessments = 2
    MaxItems = 1
INVARIANTS OneReadyRowPerAccount OpensByLeavingOut BlockedRowsQueued ErrorQueuedOnce
SYMMETRY SessionSymmetry
CHECK_DEADLOCK FALSE

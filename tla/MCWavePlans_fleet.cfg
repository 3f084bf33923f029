\* A fleet and two requests at a time: operators pause the plan or resume a run at any
\* moment, and a worker may crash.
SPECIFICATION WSpec
CONSTANTS
    r1 = r1  r2 = r2  r3 = r3  r4 = r4  r5 = r5  r6 = r6  w1 = w1  w2 = w2  s1 = s1  s2 = s2
    NoRun = NoRun  Nobody = Nobody
    ApiMode = "worker"
    Runs <- ThreeRuns
    Workers <- TwoWorkers
    Sessions <- TwoSessions
    SelectionRuns <- NoRuns
    MaxResumes = 2
    MaxCrashes = 1
    TotalWaves = 3
    Requests <- PausesAndReruns
INVARIANTS CountsCompletedRuns PausedMeansDrained
SYMMETRY SameActors
CHECK_DEADLOCK FALSE

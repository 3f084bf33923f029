\* Two waves, two workers, nobody interferes.
SPECIFICATION WSpec
CONSTANTS
    r1 = r1  r2 = r2  r3 = r3  r4 = r4  r5 = r5  r6 = r6  w1 = w1  w2 = w2  s1 = s1  s2 = s2
    NoRun = NoRun  Nobody = Nobody
    ApiMode = "worker"
    Runs <- TwoRuns
    Workers <- TwoWorkers
    Sessions <- OneSession
    SelectionRuns <- NoRuns
    MaxResumes = 0
    MaxCrashes = 0
    TotalWaves = 2
    Requests <- NoRequests
INVARIANTS DoneAreShown
CHECK_DEADLOCK FALSE

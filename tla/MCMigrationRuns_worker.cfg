\* Two workers, an API in mode "worker", two operator requests in flight, a crash.
SPECIFICATION FairSpec
CONSTANTS
    r1 = r1  r2 = r2  w1 = w1  w2 = w2  s1 = s1  s2 = s2
    NoRun = NoRun  Nobody = Nobody
    Runs <- TwoRuns
    Workers <- TwoWorkers
    Sessions <- TwoSessions
    SelectionRuns <- SelectOne
    ApiMode = "worker"
    MaxResumes = 2
    MaxCrashes = 1
INVARIANTS NoDoubleExecution
PROPERTIES CompletedIsFinal ImplementsLifecycle QueuedRunEnds
CHECK_DEADLOCK FALSE

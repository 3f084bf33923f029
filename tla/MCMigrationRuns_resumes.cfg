\* One run, a worker and two resume requests in flight.
SPECIFICATION Spec
CONSTANTS
    r1 = r1  r2 = r2  w1 = w1  w2 = w2  s1 = s1  s2 = s2
    NoRun = NoRun  Nobody = Nobody
    Runs <- OneRun
    Workers <- OneWorker
    Sessions <- TwoSessions
    SelectionRuns <- NoRuns
    ApiMode = "worker"
    MaxResumes = 2
    MaxCrashes = 0
INVARIANTS OnlyEndedAreResumed
CHECK_DEADLOCK FALSE

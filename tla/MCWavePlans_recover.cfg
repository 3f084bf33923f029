\* One worker; operators resume the plan after each automatic pause.
SPECIFICATION WFairSpec
CONSTANTS
    r1 = r1  r2 = r2  r3 = r3  r4 = r4  r5 = r5  r6 = r6  w1 = w1  w2 = w2  s1 = s1  s2 = s2
    NoRun = NoRun  Nobody = Nobody
    ApiMode = "worker"
    Runs <- SixRuns
    Workers <- OneWorker
    Sessions <- OneSession
    SelectionRuns <- SomeSelection
    MaxResumes = 2
    MaxCrashes = 0
    TotalWaves = 3
    Requests <- Resumes
INVARIANT CountsCompletedRuns
PROPERTIES ImplementsProgramme PlanSettles
CHECK_DEADLOCK FALSE

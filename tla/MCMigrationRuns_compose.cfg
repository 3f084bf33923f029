\* The shipped docker-compose.yml: the api service keeps runner_mode "api".
SPECIFICATION Spec
CONSTANTS
    r1 = r1  r2 = r2  w1 = w1  w2 = w2  s1 = s1  s2 = s2
    NoRun = NoRun  Nobody = Nobody
    Runs <- OneRun
    Workers <- OneWorker
    Sessions <- OneSession
    SelectionRuns <- OneRun
    ApiMode = "api"
    MaxResumes = 1
    MaxCrashes = 0
INVARIANTS NoDoubleExecution
CHECK_DEADLOCK FALSE

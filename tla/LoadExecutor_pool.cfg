\* Up to three batches in a pool of two threads, with a limiter and a retry.
SPECIFICATION FairSpec
CONSTANTS
    RecordCount = 4
    BatchSize = 2
    Concurrency = 2
    RetryMax = 1
    Limited = TRUE
INVARIANTS QuietAfterwards AcceptedOnce
PROPERTIES ImplementsLoadStage CallEnds
CHECK_DEADLOCK FALSE

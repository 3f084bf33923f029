\* Two batches, failures of every kind, resumes, full load records.
SPECIFICATION FairSpec
CONSTANTS
    a1 = a1  a2 = a2  a3 = a3  a4 = a4
    Rows <- FiveRows
    BatchCount = 2
    ChunkSize = 2
    SampleSize = 1
    AuditMode = "full"
    BatchOf <- TwoBatchOf
    RowNumber <- TwoBatchNumber
    Accounts <- FourAccounts
    Account <- TwoBatchAccount
    MaxFaults = 2
    MaxResumes = 2
INVARIANTS CompletedLosesNothing CheckpointCovered ImportedOnce RecordedHasArrived
PROPERTIES StartedRunEnds
CHECK_DEADLOCK FALSE

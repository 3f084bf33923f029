\* A batch with rows of two files that share a row number.
SPECIFICATION Spec
CONSTANTS
    a1 = a1  a2 = a2  a3 = a3  a4 = a4
    Rows <- ThreeRows
    BatchCount = 1
    ChunkSize = 2
    SampleSize = 1
    AuditMode = "full"
    BatchOf <- OneBatchOf
    RowNumber <- SharedNumber
    Accounts <- ThreeAccounts
    Account <- OneBatchAccount
    MaxFaults = 0
    MaxResumes = 0
INVARIANTS CompletedLosesNothing
CHECK_DEADLOCK FALSE

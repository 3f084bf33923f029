\* Two workers populate two batches, once and again, and read the table before either has
\* tagged its rows, while a file is processed twice and its rejected line reprocessed.
SPECIFICATION Spec
CONSTANTS
    f1 = f1  f2 = f2  a1 = a1  a2 = a2  a3 = a3  b1 = b1  b2 = b2  w1 = w1  w2 = w2  c1 = c1
    NoBatch = NoBatch  Nobody = Nobody
    Files <- OneFile
    Lines <- ThreeLines
    FileOf <- SameFile
    Number <- InOrder
    Account <- AccountTwice
    Matching <- AllThree
    Rejected <- SecondRejected
    Batches <- TwoBatches
    Workers <- TwoWorkers
    Clients <- OneClient
    CandidateLimit = 2
    MaxCopies = 2
    MaxSelections = 2
INVARIANTS NothingVanishes AccountOncePerBatch
PROPERTIES RowsMoveOnlyInOverlap
SYMMETRY FleetSymmetry
CHECK_DEADLOCK FALSE

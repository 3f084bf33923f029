\* Two workers select for two runs of a programme at the same time.
SPECIFICATION Spec
CONSTANTS
    f1 = f1  f2 = f2  a1 = a1  a2 = a2  a3 = a3  b1 = b1  b2 = b2  w1 = w1  w2 = w2  c1 = c1
    NoBatch = NoBatch  Nobody = Nobody
    Files <- TwoFiles
    Lines <- FourLines
    FileOf <- FourFiles
    Number <- FourNumbers
    Account <- FourAccounts
    Matching <- AllFour
    Rejected <- NoneRejected
    Batches <- TwoBatches
    Workers <- TwoWorkers
    Clients <- OneClient
    CandidateLimit = 2
    MaxCopies = 1
    MaxSelections = 1
INVARIANT RunsAddUp
SYMMETRY FleetSymmetry
CHECK_DEADLOCK FALSE

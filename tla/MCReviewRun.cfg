SPECIFICATION FairSpec
CONSTANTS
    Files <- TwoFiles
    f1 = f1
    f2 = f2
    Sizes = {1, 2, 3}
    MaxFileBytes = 2
    MaxTotalBytes = 3
    Url = Url
    Nowhere = Nowhere
    Elsewhere = Elsewhere
    ModelFindings <- TestFindings
    MaxFindings = 2
    Costs = {1, 2}
    Budget = 1
    MaxAttempts = 2
CHECK_DEADLOCK FALSE
INVARIANTS ReportGrounded ReadyNeedsEvidence SpendingBounded
PROPERTIES JobCloses QueueSteps

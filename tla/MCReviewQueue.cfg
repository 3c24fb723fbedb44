SPECIFICATION FairSpec
CONSTANTS
    Orders <- TwoOrders
    Workers <- ThreeWorkers
    Callbacks <- OnlyFirst
    o1 = o1
    o2 = o2
    w1 = w1
    w2 = w2
    w3 = w3
    MaxAttempts = 2
    Concurrency = 1
    MaxFaults = 1
    NoOrder = NoOrder
    NoWorker = NoWorker
    NoResult = NoResult
INVARIANTS
    OneAnswer
    NoLeakedLease
    PaidBeforeReview
    AttemptBudget
    NoFaultNoRival
PROPERTIES
    ClosedOnce
    ServiceKept

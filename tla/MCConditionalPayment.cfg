SPECIFICATION Spec
CONSTANTS
    Runs <- TwoRuns
    Auths <- TwoAuths
    NoAuth = NoAuth
    r1 = r1
    r2 = r2
    a1 = a1
    a2 = a2
    Confirmations = 2
    Lifetime = 2
    Margin = 1
    Lookback = 1
    FirstBlock = 2
    Spare = 1
    LastBlock = 6
    MaxFaults = 1
SYMMETRY RunSymmetry
CHECK_DEADLOCK FALSE
INVARIANTS
    PaidTwiceExplained
    FundedBeforeSigned
    CompletedIsPaid
    NoSkippedFunding

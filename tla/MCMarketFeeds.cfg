SPECIFICATION Spec
CONSTANTS
    Requests <- TwoRequests
    Loads <- OneFeed
    q1 = q1
    q2 = q2
    Details <- TwoDetails
    Coins = 3
    Listed <- FirstOnly
    Pool = 2
    Days = 3
    Chunk = 2
    DayLength = 2
    PriceTTL = 2
    ListTTL = 1
    CandleTTL = 2
    RepoTTL = 2
    LastTick = 3
SYMMETRY Symmetry
CHECK_DEADLOCK FALSE
INVARIANTS
    FreshAnswers
    WholeAnswers

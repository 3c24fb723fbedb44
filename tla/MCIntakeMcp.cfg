SPECIFICATION Spec
CONSTANTS
    r1 = r1
    r2 = r2
    r3 = r3
    p1 = p1
    p2 = p2
    Requests <- TwoRequests
    Payments <- OnePayment
    NoRequest = NoRequest
    NoPayment = NoPayment
CHECK_DEADLOCK FALSE
INVARIANT SettlementSeen

SPECIFICATION Spec
CONSTANTS
    r1 = r1
    r2 = r2
    r3 = r3
    p1 = p1
    p2 = p2
    Requests <- ThreeRequests
    Payments <- TwoPayments
    NoRequest = NoRequest
    NoPayment = NoPayment
CHECK_DEADLOCK FALSE
SYMMETRY Symmetries
INVARIANTS
    PaidInOrder
    PaymentBuysOnce
    SoleBuyerServed
PROPERTIES SettledForever ApiOfQueue

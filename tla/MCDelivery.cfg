SPECIFICATION FairSpec
CONSTANTS
    d1 = d1
    d2 = d2
    s1 = s1
    s2 = s2
    Deliveries <- TwoDeliveries
    Senders <- TwoSenders
    MaxTries = 2
    MaxFaults = 1
    MaxHangs = 2
    NoDelivery = NoDelivery
INVARIANTS DeliveredMeansAccepted OneSender TriesBounded
PROPERTY EveryEventEnds

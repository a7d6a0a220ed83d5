SPECIFICATION FairSpec
CONSTANTS
    e1 = e1
    e2 = e2
    e3 = e3
    NoEvent = NoEvent
    Events <- MCEvents
    KindsOfEvents <- MCKinds
    NumDeliveries = 3
    Ttl = 2
    MaxKeys = 1
    MaxTime = 2
INVARIANTS
    TypeOK
    RepeatOnlyAfterTtlOrOverflow
    NoMessageIsSwallowed
    GatewayOrderKept
PROPERTIES
    EveryDeliveryEnds
CHECK_DEADLOCK FALSE

SPECIFICATION Spec
CONSTANTS
    e1 = e1
    e2 = e2
    e3 = e3
    NoEvent = NoEvent
    Events <- MCEvents
    KindsOfEvents <- TwoMessages
    NumDeliveries = 2
    Ttl = 2
    MaxKeys = 2
    MaxTime = 1
INVARIANTS
    WelcomeOnFirstInteraction
CHECK_DEADLOCK FALSE

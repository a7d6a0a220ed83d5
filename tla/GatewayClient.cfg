SPECIFICATION FairSpec
CONSTANTS
    NumEvents = 4
    QueueSize = 1
    ReconnectLimits <- MCReconnectLimits
    MaxSessions = 4
    MaxFaults = 3
    MaxWire = 2
    NoEvent = NoEvent
    NoSession = NoSession
INVARIANTS
    TypeOK
    AcknowledgedIsKept
    ResumePointIsReal
PROPERTIES
    GivesUpOnlyAtLimit
    ImplementsFeed
    EventsArrive
CHECK_DEADLOCK FALSE

SPECIFICATION FairSpec
CONSTANTS
    NumEvents = 3
    QueueSize = 1
    ReconnectLimits <- NoLimit
    MaxSessions = 1
    MaxFaults = 0
    MaxWire = 2
    NoEvent = NoEvent
    NoSession = NoSession
PROPERTIES
    StopEndsRun
CHECK_DEADLOCK FALSE

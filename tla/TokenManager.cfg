SPECIFICATION FairSpec
CONSTANTS
    t1 = t1
    t2 = t2
    t3 = t3
    NoTask = NoTask
    NoToken = NoToken
    Tasks <- MCTasks
    Margin = 2
    Timeout = 2
    Lifetimes <- MCLifetimes
    MaxTime = 5
INVARIANTS
    TypeOK
    SingleFlight
    ServedTokenIsLive
PROPERTIES
    NoNeedlessRefresh
    CacheNeverRegresses
    EveryCallReturns

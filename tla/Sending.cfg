SPECIFICATION FairSendSpec
CONSTANTS
    t1 = t1
    t2 = t2
    NoTask = NoTask
    NoToken = NoToken
    Tasks <- MCTasks
    Margin = 1
    Timeout = 1
    Lifetimes = {1, 3}
    MaxTime = 2
INVARIANTS
    SendTypeOK
    ShownAtMostOnce
    ResultIsTrue
    RetryCarriesNewToken
PROPERTIES
    EverySendEnds
CHECK_DEADLOCK FALSE

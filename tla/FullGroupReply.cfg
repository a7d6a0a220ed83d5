SPECIFICATION FairSpec
CONSTANTS
    g1 = g1
    g2 = g2
    NoTask = NoTask
    Groups <- MCGroups
    NumMessages = 4
    Settings <- MCSettings
    MaxTime = 2
INVARIANTS
    TypeOK
    OneDecisionPerGroup
    DecidedInOrder
    PendingIsTheLine
PROPERTIES
    RepliesKeepCooldown
    EveryMessageIsDecided

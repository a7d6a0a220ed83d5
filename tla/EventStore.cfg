SPECIFICATION FairStoreSpec
CONSTANTS
    e1 = e1
    e2 = e2
    e3 = e3
    None = None
    NoEvent = NoEvent
    Events <- MCEvents
    PayloadsOf <- MCPayloads
INVARIANTS
    TypeOK
    StoreIsConsistent
    UsersAreKeptApart
    TargetsAgree
PROPERTIES
    EveryRecordEnds

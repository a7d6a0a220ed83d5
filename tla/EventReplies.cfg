SPECIFICATION Spec
CONSTANTS
    m1 = m1
    m2 = m2
    r1 = r1
    r2 = r2
    r3 = r3
    Framework = Framework
    Messages <- MCMessages
    Replies <- MCReplies
    Of <- MCOf
    Kinds <- MCKinds
    Answers <- MCAnswers
    MaxConversations = 2
INVARIANTS
    TypeOK
    EntriesOnce
    HistoryIsComplete
    StreamIsWhole
    CutsIgnoreChunks
CHECK_DEADLOCK FALSE

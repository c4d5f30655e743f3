SPECIFICATION FairSpec
CONSTANTS
    a = a
    b = b
    Chats <- ChatA
    Updates <- ThreeUpdates
    chatOf <- AllInA
    kind <- TextRagUsage
    DedupeLimit = 4
    LatestLimit = 2
    LockLimit = 2
    LongSilences = FALSE
    MaxRuns = 2
    MaxRestarts = 1
CHECK_DEADLOCK FALSE
INVARIANTS
    AnswersInOrder
    SupersededByLiveUpdate
PROPERTIES
    EveryTaskEnds

SPECIFICATION Spec
CONSTANTS
    a = a
    b = b
    Chats <- ChatsAB
    Updates <- FourUpdates
    chatOf <- MixedChats
    kind <- TextTextRagLink
    DedupeLimit = 1
    LatestLimit = 1
    LockLimit = 2
    LongSilences = TRUE
    MaxRuns = 1
    MaxRestarts = 0
CHECK_DEADLOCK FALSE
INVARIANTS
    TypeOK
    SerializedPerChat

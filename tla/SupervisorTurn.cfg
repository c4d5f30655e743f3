SPECIFICATION FairSpec
CHECK_DEADLOCK FALSE
CONSTANTS
    Requests <- MCRequests
    Plans <- MCPlans
    MaxActs = 1
INVARIANTS
    TypeOK
    TranscriptTellsTheShown
    DeliveredDraftWasJudged
    RefusalRunsNothing
PROPERTIES
    ImplementsStackRun
    EveryTurnAnswered

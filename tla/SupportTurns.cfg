SPECIFICATION Spec
CONSTANTS
    t1 = t1
    ana = ana
    op = op
    x = x
    y = y
    NoUser = NoUser
    NoThread = NoThread
    NoText = NoText
    Users <- Everyone
    Threads <- OneThread
    Operators <- OperatorsOnly
    Texts <- TwoTexts
    ChatTexts <- OneText
    FiledQueues <- VisitsOnly
    MaxHandoffs = 2
    MaxBookings = 2
    MaxRequests = 0
CHECK_DEADLOCK FALSE
INVARIANTS
    NoThirdCopy
    LinksConsistent
PROPERTIES
    OwnerSticky

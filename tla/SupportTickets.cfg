SPECIFICATION Spec
CONSTANTS
    t1 = t1
    ana = ana
    op = op
    x = x
    y = y
    NoUser = NoUser
    NoThread = NoThread
    NoText = NoText
    Users <- Everyone
    Threads <- OneThread
    Operators <- OperatorsOnly
    Texts <- OneText
    ChatTexts <- NoChat
    FiledQueues <- FinanceOnly
    MaxHandoffs = 2
    MaxBookings = 1
    MaxRequests = 1
CHECK_DEADLOCK FALSE
INVARIANTS
    TypeOK
    FreshTicketUnique
    CancelledVisitClosedItsTicket
PROPERTIES
    SlaNeverRenegotiated
    ClosureHasCause
    ImplementsLedger

SPECIFICATION Spec
CHECK_DEADLOCK FALSE
CONSTANTS
    Messages = 3
    Wishes <- BookFirst
    Window = 4
    MaxMishaps = 2
INVARIANTS
    TypeOK
    ShownIsRemembered
    

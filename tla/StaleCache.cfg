SPECIFICATION Spec
CHECK_DEADLOCK FALSE
CONSTANTS
    Turns = {t1, t2}
    Ttl = 1
    Timeout = 1
    MaxTime = 3
    MaxChanges = 1
PROPERTIES
    StaleServedOnError

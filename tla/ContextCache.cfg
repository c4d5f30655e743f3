SPECIFICATION Spec
CHECK_DEADLOCK FALSE
SYMMETRY Symmetry
CONSTANTS
    Turns = {t1, t2, t3}
    Ttl = 2
    Timeout = 2
    MaxTime = 7
    MaxChanges = 3
INVARIANTS
    TypeOK
    ServedRecent

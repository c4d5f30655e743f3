SPECIFICATION Spec
CONSTANTS
    Syncs = {s1, s2}
    Indexes <- DocumentsAndSummaries
    MaxTime = 5
    MaxCrashes = 2
SYMMETRY SyncSymmetry
CHECK_DEADLOCK FALSE
INVARIANTS
    TypeOK
    AliasServes
    NothingLeftBehind
    IndexesMatchCatalog
PROPERTIES
    NeverTakenDown

SPECIFICATION Spec
CONSTANTS
    g1 = g1
    g2 = g2
    s1 = s1
    s2 = s2
    p1 = p1
    c1 = c1
    c2 = c2
    Null = Null
    Guardians = {g1, g2}
    Students = {s1, s2}
    Teachers = {p1}
    Staff <- AllStaff
    Classes = {c1, c2}
    MaxEdits = 2
SYMMETRY Symmetric
CHECK_DEADLOCK FALSE
INVARIANTS
    RefusalRecorded

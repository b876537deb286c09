CONSTANTS
    d1 = d1
    d2 = d2
    m1 = m1
    m2 = m2
    Ids <- MCIds
    TableOf <- MCTableOf
    Names = {n1}
    Docs = {a}
    Null = Null
    Absent = Absent
    Idle = Idle
    Requests = {r1, r2}
    MaxRev = 1
    MaxLives = 1
SYMMETRY Symmetry
SPECIFICATION Spec
INVARIANTS
    SameTagSameContent
PROPERTY NoNeedlessCopy
CHECK_DEADLOCK FALSE

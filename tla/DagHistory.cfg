CONSTANTS
    Dags = {d1, d2}
    Versions = {v1}
    Unset = Unset
    Blank = Blank
    Null = Null
    Absent = Absent
    Requests = {r1}
    Jobs = {j1, j2}
    Keys = {1, 2}
    Limit = 1
SPECIFICATION FairSpec
INVARIANTS
    TypeOK
    HistoryBounded
    HistoryOwned
    SavedIsRestorable
PROPERTIES
    PruneKeepsNewest
    OverflowIsPruned
CHECK_DEADLOCK FALSE

CONSTANTS
    Dags = {d1, d2}
    Versions = {v1, v2}
    Unset = Unset
    Blank = Blank
    Null = Null
    Absent = Absent
    Requests = {r1}
    Jobs = {j1}
    Keys = {1, 2}
    Limit = 1
SPECIFICATION Spec
INVARIANT OwnDocuments
CHECK_DEADLOCK FALSE

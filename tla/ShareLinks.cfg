CONSTANTS
    Links = {l1, l2}
    Dags = {d1}
    Requests = {r1, r2}
    Absent = Absent
SYMMETRY Symmetry
SPECIFICATION Spec
INVARIANTS
    RevokedOpensNothing
    NoOrphanLinks
    TokensRecorded
    ViewersDoNotUpdate
PROPERTY ImplementsAdmission

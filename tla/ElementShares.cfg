CONSTANTS
    v = v
    c = c
    g = g
    Shares = {s}
    Dags = {d}
    Users = {u, v}
    Companies = {c}
    Groups = {g}
    Offers <- EveryKind
    MaxJoined = 1
    Requests = {r, q}
    Absent = Absent
    Nobody = Nobody
    NoDag = NoDag
SYMMETRY Symmetry
SPECIFICATION Spec
INVARIANTS
    SourceExists
    ImportsCounted
    RevokedStaysClosed
    AudienceOnly
    InboxAgrees
CHECK_DEADLOCK FALSE
PROPERTY ImplementsGrants

CONSTANTS
    Companies = {c, d}
    Groups = {g, h}
    Users = {u, v}
    Refs = {x}
    LdapCompany = c
    Requests = {r, s}
    Fresh = Fresh
    Gone = Gone
    None = None
SYMMETRY Symmetry
SPECIFICATION Spec
INVARIANTS
    NoOrphans
    OwnerIsMember
    MembersOrRemoved
    OneGroupPerRef
CHECK_DEADLOCK FALSE

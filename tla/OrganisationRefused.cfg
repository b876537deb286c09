CONSTANTS
    Companies = {c}
    Groups = {g}
    Users = {u, v}
    Refs = {x}
    LdapCompany = c
    Requests = {r, s}
    Fresh = Fresh
    Gone = Gone
    None = None
SPECIFICATION Spec
PROPERTY RefusedChangesNothing
CHECK_DEADLOCK FALSE

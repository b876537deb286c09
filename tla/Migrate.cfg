CONSTANTS
    d = d
    h = h
    u = u
    Rows <- MCRows
    TableOf <- MCTableOf
    ParentOf <- MCParentOf
    None = None
    MaxWrites = 2
SPECIFICATION Spec
INVARIANTS
    SuccessIsComplete
    LossIsWarned
PROPERTIES
    NeverOverwrites
    RerunAddsNothing
CHECK_DEADLOCK FALSE

CONSTANTS
    Nodes = {a, b, c, d}
    None = None
    RootSets = {{a}, {a, b}}
    MaxDepth = 2
    MaxEdges = 2
SYMMETRY Symmetry
SPECIFICATION Spec
INVARIANTS
    TypeOK
    ContainersKept
    DescendantsKept
    OnlyContainersAdded
    WithinDepth
    TopLevelReached
CHECK_DEADLOCK FALSE

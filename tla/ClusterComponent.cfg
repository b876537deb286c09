CONSTANTS
    Nodes = {a, b, c, d}
    None = None
    RootSets = {{a}}
    MaxDepth = 0
    MaxEdges = 3
SYMMETRY Symmetry
SPECIFICATION Spec
INVARIANT WholeComponent
CHECK_DEADLOCK FALSE

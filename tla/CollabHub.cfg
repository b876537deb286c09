CONSTANTS
    Dags = {d1, d2}
    Clients = {c1, c2}
    Saves = {s1}
    Anyone = Anyone
    Cap = 1
    MaxPresence = 2
SYMMETRY Symmetry
SPECIFICATION Spec
INVARIANTS
    SendsAreSafe
    RoomsMatchHandlers
    PresenceStaysInRoom
    StaleOnlyIfSkipped
PROPERTY ImplementsFanout
CHECK_DEADLOCK FALSE

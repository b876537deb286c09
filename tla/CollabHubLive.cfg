CONSTANTS
    Dags = {d1}
    Clients = {c1}
    Saves = {s1, s2, s3}
    Anyone = Anyone
    Cap = 1
    MaxPresence = 1
SPECIFICATION FairSpec
PROPERTIES
    ConnectionsEnd
    SavesAreAnswered
CHECK_DEADLOCK FALSE

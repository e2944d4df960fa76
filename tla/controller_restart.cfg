\* A replica restarts after its log was cut at a snapshot.
SPECIFICATION Spec
SYMMETRY Symmetry
CONSTANTS
    Nil = Nil
    NShards = 3
    GID = {1, 2}
    Server = {s1, s2}
    Client = {c1, c2}
    Joins <- Singles
    Leaves <- Leave2
    Moves <- Move2
    maxraftstate = 3
    MaxLog = 3
    MaxRestarts = 1
INVARIANTS
    OneHistory
CHECK_DEADLOCK FALSE

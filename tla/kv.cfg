SPECIFICATION Spec
SYMMETRY Symmetry
VIEW LiveView
CONSTANTS
    Server = {s1, s2}
    s1 = s1
    s2 = s2
    Client = {c1, c2}
    Key = {k1}
    Op = {"Get", "Append"}
    Nil = Nil
    maxraftstate = 3
    MaxRequests = 2
    MaxStarts = 3
    MaxElections = 2
    MaxRestarts = 1
    c1 = c1
    c2 = c2
    k1 = k1
INVARIANTS
    TypeOK
    ExactlyOnce
    Linearizable
CHECK_DEADLOCK FALSE

SPECIFICATION Spec
SYMMETRY Symmetry
VIEW LiveView
CONSTANTS
    Server = {s1, s2, s3}
    Command = {c1}
    Nil = Nil
    maxraftstate <- NoSnapshots
    MaxElections = 2
    MaxIndex = 2
    MaxApplies = 0
    MaxCrashes = 0
    MaxRequests = 1
    MaxReplies = 2
    s1 = s1
    s2 = s2
    s3 = s3
    c1 = c1
INVARIANTS
    TypeOK
    NoPanic
    CommitSafety
    MatchIndexTruthful
    LogsContiguous
CHECK_DEADLOCK FALSE

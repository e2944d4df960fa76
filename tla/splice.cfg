SPECIFICATION Spec
SYMMETRY Symmetry
VIEW LiveView
CONSTANTS
    Server = {s1, s2, s3}
    Command = {c1}
    Nil = Nil
    maxraftstate = 2
    MaxElections = 2
    MaxIndex = 2
    MaxApplies = 1
    MaxCrashes = 0
    MaxRequests = 1
    MaxReplies = 1
    s1 = s1
    s2 = s2
    s3 = s3
    c1 = c1
INVARIANTS
    CommitSafety
    LeaderCompleteness
    LogsContiguous
PROPERTIES
    LeaderAppendOnly
    NoRollback
CHECK_DEADLOCK FALSE

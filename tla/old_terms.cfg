SPECIFICATION Spec
SYMMETRY Symmetry
VIEW LiveView
CONSTANTS
    Server = {s1, s2, s3}
    Command = {c1}
    Nil = Nil
    maxraftstate <- NoSnapshots
    MaxElections = 4
    MaxIndex = 1
    MaxApplies = 0
    MaxCrashes = 0
    MaxRequests = 1
    MaxReplies = 1
    s1 = s1
    s2 = s2
    s3 = s3
    c1 = c1
INVARIANTS
    LeaderCompleteness
    CommittedDurable
CHECK_DEADLOCK FALSE

SPECIFICATION Spec
SYMMETRY Symmetry
VIEW LiveView
CONSTANTS
    Server = {s1, s2, s3}
    Command = {c1}
    Nil = Nil
    maxraftstate = 2
    MaxElections = 2
    MaxIndex = 1
    MaxApplies = 2
    MaxCrashes = 1
    MaxRequests = 1
    MaxReplies = 1
    s1 = s1
    s2 = s2
    s3 = s3
    c1 = c1
INVARIANTS
    StateMachineSafety
    SnapshotFitsLog
    CommittedDurable
    ElectionSafety
PROPERTIES
    NoRollback
    ImplementsLog
CHECK_DEADLOCK FALSE

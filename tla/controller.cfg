\* Clerks that resend, replicas that take and exchange snapshots, a restart.
SPECIFICATION Spec
SYMMETRY Symmetry
CONSTANTS
    Nil = Nil
    NShards = 3
    GID = {1, 2}
    Server = {s1, s2}
    Client = {c1, c2}
    Joins <- Singles
    Leaves <- Leave2
    Moves <- Move2
    maxraftstate = 3
    MaxLog = 3
    MaxRestarts = 1
INVARIANTS
    TypeOK
    ReplicasAgree
    ShardsOwned
PROPERTIES
    AnswersStand
CHECK_DEADLOCK FALSE

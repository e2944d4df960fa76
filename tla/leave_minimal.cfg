\* The same, after one of three groups left.
SPECIFICATION Spec
CONSTANTS
    NShards = 6
    GID = {1, 2}
INVARIANTS
    LeaveMinimal
CHECK_DEADLOCK FALSE

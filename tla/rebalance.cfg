\* Ten shards on up to five groups, some of them gone.
SPECIFICATION MCSpec
CONSTANTS
    NShards = 10
    GID = {1, 2, 3, 4, 5}
INVARIANTS
    Partition
    JoinMinimal
PROPERTIES
    EndsEven
CHECK_DEADLOCK FALSE

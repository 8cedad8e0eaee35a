SPECIFICATION ServerSpec
CONSTANTS
    NumBuckets = 2
    NumSlots = 2
    NumLoaded = 2
    PoolSize = 2
    Keys = {0, 1}
    Values = {0, 1}
    MaxItems = 5
CHECK_DEADLOCK FALSE
INVARIANTS
    PoolSuffices

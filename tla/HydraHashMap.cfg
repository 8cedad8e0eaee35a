SPECIFICATION Spec
CONSTANTS
    NumBuckets = 2
    NumSlots = 2
    NumLoaded = 2
    PoolSize = 5
    Keys = {0, 1, 2, 3, 4}
    Values = {0, 1}
    MaxItems = 5
CHECK_DEADLOCK FALSE
INVARIANTS
    ItemsAreOwned
    TableIsMap

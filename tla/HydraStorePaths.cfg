SPECIFICATION FairSpec
CONSTANTS
    NumClients = 2
    MaxAsk = 2
    AskedKeys = {0, 1}
    NumBuckets = 2
    NumSlots = 2
    NumLoaded = 2
    PoolSize = 2
    Keys = {0, 1}
    Values = {0, 1}
    MaxItems = 4
INVARIANTS
    PacedRequestsAreKept
    LocationsStay
    UpdatedIsFlagged
    QuietReadStays
PROPERTIES
    ImplementsLog
    SlotsAreServed

SPECIFICATION BucketSpec
CONSTANTS
    CVer = 4
    MaxWrites = 9
INVARIANTS
    AcceptedIsWhole
    AcceptedIsRecent

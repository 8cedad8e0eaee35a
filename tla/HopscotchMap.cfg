SPECIFICATION Spec
CONSTANTS
    Size = 4
    HopSize = 3
    HopBits = 4
    CVer = 2
    Keys = {0, 4, 8, 12, 1}
    Values = {1, 2}
    MaxVersion = 2
INVARIANTS
    MapUntilDisplaced
    NothingIsDropped

SPECIFICATION Spec
CONSTANTS
    Size = 4
    HopSize = 2
    HopBits = 3
    CVer = 2
    Keys = {0, 4, 8, 1}
    Values = {1, 2}
    MaxVersion = 2
INVARIANTS
    InsertedIsFound

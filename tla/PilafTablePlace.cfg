SPECIFICATION Spec
CONSTANTS
    MaxN = 5
    NumKeys = 9
    FillKey = 13
INVARIANTS
    PlacedIsFound
    LoneStaysHome

SPECIFICATION OrderedFairSpec
CONSTANTS
    NumClients = 2
    Keys = {0, 1}
    Loaded = {0, 1}
    GetKeys = {0}
    MaxPut = 2
INVARIANTS
    TypeOK
    AppliedWasAsked
    AppliedInOrder
    PacedPutsAreKept
PROPERTIES
    ImplementsLog
    SlotsAreServed
    PacedPutsAreApplied

SPECIFICATION Spec
CONSTANTS
    NumClients = 2
    NumServers = 2
    PerServer = 1
    Stores = {"FaRM", "HydraDB", "Pilaf"}
INVARIANTS
    HeldIsMeant
    PeerIsReady
    DeadLeaveNoExchange
    RunsOnLoadedTable
PROPERTY
    SetUpEnds
CHECK_DEADLOCK FALSE

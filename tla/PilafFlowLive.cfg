SPECIFICATION FairSpec
CONSTANTS
    NumClients = 1
    QDepth = 3
    SDepth = 2
    MaxRequests = 6
PROPERTIES
    PutsReturn
    PollsReturn

SPECIFICATION Spec
CONSTANTS
    NumClients = 2
    QDepth = 3
    SDepth = 2
    MaxRequests = 2
INVARIANTS
    PollsAreFed
    CompletionsAreTaken
    RecvsFit
    RecvIsThere
    UncrossedIsPlaced
PROPERTIES
    ImplementsRpc

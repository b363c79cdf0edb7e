SPECIFICATION FairSpec
CONSTANTS
    Clients = {c1, c2}
    Workers = {w1, w2}
    MaxPendingResponses = 2
    MaxRequests = 2
    NoClient = NoClient
    NoWorker = NoWorker
    NotReady = NotReady
INVARIANT
    RequestConservation
PROPERTIES
    RepliesFairSpec
    EveryRequestAnswered
    ShutdownCompletes

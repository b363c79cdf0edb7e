SPECIFICATION SchedulingSpec
CONSTANTS
    Clients = {c1, c2, c3}
    Workers = {w1}
    MaxPendingResponses = 2
    MaxRequests = 2
    NoClient = NoClient
    NoWorker = NoWorker
    NotReady = NotReady
SYMMETRY Symmetry
INVARIANTS
    TypeOK
    NextClientValid
    PendingExact
    BoundedBypass
    ServedIsBehind

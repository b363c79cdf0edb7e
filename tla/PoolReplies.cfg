SPECIFICATION Spec
CONSTANTS
    Clients = {c1, c2}
    Workers = {w1, w2, w3}
    MaxPendingResponses = 2
    MaxRequests = 3
    NoClient = NoClient
    NoWorker = NoWorker
    NotReady = NotReady
SYMMETRY Symmetry
INVARIANTS
    NoLostWakeup
    DrainedBeforeExit
    RingSound
    LockHeldWhileFlushing
PROPERTY
    RepliesSpec

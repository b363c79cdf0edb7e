SPECIFICATION PromiseSpec
CONSTANTS
    c1 = c1
    c2 = c2
    u1 = u1
    u2 = u2
    Users = {u1, u2}
    Clients = {c1, c2}
    Workers = {w1, w2}
    MainThread = main
    NoClient = NoClient
    Anonymous = Anonymous
    Accounts <- AnyUser
    Operations = {"create_canvas", "share_canvas", "barrier", "destroy_canvas", "Disconnect", "close"}
    MaxHandle = 1
    MaxOutstanding = 2
CHECK_DEADLOCK FALSE
SYMMETRY Symmetry
INVARIANTS
    CanvasesSound
    SleepersHeld
    PassedTogether

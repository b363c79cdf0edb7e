SPECIFICATION Spec
CONSTANTS
    c1 = c1
    c2 = c2
    u1 = u1
    u2 = u2
    Users = {u1, u2}
    Clients = {c1, c2, c3}
    Workers = {w1, w2, w3}
    MainThread = main
    NoClient = NoClient
    Anonymous = Anonymous
    Accounts <- SharedUser
    Operations = {"create_canvas", "create_sprite", "place_sprite", "share_canvas", "barrier", "destroy_sprite"}
    MaxHandle = 2
    MaxOutstanding = 1
CHECK_DEADLOCK FALSE
INVARIANT
    SafeAfterBarrier

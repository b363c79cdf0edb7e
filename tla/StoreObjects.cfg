SPECIFICATION Spec
CONSTANTS
    c1 = c1
    c2 = c2
    u1 = u1
    u2 = u2
    Users = {u1, u2}
    Clients = {c1, c2}
    Workers = {w1, w2, w3}
    MainThread = main
    NoClient = NoClient
    Anonymous = Anonymous
    Accounts <- OneUserEach
    Operations = {"create_canvas", "create_sprite", "place_sprite", "use_placement", "generate",
                  "share_canvas", "barrier", "destroy_sprite", "destroy_placement"}
    MaxHandle = 3
    MaxOutstanding = 2
CHECK_DEADLOCK FALSE
SYMMETRY Symmetry
INVARIANTS
    TypeOK
    BarrierHeldByAbsentee

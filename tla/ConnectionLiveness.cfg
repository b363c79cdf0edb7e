SPECIFICATION FairSpec
CONSTANTS
    Clients = {c1, c2}
    NoClient = NoClient
    NoReply = NoReply
    Newline = Newline
    Letter = Letter
    BufferSize = 3
    MaxStream = 0
    Names = {u1, u2, bad}
    ValidNames = {u1, u2}
    NoNumber = NoNumber
    MinBalance <- LowestBalance
    MaxBalance = 1
    MaxFile = 0
    Commands = {"Login"}
    Crashing = {c1}
    ReusedPids = {}
    SigpipeKills = FALSE
CHECK_DEADLOCK FALSE
PROPERTIES
    ReadyIsConnected
    WaitsOnlyForTheGone
    EveryCommandAnswered
    GoneIsClosed

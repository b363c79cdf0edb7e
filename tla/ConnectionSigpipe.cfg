SPECIFICATION Spec
CONSTANTS
    Clients = {c1}
    NoClient = NoClient
    NoReply = NoReply
    Newline = Newline
    Letter = Letter
    BufferSize = 3
    MaxStream = 0
    Names = {u1, u2, bad}
    ValidNames = {u1, u2}
    NoNumber = NoNumber
    MinBalance <- LowestBalance
    MaxBalance = 1
    MaxFile = 0
    Commands = {"Login", "Disconnect"}
    Crashing = {}
    ReusedPids = {}
    SigpipeKills = TRUE
CHECK_DEADLOCK FALSE
INVARIANT
    ServerSurvives

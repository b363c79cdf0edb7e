SPECIFICATION Spec
CONSTANTS
    Clients = {c1, c2}
    NoClient = NoClient
    NoReply = NoReply
    Newline = Newline
    Letter = Letter
    BufferSize = 3
    MaxStream = 7
    Names = {u1, u2, bad}
    ValidNames = {u1, u2}
    NoNumber = NoNumber
    MinBalance <- LowestBalance
    MaxBalance = 1
    MaxFile = 3
    Commands = {"Login", "LoginUnknown", "LoginMalformed", "Operation", "Disconnect"}
    Crashing = {c1, c2}
    ReusedPids = {c1}
    SigpipeKills = FALSE
CHECK_DEADLOCK FALSE
INVARIANTS
    TypeOK
    FramingSound
    LoginsSound
    ConnectedIsServed
    SessionsAgree
    OneReplyOwed
    NothingLeaks

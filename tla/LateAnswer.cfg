SPECIFICATION Spec
CONSTANTS
    MaxRequests = 3
    RefusedHandle = RefusedHandle
    SeqMod = 4
    MaxLost = 2
    MaxRetries = 1
    ReplyTime = 0
    MaxAge = 2
    PacketHandles = {101}
    ARefusals = {"NO_ROUTE"}
    BRefusals = {}
    Peer = Peer
    NoHandle = NoHandle
    NoData = NoData
INVARIANT AnsweredWasExecuted
CHECK_DEADLOCK FALSE

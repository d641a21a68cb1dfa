SPECIFICATION Spec
CONSTANTS
    MaxRequests = 5
    RefusedHandle = RefusedHandle
    SeqMod = 4
    MaxLost = 2
    MaxRetries = 1
    ReplyTime = 0
    MaxAge = 2
    PacketHandles = {101}
    ARefusals = {"NO_ROUTE"}
    BRefusals = {"DLL_OUT_OF_MEMORY"}
    Peer = Peer
    NoHandle = NoHandle
    NoData = NoData
INVARIANT InStep
PROPERTIES RequestResponseHolds RequestTerminates
CHECK_DEADLOCK FALSE

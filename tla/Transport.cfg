SPECIFICATION Spec
CONSTANTS
    SessionCount = 2
    SeqMod = 3
    MaxRetries = 1
    ReplyTime = 1
    NM = NM
    Peers = {NM}
    OpenTypes = {"Unicast"}
    AppHandles = {h1}
    PacketHandles = {p1}
    Outgoing = {2, 8}
    Incoming = {0, 1, 2, 3, 4, 6}
    NoHandle = NoHandle
    Data = {d1}
    NoData = NoData
INVARIANTS TypeOK PendingRequestIntact
PROPERTIES RequestOutcome MasterNumberMoves SlaveNumberMoves
CONSTRAINT OneSide
VIEW StateRead

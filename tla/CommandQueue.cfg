SPECIFICATION FairSpec
CONSTANTS
    Masters = {2, 3}
    WiredMasters = {1}
    Plain = {"plain"}
    Silent = {"silent"}
    Tunnelled = {"board"}
    Delayed = {"delayed"}
    Flush = {"flush"}
    MaxRequests = 1
    SpiRoom = 2
    Lists <- MCLists
    MaxPackets = 2
INVARIANTS Accounted OneEach AnswerUsedOnce StartWaits
PROPERTIES BoardWaitersEnd
CHECK_DEADLOCK FALSE

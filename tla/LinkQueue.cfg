SPECIFICATION FairSpec
CONSTANTS
    Packets = {1, 2}
    Handle = 1
    Neighbors = {"n1"}
    InGraph = {"n1"}
    Priorities = {0, 2, 3}
    Threshold = 1
    MaxBuffers = 2
    MaxRetries = 2
    MaxAge = 2
    AlarmBound = 2
    None = None
INVARIANTS InFlight NotResent CommandRoom
PROPERTIES PacketsLeave LeavingEnds

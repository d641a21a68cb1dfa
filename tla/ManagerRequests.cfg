SPECIFICATION FairSpec
CONSTANTS
    QueueSize = 2
    MaxRetries = 1
    Bursts = {1}
    Events = {4}
    ManagerIds = {128}
    SourceFlag = 1
    BoardCommands = {}
    MaxServices = 1
    MaxAsked = 1
INVARIANTS TypeOK  ServedIsInTable
PROPERTIES SecondOnlyRevived RequestsEnd

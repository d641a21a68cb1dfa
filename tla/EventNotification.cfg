SPECIFICATION FairSpec
CONSTANTS
    Bytes = {"status", "more"}
    Changes = {{"status", "more"}}
    Masks = {{}, {"status"}, {"status", "more"}}
    Provisioned = {"status"}
    MaxPending = 2
    MaxStamp = 2
INVARIANTS NewestTold
PROPERTIES LeavesWithCause EventsAcked

SPECIFICATION MCSpec
CONSTANTS
    Advertisers = {a1, a2, a3, a4}
    Few = {a1}
    Preferred = {a1}
    Levels = {0, 2}
    Threshold = 1
    MinAds = 4
    MaxJoinRetries = 2
    Written = {"key", "nickname", "session", "superframe", "txLink", "rxLink", "gateway"}
    OverBound = 4
INVARIANTS InTurn ByMerit
PROPERTIES FlagsStand JoinEnds
CHECK_DEADLOCK FALSE

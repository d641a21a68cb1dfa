SPECIFICATION PendingSpec
CONSTANTS
    Join = Join
    Names = {Join, s1, s2}
    MaxSessions = 2
    MaxTime = 2
INVARIANT TableFits
SYMMETRY Symmetry
CHECK_DEADLOCK FALSE

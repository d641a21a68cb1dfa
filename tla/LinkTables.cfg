SPECIFICATION TablesSpec
CONSTANTS
    Superframes = {0, 1}
    Slots = {0, 1}
    Nicknames = {1, 2}
    Proxies = {1}
    Graphs = {10}
    JoinGraph = 10
    MaxSuperframes = 2
    MaxLinks = 4
    MaxNeighbors = 2
    MaxConnections = 2
    MaxChanges = 3
INVARIANTS HashSound GraphsSorted LinkedMeansLink ResizedOnlyDisabled SuperframeOrRestart

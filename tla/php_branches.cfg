SPECIFICATION FairSpec
CONSTANTS
    Sites = {x, y}
    Versions = {a, b, c}
    None = None
    Established = {x}
    MaxJobs = 3
    MaxFaults = 2
CHECK_DEADLOCK FALSE
INVARIANTS PreviousPoolKept PoolIsMoved
PROPERTIES ChangesKeepNeighbours ChangesSettle

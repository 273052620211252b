SPECIFICATION FairSpec
CONSTANTS
    None = None
    Domain = d1
    MaxFaults = 4
CHECK_DEADLOCK FALSE
INVARIANTS NobodyWritesWhileRemoving AccountOutlivesData DoneMeansGone
           NeighboursKeepPHP CallsMatchTheirSummary
PROPERTIES RetriesConverge

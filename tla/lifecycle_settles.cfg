SPECIFICATION FairSpec
CONSTANTS
    Sites = {s1, s2}
    Domains = {d1, d2, d3}
    None = None
    Established = {s1, s2}
    Workers = {w1}
    Kinds <- QueueKinds
    Ordered = TRUE
    MaxJobs = 2
    MaxInbox = 2
    MaxFaults = 1
CHECK_DEADLOCK FALSE
INVARIANTS NoIncompatibleRequest
PROPERTIES ReleasedOnlyWhenSettled TransitionsSettle

SPECIFICATION Spec
CONSTANTS
    Sites = {s1}
    Domains = {d1}
    None = None
    Established = {}
    Workers = {w1}
    Kinds <- SwitchKinds
    Ordered = TRUE
    MaxJobs = 2
    MaxInbox = 3
    MaxFaults = 1
CHECK_DEADLOCK FALSE
INVARIANTS NoIncompatibleRequest

SPECIFICATION Spec
CONSTANTS
    Sites = {s1, s2}
    Domains = {d1, d2}
    None = None
    Established = {s1}
    Workers = {w1}
    Kinds <- SiteKinds
    Ordered = TRUE
    MaxJobs = 3
    MaxInbox = 3
    MaxFaults = 2
CHECK_DEADLOCK FALSE
SYMMETRY DomainSymmetry
INVARIANTS StoreInv ActiveIsServed DeletedStaysDeleted

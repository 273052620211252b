SPECIFICATION Spec
CONSTANTS
    Sites = {x, y}
    Versions = {a, b}
    None = None
    Established = {x}
    MaxJobs = 2
    MaxFaults = 2
CHECK_DEADLOCK FALSE
PROPERTIES DisableKeepsLivePools

SPECIFICATION FairSpec
CONSTANTS
    None = None
    Old = Old
    New = New
    MaxWrites = 2
    MaxFaults = 4
CHECK_DEADLOCK FALSE
INVARIANTS VisitorsMeetTheirSite CallsMatchTheirSummary
PROPERTIES SwitchSpec RetriesConverge

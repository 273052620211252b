SPECIFICATION ContentSpec
CONSTANTS
    Jobs = {1}
    Kinds = {"backup"}
    Stops = {"line"}
    MaxStops = 1
    MaxTries = 2
CHECK_DEADLOCK FALSE
INVARIANT BackupsAreRetrySafe

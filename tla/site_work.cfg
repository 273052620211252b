SPECIFICATION Spec
CONSTANTS
    Jobs = {1, 2}
    Kinds = {"backup", "restore", "test", "update", "deploy", "sync", "custom", "replace"}
    Stops = {"host", "broker", "panel", "line"}
    MaxStops = 1
    MaxTries = 2
    Uploads = {1, 2}
    Dirs = {"top", "sub"}
    Names = {"a", "b"}
    MaxPieces = 2
    MaxChanges = 2
    SettingKinds = {"cron", "wpcron", "access", "security", "node", "ftp"}
    MaxRequests = 4
    MaxFaults = 1
    Schedules = {s1}
    Processes = {p1, p2}
    Intervals = {1, 2}
    MaxTime = 4
    MaxAdjusted = 3
    RecordKinds = {"database", "dns", "mail"}
    RecordUsers = {u1, u2}
    MaxEdits = 4
    MaxLosses = 2
CHECK_DEADLOCK FALSE
INVARIANTS AnswersAreTrue Recoverable SearchReplaceOnce UploadsAreExact RowsAreInForce
           RecordsAreInForce
PROPERTIES OneRunPerPeriod

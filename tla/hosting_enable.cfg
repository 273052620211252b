SPECIFICATION SettingsSpec
CONSTANTS
    SettingKinds = {"ftp"}
    MaxRequests = 4
    MaxFaults = 2
CHECK_DEADLOCK FALSE
INVARIANTS EnableReplaysAccounts

SPECIFICATION Spec
CONSTANTS
    Requests = {r1, r2}
    SessionTTL = 1
    ChallengeTTL = 1
    MaxClock = 2
    MaxTokens = 3
    MaxSecrets = 2
    MaxEpochs = 1
    CodesPerSet = 1
    Names = {1, 2, 3, 4}
    MaxUsers = 3
    Sites = {s1}
    MaxFlows = 1
    Openers = {o1}
    Lifetime = 1
    PruneAge = 2
    MaxTime = 2
    MaxSignOns = 2
    MaxInstalls = 2
    Channels = {c1, c2}
    Trigger = 2
    Cooldown = 1
    MaxPhases = 3
    Versions = {1, 2}
    MaxCommands = 3
    MaxRows = 2
CHECK_DEADLOCK FALSE
SYMMETRY Symmetry
INVARIANTS OnlyLatestRecoveryCodes OneOwner GrantsFollowRole OpenedOnce
           InstalledIsServed AlertsAreHeard CommandsKeepThePanel
PROPERTIES EveryFactorIsSpent AdministratorsAreApart

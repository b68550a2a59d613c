CONSTANTS
    Clients = {a}
    Batteries <- LowOnly
    Horizon = 3
    Configs <- RestartConfigs
    InvalidConfig = Invalid
    RetryFloor = 2
    MaxOutages = 1
    MaxRearms = 1
    MaxFaults = 1
    MaxEdits = 0
SPECIFICATION Spec
INVARIANTS TypeOK OutageRemembered CommandOfThisOutage AcceptedBeforeAcknowledged FreshCommand FileFollowsMemory
PROPERTIES OutagesKept WakeAfterRestoreDelay CompletedMeansUp

CONSTANTS
    Clients = {a}
    Batteries <- LowOnly
    Horizon = 2
    Configs <- LookupConfigs
    InvalidConfig = Invalid
    RetryFloor = 2
    MaxOutages = 2
    MaxRearms = 0
    MaxFaults = 0
    MaxEdits = 1
SPECIFICATION FairSpec
INVARIANTS CommandOfThisOutage FileFollowsMemory
PROPERTIES OutageEnds DeliveryRetried

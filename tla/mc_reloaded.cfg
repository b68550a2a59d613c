CONSTANTS
    Clients = {a}
    Batteries <- LowOnly
    Horizon = 2
    Configs <- LookupConfigs
    InvalidConfig = Invalid
    RetryFloor = 2
    MaxOutages = 1
    MaxRearms = 0
    MaxFaults = 0
    MaxEdits = 2
SPECIFICATION Spec
PROPERTY NewCommandSchedules

CONSTANTS
    Clients = {a}
    Batteries <- MCBatteries
    Horizon = 2
    Configs <- PlainConfigs
    InvalidConfig = Invalid
    RetryFloor = 2
    MaxOutages = 1
    MaxRearms = 1
    MaxFaults = 0
    MaxEdits = 0
SPECIFICATION Spec
PROPERTY SkippedWereOffline

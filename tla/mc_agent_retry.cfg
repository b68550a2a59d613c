SPECIFICATION Spec
CONSTANTS
    Commands = {c1}
    Jobs = {j1, j2}
    Ops <- RetryOps
    Limit = 2
    Attempts = 1
    MaxKeys = 2
    MaxClock = 0
    MaxTimes = 2
    MaxFaults = 0
INVARIANT RetriesAreHarmless

SPECIFICATION Spec
CONSTANTS
    Commands = {c1, c2}
    Jobs = {j1, j2}
    Ops <- AllOps
    Limit = 1
    Attempts = 1
    MaxKeys = 2
    MaxClock = 1
    MaxTimes = 2
    MaxFaults = 1
SYMMETRY Symmetry
INVARIANTS TypeOK Usable Bounded ExecutedOnce

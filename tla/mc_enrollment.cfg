SPECIFICATION Spec
CONSTANTS
    Clients = {s1}
    Agents = {a1, a2}
    Codes = {k1, k2}
    Handlers = {h1, h2}
    NoClient = NoClient
    NoAgent = NoAgent
    NoCode = NoCode
    Manual = Manual
    MaxKeys = 2
    MaxFaults = 1
    MaxEdits = 1
SYMMETRY Symmetry
INVARIANTS TypeOK OneLiveCode RetryPossible EnrolledIsConfigured PairedIsConfigured
PROPERTY OneTimeCodes
CHECK_DEADLOCK FALSE

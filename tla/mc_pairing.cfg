SPECIFICATION Spec
CONSTANTS
    Clients = {c}
    Agents = {a1,a2}
    Handlers = {h1, h2}
    NoAgent = None
    NoClient = None
    MaxFaults = 1
    MaxResets = 1
    MaxEdits = 1
SYMMETRY Symmetry
INVARIANTS TypeOK ConfiguredIsPaired PairedIsConfigured PoliciesAgree
PROPERTIES EditsKeepPairings

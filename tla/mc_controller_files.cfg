SPECIFICATION FilesSpec
CONSTANTS
    Clients = {a, b}
    MaxRevision = 1
    MaxFaults = 1
    MaxEdits = 1
    MaxMade = 4
INVARIANTS TypeOK IdentityIsOne
PROPERTIES ReplacedWhole NeverFallsBehind ResultsComeBack

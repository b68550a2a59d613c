SPECIFICATION FairSpec
CONSTANTS
    MaxVersion = 2
    MaxFaults = 1
    MaxReinstalls = 1
INVARIANTS TypeOK PendingIsInstalled NotifiedOnce
PROPERTIES VersionNeverFalls CatchesUp

SPECIFICATION Spec
CONSTANTS
    MaxVersion = 2
    MaxFaults = 0
    MaxReinstalls = 0
INVARIANT AutomaticNotified

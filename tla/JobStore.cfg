SPECIFICATION Spec
CONSTANTS
    Jobs = {j1, j2, j3}
    MaxLines = 1
    MaxCrashes = 2
    MaxFaults = 1
    None = None
    Torn = Torn
SYMMETRY Symmetry
INVARIANTS
    TypeOK
    SettledIsDurable
    OneLossPerDeath
PROPERTIES
    RestartNeverStepsBack
\* Every job may have ended, with nothing left to create.
CHECK_DEADLOCK FALSE

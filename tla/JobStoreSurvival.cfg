SPECIFICATION Spec
CONSTANTS
    Jobs = {j1, j2}
    MaxLines = 1
    MaxCrashes = 1
    MaxFaults = 0
    None = None
    Torn = Torn
SYMMETRY Symmetry
INVARIANTS
    JobsSurviveRestarts
CHECK_DEADLOCK FALSE

SPECIFICATION Spec
CONSTANTS
    Requests = {r1, r2}
    Jobs = {j1, j2}
    MaxVersion = 2
    MaxCrashes = 1
    None = None
    Torn = Torn
INVARIANT ServerNameKept
CHECK_DEADLOCK FALSE

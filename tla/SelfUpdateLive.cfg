SPECIFICATION FairSpec
CONSTANTS
    Requests = {r1, r2}
    Jobs = {j1, j2}
    MaxVersion = 1
    MaxCrashes = 1
    None = None
    Torn = Torn
PROPERTIES
    JobsSettle
    UpdaterFreed
    RestartCompletes
CHECK_DEADLOCK FALSE

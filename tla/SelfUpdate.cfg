SPECIFICATION Spec
CONSTANTS
    Requests = {r1, r2}
    Jobs = {j1, j2, j3}
    MaxVersion = 2
    MaxCrashes = 1
    None = None
    Torn = Torn
SYMMETRY Symmetry
INVARIANTS
    TypeOK
    OneInstaller
    NoOrphanJob
    StagingIsMine
    UniformUnlessFailed
    NginxIntact
    BinarySurvives
PROPERTIES
    SuccessIsComplete
    DemotedOnlyAfterFailure
    ImplementsLifecycle
\* After a death between the two renames of installBinary there is no binary
\* to start, and the service stays down.
CHECK_DEADLOCK FALSE

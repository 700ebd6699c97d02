SPECIFICATION FairSpec
CONSTANTS
    Requests = {r1, r2}
    a = a
    b = b
    Apps = {a, b}
    Dependencies <- Needs
    Pieces = {p1, p2}
    MaxRestarts = 1
    None = None
INVARIANTS
    TypeOK
    UnfinishedHasOwner
    LastLookIsTrue
PROPERTIES
    ImplementsLifecycle
    JobsEnd
\* Every request may have been answered, and every job have ended.
CHECK_DEADLOCK FALSE

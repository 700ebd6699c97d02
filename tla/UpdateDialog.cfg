SPECIFICATION Spec
CONSTANTS
    MaxJobs = 2
    MaxReleases = 2
    MaxBoots = 1
    MaxSignIns = 1
INVARIANTS
    DoneMeansRestarted
    ShownResultIsTrue
    SecondInstallNeedsStale
PROPERTIES
    SignOutHasCause
\* The bounds end a behaviour: no more processes, sign-ins or jobs.
CHECK_DEADLOCK FALSE

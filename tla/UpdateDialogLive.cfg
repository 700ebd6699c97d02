SPECIFICATION FairSpec
CONSTANTS
    MaxJobs = 1
    MaxReleases = 1
    MaxBoots = 1
    MaxSignIns = 1
PROPERTIES
    WaitingEnds
    DeadPageLeft
\* The bounds end a behaviour: no more processes, sign-ins or jobs.
CHECK_DEADLOCK FALSE

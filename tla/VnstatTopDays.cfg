SPECIFICATION Spec
CONSTANTS
    Parts = {"vnstat"}
    a = a
    b = b
    d1 = d1
    d2 = d2
    Apps = {a, b}
    Needs <- MCNeeds
    Secrets <- MCSecrets
    Optioned = {a}
    Asks <- MCAsks
    None = None
    MaxJobs = 2
    MaxLate = 1
    MaxRestarts = 1
    Listable = {a}
    Client = rtorrent
    WebUI = rutorrent
    WithService = {a, rtorrent}
    MaxToggles = 2
    Versions <- MCVersions
    Branches <- MCBranches
    Shows = {"5.2", "5.3"}
    OffersBranch <- MCOffersBranch
    Files = {f, g, big}
    TooLarge = {big}
    NoFile = nofile
    NoBranch = nobranch
    MaxReads = 2
    Keys = {k}
    Settings = {1, 2}
    Valid = {1, 2}
    Recommended <- MCRecommended
    NoName = noname
    Patches <- MCPatches
    MaxRuns = 2
    VnstatRanges <- MCVnstatRanges
    DefaultRange = 2
    StaleRange = 0
    Earlier <- MCEarlier
    Totals = {1}
    MaxPeriods = 15
    Mounts = {m}
    Window = 4
    Smoothing = 2
    MaxClock = 10
    ChartIntervals = {60, 86400}
    DefaultInterval = 60
    OldIntervals = {604800}
    PlotWidths = {0, 5000}
    QueryCap = 3
    MaxAsked = 2
    Metrics <- MCMetrics
    NoMetrics = NoMetrics
    Retries = 3
    NoPoint = NoPoint
    Scales = {2, 10}
    DefaultScale = 10
    Unscaled = Unscaled
    Curves <- MCCurves
    Widths = {767, 768}
    FontSize = 16
    PipeSize = 2
    MaxToken = 2
    MaxChunks = 4
INVARIANTS
    TopDaysAreOverall
CHECK_DEADLOCK FALSE

SPECIFICATION FairSpec
CONSTANTS
    Second = 3
    TickUs = 2
    Bins <- MCBins
    MaxClients = 2
    MaxRequests = 1
    MaxEndpoints = 2
    MaxDatagrams = 1
    RequestTicks = 2
    SetupMax = 4
    ClockMax = 7
    U64 = 64
    CounterMax = 2
    RpsMax = 8
    DurationMax = 1
    ClientsArg <- MCClients
    RequestsArg <- MCRequests
    DurationArg <- MCDuration
    RpsArg <- MCRps
INVARIANTS
    StartsFitPlan
    ReportAddsUp
    PercentileIsUpperBound
PROPERTIES
    PacesByDeadline
    BenchmarkEnds
CHECK_DEADLOCK FALSE

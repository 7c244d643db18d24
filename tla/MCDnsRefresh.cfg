SPECIFICATION FairSpec
CONSTANTS
    a = a
    b = b
    bad = bad
    Rec = {a, b, bad}
    Conforming = {a, b}
    TtlOf <- MCTtl
    Srv = Srv
    NoLookup = NoLookup
    Interval = 2
    ForcedMin = 1
    Jitter = 1
    HasCancel = TRUE
    LocalCancel = TRUE
    ClockMax = 3
    Modulus = 8
INVARIANTS
    MemorySafe
    NothingLeaks
    PacingIsSafe
PROPERTIES
    InstallsSoundly
    RefreshEnds
CHECK_DEADLOCK FALSE

SPECIFICATION Spec
CONSTANTS
    r1 = r1
    r2 = r2
    e1 = e1
    e2 = e2
    e3 = e3
    e4 = e4
    Req = {r1}
    NoReq = NoReq
    Endpoint = {e1, e2, e3, e4}
    ServerOf <- MCDualStack
    Server <- MCThree
    IdsPerSecond = 2
    Discoveries <- MCDiscoveries
    ReplayCount = 1
    Gap <- MCGapNoFinal
    Remaining <- MCRemainingNoFinal
    FinalMs = 0
    CompletionDelivery = TRUE
    HasHook = TRUE
    ClockMax = 4
    Skew = 1
    MaxStepBacks = 1
    CounterMax = 4
INVARIANT VerdictIsRight
CHECK_DEADLOCK FALSE

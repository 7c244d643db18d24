SPECIFICATION FairSpec
CONSTANTS
    r1 = r1
    r2 = r2
    e1 = e1
    e2 = e2
    e3 = e3
    e4 = e4
    Req = {r1, r2}
    NoReq = NoReq
    Endpoint = {e1, e2}
    ServerOf <- MCTwoServers
    Server <- MCTwo
    IdsPerSecond = 2
    Discoveries <- MCOneDiscovery
    ReplayCount = 1
    Gap <- MCGapShort
    Remaining <- MCRemainingShort
    FinalMs = 1
    CompletionDelivery = TRUE
    HasHook = TRUE
    ClockMax = 3
    Skew = 0
    MaxStepBacks = 1
    CounterMax = 2
INVARIANT TimetableHolds
PROPERTIES
    EarlyAnswerIsOldest
    SendsStayInWindow
    ImplementsContract
    EveryRequestEnds
    RebindHappens
CHECK_DEADLOCK FALSE

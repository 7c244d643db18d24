SPECIFICATION Spec
CONSTANTS
    b1 = b1
    b2 = b2
    b3 = b3
    t1 = t1
    Buckets <- MCBuckets
    Contents <- MCContents
    Scenarios <- MCScenarios
    AllowCount = 2
    QuotaCap = 2
    MaxCalls = 2
    MaxPackets = 3
INVARIANTS
    FormatsAgree
    IngressAsDocumented
    OutcomeOfScenario
    ListingsWithinQuota
CHECK_DEADLOCK FALSE

SPECIFICATION MCSpec
CONSTANTS
    U64 = 256
    U32 = 16
    PortMax = 25
    MaxReplay = 25
    HostCapacity = 2
    MsPerSec = 2
    MaxSrv = 2
    FirstCapacity = 1
    FixedTtl = 12
    DefaultPolicy <- MCDefaultPolicy
    Environments <- MCEnvironments
    Keys <- MCKeys
    Issued <- MCIssued
    Claims <- MCClaims
    SrvReplies <- MCReplies
    AddressBooks <- MCBooks
    MaxStarts = 3
    MaxCount = 2
    UINT32_MAX = 7
    UINT64_MAX = 63
    MaxReplayCount = 3
    UnitMs = {0, 1, 2, 3, 7, 8, 63}
    FinalUnits = {0, 1, 2, 7}
    QuotaMs = {0, 3, 6}
    StartMs = {0, 57, 60}
INVARIANTS
    OptionsExact
    ClientMatchesKey
    ServersArePublished
    RefusalReleasesAll
    WorkOncePerAdmission
    OneReportPerAdmission
    HandleIsLive
    TtlIsWholeSchedule
    WalkEndsAtTtl
PROPERTIES
    ReportsOwnWork
CHECK_DEADLOCK FALSE

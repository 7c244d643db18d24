SPECIFICATION FairSpec
CONSTANTS
    Job = {j1, j2}
    NoJob = NoJob
    Servers = {"civetweb", "lwan", "onion"}
    Outcome = {"allowed", "rate"}
    PipeRoom = 1
INVARIANTS
    JobsAreAlive
    WorkIsAnsweredAllowed
    NothingLeft
PROPERTIES
    EveryJobAnswered
CHECK_DEADLOCK FALSE

SPECIFICATION Spec
CONSTANTS
    Job = {j1, j2}
    NoJob = NoJob
    Servers = {"civetweb", "lwan", "onion"}
    Outcome = {"allowed", "rate"}
    PipeRoom = 1
INVARIANT
    RebindKeepsBridge
CHECK_DEADLOCK FALSE

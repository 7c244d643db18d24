SPECIFICATION MCSpec
CONSTANTS
    R_STEERING_PORT_MIN = 2
    PortMax = 4
    f1 = f1
    f2 = f2
    f3 = f3
    f4 = f4
    f5 = f5
    Fd = {f1, f2, f3, f4, f5}
    NoFd = NoFd
    MaxInflight = 2
    Rebuild = "rebind"
SYMMETRY FdSymmetry
INVARIANTS
    OnlyOwnedRead
    NoDescriptorLeak
    SelectsNearest
PROPERTIES
    MovesTogether
    NoEarlyReuse
CHECK_DEADLOCK FALSE

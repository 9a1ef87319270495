CONSTANTS
    p1 = p1
    p2 = p2
    none = none
    Ports = {p1, p2}
    NoPort = none
    HairpinPorts = {p2}
    BatchSize = 1
    PollUs = 1
    MaxPending <- FewPending
    MaxUpsets = 1
SPECIFICATION Spec
INVARIANTS TypeOK NoLostWakeup AsleepIsWakeable ShutdownNotMissed
PROPERTY ImplementsService
CHECK_DEADLOCK FALSE

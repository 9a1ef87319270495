CONSTANTS
    p1 = p1
    none = none
    Ports = {p1}
    NoPort = none
    HairpinPorts = {p1}
    BatchSize = 1
    PollUs = 0
    MaxPending <- TwoPending
    MaxUpsets = 0
SPECIFICATION SafeSpec
INVARIANT NoLostWakeupAnyPort
CHECK_DEADLOCK FALSE

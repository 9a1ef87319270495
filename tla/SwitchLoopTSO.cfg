CONSTANTS
    p1 = p1
    none = none
    Ports = {p1}
    NoPort = none
    HairpinPorts = {}
    BatchSize = 1
    PollUs = 0
    MaxPending <- TwoPending
    MaxUpsets = 0
SPECIFICATION TSOSpec
INVARIANT NotifiesBeforePolling
CHECK_DEADLOCK FALSE

CONSTANTS
    v = v
    up = up
    none = none
    VirtioPorts = {v}
    Upstream = up
    NoPort = none
    Registered <- RegisteredInCode
    MaxUpdates = 3
SPECIFICATION RcuSpec
INVARIANT DisableWaits
CHECK_DEADLOCK FALSE

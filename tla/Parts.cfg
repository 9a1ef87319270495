CONSTANTS
    p1 = p1
    p2 = p2
    q1 = q1
    q2 = q2
    q3 = q3
    zero = zero
    s1 = s1
    s2 = s2
    group = group
    v = v
    up = up
    none = none
    b1 = b1
    b2 = b2
    TX_LEN = 5
    Packets = {p1, p2}
    MaxFragments = 2
    RX_LEN = 7
    RX_BUFFERS = 4
    MaxChain = 3
    AddressSpace = 6
    MaxMappings = 3
    BYTE = 2
    LONG_WORDS = 2
    UNROLLED = 3
    Stations = {zero, s1, s2}
    Zero = zero
    Group = group
    TablePorts = {q1, q2, q3}
    Buckets = {b1, b2}
    WAYS = 1
    VirtioPorts = {v}
    Upstream = up
    NoPort = none
    Registered <- RegisteredInCode
    MaxUpdates = 2
SPECIFICATION Spec
INVARIANTS TxTypeOK ReadsLentOnly TxInOrder
INVARIANTS RxTypeOK BuffersConserved FramesWhole
INVARIANTS ConfigTypeOK AttachedAsConfigured UsesConfigured ThrownOutIfWrong
INVARIANTS MemoryTypeOK RegionsApart TranslatesRegions MappedOnce
INVARIANTS ChecksumTypeOK CarriesKept
INVARIANTS RcuTypeOK ReclaimedOnce NothingLeaked
PROPERTIES ImplementsUplink BuffersReturn DeliversToLatest
CHECK_DEADLOCK FALSE

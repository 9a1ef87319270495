CONSTANTS
    BYTE = 2
    LONG_WORDS = 4
    UNROLLED = 4
SPECIFICATION Spec
INVARIANT ChecksumRight
CHECK_DEADLOCK FALSE

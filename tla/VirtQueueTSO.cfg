CONSTANTS
    QUEUE_ELEMENTS = 2
    IndexModulus = 4
    BatchSize = 1
    Size <- TwoSizes
    MaxRefills = 2
SPECIFICATION TSOSpec
INVARIANT InterruptsTold
CHECK_DEADLOCK FALSE

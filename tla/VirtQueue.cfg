CONSTANTS
    QUEUE_ELEMENTS = 2
    IndexModulus = 4
    BatchSize = 1
    Size <- Sizes
    MaxRefills = 5
SPECIFICATION Spec
INVARIANTS TypeOK ChainsConserved PacketsComplete NoLostInterrupt BrokenOnlyIfIllegal
PROPERTY ImplementsLink
CHECK_DEADLOCK FALSE

CONSTANTS
    c1 = c1
    c2 = c2
    c3 = c3
    Clients = {c1, c2}
    Descriptors <- Numbers
    MSIX_VECTORS = 1
    MaxRequests = 3
SPECIFICATION Spec
INVARIANTS TypeOK SessionsApart NothingForgotten
PROPERTY RequestsTaken
CHECK_DEADLOCK FALSE

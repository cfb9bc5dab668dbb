SPECIFICATION FairSpec
CONSTANTS
    Clients = {c1}
    MaxRequests = 1
    StopAt = 0
    FdLimit = 2
PROPERTIES
    ShutdownEnds
CHECK_DEADLOCK FALSE

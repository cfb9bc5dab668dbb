SPECIFICATION FairSpec
CONSTANTS
    Clients = {c1, c2}
    MaxRequests = 1
    StopAt = 0
    FdLimit = 2
INVARIANTS
    TypeOK
PROPERTIES
    QuietShutdownEnds
CHECK_DEADLOCK FALSE

SPECIFICATION FairSpec
CONSTANTS
    Clients = {c1, c2}
    MaxRequests = 3
    StopAt = 4
    FdLimit = 2
INVARIANTS
    ModeIsAsTold
PROPERTIES
    RequestsAnswered
    SessionsEnd
CHECK_DEADLOCK FALSE

SPECIFICATION FairSpec
CONSTANTS
    Threads = {t1, t2, t3}
    Nobody = nobody
    LastLine = 2
    Vals = {0}
    Zero = 0
    StripeCount = 2
    InitLines = 2
    MaxOps = 1
    Kinds = {"write", "read", "reserve"}
    Faults = {"ftruncate", "mmap"}
INVARIANTS
    FileSizeBacked
    RemapIsExclusive
PROPERTIES
    AllOperationsEnd
CHECK_DEADLOCK FALSE

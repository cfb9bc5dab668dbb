SPECIFICATION Spec
CONSTANTS
    Threads = {t1, t2, t3}
    Nobody = nobody
    LastLine = 2
    Vals = {0, 1}
    Zero = 0
    StripeCount = 2
    InitLines = 2
    MaxOps = 1
    Kinds = {"write", "set", "read", "view", "reserve"}
    Faults = {}
SYMMETRY ThreadSymmetry
INVARIANTS
    TextViewIsMapped
CHECK_DEADLOCK FALSE

SPECIFICATION Spec
CONSTANTS
    Inserters = {t1, t2}
    Deleters = {}
    Updaters = {}
    Cols = 1
    Vals = {1}
    Zero = 0
    InitLines = 3
    LastLine = 5
    SizeMax = 100
    MaxOps = 1
    MaxOpens = 0
SYMMETRY ThreadSymmetry
INVARIANTS
    InsertTakesFreeLine
CHECK_DEADLOCK FALSE

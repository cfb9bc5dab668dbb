SPECIFICATION Spec
CONSTANTS
    Inserters = {t1, t2}
    Deleters = {t1}
    Updaters = {t1, t2}
    Cols = 1
    Vals = {1}
    Zero = 0
    InitLines = 2
    LastLine = 5
    SizeMax = 100
    MaxOps = 3
    MaxOpens = 1
SYMMETRY ThreadSymmetry
INVARIANTS
    TypeOK
    ScanReachesEveryRow
    TouchedLinesExist
    CounterCoversRows
CHECK_DEADLOCK FALSE

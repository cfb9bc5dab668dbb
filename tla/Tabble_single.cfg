SPECIFICATION Spec
CONSTANTS
    Inserters = {t1}
    Deleters = {t1}
    Updaters = {t1}
    Cols = 2
    Vals = {1, 2}
    Zero = 0
    InitLines = 2
    LastLine = 4
    SizeMax = 100
    MaxOps = 5
    MaxOpens = 2
INVARIANTS
    LinesAccountedFor
    ScanStaysInFile
PROPERTIES
    TableSpec
CHECK_DEADLOCK FALSE

SPECIFICATION Spec
CONSTANTS
    Clients = {c1, c2, c3}
    Names = {d1, d2, backupDir}
    Default = d1
    BackupDir = backupDir
    Tables = {t1}
    Backups = {b1}
    Nobody = nobody
    Null = null
    Faults = TRUE
    MaxOps = 5
    MaxStarts = 1
SYMMETRY ClientSymmetry
INVARIANTS
    TypeOK
    IdsNeverMove
    TablesOpenedOnce
    DiskAgrees
    NamesLeadSomewhere
PROPERTIES
    BackupsKept
CHECK_DEADLOCK FALSE

SPECIFICATION Spec
CONSTANTS
    Reader = reader
    Writer = writer
    Clients = {reader, writer}
    Columns <- NameAndAge
    Contents <- TwoRows
    Erased <- LongName
    Statements <- ReaderAndWriter
    FileLines = 3
    SizeMax = 100
    MaxOps = 1
INVARIANTS
    TypeOK
    OnlyWantedRows
    EveryWantedRow
    ChangesAsTold
    RecordsShowRows
    WellPosedSurvive
CHECK_DEADLOCK FALSE

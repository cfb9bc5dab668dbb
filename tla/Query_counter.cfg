SPECIFICATION Spec
CONSTANTS
    Reader = reader
    Writer = writer
    Clients = {reader, writer}
    Columns <- NameAndAge
    Contents <- LongName
    Erased = {}
    Statements <- InsertAndDelete
    FileLines = 3
    SizeMax = 100
    MaxOps = 3
INVARIANTS
    WellPosedSurvive
CHECK_DEADLOCK FALSE

SPECIFICATION Spec
CONSTANTS
    f = f
    g = g
    long = long
    a = a
    b = b
    nl = nl
    Blank = Blank
    NoName = NoName
    Absent = Absent
    Names = {f, g, long}
    LongNames = {long}
    Lines <- MCLines
    Seeds <- MCSeeds
    EntriesPerSector = 2
    TableSectors = 1
    SectorLen = 3
    ExtentSectors = 2
    DataStart = 4
    TotalSectors = 8
    U32 = 8
    WriteFaults = {"lost"}
    ReadFaults = {"abandoned"}
    MaxFaults = 1
    MaxBoots = 1
PROPERTIES
    SavedBytesStay

SPECIFICATION Spec
CONSTANTS
    f = f
    g = g
    long = long
    a = a
    b = b
    nl = nl
    Blank = Blank
    NoName = NoName
    Absent = Absent
    Names = {f, g, long}
    LongNames = {}
    Lines <- MCLines
    Seeds <- MCSeeds
    EntriesPerSector = 1
    TableSectors = 2
    SectorLen = 2
    ExtentSectors = 2
    DataStart = 4
    TotalSectors = 8
    U32 = 8
    WriteFaults = {}
    ReadFaults = {}
    MaxFaults = 0
    MaxBoots = 3
INVARIANTS
    NamesUnique

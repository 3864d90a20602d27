SPECIFICATION FairSpec
CONSTANTS
    f = f
    g = g
    long = long
    a = a
    b = b
    nl = nl
    Blank = Blank
    NoName = NoName
    Absent = Absent
    Names = {f, g, long}
    LongNames = {long}
    Lines <- MCLines
    Seeds <- MCSeeds
    EntriesPerSector = 2
    TableSectors = 1
    SectorLen = 2
    ExtentSectors = 2
    DataStart = 4
    TotalSectors = 8
    U32 = 8
    WriteFaults = {"lost", "late"}
    ReadFaults = {"refused"}
    MaxFaults = 2
    MaxBoots = 2
INVARIANTS
    ExtentsApart
    IInv
    AckedIsStored
PROPERTIES
    AllocatorNeverRewinds
    SavedBytesStay
    ImplementsLineStore
    CommandEnds

SPECIFICATION Spec
CONSTANTS
    Printable = {"2"}
    Slots = 2
    HistSlots = 2
    MaxLine = 1
    MaxInput = 1
    Width = 5
    LastRow = 2
    MaxCommands = 3
INVARIANTS
    TypeOK
    CursorFollowsLine
    FilesSelectionExists
PROPERTIES
    RecallIsRecent

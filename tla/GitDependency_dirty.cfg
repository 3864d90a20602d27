SPECIFICATION Spec
CONSTANTS
    p1 = p1
    Procs = {p1}
    MaxCommit = 1
    Declared <- OneDeclared
    Nested = {1}
    Specs <- OneSpec
    None = None
    MaxCommands = 2
    MaxChanges = 0
    MaxFaults = 0
INVARIANTS DirtyMeansEdited
CHECK_DEADLOCK FALSE

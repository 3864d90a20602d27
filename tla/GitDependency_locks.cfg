SPECIFICATION Spec
CONSTANTS
    p1 = p1
    p2 = p2
    Procs = {p1, p2}
    MaxCommit = 3
    Declared <- MCDeclared
    Nested = {2}
    Specs <- MCSpecs
    None = None
    MaxCommands = 2
    MaxChanges = 2
    MaxFaults = 1
INVARIANTS TypeOK LockedAsAsked
CHECK_DEADLOCK FALSE
SYMMETRY Symmetry

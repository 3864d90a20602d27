SPECIFICATION Spec
CONSTANTS
    p1 = p1
    p2 = p2
    p3 = p3
    Procs = {p1, p2, p3}
    Earlier = Earlier
    NoFile = NoFile
    Damaged = Damaged
    MaxPolls = 1
    MaxKills = 1
    MaxRemovals = 1
INVARIANTS TypeOK LockMeansBuilder ReturnedStaysWhole
PROPERTIES EveryBuildEnds
CHECK_DEADLOCK FALSE

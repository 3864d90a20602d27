SPECIFICATION AtaSpec
CONSTANTS
    MaxPolls = 3
    MaxCalls = 4
INVARIANTS
    ReadTrueMeansRead
CHECK_DEADLOCK FALSE

SPECIFICATION AtaSpec
CONSTANTS
    MaxPolls = 3
    MaxCalls = 4
INVARIANTS
    AtaTypeOK
    ReadTrueUntilAbandoned
    WriteTrueUntilFault
PROPERTIES
    CallReturns
CHECK_DEADLOCK FALSE

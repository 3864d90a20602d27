SPECIFICATION Spec
CONSTANTS
    Idents = {"x", "f", "Box", "i64"}
    Ints = {"1"}
    MaxGrowth = 2
INVARIANT ParsesAsWritten


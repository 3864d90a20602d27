SPECIFICATION Spec
CONSTANTS
    x = x
    y = y
    Names = {x, y}
    Styles <- Nested
    Shadowing = TRUE
SYMMETRY Renamings
INVARIANTS
    DestroyedOnce
CHECK_DEADLOCK FALSE

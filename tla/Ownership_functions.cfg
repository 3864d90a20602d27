SPECIFICATION Spec
CONSTANTS
    x = x
    y = y
    Names = {x, y}
    Styles <- AllStyles
    Shadowing = FALSE
SYMMETRY Renamings
INVARIANTS
    FollowedDestroyedOnce
    UsedWhole
    NothingLeaks
    ReverseOrder
CHECK_DEADLOCK FALSE

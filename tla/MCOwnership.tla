---------------------------- MODULE MCOwnership ----------------------------
(* Ownership for TLC: the names are interchangeable.                       *)
EXTENDS Ownership, TLC

Renamings == Permutations(Names)

Style(void, bound, forms) == [void |-> void, bound |-> bound, forms |-> forms]

Branches == Style(TRUE, 5, {"let", "letMove", "take", "use", "destroy", "if"})
Returns == Style(TRUE, 4, {"let", "letMove", "take", "destroy", "block", "if", "return"})
Loops == Style(TRUE, 4, {"let", "take", "while", "if", "block", "break", "continue",
                          "return"})
Escapes == Style(TRUE, 6, {"let", "take", "forever", "break", "continue"})
Results == Style(FALSE, 5, {"let", "letMove", "take", "takeTry", "try", "if",
                            "returnMove", "match"})
Defers == Style(TRUE, 5, {"let", "deferUse", "if", "return"})
Manual == Style(TRUE, 5, {"let", "letField", "destroy", "deferDestroy", "use", "return"})
Repeated == Style(TRUE, 5, {"let", "letField", "destroy", "while", "whileMove"})

AllStyles == {Branches, Returns, Loops, Escapes, Results, Defers, Manual, Repeated}
Nested == {Style(TRUE, 4, {"let", "if", "return"})}
=============================================================================

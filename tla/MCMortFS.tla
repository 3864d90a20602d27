----------------------------- MODULE MCMortFS ------------------------------
(* Small instances of MortFS for TLC. *)
EXTENDS MortFS

CONSTANTS f, g, long        \* names

CONSTANTS a, b, nl          \* bytes

(* "a\n" fits in a sector and a half of two bytes, "bb\n" spans two. *)
MCLines == {<<a, nl>>, <<b, b, nl>>}
MCOneLine == {<<b, b, nl>>}

(* An empty image, and one with a file that ends inside a sector. *)
MCSeeds == {<< >>, <<[name |-> g, content |-> <<nl>>]>>}

=============================================================================

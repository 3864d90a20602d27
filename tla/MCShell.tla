------------------------------ MODULE MCShell ------------------------------
(* Small instances of Shell for TLC. *)
EXTENDS Shell

CONSTANTS f, g                                      \* names
CONSTANTS echo, writeF, rmF, runF, runG, catG, execF    \* tokens

C(op, n) == [op |-> op, name |-> n, text |-> echo]

AllCmd == (echo :> C("echo", f)) @@ (writeF :> C("write", f)) @@ (rmF :> C("rm", f))
            @@ (runF :> C("run", f)) @@ (runG :> C("run", g))
            @@ (catG :> C("cat", g)) @@ (execF :> C("exec", f))

(* Files of two lines, with and without the final newline, next to none,   *)
(* an empty one, one with a line too long, and ones that fill a sector.    *)
Pair(x, y) == {<<x, Newline, y, Newline>>, <<x, Newline, y>>}
AllFiles ==
    {(f :> cf) @@ (g :> cg) :
        cf \in UNION {Pair(x, y) : x, y \in {writeF, rmF, runF, runG, catG, execF}},
        cg \in {Absent, << >>, <<echo, echo, echo, Newline>>, <<runF, rmF, Newline, Newline>>,
               <<runF, echo, Newline, runF>>}}
AllBoot == {<< >>, <<runF, Newline, execF>>}

=============================================================================

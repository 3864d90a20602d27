-------------------------- MODULE MCGitDependency ---------------------------
EXTENDS GitDependency, TLC
Symmetry == Permutations(Procs)
Word(n) == [numeric |-> FALSE, value |-> n]
Number(n) == [numeric |-> TRUE, value |-> n]
One == Release(1, 0, 0)
Alpha == [core |-> <<2, 0, 0>>, pre |-> <<Word(1)>>]
MCDeclared == <<One, Alpha, Alpha>>
OneDeclared == <<One>>
Ask(url, kind) ==
    [url |-> url, kind |-> kind, tag |-> One, commit |-> 2,
     clauses |-> {[op |-> "^", version |-> One]}]
Typo == [Ask("origin", "tag") EXCEPT !.tag = Release(9, 9, 9)]
MCSpecs == {Ask("origin", k) : k \in {"branch", "tag", "range", "registry"}}
           \cup {Ask("fork", "branch"), Typo}
OneSpec == {Ask("origin", "branch")}

\* the order of versions is total, over these versions of every shape
Pres == {<<>>, <<Number(0)>>, <<Number(1)>>, <<Word(0)>>, <<Number(0), Word(0)>>,
         <<Word(0), Number(0)>>, <<Word(0), Number(1)>>}
SomeVersions == {[core |-> <<i, j, k>>, pre |-> q] : i, j \in 0 .. 1, k \in 0 .. 1, q \in Pres}
ASSUME OrderAssumption ==
    /\ \A v, w \in SomeVersions : v # w => (Below(v, w) <=> ~Below(w, v))
    /\ \A u, v \in SomeVersions : Below(u, v) =>
           \A w \in SomeVersions : Below(v, w) => Below(u, w)
=============================================================================

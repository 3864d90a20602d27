------------------------------- MODULE Semver -------------------------------
(***************************************************************************)
(* Versions and constraints of mort/project.py.  A version has a core of   *)
(* three numbers and pre-release identifiers, each a number or a word; a   *)
(* word stands as its place in the order of words.  Build metadata, which  *)
(* the code drops, is left out.  A constraint is a set of clauses.         *)
(***************************************************************************)
EXTENDS Naturals, Sequences

Identifiers == [numeric : BOOLEAN, value : Nat]
SemverVersions == [core : [1..3 -> Nat], pre : Seq(Identifiers)]
Release(major, minor, patch) == [core |-> <<major, minor, patch>>, pre |-> <<>>]

\* a number comes before a word
IdBelow(l, r) ==
    IF l.numeric = r.numeric THEN l.value < r.value ELSE l.numeric
\* the first identifier that differs decides, then the length
PreBelow(l, r) ==
    \/ Len(l) < Len(r) /\ \A i \in 1..Len(l) : l[i] = r[i]
    \/ \E i \in 1..Len(l) : /\ i <= Len(r) /\ IdBelow(l[i], r[i])
                            /\ \A j \in 1..(i - 1) : l[j] = r[j]
CoreBelow(l, r) ==
    \E i \in 1..3 : l[i] < r[i] /\ \A j \in 1..(i - 1) : l[j] = r[j]

(* _compare_semver(left, right) < 0.  A pre-release is below its release.  *)
Below(left, right) ==
    \/ CoreBelow(left.core, right.core)
    \/ /\ left.core = right.core
       /\ IF left.pre = <<>> \/ right.pre = <<>>
          THEN left.pre # <<>> /\ right.pre = <<>>
          ELSE PreBelow(left.pre, right.pre)

(* The least version that a caret or a tilde excludes.                     *)
CaretEnd(v) ==
    CASE v.core[1] > 0 -> Release(v.core[1] + 1, 0, 0)
      [] v.core[1] = 0 /\ v.core[2] > 0 -> Release(0, v.core[2] + 1, 0)
      [] OTHER -> Release(0, 0, v.core[3] + 1)
TildeEnd(v) == Release(v.core[1], v.core[2] + 1, 0)

(* One clause of semver_satisfies: ^, ~, a wildcard with its fixed         *)
(* numbers, or a comparison.                                               *)
Clause(v, c) ==
    CASE c.op = "^" -> ~Below(v, c.version) /\ Below(v, CaretEnd(c.version))
      [] c.op = "~" -> ~Below(v, c.version) /\ Below(v, TildeEnd(c.version))
      [] c.op = "x" -> \A i \in 1..Len(c.fixed) : v.core[i] = c.fixed[i]
      [] c.op = "=" -> ~Below(v, c.version) /\ ~Below(c.version, v)
      [] c.op = ">" -> Below(c.version, v)
      [] c.op = ">=" -> ~Below(v, c.version)
      [] c.op = "<" -> Below(v, c.version)
      [] c.op = "<=" -> ~Below(c.version, v)
Satisfies(v, constraint) == \A c \in constraint : Clause(v, c)

(* select_semver: the highest of the versions that satisfy.                *)
Matches(versions, constraint) == {v \in versions : Satisfies(v, constraint)}
Select(versions, constraint) ==
    CHOOSE v \in Matches(versions, constraint) :
        \A w \in Matches(versions, constraint) : ~Below(v, w)
=============================================================================

------------------------ MODULE GitDependencyProofs -------------------------
(***************************************************************************)
(* Proofs about Semver for every version, and about GitDependency for every*)
(* set of commands, every history of the remote and every bound.           *)
(***************************************************************************)
EXTENDS GitDependency, Integers, NaturalsInduction, WellFoundedInduction, SequenceTheorems,
        FiniteSetTheorems, TLAPS

-----------------------------------------------------------------------------
(* The order of versions. *)

(* A set of numbers that is not empty has a least one.                     *)
LEMMA Least ==
    ASSUME NEW T \in SUBSET Nat, T # {}
    PROVE  \E n \in T : \A m \in T : n <= m
<1> DEFINE R == {ss \in Nat \X Nat : ss[1] < ss[2]}
<1>1. IsWellFoundedOn(R, Nat)
    BY NatLessThanWellFounded DEF OpToRel
<1> HIDE DEF R
<1>2. PICK n \in T : \A m \in T : ~(<<m, n>> \in R)
    BY <1>1, WFMin
<1>3. ASSUME NEW m \in T, ~(n <= m)
      PROVE  FALSE
    <2>1. <<m, n>> \in R
        BY <1>3 DEF R
    <2>2. QED BY <1>2, <2>1
<1>4. QED BY <1>3

(* Identifiers are in a strict total order: numbers, and then words.       *)
LEMMA IdOrder ==
    ASSUME NEW l \in Identifiers, NEW m \in Identifiers, NEW r \in Identifiers
    PROVE  /\ l = m \/ IdBelow(l, m) \/ IdBelow(m, l)
           /\ ~IdBelow(l, l)
           /\ IdBelow(l, m) /\ IdBelow(m, r) => IdBelow(l, r)
BY DEF Identifiers, IdBelow

Pres == Seq(Identifiers)

(* Pre-releases are ordered by the first identifier in which they differ,  *)
(* and then by their length.                                               *)
LEMMA PreTotal ==
    ASSUME NEW l \in Pres, NEW r \in Pres, l # r
    PROVE  PreBelow(l, r) \/ PreBelow(r, l)
<1>1. /\ Len(l) \in Nat /\ Len(r) \in Nat
      /\ \A i \in 1 .. Len(l) : l[i] \in Identifiers
      /\ \A i \in 1 .. Len(r) : r[i] \in Identifiers
    BY LenProperties, ElementOfSeq DEF Pres
<1> DEFINE T == {i \in Nat : i \in 1 .. Len(l) /\ i \in 1 .. Len(r) /\ l[i] # r[i]}
<1>2. CASE T = {}
    <2>1. \A i \in 1 .. Len(l) : i \in 1 .. Len(r) => l[i] = r[i]
        BY <1>2
    <2>2. Len(l) # Len(r)
        BY <1>1, <2>1, SeqEqual DEF Pres
    <2>3. CASE Len(l) < Len(r)
        BY <1>1, <2>1, <2>3 DEF PreBelow
    <2>4. CASE Len(r) < Len(l)
        BY <1>1, <2>1, <2>4 DEF PreBelow
    <2>5. QED BY <1>1, <2>2, <2>3, <2>4
<1>3. CASE T # {}
    <2>1. PICK m \in T : \A i \in T : m <= i
        <3>1. T \in SUBSET Nat
            OBVIOUS
        <3> HIDE DEF T
        <3>2. QED BY <1>3, <3>1, Least
    <2>2. /\ m \in 1 .. Len(l) /\ m \in 1 .. Len(r) /\ l[m] # r[m]
          /\ \A j \in 1 .. (m - 1) : l[j] = r[j]
        BY <1>1, <2>1
    <2>3. IdBelow(l[m], r[m]) \/ IdBelow(r[m], l[m])
        BY <1>1, <2>2, IdOrder
    <2>4. QED BY <1>1, <2>2, <2>3 DEF PreBelow
<1>4. QED BY <1>2, <1>3

(* No prerelease is below itself.                                          *)
LEMMA PreIrreflexive ==
    ASSUME NEW l \in Pres
    PROVE  ~PreBelow(l, l)
<1>1. Len(l) \in Nat /\ \A i \in 1 .. Len(l) : l[i] \in Identifiers
    BY LenProperties, ElementOfSeq DEF Pres
<1>2. QED BY <1>1, IdOrder DEF PreBelow

(* The order of prereleases is transitive.                                 *)
LEMMA PreTransitive ==
    ASSUME NEW l \in Pres, NEW m \in Pres, NEW r \in Pres, PreBelow(l, m), PreBelow(m, r)
    PROVE  PreBelow(l, r)
<1>1. /\ Len(l) \in Nat /\ Len(m) \in Nat /\ Len(r) \in Nat
      /\ \A i \in 1 .. Len(l) : l[i] \in Identifiers
      /\ \A i \in 1 .. Len(m) : m[i] \in Identifiers
      /\ \A i \in 1 .. Len(r) : r[i] \in Identifiers
    BY LenProperties, ElementOfSeq DEF Pres
<1> DEFINE Shorter(s, t) == Len(s) < Len(t) /\ \A i \in 1 .. Len(s) : s[i] = t[i]
           At(s, t, i) == /\ i \in 1 .. Len(s) /\ i <= Len(t) /\ IdBelow(s[i], t[i])
                          /\ \A j \in 1 .. (i - 1) : s[j] = t[j]
<1>2. \A s, t : PreBelow(s, t) <=> Shorter(s, t) \/ \E i : At(s, t, i)
    BY DEF PreBelow
<1>3. CASE Shorter(l, m) /\ Shorter(m, r)
    BY <1>1, <1>3 DEF PreBelow
<1>4. ASSUME NEW i, At(l, m, i), Shorter(m, r)
      PROVE  PreBelow(l, r)
    <2>1. At(l, r, i)
        BY <1>1, <1>4
    <2>2. QED BY <1>2, <2>1
<1>5. ASSUME NEW i, At(m, r, i), Shorter(l, m)
      PROVE  PreBelow(l, r)
    <2>1. CASE i <= Len(l)
        <3>1. At(l, r, i)
            BY <1>1, <1>5, <2>1
        <3>2. QED BY <1>2, <3>1
    <2>2. CASE ~(i <= Len(l))
        <3>1. Shorter(l, r)
            BY <1>1, <1>5, <2>2
        <3>2. QED BY <1>2, <3>1
    <2>3. QED BY <2>1, <2>2
<1>6. ASSUME NEW i, NEW k, At(l, m, i), At(m, r, k)
      PROVE  PreBelow(l, r)
    <2>1. CASE i < k
        <3>1. At(l, r, i)
            BY <1>1, <1>6, <2>1
        <3>2. QED BY <1>2, <3>1
    <2>2. CASE k < i
        <3>1. At(l, r, k)
            BY <1>1, <1>6, <2>2
        <3>2. QED BY <1>2, <3>1
    <2>3. CASE i = k
        <3>1. IdBelow(l[i], r[i])
            <4>1. l[i] \in Identifiers /\ m[i] \in Identifiers /\ r[i] \in Identifiers
                BY <1>1, <1>6, <2>3
            <4>2. QED BY <1>6, <2>3, <4>1, IdOrder
        <3>2. At(l, r, i)
            BY <1>1, <1>6, <2>3, <3>1
        <3>3. QED BY <1>2, <3>2
    <2>4. QED BY <1>1, <1>6, <2>1, <2>2, <2>3
<1> HIDE DEF Shorter, At
<1>7. QED BY <1>2, <1>3, <1>4, <1>5, <1>6

(* Three numbers, the first most significant.                              *)
Cores == [1 .. 3 -> Nat]

(* Major, minor and patch numbers are totally ordered.                     *)
LEMMA CoreOrder ==
    ASSUME NEW l \in Cores, NEW m \in Cores, NEW r \in Cores
    PROVE  /\ l = m \/ CoreBelow(l, m) \/ CoreBelow(m, l)
           /\ ~CoreBelow(l, l)
           /\ CoreBelow(l, m) /\ CoreBelow(m, r) => CoreBelow(l, r)
<1> DEFINE Lex(s, t) == s[1] < t[1] \/ (s[1] = t[1] /\ (s[2] < t[2] \/ (s[2] = t[2] /\ s[3] < t[3])))
<1>1. ASSUME NEW s \in Cores, NEW t \in Cores
      PROVE  /\ CoreBelow(s, t) <=> Lex(s, t)
             /\ s[1] \in Nat /\ s[2] \in Nat /\ s[3] \in Nat
             /\ s[1] = t[1] /\ s[2] = t[2] /\ s[3] = t[3] => s = t
    <2>1. s[1] \in Nat /\ s[2] \in Nat /\ s[3] \in Nat
        BY DEF Cores
    <2>2. CoreBelow(s, t) => Lex(s, t)
        BY DEF CoreBelow, Cores
    <2>3. Lex(s, t) => CoreBelow(s, t)
        <3>1. CASE s[1] < t[1]
            BY <3>1 DEF CoreBelow
        <3>2. CASE s[1] = t[1] /\ s[2] < t[2]
            BY <3>2 DEF CoreBelow
        <3>3. CASE s[1] = t[1] /\ s[2] = t[2] /\ s[3] < t[3]
            BY <3>3 DEF CoreBelow
        <3>4. QED BY <3>1, <3>2, <3>3
    <2>4. s[1] = t[1] /\ s[2] = t[2] /\ s[3] = t[3] => s = t
        BY DEF Cores
    <2>5. QED BY <2>1, <2>2, <2>3, <2>4
<1>2. QED BY <1>1

(* Versions are in a strict total order, as semantic versioning has it: a  *)
(* release is above its pre-releases.                                      *)
THEOREM BelowIsTotalOrder ==
    ASSUME NEW u \in SemverVersions, NEW v \in SemverVersions, NEW w \in SemverVersions
    PROVE  /\ u = v \/ Below(u, v) \/ Below(v, u)
           /\ ~Below(u, u)
           /\ Below(u, v) /\ Below(v, w) => Below(u, w)
<1>1. /\ u.core \in Cores /\ v.core \in Cores /\ w.core \in Cores
      /\ u.pre \in Pres /\ v.pre \in Pres /\ w.pre \in Pres
      /\ u.core = v.core /\ u.pre = v.pre => u = v
    BY DEF SemverVersions, Cores, Pres
<1>2. u = v \/ Below(u, v) \/ Below(v, u)
    BY <1>1, CoreOrder, PreTotal DEF Below
<1>3. ~Below(u, u)
    BY <1>1, CoreOrder, PreIrreflexive DEF Below
<1>4. ASSUME Below(u, v), Below(v, w)
      PROVE  Below(u, w)
    BY <1>1, <1>4, CoreOrder, PreTransitive DEF Below
<1>5. QED BY <1>2, <1>3, <1>4

(* Among finitely many versions there is one that none is above.           *)
LEMMA Highest ==
    ASSUME NEW M \in SUBSET SemverVersions, IsFiniteSet(M), M # {}
    PROVE  \E v \in M : \A w \in M : ~Below(v, w)
<1> DEFINE Top(S) == \E v \in S : \A w \in S : ~Below(v, w)
           T == {n \in Nat : \E S \in SUBSET SemverVersions :
                                /\ IsFiniteSet(S) /\ Cardinality(S) = n /\ S # {} /\ ~Top(S)}
<1>1. T = {}
    <2> SUFFICES ASSUME T # {}
                 PROVE  FALSE
        OBVIOUS
    <2>1. PICK n \in T : \A m \in T : n <= m
        <3>1. T \in SUBSET Nat
            OBVIOUS
        <3> HIDE DEF T
        <3>2. QED BY <3>1, Least
    <2>2. PICK S \in SUBSET SemverVersions :
             IsFiniteSet(S) /\ Cardinality(S) = n /\ S # {} /\ ~Top(S)
        BY <2>1
    <2>3. PICK x \in S : TRUE
        BY <2>2
    <2> DEFINE R == S \ {x}
    <2>4. IsFiniteSet(R) /\ Cardinality(R) = n - 1 /\ n \in Nat /\ n - 1 \in Nat
        <3>1. n \in Nat
            OBVIOUS
        <3>2. IsFiniteSet(R) /\ Cardinality(R) = n - 1
            BY <2>2, <2>3, FS_RemoveElement
        <3>3. Cardinality(R) \in Nat
            BY <3>2, FS_CardinalityType
        <3>4. QED BY <3>1, <3>2, <3>3
    <2>5. R = {} \/ Top(R)
        <3>1. n - 1 \notin T
            <4> HIDE DEF T
            <4>1. QED BY <2>1, <2>4
        <3>2. R \in SUBSET SemverVersions
            OBVIOUS
        <3> HIDE DEF R, Top
        <3>3. QED BY <2>4, <3>1, <3>2
    <2>6. x \in SemverVersions /\ ~Below(x, x)
        BY <2>3, BelowIsTotalOrder
    <2>7. CASE R = {}
        BY <2>2, <2>6, <2>7
    <2>8. ASSUME NEW y \in R, \A w \in R : ~Below(y, w)
          PROVE  Top(S)
        <3>1. CASE Below(y, x)
            <4>1. \A w \in S : ~Below(x, w)
                <5> TAKE w \in S
                <5>1. CASE w = x
                    BY <2>6, <5>1
                <5>2. CASE w # x
                    <6>1. y \in SemverVersions /\ w \in SemverVersions /\ ~Below(y, w)
                        BY <2>8, <5>2
                    <6>2. QED BY <2>6, <3>1, <6>1, BelowIsTotalOrder
                <5>3. QED BY <5>1, <5>2
            <4>2. QED BY <4>1
        <3>2. CASE ~Below(y, x)
            BY <2>8, <3>2
        <3>3. QED BY <3>1, <3>2
    <2>9. QED BY <2>2, <2>5, <2>7, <2>8
<1>2. IsFiniteSet(M) /\ Cardinality(M) \in Nat
    BY FS_CardinalityType
<1>3. QED BY <1>1, <1>2

(* What is selected satisfies the constraint, and nothing that does is     *)
(* above it.                                                               *)
THEOREM SelectIsHighest ==
    ASSUME NEW versions \in SUBSET SemverVersions, IsFiniteSet(versions), NEW constraint,
           Matches(versions, constraint) # {}
    PROVE  /\ Select(versions, constraint) \in versions
           /\ Satisfies(Select(versions, constraint), constraint)
           /\ \A v \in versions : Satisfies(v, constraint) => ~Below(Select(versions, constraint), v)
<1> DEFINE M == Matches(versions, constraint)
<1>1. M \in SUBSET versions /\ \A v \in versions : v \in M <=> Satisfies(v, constraint)
    BY DEF Matches
<1>2. M \in SUBSET SemverVersions /\ IsFiniteSet(M)
    BY <1>1, FS_Subset
<1>3. \E v \in M : \A w \in M : ~Below(v, w)
    <2> HIDE DEF M
    <2>1. QED BY <1>2, Highest DEF M
<1>4. Select(versions, constraint) \in M /\ \A w \in M : ~Below(Select(versions, constraint), w)
    BY <1>3 DEF Select
<1>5. QED BY <1>1, <1>4
-----------------------------------------------------------------------------
(* The inductive invariant of GitDependency. *)

(* What a command knows, and an entry it has read in part.                 *)
Entries == [manifest : Commits, content : Commits \cup {None}, revision : Commits \cup {None}]
Runs == [spec : Specs \cup {None}, cmd : Commands, created : BOOLEAN,
         chosen : Versions \cup {None}, asked : Commits \cup {None},
         commit : Commits \cup {None}, entry : Entries \cup {None}]

Types == TypeOK /\ run \in [Procs -> Runs] /\ edited \in BOOLEAN /\ overlapped \in BOOLEAN

Writing == {"content", "revision", "write"}
Loaded == Writing \cup {"digest"}
Placed == Loaded \cup {"verify", "nested", "load"}   \* the files are checked out
Found == Placed \cup {"checkout"}                    \* the commit is known
Cloned == Found \cup {"origin", "status", "fetch", "resolve"}

(* What a command has to know at its step, whatever the others do: a       *)
(* version that was selected satisfies the range.                          *)
Stage(p, here, r, c) ==
    /\ here \in Steps => r.spec \in Specs
    /\ here \in Steps \ {"list"} /\ r.spec.kind = "range" =>
          r.chosen \in Versions /\ Satisfies(r.chosen, r.spec.clauses)
    /\ here \in Cloned => c # None
    /\ here \in Found => r.commit \in Commits
    /\ here \in Loaded => c.tree # None
    /\ here \in Writing => r.entry \in Entries
    /\ here = "write" => r.entry.revision \in Commits
Stages == \A p \in Procs : Stage(p, at[p], run[p], clone)

(* Without overlaps one command runs at a time,                            *)
Alone == \A p, q \in Procs : at[p] \in Steps /\ at[q] \in Steps => p = q

(* and what it has done to the checkout is still there.                    *)
Wanted(r, c) ==
    LET tag == IF r.spec.kind = "range" THEN r.chosen ELSE r.spec.tag
    IN CASE r.spec.kind = "branch" -> c.branch
         [] r.spec.kind = "registry" -> IF r.spec.commit <= c.branch THEN r.spec.commit ELSE None
         [] OTHER -> IF tag \in Versions THEN c.tagged[tag] ELSE None
Holds(here, r, c, touched) ==
    /\ here = "resolve" /\ r.cmd # "offline" => r.asked = Wanted(r, c)
    /\ here \in Found =>
          /\ r.cmd # "offline" => r.asked = r.commit
          /\ r.spec.kind = "registry" => r.commit = r.spec.commit
    /\ here \in Placed => c.head = r.commit /\ c.tree = r.commit
    /\ here \in Loaded /\ r.spec.kind = "range" => Declared[r.commit] = r.chosen
    /\ here \in Writing => r.entry.manifest = r.commit
    /\ here \in {"revision", "write"} /\ ~touched => r.entry.content = r.commit
    /\ here = "write" => r.entry.revision = r.commit
Held == \A p \in Procs : Holds(at[p], run[p], clone, edited)
Untouched == ~edited /\ clone # None => "edit" \notin clone.extra

Inv == Types /\ Stages /\ Untouched /\ (~overlapped => Alone /\ Held)

-----------------------------------------------------------------------------
(* Every step keeps the types and what a command has to know. *)

(* The versions of a dependency are finitely many versions.                *)
LEMMA VersionsAre == Versions \in SUBSET SemverVersions /\ IsFiniteSet(Versions)
<1>1. Declared \in [Commits -> SemverVersions] /\ DOMAIN Declared = Commits
    BY CommitsAssumption
<1>2. Versions = {Declared[c] : c \in Commits}
    BY <1>1 DEF Versions, Range
<1>3. Declared \in Surjection(Commits, Versions)
    BY <1>1, <1>2 DEF Surjection
<1>4. IsFiniteSet(Commits)
    BY FS_Interval, CommitsAssumption DEF Commits
<1>5. IsFiniteSet(Versions)
    BY <1>3, <1>4, FS_Surjection
<1>6. QED BY <1>1, <1>2, <1>5

(* What git finds for a command is a commit, or nothing.                   *)
LEMMA LookupType ==
    ASSUME NEW p \in Procs, run[p].spec \in Specs, NEW head \in Commits,
           NEW tags \in [Versions -> Commits \cup {None}]
    PROVE  Lookup(p, tags, head) \in Commits \cup {None}
<1>1. run[p].spec.kind \in {"branch", "tag", "range", "registry"}
      /\ (run[p].spec.kind = "registry" => run[p].spec.commit \in Nat \ {0})
    BY SpecsAssumption
<1>2. head \in Nat /\ head <= MaxCommit /\ MaxCommit \in Nat
    BY CommitsAssumption DEF Commits
<1>3. CASE run[p].spec.kind = "branch"
    BY <1>3 DEF Lookup, Kind
<1>4. CASE run[p].spec.kind = "registry"
    BY <1>1, <1>2, <1>4 DEF Lookup, Kind, Commits
<1>5. CASE run[p].spec.kind \in {"tag", "range"}
    BY <1>5 DEF Lookup, Kind
<1>6. QED BY <1>1, <1>3, <1>4, <1>5

(* A step of a command changes the command and the checkout, in their      *)
(* types; a checkout that has files keeps having some.                     *)
Local(p) ==
    /\ at' = [at EXCEPT ![p] = at'[p]] /\ at'[p] \in Ended \cup Steps
    /\ run' = [run EXCEPT ![p] = run'[p]] /\ run'[p] \in Runs
    /\ clone' \in Checkouts \cup {None}
    /\ clone # None => clone' # None /\ (clone.tree # None => clone'.tree # None)
    /\ Stage(p, at'[p], run'[p], clone')

(* A command that ends knows nothing any more.                             *)
LEMMA EndLocal ==
    ASSUME Types, NEW p \in Procs, NEW how \in Ended, End(p, how),
           clone' \in Checkouts \cup {None},
           clone # None => clone' # None /\ (clone.tree # None => clone'.tree # None)
    PROVE  Local(p)
<1>1. at \in [Procs -> Ended \cup Steps] /\ run \in [Procs -> Runs]
    BY DEF Types, TypeOK
<1>2. at' = [at EXCEPT ![p] = how] /\ run' = [run EXCEPT ![p] = Fresh]
    BY DEF End, Go
<1>3. at'[p] = how /\ run'[p] = Fresh
    BY <1>1, <1>2
<1>4. Fresh \in Runs
    BY DEF Fresh, Runs, Commands
<1>5. how \notin Steps /\ how \notin Cloned /\ how \notin Found /\ how \notin Loaded
      /\ how \notin Writing /\ how # "write"
    BY DEF Ended, Steps, Cloned, Found, Placed, Loaded, Writing
<1>6. Stage(p, how, Fresh, clone')
    BY <1>5 DEF Stage
<1>7. QED BY <1>2, <1>3, <1>4, <1>6 DEF Local

(* A command that goes on is as its new step and its new knowledge say.    *)
LEMMA GoLocal ==
    ASSUME Types, NEW p \in Procs, NEW step \in Steps, NEW r \in Runs,
           at' = [at EXCEPT ![p] = step], run' = [run EXCEPT ![p] = r],
           clone' \in Checkouts \cup {None},
           clone # None => clone' # None /\ (clone.tree # None => clone'.tree # None),
           Stage(p, step, r, clone')
    PROVE  Local(p)
<1>1. at \in [Procs -> Ended \cup Steps] /\ run \in [Procs -> Runs]
    BY DEF Types, TypeOK
<1>2. at'[p] = step /\ run'[p] = r
    BY <1>1
<1>3. QED BY <1>2 DEF Local

(* The same of one that learns nothing.                                    *)
LEMMA GoOn ==
    ASSUME Types, NEW p \in Procs, NEW step \in Steps, Go(p, step), run' = run,
           clone' \in Checkouts \cup {None},
           clone # None => clone' # None /\ (clone.tree # None => clone'.tree # None),
           Stage(p, step, run[p], clone')
    PROVE  Local(p)
<1>1. run \in [Procs -> Runs]
    BY DEF Types
<1>2. run[p] \in Runs /\ run' = [run EXCEPT ![p] = run[p]]
    BY <1>1
<1>3. QED BY <1>2, GoLocal DEF Go

(* What is known of a command before its step.                             *)
LEMMA Before ==
    ASSUME Types, Stages, NEW p \in Procs
    PROVE  /\ at[p] \in Ended \cup Steps /\ run[p] \in Runs /\ clone \in Checkouts \cup {None}
           /\ Stage(p, at[p], run[p], clone)
           /\ branch \in Commits /\ tagged \in [Versions -> Commits \cup {None}]
BY DEF Types, TypeOK, Stages

(* Each action of a command changes only the command and the checkout.     *)
LEMMA BeginLocal ==
    ASSUME Types, Stages, NEW p \in Procs, NEW c \in Commands, NEW spec \in Specs,
           Begin(p, c, spec)
    PROVE  Local(p)
<1> DEFINE r == [Fresh EXCEPT !.spec = spec, !.cmd = c]
           step == IF spec.kind = "range" THEN "list" ELSE "prepare"
<1>1. r \in Runs /\ r.spec = spec
    BY DEF Fresh, Runs
<1>2. step \in Steps /\ step \in {"list", "prepare"} /\ (step # "list" => spec.kind # "range")
    BY DEF Steps
<1>3. at' = [at EXCEPT ![p] = step] /\ run' = [run EXCEPT ![p] = r] /\ clone' = clone
    BY DEF Begin, Go
<1>4. clone \in Checkouts \cup {None}
    BY Before
<1> HIDE DEF r, step
<1>5. Stage(p, step, r, clone)
    BY <1>1, <1>2 DEF Stage, Cloned, Found, Placed, Loaded, Writing
<1>6. QED BY <1>1, <1>2, <1>3, <1>4, <1>5, GoLocal

(* Listing the remote's tags leaves a command at a step its locals agree   *)
(* with; every lemma below says the same of one Git command or one reading *)
(* of the checkout.                                                        *)
LEMMA ListTagsLocal ==
    ASSUME Types, Stages, NEW p \in Procs, ListTags(p)
    PROVE  Local(p)
<1> DEFINE tags == CASE ~Offline(p) -> tagged
                     [] Offline(p) /\ clone # None -> clone.tagged
                     [] OTHER -> [v \in Versions |-> None]
           there == {v \in Versions : tags[v] # None}
           clauses == run[p].spec.clauses
           v == Select(there, clauses)
           r == [run[p] EXCEPT !.chosen = v]
<1>1. clone' = clone /\ clone \in Checkouts \cup {None} /\ run[p] \in Runs /\ at[p] = "list"
      /\ Stage(p, "list", run[p], clone)
    BY Before DEF ListTags
<1>2. CASE Matches(there, clauses) = {}
    <2>1. End(p, "over") /\ "over" \in Ended
        BY <1>2 DEF ListTags, Ended
    <2>2. QED BY <1>1, <2>1, EndLocal
<1>3. CASE Matches(there, clauses) # {}
    <2>1. there \in SUBSET SemverVersions /\ IsFiniteSet(there) /\ there \in SUBSET Versions
        <3>1. there \in SUBSET Versions
            OBVIOUS
        <3> HIDE DEF there
        <3>2. QED BY <3>1, VersionsAre, FS_Subset
    <2>2. run' = [run EXCEPT ![p].chosen = v] /\ at' = [at EXCEPT ![p] = "prepare"]
        BY <1>3 DEF ListTags, Know, Go
    <2> HIDE DEF there, clauses
    <2>3. v \in there /\ Satisfies(v, clauses)
        BY <1>3, <2>1, SelectIsHighest
    <2> HIDE DEF v
    <2>4. r \in Runs /\ r.chosen = v /\ r.spec = run[p].spec
        BY <1>1, <2>1, <2>3 DEF Runs
    <2>5. run' = [run EXCEPT ![p] = r]
        BY <2>2
    <2> HIDE DEF r
    <2>6. Stage(p, "prepare", r, clone)
        BY <1>1, <2>1, <2>3, <2>4
        DEF Stage, Steps, Cloned, Found, Placed, Loaded, Writing, clauses
    <2>7. "prepare" \in Steps
        BY DEF Steps
    <2>8. QED BY <1>1, <2>2, <2>4, <2>5, <2>6, <2>7, GoLocal
<1>4. QED BY <1>2, <1>3

(* Looking for a checkout that is there already.                           *)
LEMMA PrepareLocal ==
    ASSUME Types, Stages, NEW p \in Procs, Prepare(p)
    PROVE  Local(p)
<1>1. clone' = clone /\ clone \in Checkouts \cup {None} /\ run[p] \in Runs
      /\ Stage(p, "prepare", run[p], clone)
    BY Before DEF Prepare
<1>2. "origin" \in Steps /\ "clone" \in Steps /\ "over" \in Ended
    BY DEF Steps, Ended
<1>3. CASE clone # None
    <2>1. Go(p, "origin") /\ run' = run
        BY <1>3 DEF Prepare
    <2>2. Stage(p, "origin", run[p], clone)
        BY <1>1, <1>3 DEF Stage, Steps, Cloned, Found, Placed, Loaded, Writing
    <2>3. QED BY <1>1, <1>2, <2>1, <2>2, GoOn
<1>4. CASE clone = None /\ Offline(p)
    <2>1. End(p, "over")
        BY <1>4 DEF Prepare
    <2>2. QED BY <1>1, <1>2, <2>1, EndLocal
<1>5. CASE clone = None /\ ~Offline(p)
    <2> DEFINE r == [run[p] EXCEPT !.created = TRUE]
    <2>1. run' = [run EXCEPT ![p].created = TRUE] /\ at' = [at EXCEPT ![p] = "clone"]
        BY <1>5 DEF Prepare, Know, Go
    <2>2. run' = [run EXCEPT ![p] = r]
        BY <2>1
    <2>3. r \in Runs /\ r.spec = run[p].spec /\ r.chosen = run[p].chosen
        BY <1>1 DEF Runs
    <2> HIDE DEF r
    <2>4. Stage(p, "clone", r, clone)
        BY <1>1, <2>3 DEF Stage, Steps, Cloned, Found, Placed, Loaded, Writing
    <2>5. QED BY <1>1, <1>2, <2>1, <2>2, <2>3, <2>4, GoLocal
<1>6. QED BY <1>3, <1>4, <1>5

(* `git clone --no-checkout`.                                              *)
LEMMA CloneLocal ==
    ASSUME Types, Stages, NEW p \in Procs, Clone(p)
    PROVE  Local(p)
<1>1. clone \in Checkouts \cup {None} /\ run[p] \in Runs /\ Stage(p, "clone", run[p], clone)
      /\ branch \in Commits /\ tagged \in [Versions -> Commits \cup {None}]
    BY Before DEF Clone
<1>2. "origin" \in Steps /\ "clone" \in Steps /\ "over" \in Ended
    BY DEF Steps, Ended
<1>3. CASE clone = None /\ Go(p, "origin") /\ UNCHANGED run
           /\ clone' = [url |-> run[p].spec.url, branch |-> branch, tagged |-> tagged,
                        head |-> branch, tree |-> None, extra |-> {}]
    <2>1. run[p].spec \in Specs
        BY <1>1, <1>2 DEF Stage
    <2>2. clone' \in Checkouts
        BY <1>1, <1>3, <2>1 DEF Checkouts
    <2>3. clone' # None
        BY <2>2, NoneAssumption
    <2>4. Stage(p, "origin", run[p], clone')
        BY <1>1, <2>3 DEF Stage, Steps, Cloned, Found, Placed, Loaded, Writing
    <2>5. QED BY <1>2, <1>3, <2>2, <2>3, <2>4, GoOn
<1>4. CASE clone # None /\ End(p, "over") /\ UNCHANGED clone
    BY <1>1, <1>2, <1>4, EndLocal
<1>5. QED BY <1>3, <1>4 DEF Clone

(* Comparing the checkout's origin.                                        *)
LEMMA OriginLocal ==
    ASSUME Types, Stages, NEW p \in Procs, Origin(p)
    PROVE  Local(p)
<1>1. clone' = clone /\ clone \in Checkouts \cup {None} /\ run[p] \in Runs
      /\ Stage(p, "origin", run[p], clone)
    BY Before DEF Origin
<1>2. "status" \in Steps /\ "fetch" \in Steps /\ "over" \in Ended
    BY DEF Steps, Ended
<1>3. CASE clone.url # run[p].spec.url
    <2>1. End(p, "over")
        BY <1>3 DEF Origin
    <2>2. QED BY <1>1, <1>2, <2>1, EndLocal
<1>4. CASE clone.url = run[p].spec.url
    <2>1. run' = run /\ (Go(p, "status") \/ Go(p, "fetch"))
        BY <1>4 DEF Origin
    <2>2. Stage(p, "status", run[p], clone) /\ Stage(p, "fetch", run[p], clone)
        BY <1>1 DEF Stage, Steps, Cloned, Found, Placed, Loaded, Writing
    <2>3. QED BY <1>1, <1>2, <2>1, <2>2, GoOn
<1>5. QED BY <1>3, <1>4

(* `git status`.                                                           *)
LEMMA StatusLocal ==
    ASSUME Types, Stages, NEW p \in Procs, Status(p)
    PROVE  Local(p)
<1>1. clone' = clone /\ clone \in Checkouts \cup {None} /\ run[p] \in Runs
      /\ Stage(p, "status", run[p], clone)
    BY Before DEF Status
<1>2. "resolve" \in Steps /\ "fetch" \in Steps /\ "refused" \in Ended
    BY DEF Steps, Ended
<1>3. CASE clone.tree # clone.head \/ clone.extra # {}
    <2>1. End(p, "refused")
        BY <1>3 DEF Status
    <2>2. QED BY <1>1, <1>2, <2>1, EndLocal
<1>4. CASE ~(clone.tree # clone.head \/ clone.extra # {})
    <2>1. run' = run /\ (Go(p, "resolve") \/ Go(p, "fetch"))
        BY <1>4 DEF Status
    <2>2. Stage(p, "resolve", run[p], clone) /\ Stage(p, "fetch", run[p], clone)
        BY <1>1 DEF Stage, Steps, Cloned, Found, Placed, Loaded, Writing
    <2>3. QED BY <1>1, <1>2, <2>1, <2>2, GoOn
<1>5. QED BY <1>3, <1>4

(* A checkout with some of its fields replaced is a checkout.              *)
LEMMA CheckoutWith ==
    ASSUME NEW c \in Checkouts, NEW b \in Commits,
           NEW tags \in [Versions -> Commits \cup {None}], NEW commit \in Commits,
           NEW other \in SUBSET {"edit", "nested"}
    PROVE  /\ [c EXCEPT !.branch = b, !.tagged = tags] \in Checkouts \ {None}
           /\ [c EXCEPT !.head = commit, !.tree = commit] \in Checkouts \ {None}
           /\ [c EXCEPT !.tree = commit] \in Checkouts \ {None}
           /\ [c EXCEPT !.extra = other] \in Checkouts \ {None}
<1>1. [c EXCEPT !.branch = b, !.tagged = tags] \in Checkouts
    BY DEF Checkouts
<1>2. [c EXCEPT !.head = commit, !.tree = commit] \in Checkouts
    BY DEF Checkouts
<1>3. [c EXCEPT !.tree = commit] \in Checkouts
    BY DEF Checkouts
<1>4. [c EXCEPT !.extra = other] \in Checkouts
    BY DEF Checkouts
<1>5. QED BY <1>1, <1>2, <1>3, <1>4, NoneAssumption

(* `git fetch`.                                                            *)
LEMMA FetchLocal ==
    ASSUME Types, Stages, NEW p \in Procs, Fetch(p)
    PROVE  Local(p)
<1> DEFINE moved == {v \in Versions : clone.tagged[v] \notin {None, tagged[v]}}
           tags == [v \in Versions |-> IF clone.tagged[v] = None THEN tagged[v]
                                       ELSE clone.tagged[v]]
           asked == Lookup(p, tagged, branch)
           r == [run[p] EXCEPT !.asked = asked]
<1>1. clone \in Checkouts \cup {None} /\ run[p] \in Runs /\ Stage(p, "fetch", run[p], clone)
      /\ branch \in Commits /\ tagged \in [Versions -> Commits \cup {None}]
    BY Before DEF Fetch
<1>2. "resolve" \in Steps /\ "over" \in Ended
    BY DEF Steps, Ended
<1>3. run[p].spec \in Specs /\ clone \in Checkouts
    BY <1>1 DEF Stage, Steps, Cloned
<1>4. clone.tagged \in [Versions -> Commits \cup {None}]
    BY <1>3 DEF Checkouts
<1>5. clone' = [clone EXCEPT !.branch = branch, !.tagged = tags]
    BY <1>4 DEF Fetch
<1>6. tags \in [Versions -> Commits \cup {None}]
    BY <1>1, <1>4
<1> HIDE DEF tags
<1>7. clone' \in Checkouts \ {None} /\ clone'.tree = clone.tree
    <2>1. clone' \in Checkouts \ {None}
        BY <1>1, <1>3, <1>5, <1>6, CheckoutWith
    <2>2. QED BY <1>3, <1>5, <2>1 DEF Checkouts
<1>8. CASE moved # {}
    <2>1. End(p, "over")
        BY <1>8 DEF Fetch
    <2>2. QED BY <1>2, <1>7, <2>1, EndLocal
<1>9. CASE moved = {}
    <2>1. run' = [run EXCEPT ![p].asked = asked] /\ at' = [at EXCEPT ![p] = "resolve"]
        BY <1>9 DEF Fetch, Know, Go
    <2>2. run' = [run EXCEPT ![p] = r]
        BY <2>1
    <2>3. asked \in Commits \cup {None}
        BY <1>1, <1>3, LookupType
    <2> HIDE DEF asked
    <2>4. r \in Runs /\ r.spec = run[p].spec /\ r.chosen = run[p].chosen
        BY <1>1, <2>3 DEF Runs
    <2> HIDE DEF r
    <2>5. Stage(p, "resolve", r, clone')
        BY <1>1, <1>7, <2>4 DEF Stage, Steps, Cloned, Found, Placed, Loaded, Writing
    <2>6. QED BY <1>2, <1>7, <2>1, <2>2, <2>4, <2>5, GoLocal
<1>10. QED BY <1>8, <1>9

(* Resolving the tag, branch or revision asked for to a commit.            *)
LEMMA ResolveLocal ==
    ASSUME Types, Stages, NEW p \in Procs, Resolve(p)
    PROVE  Local(p)
<1> DEFINE commit == Lookup(p, clone.tagged, clone.branch)
           r == [run[p] EXCEPT !.commit = commit]
<1>1. clone' = clone /\ clone \in Checkouts \cup {None} /\ run[p] \in Runs
      /\ Stage(p, "resolve", run[p], clone)
    BY Before DEF Resolve
<1>2. "checkout" \in Steps /\ "over" \in Ended
    BY DEF Steps, Ended
<1>3. run[p].spec \in Specs /\ clone \in Checkouts
    BY <1>1 DEF Stage, Steps, Cloned
<1>4. commit \in Commits \cup {None}
    <2>1. clone.tagged \in [Versions -> Commits \cup {None}] /\ clone.branch \in Commits
        BY <1>3 DEF Checkouts
    <2>2. QED BY <1>3, <2>1, LookupType
<1>5. CASE commit = None
    <2>1. End(p, "over")
        BY <1>5 DEF Resolve
    <2>2. QED BY <1>1, <1>2, <2>1, EndLocal
<1>6. CASE commit # None
    <2>1. run' = [run EXCEPT ![p].commit = commit] /\ at' = [at EXCEPT ![p] = "checkout"]
        BY <1>6 DEF Resolve, Know, Go
    <2>2. run' = [run EXCEPT ![p] = r]
        BY <2>1
    <2> HIDE DEF commit
    <2>3. r \in Runs /\ r.spec = run[p].spec /\ r.chosen = run[p].chosen /\ r.commit \in Commits
        BY <1>1, <1>4, <1>6 DEF Runs
    <2> HIDE DEF r
    <2>4. Stage(p, "checkout", r, clone)
        BY <1>1, <2>3 DEF Stage, Steps, Cloned, Found, Placed, Loaded, Writing
    <2>5. QED BY <1>1, <1>2, <2>1, <2>2, <2>3, <2>4, GoLocal
<1>7. QED BY <1>5, <1>6

(* `git checkout --detach`.                                                *)
LEMMA CheckoutLocal ==
    ASSUME Types, Stages, NEW p \in Procs, Checkout(p)
    PROVE  Local(p)
<1>1. clone \in Checkouts \cup {None} /\ run[p] \in Runs /\ Stage(p, "checkout", run[p], clone)
    BY Before DEF Checkout
<1>2. "verify" \in Steps /\ "nested" \in Steps /\ "over" \in Ended
    BY DEF Steps, Ended
<1>3. clone \in Checkouts /\ run[p].commit \in Commits
    BY <1>1 DEF Stage, Cloned, Found
<1>4. CASE /\ clone' = [clone EXCEPT !.head = run[p].commit, !.tree = run[p].commit]
           /\ Go(p, IF Kind(p) = "registry" THEN "verify" ELSE "nested") /\ UNCHANGED run
    <2>1. clone' \in Checkouts \ {None}
        <3>1. \A commit \in Commits :
                 [clone EXCEPT !.head = commit, !.tree = commit] \in Checkouts \ {None}
            <4>1. clone.branch \in Commits /\ clone.tagged \in [Versions -> Commits \cup {None}]
                  /\ {} \in SUBSET {"edit", "nested"}
                BY <1>3 DEF Checkouts
            <4>2. QED BY <1>3, <4>1, CheckoutWith
        <3>2. QED BY <1>3, <1>4, <3>1
    <2>2. clone'.tree \in Commits
        BY <1>3, <1>4 DEF Checkouts
    <2>3. clone'.tree # None
        BY <2>2, NoneAssumption
    <2>4. Stage(p, "verify", run[p], clone') /\ Stage(p, "nested", run[p], clone')
        BY <1>1, <2>1 DEF Stage, Steps, Cloned, Found, Placed, Loaded, Writing
    <2>5. Go(p, "verify") \/ Go(p, "nested")
        BY <1>4
    <2>6. QED BY <1>2, <1>4, <2>1, <2>3, <2>4, <2>5, GoOn
<1>5. CASE overlapped /\ End(p, "over") /\ UNCHANGED clone
    BY <1>1, <1>2, <1>5, EndLocal
<1>6. QED BY <1>4, <1>5 DEF Checkout

(* So do the actions that read the files of the checkout.                  *)
LEMMA ReadsLocal ==
    ASSUME Types, Stages, NEW p \in Procs, NEW here, NEW ok, NEW next \in Steps,
           Reads(p, here, ok, next),
           ok => Stage(p, next, run[p], clone)
    PROVE  Local(p)
<1>1. clone' = clone /\ clone \in Checkouts \cup {None} /\ run[p] \in Runs
    BY Before DEF Reads
<1>2. CASE ok
    <2>1. Go(p, next) /\ run' = run
        BY <1>2 DEF Reads
    <2>2. QED BY <1>1, <1>2, <2>1, GoOn
<1>3. CASE ~ok
    <2>1. End(p, "over") /\ "over" \in Ended
        BY <1>3 DEF Reads, Ended
    <2>2. QED BY <1>1, <2>1, EndLocal
<1>4. QED BY <1>2, <1>3

(* Comparing the content hash of a registry package.                       *)
LEMMA VerifyLocal ==
    ASSUME Types, Stages, NEW p \in Procs, Verify(p)
    PROVE  Local(p)
<1>1. Stage(p, "verify", run[p], clone)
    BY Before DEF Verify, Reads
<1>2. Stage(p, "nested", run[p], clone) /\ "nested" \in Steps
    BY <1>1 DEF Stage, Steps, Cloned, Found, Placed, Loaded, Writing
<1>3. QED BY <1>2, ReadsLocal DEF Verify

(* Resolving the Git dependencies of the dependency.                       *)
LEMMA ResolveNestedLocal ==
    ASSUME Types, Stages, NEW p \in Procs, ResolveNested(p)
    PROVE  Local(p)
<1>1. clone \in Checkouts \cup {None} /\ run[p] \in Runs /\ Stage(p, "nested", run[p], clone)
      /\ Go(p, "load") /\ run' = run /\ clone.tree # None
    BY Before DEF ResolveNested
<1>2. clone \in Checkouts /\ "load" \in Steps
    BY <1>1 DEF Stage, Steps, Cloned, Found, Placed
<1>3. clone' \in Checkouts \ {None} /\ clone'.tree # None
    <2>1. CASE clone.tree \in Nested
        <3> DEFINE other == clone.extra \cup {"nested"}
        <3>1. clone' = [clone EXCEPT !.extra = other]
            BY <2>1 DEF ResolveNested
        <3>2. other \in SUBSET {"edit", "nested"} /\ clone.branch \in Commits
              /\ clone.tagged \in [Versions -> Commits \cup {None}]
            BY <1>2 DEF Checkouts
        <3> HIDE DEF other
        <3>3. clone' \in Checkouts \ {None}
            BY <1>2, <3>1, <3>2, CheckoutWith
        <3>4. clone'.tree = clone.tree
            BY <1>2, <3>1 DEF Checkouts
        <3>5. QED BY <1>1, <3>3, <3>4
    <2>2. CASE clone.tree \notin Nested
        BY <1>1, <1>2, <2>2, NoneAssumption DEF ResolveNested
    <2>3. QED BY <2>1, <2>2
<1>4. Stage(p, "load", run[p], clone')
    BY <1>1, <1>3 DEF Stage, Steps, Cloned, Found, Placed, Loaded, Writing
<1>5. QED BY <1>1, <1>2, <1>3, <1>4, GoOn

(* Reading the manifest in the checkout.                                   *)
LEMMA LoadManifestLocal ==
    ASSUME Types, Stages, NEW p \in Procs, LoadManifest(p)
    PROVE  Local(p)
<1>1. Stage(p, "load", run[p], clone)
    BY Before DEF LoadManifest, Reads
<1>2. clone.tree # None => Stage(p, "digest", run[p], clone)
    BY <1>1 DEF Stage, Steps, Cloned, Found, Placed, Loaded, Writing
<1>3. "digest" \in Steps
    BY DEF Steps
<1>4. QED BY <1>2, <1>3, ReadsLocal DEF LoadManifest

(* Reading the revision, manifest and content for the lock entry.          *)
LEMMA ReadEntryLocal ==
    ASSUME Types, Stages, NEW p \in Procs, ReadEntry(p)
    PROVE  Local(p)
<1>1. clone' = clone /\ clone \in Checkouts \cup {None} /\ run[p] \in Runs
      /\ Stage(p, at[p], run[p], clone) /\ at[p] \in {"digest", "content", "revision"}
    BY Before DEF ReadEntry
<1>2. "content" \in Steps /\ "revision" \in Steps /\ "write" \in Steps
    BY DEF Steps
<1>3. clone \in Checkouts
    BY <1>1 DEF Stage, Cloned, Found, Placed, Loaded, Writing
<1>4. clone.tree \in Commits /\ clone.head \in Commits
    <2>1. clone.tree # None
        BY <1>1 DEF Stage, Loaded, Writing
    <2>2. QED BY <1>3, <2>1 DEF Checkouts
<1>5. Content \in Commits \cup {None}
    BY <1>4 DEF Content
<1>6. CASE /\ at[p] = "digest" /\ Go(p, "content")
           /\ Know(p, "entry", [manifest |-> clone.tree, content |-> None, revision |-> None])
    <2> DEFINE e == [manifest |-> clone.tree, content |-> None, revision |-> None]
               r == [run[p] EXCEPT !.entry = e]
    <2>1. e \in Entries
        BY <1>4 DEF Entries
    <2>2. run' = [run EXCEPT ![p].entry = e]
        BY <1>6 DEF Know
    <2>3. run' = [run EXCEPT ![p] = r]
        BY <2>2
    <2> HIDE DEF e
    <2>4. r \in Runs /\ r.spec = run[p].spec /\ r.chosen = run[p].chosen
          /\ r.commit = run[p].commit /\ r.entry = e
        BY <1>1, <2>1 DEF Runs
    <2> HIDE DEF r
    <2>5. Stage(p, "content", r, clone)
        BY <1>1, <1>6, <2>1, <2>4 DEF Stage, Steps, Cloned, Found, Placed, Loaded, Writing
    <2>6. at' = [at EXCEPT ![p] = "content"]
        BY <1>6 DEF Go
    <2>7. QED BY <1>1, <1>2, <1>3, <2>3, <2>4, <2>5, <2>6, GoLocal
<1>7. CASE at[p] = "content" /\ Go(p, "revision") /\ run' = [run EXCEPT ![p].entry.content = Content]
    <2> DEFINE e == [run[p].entry EXCEPT !.content = Content]
               r == [run[p] EXCEPT !.entry = e]
    <2>1. e \in Entries
        <3>1. run[p].entry \in Entries
            BY <1>1, <1>7 DEF Stage, Writing
        <3>2. QED BY <1>5, <3>1 DEF Entries
    <2>2. run' = [run EXCEPT ![p] = r]
        BY <1>7
    <2> HIDE DEF e
    <2>3. r \in Runs /\ r.spec = run[p].spec /\ r.chosen = run[p].chosen
          /\ r.commit = run[p].commit /\ r.entry = e
        BY <1>1, <2>1 DEF Runs
    <2> HIDE DEF r
    <2>4. Stage(p, "revision", r, clone)
        BY <1>1, <1>7, <2>1, <2>3 DEF Stage, Steps, Cloned, Found, Placed, Loaded, Writing
    <2>5. at' = [at EXCEPT ![p] = "revision"]
        BY <1>7 DEF Go
    <2>6. QED BY <1>1, <1>2, <1>3, <2>2, <2>3, <2>4, <2>5, GoLocal
<1>8. CASE at[p] = "revision" /\ Go(p, "write")
           /\ run' = [run EXCEPT ![p].entry.revision = clone.head]
    <2> DEFINE e == [run[p].entry EXCEPT !.revision = clone.head]
               r == [run[p] EXCEPT !.entry = e]
    <2>1. e \in Entries /\ e.revision \in Commits
        <3>1. run[p].entry \in Entries
            BY <1>1, <1>8 DEF Stage, Writing
        <3>2. QED BY <1>4, <3>1 DEF Entries
    <2>2. run' = [run EXCEPT ![p] = r]
        BY <1>8
    <2> HIDE DEF e
    <2>3. r \in Runs /\ r.spec = run[p].spec /\ r.chosen = run[p].chosen
          /\ r.commit = run[p].commit /\ r.entry = e
        BY <1>1, <2>1 DEF Runs
    <2> HIDE DEF r
    <2>4. Stage(p, "write", r, clone)
        BY <1>1, <1>8, <2>1, <2>3 DEF Stage, Steps, Cloned, Found, Placed, Loaded, Writing
    <2>5. at' = [at EXCEPT ![p] = "write"]
        BY <1>8 DEF Go
    <2>6. QED BY <1>1, <1>2, <1>3, <2>2, <2>3, <2>4, <2>5, GoLocal
<1>9. QED BY <1>6, <1>7, <1>8 DEF ReadEntry

(* Being killed.                                                           *)
LEMMA KillLocal ==
    ASSUME Types, Stages, NEW p \in Procs, Kill(p)
    PROVE  Local(p)
<1>1. clone \in Checkouts \cup {None} /\ run[p] \in Runs /\ Stage(p, at[p], run[p], clone)
      /\ at[p] \in Steps /\ End(p, "over") /\ "over" \in Ended
    BY Before DEF Kill, Ended
<1>2. CASE clone' = clone
    BY <1>1, <1>2, EndLocal
<1>3. CASE at[p] = "checkout" /\ clone' = [clone EXCEPT !.tree = run[p].commit]
    <2>1. clone \in Checkouts /\ run[p].commit \in Commits
        BY <1>1, <1>3 DEF Stage, Cloned, Found
    <2>2. clone.branch \in Commits /\ clone.tagged \in [Versions -> Commits \cup {None}]
          /\ {} \in SUBSET {"edit", "nested"}
        BY <2>1 DEF Checkouts
    <2>3. clone' \in Checkouts \ {None}
        <3>1. \A commit \in Commits : [clone EXCEPT !.tree = commit] \in Checkouts \ {None}
            BY <2>1, <2>2, CheckoutWith
        <3>2. QED BY <1>3, <2>1, <3>1
    <2>4. clone'.tree # None
        <3>1. clone'.tree = run[p].commit
            BY <1>3, <2>1 DEF Checkouts
        <3>2. QED BY <2>1, <3>1, NoneAssumption
    <2>5. QED BY <1>1, <2>3, <2>4, EndLocal
<1>4. QED BY <1>2, <1>3 DEF Kill

(* What the others know is not disturbed by a checkout that keeps its files *)
(* or gets others.                                                         *)
LEMMA StageKept ==
    ASSUME NEW p \in Procs, Stage(p, at[p], run[p], clone),
           clone # None => clone' # None /\ (clone.tree # None => clone'.tree # None)
    PROVE  Stage(p, at[p], run[p], clone')
<1>1. at[p] \in Loaded => at[p] \in Cloned
    BY DEF Cloned, Found, Placed
<1>2. QED BY <1>1 DEF Stage

(* A command whose own step is sound keeps the stages of all.              *)
LEMMA StagesLocal ==
    ASSUME Types, Stages, NEW p \in Procs, Local(p)
    PROVE  /\ at' \in [Procs -> Ended \cup Steps] /\ run' \in [Procs -> Runs] /\ Stages'
           /\ \A q \in Procs \ {p} : at'[q] = at[q] /\ run'[q] = run[q]
<1>1. at \in [Procs -> Ended \cup Steps] /\ run \in [Procs -> Runs]
    BY DEF Types, TypeOK
<1>2. at' = [at EXCEPT ![p] = at'[p]] /\ at'[p] \in Ended \cup Steps
      /\ run' = [run EXCEPT ![p] = run'[p]] /\ run'[p] \in Runs
      /\ (clone # None => clone' # None /\ (clone.tree # None => clone'.tree # None))
      /\ Stage(p, at'[p], run'[p], clone')
    BY DEF Local
<1>3. at' \in [Procs -> Ended \cup Steps] /\ run' \in [Procs -> Runs]
      /\ \A q \in Procs \ {p} : at'[q] = at[q] /\ run'[q] = run[q]
    BY <1>1, <1>2
<1>4. ASSUME NEW q \in Procs
      PROVE  Stage(q, at'[q], run'[q], clone')
    <2>1. CASE q = p
        BY <1>2, <2>1
    <2>2. CASE q # p
        <3>1. Stage(q, at[q], run[q], clone)
            BY DEF Stages
        <3>2. Stage(q, at[q], run[q], clone')
            BY <1>2, <3>1, StageKept
        <3>3. QED BY <1>3, <2>2, <3>2
    <2>3. QED BY <2>1, <2>2
<1>5. QED BY <1>3, <1>4 DEF Stages

(* What happens meanwhile leaves the commands alone.                       *)
LEMMA MeanwhileKeeps ==
    ASSUME Types, Stages,
           Push \/ (\E v \in Versions : PushTag(v)) \/ (\E s \in Specs : EditManifest(s)) \/ EditCheckout
    PROVE  /\ at' = at /\ run' = run /\ lock' = lock /\ overlapped' = overlapped
           /\ branch' \in Commits /\ tagged' \in [Versions -> Commits \cup {None}]
           /\ manifest' \in Specs \cup {None} /\ clone' \in Checkouts \cup {None}
           /\ clone # None => clone' # None /\ (clone.tree # None => clone'.tree # None)
           /\ commands' = commands /\ faults' = faults /\ changes' \in 0 .. MaxChanges
           /\ edited' \in BOOLEAN /\ (edited => edited')
           /\ ~edited' => clone' = clone
           /\ clone' # clone => clone # None /\ clone'.head = clone.head /\ clone'.tree = clone.tree
                   /\ clone'.tagged = clone.tagged /\ clone'.branch = clone.branch
<1>1. /\ branch \in Commits /\ tagged \in [Versions -> Commits \cup {None}]
      /\ manifest \in Specs \cup {None} /\ clone \in Checkouts \cup {None}
      /\ changes \in 0 .. MaxChanges /\ edited \in BOOLEAN
    BY DEF Types, TypeOK
<1>2. ASSUME Change
      PROVE  /\ at' = at /\ run' = run /\ lock' = lock /\ overlapped' = overlapped
             /\ commands' = commands /\ faults' = faults /\ changes' \in 0 .. MaxChanges
    BY <1>1, <1>2, BoundsAssumption DEF Change
<1>3. CASE Push
    <2>1. Change /\ tagged' = tagged /\ manifest' = manifest /\ clone' = clone /\ edited' = edited
          /\ branch < MaxCommit /\ branch' = branch + 1
        BY <1>3 DEF Push
    <2>2. branch' \in Commits
        BY <1>1, <2>1, CommitsAssumption DEF Commits
    <2>3. QED BY <1>1, <1>2, <2>1, <2>2
<1>4. ASSUME NEW v \in Versions, PushTag(v)
      PROVE  /\ Change /\ branch' = branch /\ manifest' = manifest /\ clone' = clone
             /\ edited' = edited /\ tagged' \in [Versions -> Commits \cup {None}]
    BY <1>1, <1>4 DEF PushTag
<1>5. ASSUME NEW s \in Specs, EditManifest(s)
      PROVE  /\ Change /\ branch' = branch /\ tagged' = tagged /\ clone' = clone
             /\ edited' = edited /\ manifest' \in Specs \cup {None}
    BY <1>5 DEF EditManifest, remote
<1>6. CASE EditCheckout
    <2> DEFINE other == clone.extra \cup {"edit"}
    <2>1. Change /\ branch' = branch /\ tagged' = tagged /\ manifest' = manifest
          /\ clone # None /\ edited' = TRUE /\ clone' = [clone EXCEPT !.extra = other]
        BY <1>6 DEF EditCheckout, remote
    <2>2. clone \in Checkouts
        BY <1>1, <2>1
    <2>3. other \in SUBSET {"edit", "nested"} /\ clone.branch \in Commits
          /\ clone.tagged \in [Versions -> Commits \cup {None}]
        BY <2>2 DEF Checkouts
    <2> HIDE DEF other
    <2>4. clone' \in Checkouts \ {None}
        BY <2>1, <2>2, <2>3, CheckoutWith
    <2>5. clone'.head = clone.head /\ clone'.tree = clone.tree /\ clone'.tagged = clone.tagged
          /\ clone'.branch = clone.branch
        BY <2>1, <2>2 DEF Checkouts
    <2>6. QED BY <1>1, <1>2, <2>1, <2>4, <2>5
<1>7. QED BY <1>1, <1>2, <1>3, <1>4, <1>5, <1>6

(* A step of a command is one of these, and each changes the command only. *)
LEMMA StepLocal ==
    ASSUME Types, Stages, NEW p \in Procs, Step(p) \/ Kill(p)
    PROVE  Local(p)
<1>1. CASE ListTags(p) \/ Prepare(p) \/ Clone(p) \/ Origin(p) \/ Status(p) \/ Fetch(p)
    BY <1>1, ListTagsLocal, PrepareLocal, CloneLocal, OriginLocal, StatusLocal, FetchLocal
<1>2. CASE Resolve(p) \/ Checkout(p) \/ Verify(p) \/ ResolveNested(p) \/ LoadManifest(p)
           \/ ReadEntry(p) \/ Kill(p)
    BY <1>2, ResolveLocal, CheckoutLocal, VerifyLocal, ResolveNestedLocal, LoadManifestLocal,
       ReadEntryLocal, KillLocal
<1>3. CASE WriteLock(p)
    <2>1. End(p, "over") /\ clone' = clone /\ "over" \in Ended /\ clone \in Checkouts \cup {None}
        BY <1>3, Before DEF WriteLock, Ended
    <2>2. QED BY <2>1, EndLocal
<1>4. QED BY <1>1, <1>2, <1>3 DEF Step

(* It leaves the remote and mort.toml alone, replaces mort.lock by an entry *)
(* or not at all, and only a kill is counted.                              *)
LEMMA StepElsewhere ==
    ASSUME Types, Stages, NEW p \in Procs, Step(p) \/ Kill(p)
    PROVE  /\ branch' = branch /\ tagged' = tagged /\ manifest' = manifest
           /\ lock' \in Entry \cup {None}
           /\ commands' = commands /\ changes' = changes /\ faults' \in 0 .. MaxFaults
           /\ edited' = edited /\ overlapped' = overlapped
           /\ at[p] \in Steps
<1>1. lock \in Entry \cup {None} /\ faults \in 0 .. MaxFaults /\ run[p] \in Runs
      /\ at[p] \in Ended \cup Steps /\ Stage(p, at[p], run[p], clone)
    BY Before DEF Types, TypeOK
<1>2. CASE ListTags(p) \/ Prepare(p) \/ Clone(p) \/ Origin(p) \/ Status(p) \/ Fetch(p)
    BY <1>1, <1>2 DEF ListTags, Prepare, Clone, Origin, Status, Fetch, remote, counts, Steps
<1>3. CASE Resolve(p) \/ Checkout(p) \/ Verify(p) \/ ResolveNested(p) \/ LoadManifest(p)
           \/ ReadEntry(p)
    BY <1>1, <1>3 DEF Resolve, Checkout, Verify, ResolveNested, LoadManifest, ReadEntry, Reads,
       remote, counts, Steps
<1>4. CASE WriteLock(p)
    <2>1. at[p] = "write" /\ (lock' = lock \/ lock' = run[p].entry)
          /\ branch' = branch /\ tagged' = tagged /\ manifest' = manifest /\ counts' = counts
        BY <1>4 DEF WriteLock, remote
    <2>2. run[p].entry \in Entries /\ run[p].entry.revision \in Commits
        BY <1>1, <2>1 DEF Stage, Writing
    <2>3. run[p].entry \in Entry
        BY <2>2 DEF Entries, Entry
    <2>4. QED BY <1>1, <2>1, <2>3 DEF counts, Steps
<1>5. CASE Kill(p)
    <2>1. faults' \in 0 .. MaxFaults
        BY <1>1, <1>5, BoundsAssumption DEF Kill
    <2>2. QED BY <1>1, <1>5, <2>1 DEF Kill, remote, counts
<1>6. QED BY <1>2, <1>3, <1>4, <1>5 DEF Step

(* A command that starts is local as well.                                 *)
LEMMA BeginElsewhere ==
    ASSUME Types, Stages, NEW p \in Procs, NEW c \in Commands, NEW spec \in Specs,
           Begin(p, c, spec)
    PROVE  /\ branch' = branch /\ tagged' = tagged /\ lock' = lock /\ clone' = clone
           /\ commands' \in 0 .. MaxCommands /\ changes' = changes /\ faults' = faults
           /\ edited' = edited /\ overlapped' \in BOOLEAN
           /\ ~overlapped' => ~overlapped /\ \A q \in Procs \ {p} : at[q] \in Ended
           /\ at'[p] \in {"list", "prepare"}
<1>1. commands \in 0 .. MaxCommands /\ overlapped \in BOOLEAN /\ at \in [Procs -> Ended \cup Steps]
    BY DEF Types, TypeOK
<1>2. commands' \in 0 .. MaxCommands
    BY <1>1, BoundsAssumption DEF Begin
<1>3. /\ branch' = branch /\ tagged' = tagged /\ lock' = lock /\ clone' = clone
      /\ changes' = changes /\ faults' = faults /\ edited' = edited
      /\ overlapped' = (overlapped \/ \E q \in Procs \ {p} : at[q] \notin Ended)
    BY DEF Begin, remote
<1>4. at'[p] \in {"list", "prepare"}
    BY <1>1 DEF Begin, Go
<1>5. overlapped' \in BOOLEAN
    BY <1>3, Zenon
<1>6. QED BY <1>2, <1>3, <1>4, <1>5

(* A command that starts has a dependency to resolve.                      *)
LEMMA StartsAre ==
    ASSUME Types, NEW p \in Procs,
           (\E c \in Commands : Start(p, c)) \/ (\E s \in Specs : Add(p, s))
    PROVE  \E c \in Commands : \E spec \in Specs :
               Begin(p, c, spec) /\ manifest' \in Specs \cup {None}
<1>1. manifest \in Specs \cup {None}
    BY DEF Types, TypeOK
<1>2. ASSUME NEW c \in Commands, Start(p, c)
      PROVE  manifest \in Specs /\ Begin(p, c, manifest) /\ manifest' \in Specs \cup {None}
    BY <1>1, <1>2 DEF Start
<1>3. ASSUME NEW s \in Specs, Add(p, s)
      PROVE  "fetch" \in Commands /\ Begin(p, "fetch", s) /\ manifest' \in Specs \cup {None}
    BY <1>3 DEF Add, Commands
<1>4. QED BY <1>2, <1>3

(* Every step keeps the types and what the commands know.                  *)
LEMMA TypesStep ==
    ASSUME Types, Stages, [Next]_vars
    PROVE  Types' /\ Stages'
<1>1. /\ branch \in Commits /\ tagged \in [Versions -> Commits \cup {None}]
      /\ manifest \in Specs \cup {None} /\ lock \in Entry \cup {None}
      /\ clone \in Checkouts \cup {None} /\ at \in [Procs -> Ended \cup Steps]
      /\ commands \in 0 .. MaxCommands /\ changes \in 0 .. MaxChanges /\ faults \in 0 .. MaxFaults
      /\ run \in [Procs -> Runs] /\ edited \in BOOLEAN /\ overlapped \in BOOLEAN
    BY DEF Types, TypeOK
<1>2. ASSUME NEW p \in Procs, Step(p) \/ Kill(p)
      PROVE  Types' /\ Stages'
    <2>1. Local(p)
        BY <1>2, StepLocal
    <2>2. at' \in [Procs -> Ended \cup Steps] /\ run' \in [Procs -> Runs] /\ Stages'
        BY <2>1, StagesLocal
    <2>3. clone' \in Checkouts \cup {None}
        BY <2>1 DEF Local
    <2>4. QED BY <1>1, <1>2, <2>2, <2>3, StepElsewhere DEF Types, TypeOK
<1>3. ASSUME NEW p \in Procs,
             (\E c \in Commands : Start(p, c)) \/ (\E s \in Specs : Add(p, s))
      PROVE  Types' /\ Stages'
    <2>1. PICK c \in Commands, spec \in Specs : Begin(p, c, spec) /\ manifest' \in Specs \cup {None}
        BY <1>3, StartsAre
    <2>2. at' \in [Procs -> Ended \cup Steps] /\ run' \in [Procs -> Runs] /\ Stages'
        BY <2>1, BeginLocal, StagesLocal
    <2>3. QED BY <1>1, <2>1, <2>2, BeginElsewhere DEF Types, TypeOK
<1>4. CASE Push \/ (\E v \in Versions : PushTag(v)) \/ (\E s \in Specs : EditManifest(s))
           \/ EditCheckout
    <2>1. /\ at' = at /\ run' = run /\ lock' = lock /\ overlapped' = overlapped
          /\ branch' \in Commits /\ tagged' \in [Versions -> Commits \cup {None}]
          /\ manifest' \in Specs \cup {None} /\ clone' \in Checkouts \cup {None}
          /\ commands' = commands /\ faults' = faults /\ changes' \in 0 .. MaxChanges
          /\ edited' \in BOOLEAN
          /\ (clone # None => clone' # None /\ (clone.tree # None => clone'.tree # None))
        BY <1>4, MeanwhileKeeps
    <2>2. ASSUME NEW p \in Procs
          PROVE  Stage(p, at[p], run[p], clone')
        BY <2>1, StageKept DEF Stages
    <2>3. QED BY <1>1, <2>1, <2>2 DEF Types, TypeOK, Stages
<1>5. CASE UNCHANGED vars
    BY <1>1, <1>5 DEF vars, remote, counts, Types, TypeOK, Stages
<1>6. QED BY <1>2, <1>3, <1>4, <1>5 DEF Next

(* The types and stages hold at the start.                                 *)
LEMMA InitTypes == Init => Types /\ Stages
<1> SUFFICES ASSUME Init
             PROVE  Types /\ Stages
    OBVIOUS
<1>1. 1 \in Commits /\ Declared \in [Commits -> SemverVersions]
    BY CommitsAssumption DEF Commits
<1>2. branch \in Commits /\ tagged \in [Versions -> Commits \cup {None}]
    BY <1>1 DEF Init
<1>3. at \in [Procs -> Ended \cup Steps] /\ run \in [Procs -> Runs]
    <2>1. Fresh \in Runs
        BY DEF Fresh, Runs, Commands
    <2>2. QED BY <2>1 DEF Init, Ended
<1>4. commands \in 0 .. MaxCommands /\ changes \in 0 .. MaxChanges /\ faults \in 0 .. MaxFaults
    BY BoundsAssumption DEF Init
<1>5. Types
    BY <1>2, <1>3, <1>4 DEF Init, Types, TypeOK
<1>6. ASSUME NEW p \in Procs
      PROVE  Stage(p, at[p], run[p], clone)
    BY DEF Init, Stage, Steps, Cloned, Found, Placed, Loaded, Writing
<1>7. QED BY <1>5, <1>6 DEF Stages

-----------------------------------------------------------------------------
(* What a command that runs alone keeps. *)

(* The steps before a command has got to the commit.                       *)
Quiet == Ended \cup {"list", "prepare", "clone", "origin", "status", "fetch"}

(* Nothing is held of a command that has not got to the commit.            *)
LEMMA QuietHolds ==
    ASSUME NEW here \in Quiet, NEW r, NEW c, NEW touched
    PROVE  Holds(here, r, c, touched)
BY DEF Quiet, Ended, Holds, Found, Placed, Loaded, Writing

(* What git finds for a command is what it wants of the checkout.          *)
LEMMA LookupIsWanted ==
    ASSUME NEW p \in Procs
    PROVE  Lookup(p, clone.tagged, clone.branch) = Wanted(run[p], clone)
BY DEF Lookup, Wanted, Kind

(* A fetch that moves no tag leaves what the command asked the remote for. *)
LEMMA FetchHolds ==
    ASSUME Types, Stages, NEW p \in Procs, Fetch(p)
    PROVE  Holds(at'[p], run'[p], clone', edited)
<1> DEFINE moved == {v \in Versions : clone.tagged[v] \notin {None, tagged[v]}}
<1>1. clone \in Checkouts \cup {None} /\ run[p] \in Runs /\ Stage(p, "fetch", run[p], clone)
      /\ branch \in Commits /\ tagged \in [Versions -> Commits \cup {None}]
    BY Before DEF Fetch
<1>2. clone \in Checkouts
    BY <1>1 DEF Stage, Cloned
<1>3. at \in [Procs -> Ended \cup Steps] /\ run \in [Procs -> Runs]
    BY DEF Types, TypeOK
<1>4. CASE moved # {}
    <2>1. at'[p] = "over"
        BY <1>3, <1>4 DEF Fetch, End, Go
    <2>2. QED BY <2>1, QuietHolds DEF Quiet, Ended
<1>5. CASE moved = {}
    <2>1. clone.tagged \in [Versions -> Commits \cup {None}]
        BY <1>2 DEF Checkouts
    <2>2. \A v \in Versions : (IF clone.tagged[v] = None THEN tagged[v] ELSE clone.tagged[v]) = tagged[v]
        BY <1>5
    <2>3. clone'.branch = branch
          /\ clone'.tagged = [v \in Versions |-> IF clone.tagged[v] = None THEN tagged[v]
                                                 ELSE clone.tagged[v]]
        BY <1>2, <2>1 DEF Fetch, Checkouts
    <2>4. clone'.tagged = tagged
        BY <1>1, <2>2, <2>3
    <2>5. at'[p] = "resolve" /\ run' = [run EXCEPT ![p].asked = Lookup(p, tagged, branch)]
        BY <1>3, <1>5 DEF Fetch, Know, Go
    <2>6. run'[p].asked = Lookup(p, tagged, branch) /\ run'[p].spec = run[p].spec
          /\ run'[p].chosen = run[p].chosen
        BY <1>1, <1>3, <2>5 DEF Runs
    <2>7. Lookup(p, tagged, branch) = Wanted(run'[p], clone')
        BY <2>3, <2>4, <2>6 DEF Lookup, Wanted, Kind
    <2>8. QED BY <2>5, <2>6, <2>7 DEF Holds, Found, Placed, Loaded, Writing
<1>6. QED BY <1>4, <1>5

(* The commit that is resolved is the one that was asked for.              *)
LEMMA ResolveHolds ==
    ASSUME Types, Stages, NEW p \in Procs, Holds(at[p], run[p], clone, edited), Resolve(p)
    PROVE  Holds(at'[p], run'[p], clone', edited)
<1> DEFINE commit == Lookup(p, clone.tagged, clone.branch)
<1>1. run[p] \in Runs /\ Stage(p, "resolve", run[p], clone)
      /\ Holds("resolve", run[p], clone, edited)
    BY Before DEF Resolve
<1>2. at \in [Procs -> Ended \cup Steps] /\ run \in [Procs -> Runs]
    BY DEF Types, TypeOK
<1>3. CASE commit = None
    <2>1. at'[p] = "over"
        BY <1>2, <1>3 DEF Resolve, End, Go
    <2>2. QED BY <2>1, QuietHolds DEF Quiet, Ended
<1>4. CASE commit # None
    <2>1. at'[p] = "checkout" /\ run' = [run EXCEPT ![p].commit = commit] /\ clone' = clone
        BY <1>2, <1>4 DEF Resolve, Know, Go
    <2>2. commit = Wanted(run[p], clone)
        BY LookupIsWanted
    <2> HIDE DEF commit
    <2>3. run'[p] = [run[p] EXCEPT !.commit = commit]
        BY <1>2, <2>1
    <2>4. run'[p].commit = commit /\ run'[p].spec = run[p].spec /\ run'[p].cmd = run[p].cmd
          /\ run'[p].asked = run[p].asked
        BY <1>1, <2>3 DEF Runs
    <2>5. run[p].cmd # "offline" => run[p].asked = commit
        BY <1>1, <2>2 DEF Holds
    <2>6. run[p].spec.kind = "registry" => commit = run[p].spec.commit
        BY <1>4, <2>2 DEF Wanted, commit
    <2>7. QED BY <2>1, <2>4, <2>5, <2>6 DEF Holds, Found, Placed, Loaded, Writing
<1>5. QED BY <1>3, <1>4

(* The checkout is what is checked out.                                    *)
LEMMA CheckoutHolds ==
    ASSUME Types, Stages, NEW p \in Procs, Holds(at[p], run[p], clone, edited), Checkout(p),
           ~overlapped
    PROVE  Holds(at'[p], run'[p], clone', edited)
<1>1. clone \in Checkouts \cup {None} /\ run[p] \in Runs /\ Stage(p, "checkout", run[p], clone)
      /\ Holds("checkout", run[p], clone, edited)
    BY Before DEF Checkout
<1>2. clone \in Checkouts
    BY <1>1 DEF Stage, Cloned, Found
<1>3. at \in [Procs -> Ended \cup Steps]
    BY DEF Types, TypeOK
<1>4. clone' = [clone EXCEPT !.head = run[p].commit, !.tree = run[p].commit] /\ run' = run
      /\ at'[p] \in {"verify", "nested"}
    BY <1>3 DEF Checkout, Go
<1>5. clone'.head = run[p].commit /\ clone'.tree = run[p].commit
    BY <1>2, <1>4 DEF Checkouts
<1>6. QED BY <1>1, <1>4, <1>5 DEF Holds, Found, Placed, Loaded, Writing

(* What is read of the checkout is of the commit that was checked out.     *)
LEMMA ReadsHolds ==
    ASSUME Types, Stages, NEW p \in Procs, Holds(at[p], run[p], clone, edited),
           Verify(p) \/ ResolveNested(p) \/ LoadManifest(p)
    PROVE  Holds(at'[p], run'[p], clone', edited)
<1>1. clone \in Checkouts \cup {None} /\ run[p] \in Runs /\ Stage(p, at[p], run[p], clone)
      /\ at[p] \in {"verify", "nested", "load"}
    BY Before DEF Verify, ResolveNested, LoadManifest, Reads
<1>2. clone \in Checkouts
    BY <1>1 DEF Stage, Cloned, Found, Placed
<1>3. at \in [Procs -> Ended \cup Steps]
    BY DEF Types, TypeOK
<1>4. /\ run[p].cmd # "offline" => run[p].asked = run[p].commit
      /\ run[p].spec.kind = "registry" => run[p].commit = run[p].spec.commit
      /\ clone.head = run[p].commit /\ clone.tree = run[p].commit
    BY <1>1 DEF Holds, Found, Placed
<1>5. CASE at'[p] \in Quiet
    BY <1>5, QuietHolds
<1>6. CASE Verify(p)
    <2>1. at'[p] = "over" \/ (at'[p] = "nested" /\ run' = run /\ clone' = clone)
        BY <1>3, <1>6 DEF Verify, Reads, End, Go
    <2>2. QED BY <1>4, <1>5, <2>1 DEF Holds, Found, Placed, Loaded, Writing, Quiet, Ended
<1>7. CASE ResolveNested(p)
    <2>1. at'[p] = "load" /\ run' = run
        BY <1>3, <1>7 DEF ResolveNested, Go
    <2>2. clone'.head = clone.head /\ clone'.tree = clone.tree
        BY <1>2, <1>7 DEF ResolveNested, Checkouts
    <2>3. QED BY <1>4, <2>1, <2>2 DEF Holds, Found, Placed, Loaded, Writing
<1>8. CASE LoadManifest(p)
    <2>1. at'[p] = "over" \/ (/\ at'[p] = "digest" /\ run' = run /\ clone' = clone
                              /\ Kind(p) = "range" => Declared[clone.tree] = run[p].chosen)
        BY <1>3, <1>8 DEF LoadManifest, Reads, End, Go
    <2>2. QED BY <1>4, <1>5, <2>1 DEF Holds, Found, Placed, Loaded, Writing, Quiet, Ended, Kind
<1>9. QED BY <1>6, <1>7, <1>8

(* So is the entry, unless somebody edited the files.                      *)
LEMMA ReadEntryHolds ==
    ASSUME Types, Stages, Untouched, NEW p \in Procs, Holds(at[p], run[p], clone, edited),
           ReadEntry(p)
    PROVE  Holds(at'[p], run'[p], clone', edited)
<1>1. clone \in Checkouts \cup {None} /\ run[p] \in Runs /\ Stage(p, at[p], run[p], clone)
      /\ at[p] \in {"digest", "content", "revision"} /\ clone' = clone
    BY Before DEF ReadEntry
<1>2. at \in [Procs -> Ended \cup Steps] /\ run \in [Procs -> Runs]
    BY DEF Types, TypeOK
<1>3. /\ run[p].cmd # "offline" => run[p].asked = run[p].commit
      /\ run[p].spec.kind = "registry" => run[p].commit = run[p].spec.commit
      /\ clone.head = run[p].commit /\ clone.tree = run[p].commit
      /\ run[p].spec.kind = "range" => Declared[run[p].commit] = run[p].chosen
    BY <1>1 DEF Holds, Found, Placed, Loaded, Writing
<1>4. ~edited => Content = run[p].commit
    <2>1. clone # None
        BY <1>1 DEF Stage, Cloned, Found, Placed, Loaded, Writing
    <2>2. QED BY <1>3, <2>1 DEF Untouched, Content
<1>5. CASE /\ at[p] = "digest" /\ Go(p, "content")
           /\ Know(p, "entry", [manifest |-> clone.tree, content |-> None, revision |-> None])
    <2> DEFINE e == [manifest |-> clone.tree, content |-> None, revision |-> None]
    <2>1. run'[p] = [run[p] EXCEPT !.entry = e] /\ at'[p] = "content" /\ e.manifest = clone.tree
        BY <1>2, <1>5 DEF Know, Go
    <2> HIDE DEF e
    <2>2. run'[p].entry = e /\ run'[p].commit = run[p].commit /\ run'[p].spec = run[p].spec
          /\ run'[p].cmd = run[p].cmd /\ run'[p].asked = run[p].asked
          /\ run'[p].chosen = run[p].chosen
        BY <1>1, <2>1 DEF Runs
    <2>3. QED BY <1>1, <1>3, <2>1, <2>2 DEF Holds, Found, Placed, Loaded, Writing
<1>6. CASE at[p] = "content" /\ Go(p, "revision") /\ run' = [run EXCEPT ![p].entry.content = Content]
    <2> DEFINE e == [run[p].entry EXCEPT !.content = Content]
    <2>1. run[p].entry \in Entries /\ run[p].entry.manifest = run[p].commit
        BY <1>1, <1>6 DEF Stage, Holds, Writing
    <2>2. e.content = Content /\ e.manifest = run[p].commit
        BY <2>1 DEF Entries
    <2>3. run'[p] = [run[p] EXCEPT !.entry = e] /\ at'[p] = "revision"
        BY <1>2, <1>6 DEF Go
    <2> HIDE DEF e
    <2>4. run'[p].entry = e /\ run'[p].commit = run[p].commit /\ run'[p].spec = run[p].spec
          /\ run'[p].cmd = run[p].cmd /\ run'[p].asked = run[p].asked
          /\ run'[p].chosen = run[p].chosen
        BY <1>1, <2>3 DEF Runs
    <2>5. QED BY <1>1, <1>3, <1>4, <2>2, <2>3, <2>4 DEF Holds, Found, Placed, Loaded, Writing
<1>7. CASE at[p] = "revision" /\ Go(p, "write")
           /\ run' = [run EXCEPT ![p].entry.revision = clone.head]
    <2> DEFINE e == [run[p].entry EXCEPT !.revision = clone.head]
    <2>1. run[p].entry \in Entries /\ run[p].entry.manifest = run[p].commit
          /\ (~edited => run[p].entry.content = run[p].commit)
        BY <1>1, <1>7 DEF Stage, Holds, Writing
    <2>2. e.revision = clone.head /\ e.manifest = run[p].commit
          /\ (~edited => e.content = run[p].commit)
        BY <2>1 DEF Entries
    <2>3. run'[p] = [run[p] EXCEPT !.entry = e] /\ at'[p] = "write"
        BY <1>2, <1>7 DEF Go
    <2> HIDE DEF e
    <2>4. run'[p].entry = e /\ run'[p].commit = run[p].commit /\ run'[p].spec = run[p].spec
          /\ run'[p].cmd = run[p].cmd /\ run'[p].asked = run[p].asked
          /\ run'[p].chosen = run[p].chosen
        BY <1>1, <2>3 DEF Runs
    <2>5. QED BY <1>1, <1>3, <2>2, <2>3, <2>4 DEF Holds, Found, Placed, Loaded, Writing
<1>8. QED BY <1>5, <1>6, <1>7 DEF ReadEntry

(* The other steps leave nothing to hold.                                  *)
LEMMA QuietSteps ==
    ASSUME Types, Stages, NEW p \in Procs,
           ListTags(p) \/ Prepare(p) \/ Clone(p) \/ Origin(p) \/ Status(p) \/ WriteLock(p) \/ Kill(p)
    PROVE  Holds(at'[p], run'[p], clone', edited)
<1>1. at \in [Procs -> Ended \cup Steps]
    BY DEF Types, TypeOK
<1>2. CASE ListTags(p) \/ Prepare(p) \/ Clone(p) \/ Origin(p) \/ WriteLock(p) \/ Kill(p)
    <2>1. at'[p] \in {"prepare", "over", "origin", "clone", "status", "fetch"}
        BY <1>1, <1>2 DEF ListTags, Prepare, Clone, Origin, WriteLock, Kill, Go, End
    <2>2. QED BY <2>1, QuietHolds DEF Quiet, Ended
<1>3. CASE Status(p)
    <2>1. at'[p] \in {"refused", "fetch"} \/ (at'[p] = "resolve" /\ Offline(p) /\ run' = run)
        BY <1>1, <1>3 DEF Status, Go, End
    <2>2. CASE at'[p] \in {"refused", "fetch"}
        BY <2>2, QuietHolds DEF Quiet, Ended
    <2>3. CASE at'[p] = "resolve" /\ Offline(p) /\ run' = run
        BY <2>3 DEF Offline, Holds, Found, Placed, Loaded, Writing
    <2>4. QED BY <2>1, <2>2, <2>3
<1>4. QED BY <1>2, <1>3

(* A step of a command that runs alone keeps what it holds of the          *)
(* checkout.                                                               *)
LEMMA StepHolds ==
    ASSUME Types, Stages, Untouched, NEW p \in Procs, Holds(at[p], run[p], clone, edited),
           Step(p) \/ Kill(p), ~overlapped
    PROVE  Holds(at'[p], run'[p], clone', edited)
BY FetchHolds, ResolveHolds, CheckoutHolds, ReadsHolds, ReadEntryHolds, QuietSteps DEF Step

(* mortc itself edits no file of the checkout.                             *)
LEMMA UntouchedStep ==
    ASSUME Types, Stages, Untouched, NEW p \in Procs, Step(p) \/ Kill(p)
    PROVE  Untouched'
<1>1. edited' = edited /\ clone \in Checkouts \cup {None} /\ Stage(p, at[p], run[p], clone)
    BY StepElsewhere, Before
<1>2. CASE ListTags(p) \/ Prepare(p) \/ Origin(p) \/ Status(p) \/ Resolve(p) \/ Verify(p)
           \/ LoadManifest(p) \/ ReadEntry(p) \/ WriteLock(p)
    <2>1. clone' = clone
        BY <1>2 DEF ListTags, Prepare, Origin, Status, Resolve, Verify, LoadManifest, ReadEntry,
                    WriteLock, Reads
    <2>2. QED BY <1>1, <2>1 DEF Untouched
<1>3. CASE Clone(p)
    <2>1. clone' = clone \/ clone'.extra = {}
        BY <1>3 DEF Clone
    <2>2. QED BY <1>1, <2>1 DEF Untouched
<1>4. CASE Fetch(p) \/ Checkout(p) \/ Kill(p) \/ ResolveNested(p)
    <2>1. CASE clone' = clone
        BY <1>1, <2>1 DEF Untouched
    <2>2. CASE clone' # clone
        <3>1. at[p] \in Cloned
            BY <1>4, <2>2 DEF Fetch, Checkout, Kill, ResolveNested, Cloned, Found, Placed
        <3>2. clone \in Checkouts /\ clone # None
            BY <1>1, <3>1 DEF Stage
        <3>3. clone'.extra \in {clone.extra, clone.extra \cup {"nested"}}
            BY <1>4, <3>2 DEF Fetch, Checkout, Kill, ResolveNested, Checkouts
        <3>4. QED BY <1>1, <3>2, <3>3 DEF Untouched
    <2>3. QED BY <2>1, <2>2
<1>5. QED BY <1>2, <1>3, <1>4 DEF Step

(* The invariant is inductive.                                             *)
LEMMA InvStep ==
    ASSUME Inv, [Next]_vars
    PROVE  Inv'
<1>1. Types /\ Stages /\ Untouched /\ (~overlapped => Alone /\ Held)
    BY DEF Inv
<1>2. Types' /\ Stages' /\ at \in [Procs -> Ended \cup Steps]
    BY <1>1, TypesStep DEF Types, TypeOK
<1>3. Ended \cap Steps = {} /\ Ended \subseteq Quiet
    BY DEF Ended, Steps, Quiet
<1>4. ASSUME NEW p \in Procs, Step(p) \/ Kill(p)
      PROVE  Untouched' /\ (~overlapped' => Alone' /\ Held')
    <2>1. Untouched' /\ overlapped' = overlapped /\ edited' = edited /\ at[p] \in Steps
        BY <1>1, <1>4, UntouchedStep, StepElsewhere
    <2>2. \A q \in Procs \ {p} : at'[q] = at[q] /\ run'[q] = run[q]
        BY <1>1, <1>4, StepLocal, StagesLocal
    <2> SUFFICES ASSUME ~overlapped
                 PROVE  Alone' /\ Held'
        BY <2>1
    <2>3. \A q \in Procs \ {p} : at'[q] \in Ended
        BY <1>1, <1>2, <2>1, <2>2 DEF Alone
    <2>4. Holds(at'[p], run'[p], clone', edited)
        BY <1>1, <1>4, StepHolds DEF Held
    <2>5. Alone'
        BY <1>3, <2>3 DEF Alone
    <2>6. ASSUME NEW q \in Procs
          PROVE  Holds(at'[q], run'[q], clone', edited')
        <3>1. CASE q = p
            BY <2>1, <2>4, <3>1
        <3>2. CASE q # p
            BY <1>3, <2>3, <3>2, QuietHolds
        <3>3. QED BY <3>1, <3>2
    <2>7. QED BY <2>5, <2>6 DEF Held
<1>5. ASSUME NEW p \in Procs,
             (\E c \in Commands : Start(p, c)) \/ (\E s \in Specs : Add(p, s))
      PROVE  Untouched' /\ (~overlapped' => Alone' /\ Held')
    <2>1. PICK c \in Commands, spec \in Specs : Begin(p, c, spec)
        BY <1>1, <1>5, StartsAre
    <2>2. \A q \in Procs \ {p} : at'[q] = at[q] /\ run'[q] = run[q]
        BY <1>1, <2>1, BeginLocal, StagesLocal
    <2>3. clone' = clone /\ edited' = edited /\ at'[p] \in {"list", "prepare"}
          /\ (~overlapped' => ~overlapped /\ \A q \in Procs \ {p} : at[q] \in Ended)
        BY <1>1, <2>1, BeginElsewhere
    <2>4. Untouched'
        BY <1>1, <2>3 DEF Untouched
    <2> SUFFICES ASSUME ~overlapped'
                 PROVE  Alone' /\ Held'
        BY <2>4
    <2>5. \A q \in Procs \ {p} : at'[q] \in Ended
        BY <2>2, <2>3
    <2>6. Alone'
        BY <1>3, <2>5 DEF Alone
    <2>7. ASSUME NEW q \in Procs
          PROVE  Holds(at'[q], run'[q], clone', edited')
        <3>1. at'[q] \in Quiet
            BY <1>3, <2>3, <2>5 DEF Quiet
        <3>2. QED BY <3>1, QuietHolds
    <2>8. QED BY <2>6, <2>7 DEF Held
<1>6. ASSUME \/ Push \/ (\E v \in Versions : PushTag(v)) \/ (\E s \in Specs : EditManifest(s))
             \/ EditCheckout
      PROVE  Untouched' /\ (~overlapped' => Alone' /\ Held')
    <2>1. /\ at' = at /\ run' = run /\ overlapped' = overlapped
          /\ (edited => edited') /\ (~edited' => clone' = clone)
          /\ (clone' # clone => /\ clone'.head = clone.head /\ clone'.tree = clone.tree
                                /\ clone'.tagged = clone.tagged /\ clone'.branch = clone.branch)
        BY <1>1, <1>6, MeanwhileKeeps
    <2>2. Untouched'
        BY <1>1, <2>1 DEF Untouched
    <2>3. Alone => Alone'
        BY <2>1 DEF Alone
    <2>4. ASSUME NEW q \in Procs, Holds(at[q], run[q], clone, edited)
          PROVE  Holds(at[q], run[q], clone', edited')
        BY <2>1, <2>4 DEF Holds, Wanted
    <2>5. Held => Held'
        BY <2>1, <2>4 DEF Held
    <2>6. QED BY <1>1, <2>1, <2>2, <2>3, <2>5
<1>7. ASSUME UNCHANGED vars
      PROVE  Untouched' /\ (~overlapped' => Alone' /\ Held')
    BY <1>1, <1>7 DEF vars, remote, counts, Untouched, Alone, Held
<1>8. QED BY <1>2, <1>4, <1>5, <1>6, <1>7 DEF Inv, Next

(* Alone, a command finds in the checkout what it put there, whatever the  *)
(* remote and mort.toml become meanwhile: the inductive invariant.         *)
THEOREM CheckoutIsHeld == Spec => []Inv
<1>1. Init => Inv
    <2> SUFFICES ASSUME Init
                 PROVE  Inv
        OBVIOUS
    <2>1. Types /\ Stages
        BY InitTypes
    <2>2. \A p \in Procs : at[p] \in Ended
        BY DEF Init, Ended
    <2>3. Alone /\ Held
        BY <2>2, QuietHolds DEF Alone, Held, Quiet, Ended, Steps
    <2>4. Untouched
        BY DEF Init, Untouched
    <2>5. QED BY <2>1, <2>3, <2>4 DEF Inv
<1>2. Inv /\ [Next]_vars => Inv'
    BY InvStep
<1>3. QED BY <1>1, <1>2, PTL DEF Spec

(* The remote, mort.toml, the checkout, mort.lock and the commands have    *)
(* their types.                                                            *)
THEOREM TypeCorrect == Spec => []TypeOK
<1>1. Inv => TypeOK
    BY DEF Inv, Types
<1>2. QED BY <1>1, CheckoutIsHeld, PTL

(* What a command is about to write to mort.lock is the one commit that    *)
(* mort.toml asked for, unless commands overlapped or files were edited.   *)
THEOREM LockIsAsked == Spec => []LockedAsAsked
<1>1. Inv => LockedAsAsked
    <2> SUFFICES ASSUME Inv, NEW p \in Procs, at[p] = "write", ~overlapped, ~edited
                 PROVE  LET e == run[p].entry IN
                        /\ e.manifest = e.revision /\ e.content = e.revision
                        /\ ~Offline(p) => e.revision = run[p].asked
                        /\ Kind(p) = "range" => Declared[e.revision] = run[p].chosen
                        /\ Kind(p) = "registry" => e.revision = run[p].spec.commit
        BY DEF LockedAsAsked
    <2>1. Holds("write", run[p], clone, edited)
        BY DEF Inv, Held
    <2>2. QED BY <2>1 DEF Holds, Found, Placed, Loaded, Writing, Offline, Kind
<1>2. QED BY <1>1, CheckoutIsHeld, PTL

(* A version that a range selected satisfies it as long as the command     *)
(* works with it, whatever other commands do to the checkout.              *)
ChosenSatisfies ==
    \A p \in Procs : at[p] \in Steps \ {"list"} /\ Kind(p) = "range" =>
        Satisfies(run[p].chosen, run[p].spec.clauses)

(* semver_satisfies holds of the version select_semver gave, in every      *)
(* reachable state of a command for a range.                               *)
THEOREM SelectedSatisfies == Spec => []ChosenSatisfies
<1>1. Inv => ChosenSatisfies
    BY DEF Inv, Stages, Stage, ChosenSatisfies, Kind
<1>2. QED BY <1>1, CheckoutIsHeld, PTL
=============================================================================

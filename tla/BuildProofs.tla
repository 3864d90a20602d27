---------------------------- MODULE BuildProofs -----------------------------
(***************************************************************************)
(* Proofs about Build for every set of commands, files, texts and modes,   *)
(* every graph of imports and every bound.                                 *)
(***************************************************************************)
EXTENDS Build, Integers, NaturalsInduction, WellFoundedInduction, SequenceTheorems, TLAPS

-----------------------------------------------------------------------------
(* The inductive invariant. *)

W == Range(Walked)

Steps == {"walk", "fingerprint", "cache", "arguments", "load", "backend", "truncate", "record",
          "serve", "counts", "test"}
Partial == UNION {[S -> Texts \cup {NoFile}] : S \in SUBSET Files}

(* What each variable may hold.                                            *)
FileTypes ==
    /\ manifest \in Modes /\ disk \in [Files -> Texts \cup {NoFile}]
    /\ output # NoFile => output.texts \in Partial
LocalTypes ==
    /\ cmd \in [Procs -> Caching \cup Testing]
    /\ at \in [Procs -> Ended \cup Steps]
    /\ mode \in [Procs -> Modes \cup {NoFile}]
    /\ roots \in [Procs -> Seq(Files)] /\ todo \in [Procs -> Seq(Files)]
    /\ tests \in [Procs -> Seq(Files)]
    /\ fp \in [Procs -> [manifest : Modes \cup {NoFile}, texts : Partial]]
    /\ read \in [Procs -> Partial]
CountTypes ==
    /\ edits \in 0 .. MaxEdits /\ commands \in 0 .. MaxCommands /\ kills \in 0 .. MaxKills
    /\ disturbed \in BOOLEAN
Types == FileTypes /\ LocalTypes /\ CountTypes

(* What a command has to be at its step.                                   *)
Stage(p) ==
    /\ at[p] \in {"walk", "fingerprint", "cache", "truncate", "record", "serve"} => cmd[p] \in Caching
    /\ at[p] \in {"test", "counts"} => cmd[p] \in Testing
    /\ at[p] \in Steps => mode[p] \in Modes
    /\ at[p] \notin {"load", "backend"} => read[p] = Nothing
    /\ \A f \in DOMAIN read[p] : read[p][f] \in Texts \ {Bad}
    /\ at[p] \in {"walk", "fingerprint"} => roots[p] # <<>> /\ Range(roots[p]) \subseteq W
    /\ at[p] = "fingerprint" => todo[p] # <<>> /\ DOMAIN fp[p].texts \cup Range(todo[p]) = W
    /\ at[p] = "cache" \/ Building(p) => DOMAIN fp[p].texts = W
Stages == \A p \in Procs : Stage(p)

(* A program is the one that a fingerprint was taken of, and of the files  *)
(* as they are where no fingerprint is taken.                              *)
Agrees(texts, print, program) ==
    /\ program.mode = print.mode
    /\ \A f \in DOMAIN program.texts :
          program.texts[f] = IF f \in W THEN print.texts[f] ELSE texts[f]

(* What is still as it was read.                                           *)
StillFresh(p) ==
    cmd[p] \in Caching =>
       /\ at[p] \in {"fingerprint", "cache", "arguments", "load"} =>
             \A f \in DOMAIN fp[p].texts \ DOMAIN read[p] : fp[p].texts[f] = disk[f]
       /\ at[p] \in {"load", "backend"} =>
             \A f \in DOMAIN read[p] :
                read[p][f] = IF f \in W THEN fp[p].texts[f] ELSE disk[f]
Fresh == \A p \in Procs : StillFresh(p)

Built == {"truncate", "record", "serve"}

(* The commands that build agree on what they build, and those that have   *)
(* built on what the output is; so does the cache, but while a command is  *)
(* between its output and the cache.                                       *)
Together == \A p, q \in Procs : Building(p) /\ Building(q) => Fingerprint(p) = Fingerprint(q)
Outputs ==
    output # NoFile =>
       /\ \A p \in Procs : at[p] \in Built => Agrees(disk, Fingerprint(p), output)
       /\ cache \in {NoFile, Torn} \/ Agrees(disk, cache, output) \/ \E q \in Procs : at[q] = "truncate"

Inv == Types /\ Stages /\ (~disturbed => Fresh /\ Together /\ Outputs)

-----------------------------------------------------------------------------
(* The members of a list that are in a set.                                *)

(* A set of numbers that is not empty has a least one.                     *)
LEMMA Least ==
    ASSUME NEW T \in SUBSET Nat, T # {}
    PROVE  \E n \in T : \A m \in T : n <= m
<1> DEFINE R == {ss \in Nat \X Nat : ss[1] < ss[2]}
<1>1. IsWellFoundedOn(R, Nat)
    BY NatLessThanWellFounded DEF OpToRel
<1> HIDE DEF R
<1>2. PICK n \in T : \A m \in T : ~(<<m, n>> \in R)
    BY <1>1, WFMin
<1>3. ASSUME NEW m \in T, ~(n <= m)
      PROVE  FALSE
    <2>1. <<m, n>> \in R
        BY <1>3 DEF R
    <2>2. QED BY <1>2, <2>1
<1>4. QED BY <1>3

(* The function that Kept defines by recursion exists.                     *)
LEMMA KeptDefined ==
    ASSUME NEW list \in Seq(Files), NEW set
    PROVE  \E g : /\ g = [n \in 0 .. Len(list) |->
                             IF n = 0 THEN <<>>
                             ELSE IF list[n] \in set THEN Append(g[n - 1], list[n]) ELSE g[n - 1]]
                  /\ Kept(list, set) = g[Len(list)]
<1> DEFINE Next1(g, n) ==
               IF n = 0 THEN <<>>
               ELSE IF list[n] \in set THEN Append(g[n - 1], list[n]) ELSE g[n - 1]
           Good(m, g) == g = [n \in 0 .. m |-> Next1(g, n)]
           T == {m \in Nat : ~ \E g : Good(m, g)}
<1>1. T = {}
    <2> SUFFICES ASSUME T # {}
                 PROVE  FALSE
        OBVIOUS
    <2>1. PICK m \in T : \A k \in T : m <= k
        BY Least
    <2>2. m # 0
        <3> DEFINE g == [n \in 0 .. 0 |-> <<>>]
        <3>1. Good(0, g)
            OBVIOUS
        <3>2. QED BY <3>1
    <2>3. m \in Nat /\ m - 1 \in Nat /\ m - 1 \notin T
        <3>1. m \in Nat
            BY <2>1
        <3> HIDE DEF T
        <3>2. QED BY <2>1, <2>2, <3>1
    <2>4. PICK g : Good(m - 1, g)
        BY <2>3
    <2> DEFINE h == [n \in 0 .. m |-> IF n = m THEN Next1(g, m) ELSE g[n]]
    <2>5. ASSUME NEW n \in 0 .. m
          PROVE  h[n] = Next1(h, n)
        <3>1. CASE n = m
            <4>1. h[m - 1] = g[m - 1]
                BY <2>3
            <4>2. QED BY <2>3, <3>1, <4>1
        <3>2. CASE n # m
            <4>1. n \in 0 .. m - 1 /\ h[n] = g[n]
                BY <2>3, <3>2
            <4>2. g[n] = Next1(g, n)
                BY <2>4, <4>1
            <4>3. n # 0 => n - 1 \in 0 .. m /\ h[n - 1] = g[n - 1]
                BY <2>3, <4>1
            <4>4. QED BY <4>1, <4>2, <4>3
        <3>3. QED BY <3>1, <3>2
    <2>6. Good(m, h)
        <3> HIDE DEF Next1
        <3> DEFINE h2 == [n \in 0 .. m |-> Next1(h, n)]
        <3>1. \A n \in 0 .. m : h[n] = h2[n]
            BY <2>5
        <3>2. DOMAIN h = 0 .. m /\ DOMAIN h2 = 0 .. m
            OBVIOUS
        <3> HIDE DEF h2
        <3>3. h = [n \in 0 .. m |-> h[n]] /\ h2 = [n \in 0 .. m |-> h2[n]]
            BY DEF h2
        <3>4. QED BY <3>1, <3>3 DEF h2
    <2>7. QED BY <2>1, <2>6
<1>2. PICK g : Good(Len(list), g)
    BY <1>1, LenProperties
<1> DEFINE kept[n \in 0 .. Len(list)] ==
               IF n = 0 THEN <<>>
               ELSE IF list[n] \in set THEN Append(kept[n - 1], list[n]) ELSE kept[n - 1]
<1>3. Good(Len(list), kept)
    BY <1>2
<1>4. Kept(list, set) = kept[Len(list)]
    BY DEF Kept
<1>5. QED BY <1>3, <1>4

(* Two lists joined are a list of the members of both.                     *)
LEMMA RangeJoin ==
    ASSUME NEW a \in Seq(Files), NEW b \in Seq(Files)
    PROVE  Range(a \o b) = Range(a) \cup Range(b)
BY RangeConcatenation

(* Kept keeps the members of the set, and nothing else.                    *)
LEMMA KeptRange ==
    ASSUME NEW list \in Seq(Files), NEW set
    PROVE  /\ Kept(list, set) \in Seq(Files)
           /\ Range(Kept(list, set)) = Range(list) \cap set
<1> DEFINE N == Len(list)
           Upto(n) == {list[i] : i \in 1 .. n} \cap set
<1>1. PICK g : /\ \A n \in 0 .. N : g[n] = IF n = 0 THEN <<>>
                                          ELSE IF list[n] \in set THEN Append(g[n - 1], list[n])
                                          ELSE g[n - 1]
               /\ Kept(list, set) = g[N]
    BY KeptDefined
<1> DEFINE Good(n) == g[n] \in Seq(Files) /\ Range(g[n]) = Upto(n)
           T == {n \in Nat : n <= N /\ ~Good(n)}
<1>2. N \in Nat /\ \A i \in 1 .. N : list[i] \in Files
    BY LenProperties, ElementOfSeq
<1>3. T = {}
    <2> SUFFICES ASSUME T # {}
                 PROVE  FALSE
        OBVIOUS
    <2>1. PICK m \in T : \A k \in T : m <= k
        <3>1. T \in SUBSET Nat
            OBVIOUS
        <3> HIDE DEF T
        <3>2. QED BY <3>1, Least
    <2>2. m \in Nat /\ m <= N /\ ~Good(m)
        BY <2>1
    <2>3. m # 0
        <3>1. g[0] = <<>> /\ Upto(0) = {}
            BY <1>1, <1>2
        <3>2. Range(<<>>) = {} /\ <<>> \in Seq(Files)
            BY DEF Range
        <3>3. QED BY <2>2, <3>1, <3>2
    <2>4. m - 1 \in Nat /\ m - 1 <= N /\ Good(m - 1)
        <3>1. m - 1 \in Nat /\ m - 1 <= N /\ m - 1 \notin T
            <4> HIDE DEF T, Good
            <4>1. QED BY <1>2, <2>1, <2>2, <2>3
        <3> HIDE DEF Good
        <3>2. QED BY <3>1
    <2>5. Upto(m) = Upto(m - 1) \cup ({list[m]} \cap set)
        BY <2>2, <2>3, <2>4
    <2>6. g[m] = IF list[m] \in set THEN Append(g[m - 1], list[m]) ELSE g[m - 1]
        BY <1>1, <1>2, <2>2, <2>3
    <2>7. list[m] \in Files
        BY <1>2, <2>2, <2>3
    <2> HIDE DEF Upto
    <2>8. ASSUME list[m] \in set
          PROVE  Good(m)
        <3>1. Append(g[m - 1], list[m]) = g[m - 1] \o <<list[m]>> /\ <<list[m]>> \in Seq(Files)
            BY <2>4, <2>7, AppendIsConcat
        <3>2. Range(g[m]) = Range(g[m - 1]) \cup Range(<<list[m]>>)
            <4>1. g[m] = g[m - 1] \o <<list[m]>>
                BY <2>6, <2>8, <3>1
            <4>2. g[m - 1] \in Seq(Files)
                BY <2>4
            <4>3. <<list[m]>> \in Seq(Files)
                BY <3>1
            <4>4. Range(g[m - 1] \o <<list[m]>>) = Range(g[m - 1]) \cup Range(<<list[m]>>)
                BY <4>2, <4>3, RangeJoin
            <4>5. QED BY <4>1, <4>4
        <3>3. Range(<<list[m]>>) = {list[m]}
            BY DEF Range
        <3>4. QED BY <2>4, <2>5, <2>6, <2>7, <2>8, <3>2, <3>3
    <2>9. CASE list[m] \notin set
        BY <2>4, <2>5, <2>6, <2>9
    <2>10. QED BY <2>2, <2>8, <2>9
<1>4. Good(N)
    <2> HIDE DEF Good
    <2>1. QED BY <1>2, <1>3
<1>5. Upto(N) = Range(list) \cap set
    BY RangeEquality
<1>6. QED BY <1>1, <1>4, <1>5

-----------------------------------------------------------------------------
(* What a proof needs of the data.                                         *)

(* A file that is read adds to what was read.                              *)
LEMMA PartialAdd ==
    ASSUME NEW old \in Partial, NEW f \in Files, NEW t \in Texts \cup {NoFile}
    PROVE  /\ [g \in DOMAIN old \cup {f} |-> IF g = f THEN t ELSE old[g]] \in Partial
           /\ DOMAIN old \subseteq Files
<1>1. PICK S \in SUBSET Files : old \in [S -> Texts \cup {NoFile}]
    BY DEF Partial
<1>2. S \cup {f} \in SUBSET Files /\ DOMAIN old = S
    BY <1>1
<1>3. [g \in S \cup {f} |-> IF g = f THEN t ELSE old[g]] \in [S \cup {f} -> Texts \cup {NoFile}]
    BY <1>1
<1>4. QED BY <1>2, <1>3 DEF Partial

(* A record of some files' texts is one, however few files it has.         *)
LEMMA PartialMember ==
    ASSUME NEW S \in SUBSET Files, NEW x \in [S -> Texts \cup {NoFile}]
    PROVE  x \in Partial
BY DEF Partial

(* What a record of some files' texts holds, by file.                      *)
LEMMA PartialDomain ==
    ASSUME NEW x \in Partial
    PROVE  DOMAIN x \subseteq Files /\ \A f \in DOMAIN x : x[f] \in Texts \cup {NoFile}
BY DEF Partial

(* A command starts with a record of no file.                              *)
LEMMA NothingPartial == Nothing \in Partial /\ DOMAIN Nothing = {}
<1>1. Nothing \in [{} -> Texts \cup {NoFile}] /\ DOMAIN Nothing = {}
    BY DEF Nothing
<1>2. QED BY <1>1, PartialMember

(* The files that a load reaches are files of the program.                 *)
LEMMA LoadsFiles ==
    ASSUME NEW start \in Seq(Files), NEW texts \in [Files -> Texts]
    PROVE  Loads(start, texts) \in SUBSET Files
<1> DEFINE Closed(S) == \A f \in S : Range(Imports[f][texts[f]]) \subseteq S
           Least1(S) == /\ Range(start) \subseteq S /\ Closed(S)
                        /\ \A T \in SUBSET S : Range(start) \subseteq T /\ Closed(T) => T = S
           All == {f \in Files : \A S \in SUBSET Files : Range(start) \subseteq S /\ Closed(S) => f \in S}
<1>1. Range(start) \subseteq Files
    BY RangeOfSeq
<1>2. \A f \in Files : Range(Imports[f][texts[f]]) \subseteq Files
    <2> TAKE f \in Files
    <2>1. Imports[f][texts[f]] \in Seq(Files)
        BY ImportsAssumption
    <2>2. QED BY <2>1, RangeOfSeq
<1>3. Range(start) \subseteq All /\ Closed(All)
    BY <1>1, <1>2
<1>4. All \in SUBSET Files /\ Least1(All)
    <2>1. ASSUME NEW T \in SUBSET All, Range(start) \subseteq T, Closed(T)
          PROVE  T = All
        BY <2>1
    <2>2. QED BY <1>3, <2>1
<1>5. Loads(start, texts) = CHOOSE S \in SUBSET Files : Least1(S)
    BY DEF Loads
<1> HIDE DEF Least1, All
<1>6. QED BY <1>4, <1>5

-----------------------------------------------------------------------------
(* Types and stages.                                                       *)

(* A command that a step does not touch.                                   *)
Same(q) ==
    /\ cmd'[q] = cmd[q] /\ at'[q] = at[q] /\ mode'[q] = mode[q] /\ roots'[q] = roots[q]
    /\ fp'[q] = fp[q] /\ todo'[q] = todo[q] /\ read'[q] = read[q]
Others(p) == \A q \in Procs : q # p => Same(q)

(* What holds of a command at its step holds while its own variables stay. *)
LEMMA SameStage ==
    ASSUME NEW q, Same(q)
    PROVE  /\ Stage(q) => Stage(q)'
           /\ Building(q)' <=> Building(q)
           /\ Fingerprint(q)' = Fingerprint(q)
BY DEF Same, Stage, Building, Fingerprint

(* The empty list of files is one, and mentions no file.                   *)
LEMMA EmptyList == <<>> \in Seq(Files) /\ Range(<<>>) = {}
BY DEF Range

(* A command ends.                                                         *)
LEMMA EndLocal ==
    ASSUME LocalTypes, NEW p \in Procs, NEW how \in Ended, End(p, how)
    PROVE  LocalTypes' /\ Stage(p)' /\ Others(p) /\ at'[p] = how
<1>1. /\ at' = [at EXCEPT ![p] = how] /\ cmd' = [cmd EXCEPT ![p] = "build"]
      /\ mode' = [mode EXCEPT ![p] = NoFile] /\ roots' = [roots EXCEPT ![p] = <<>>]
      /\ fp' = [fp EXCEPT ![p] = Unread] /\ tests' = [tests EXCEPT ![p] = <<>>]
      /\ todo' = [todo EXCEPT ![p] = <<>>] /\ read' = [read EXCEPT ![p] = Nothing]
    BY DEF End, Go, LoadFrom
<1>2. Unread \in [manifest : Modes \cup {NoFile}, texts : Partial]
    BY NothingPartial DEF Unread
<1>3. LocalTypes'
    BY <1>1, <1>2, NothingPartial, EmptyList DEF LocalTypes, Caching
<1>4. Others(p)
    BY <1>1 DEF Others, Same, LocalTypes
<1>5. at'[p] = how /\ read'[p] = Nothing /\ cmd'[p] = "build"
    BY <1>1 DEF LocalTypes
<1>6. Stage(p)'
    BY <1>5, NothingPartial DEF Stage, Building, Ended, Steps, Caching
<1>7. QED BY <1>3, <1>4, <1>5, <1>6

(* The steps of a command, one after another.                              *)
LEMMA StartLocal ==
    ASSUME Types, Stages, NEW p \in Procs, NEW c \in Caching \cup Testing, Start(p, c)
    PROVE  LocalTypes' /\ Stage(p)' /\ Others(p)
<1>1. LocalTypes /\ at[p] \in Ended /\ Stage(p) /\ manifest \in Modes /\ UNCHANGED <<fp, todo, read>>
    BY DEF Types, FileTypes, Stages, Start
<1>2. There(Tests) \in Seq(Files)
    BY FilesAssumption, KeptRange DEF There
<1>3. There(Roots) \in Seq(Files) /\ Range(There(Roots)) \subseteq W
    BY FilesAssumption, KeptRange DEF There, W
<1>4. read[p] = Nothing
    BY <1>1 DEF Stage, Ended
<1>5. CASE at' = [at EXCEPT ![p] = "failed"] /\ UNCHANGED <<cmd, mode, roots, tests>>
    <2>1. at'[p] = "failed"
        BY <1>1, <1>5 DEF LocalTypes
    <2>2. LocalTypes' /\ Others(p)
        BY <1>1, <1>5 DEF LocalTypes, Others, Same, Ended
    <2>3. QED BY <1>1, <1>4, <1>5, <2>1, <2>2, NothingPartial DEF Stage, Building, Steps, Caching
<1>6. ASSUME NEW step, NEW found \in Seq(Files), There(Roots) # <<>>,
             step \in {"test", "walk"}, c \in Testing <=> step = "test",
             cmd' = [cmd EXCEPT ![p] = c], mode' = [mode EXCEPT ![p] = manifest],
             roots' = [roots EXCEPT ![p] = There(Roots)], tests' = [tests EXCEPT ![p] = found],
             at' = [at EXCEPT ![p] = step]
      PROVE  LocalTypes' /\ Stage(p)' /\ Others(p)
    <2>1. step \in Steps /\ step \in {"test", "walk"}
        BY <1>6 DEF Steps
    <2>2. LocalTypes'
        BY <1>1, <1>3, <1>6, <2>1 DEF LocalTypes
    <2>3. Others(p)
        BY <1>1, <1>6 DEF LocalTypes, Others, Same
    <2>4. at'[p] = step /\ cmd'[p] = c /\ mode'[p] = manifest /\ roots'[p] = There(Roots)
          /\ read'[p] = Nothing
        BY <1>1, <1>4, <1>6 DEF LocalTypes
    <2>5. Stage(p)'
        BY <1>1, <1>3, <1>6, <2>1, <2>4, NothingPartial DEF Stage, Building
    <2>6. QED BY <2>2, <2>3, <2>5
<1> DEFINE found == IF c \in Testing THEN There(Tests) ELSE <<>>
<1>7. found \in Seq(Files)
    BY <1>2, EmptyList
<1>8. \/ at' = [at EXCEPT ![p] = "failed"] /\ UNCHANGED <<cmd, mode, roots, tests>>
      \/ /\ There(Roots) # <<>>
         /\ cmd' = [cmd EXCEPT ![p] = c] /\ mode' = [mode EXCEPT ![p] = manifest]
         /\ roots' = [roots EXCEPT ![p] = There(Roots)] /\ tests' = [tests EXCEPT ![p] = found]
         /\ at' = [at EXCEPT ![p] = IF c \in Testing THEN "test" ELSE "walk"]
    BY DEF Start, Go, project
<1>9. CASE at' = [at EXCEPT ![p] = "failed"] /\ UNCHANGED <<cmd, mode, roots, tests>>
    BY <1>5, <1>9
<1> HIDE DEF found
<1>10. CASE /\ There(Roots) # <<>>
            /\ cmd' = [cmd EXCEPT ![p] = c] /\ mode' = [mode EXCEPT ![p] = manifest]
            /\ roots' = [roots EXCEPT ![p] = There(Roots)] /\ tests' = [tests EXCEPT ![p] = found]
            /\ at' = [at EXCEPT ![p] = IF c \in Testing THEN "test" ELSE "walk"]
    <2> DEFINE step == IF c \in Testing THEN "test" ELSE "walk"
    <2>1. step \in {"test", "walk"} /\ (c \in Testing <=> step = "test")
        OBVIOUS
    <2>2. at' = [at EXCEPT ![p] = step]
        BY <1>10
    <2> HIDE DEF step
    <2>3. QED BY <1>6, <1>7, <1>10, <2>1, <2>2
<1>11. QED BY <1>8, <1>9, <1>10

(* _project_fingerprint's walk over the directory leaves a command at a    *)
(* step its locals agree with.                                             *)
LEMMA WalkLocal ==
    ASSUME Types, Stages, NEW p \in Procs, Walk(p)
    PROVE  LocalTypes' /\ Stage(p)' /\ Others(p)
<1> DEFINE list == Kept(Walked, Range(roots[p]) \cup Present)
           rest == W \ Range(list)
           texts == [f \in rest |-> NoFile]
<1>1. /\ at[p] = "walk" /\ LocalTypes /\ Stage(p) /\ UNCHANGED <<cmd, mode, roots, read, tests>>
      /\ todo' = [todo EXCEPT ![p] = list] /\ fp' = [fp EXCEPT ![p].texts = texts]
      /\ at' = [at EXCEPT ![p] = "fingerprint"]
    BY DEF Types, Stages, Walk, Go, project, W
<1>2. list \in Seq(Files) /\ Range(list) = W \cap (Range(roots[p]) \cup Present)
    BY FilesAssumption, KeptRange DEF W
<1>3. W \subseteq Files
    BY FilesAssumption, RangeOfSeq DEF W
<1>4. texts \in Partial /\ DOMAIN texts = rest
    <2>1. rest \in SUBSET Files /\ texts \in [rest -> Texts \cup {NoFile}]
        BY <1>3
    <2> HIDE DEF rest
    <2>2. QED BY <2>1, PartialMember
<1> HIDE DEF list, texts
<1>5. LocalTypes' /\ Others(p)
    BY <1>1, <1>2, <1>4 DEF LocalTypes, Others, Same, Steps
<1>6. /\ at'[p] = "fingerprint" /\ todo'[p] = list /\ fp'[p].texts = texts
      /\ UNCHANGED <<cmd[p], mode[p], roots[p], read[p]>>
    BY <1>1 DEF LocalTypes
<1>7. roots[p] \in Seq(Files) /\ roots[p] # <<>> /\ Range(roots[p]) \subseteq W
    BY <1>1 DEF LocalTypes, Stage
<1>8. list # <<>>
    <2>1. roots[p][1] \in Range(roots[p])
        BY <1>7 DEF Range
    <2>2. Range(list) # {}
        BY <1>2, <1>7, <2>1
    <2>3. QED BY <2>2, EmptyList
<1>9. Stage(p)'
    BY <1>1, <1>2, <1>4, <1>6, <1>7, <1>8 DEF Stage, Building, Steps
<1>10. QED BY <1>5, <1>9

(* So does reading the next file for the fingerprint.                      *)
LEMMA ReadLocal ==
    ASSUME Types, Stages, NEW p \in Procs, ReadForFingerprint(p)
    PROVE  LocalTypes' /\ Stage(p)' /\ Others(p)
<1> DEFINE f == Head(todo[p])
           texts == [g \in DOMAIN fp[p].texts \cup {f} |->
                        IF g = f THEN disk[f] ELSE fp[p].texts[g]]
           step == IF Tail(todo[p]) = <<>> THEN "cache" ELSE "fingerprint"
<1>1. /\ at[p] = "fingerprint" /\ LocalTypes /\ FileTypes /\ Stage(p)
      /\ todo[p] \in Seq(Files) /\ todo[p] # <<>>
      /\ UNCHANGED <<cmd, mode, roots, read, tests>>
      /\ todo' = [todo EXCEPT ![p] = Tail(@)] /\ at' = [at EXCEPT ![p] = step]
    BY DEF Types, LocalTypes, Stages, Stage, ReadForFingerprint, Go, project
<1>2. PICK m \in Modes \cup {NoFile} : fp' = [fp EXCEPT ![p] = [manifest |-> m, texts |-> texts]]
    BY <1>1 DEF ReadForFingerprint, LocalTypes, FileTypes
<1>3. /\ f \in Files /\ Tail(todo[p]) \in Seq(Files)
      /\ Range(todo[p]) = {f} \cup Range(Tail(todo[p]))
    <2>1. todo[p] = <<f>> \o Tail(todo[p]) /\ <<f>> \in Seq(Files) /\ Tail(todo[p]) \in Seq(Files)
          /\ f \in Files
        BY <1>1, HeadTailProperties
    <2>2. Range(<<f>>) = {f}
        BY DEF Range
    <2> HIDE DEF f
    <2>3. Range(<<f>> \o Tail(todo[p])) = Range(<<f>>) \cup Range(Tail(todo[p]))
        <3>1. <<f>> \in Seq(Files) /\ Tail(todo[p]) \in Seq(Files)
            BY <2>1
        <3>2. QED BY <3>1, RangeJoin
    <2>4. QED BY <2>1, <2>2, <2>3
<1>4. texts \in Partial /\ DOMAIN texts = DOMAIN fp[p].texts \cup {f}
    <2>1. fp[p].texts \in Partial /\ disk[f] \in Texts \cup {NoFile}
        BY <1>1, <1>3 DEF LocalTypes, FileTypes
    <2> HIDE DEF f
    <2>2. QED BY <1>3, <2>1, PartialAdd
<1>5. DOMAIN texts \cup Range(Tail(todo[p])) = W
    BY <1>1, <1>3, <1>4 DEF Stage
<1>6. Tail(todo[p]) = <<>> => DOMAIN texts = W
    BY <1>5, EmptyList
<1>7. step \in {"cache", "fingerprint"}
    OBVIOUS
<1> HIDE DEF texts, f, step
<1>8. LocalTypes' /\ Others(p)
    BY <1>1, <1>2, <1>3, <1>4, <1>7 DEF LocalTypes, Others, Same, Steps
<1>9. /\ at'[p] = step /\ todo'[p] = Tail(todo[p]) /\ fp'[p].texts = texts
      /\ UNCHANGED <<cmd[p], mode[p], roots[p], read[p]>>
    BY <1>1, <1>2 DEF LocalTypes
<1>10. Stage(p)'
    BY <1>1, <1>5, <1>6, <1>7, <1>9 DEF Stage, Building, Steps, step
<1>11. QED BY <1>8, <1>10

(* A command that goes on without a new fingerprint.                       *)
LEMMA GoOn ==
    ASSUME LocalTypes, NEW p \in Procs, NEW step \in Steps,
           at' = [at EXCEPT ![p] = step], UNCHANGED <<cmd, mode, roots, fp>>,
           NEW list \in Seq(Files), todo' = [todo EXCEPT ![p] = list],
           NEW texts \in Partial, read' = [read EXCEPT ![p] = texts],
           tests' \in [Procs -> Seq(Files)]
    PROVE  /\ LocalTypes' /\ Others(p)
           /\ at'[p] = step /\ todo'[p] = list /\ read'[p] = texts
           /\ cmd'[p] = cmd[p] /\ mode'[p] = mode[p] /\ roots'[p] = roots[p] /\ fp'[p] = fp[p]
<1>1. LocalTypes'
    BY DEF LocalTypes
<1>2. Others(p)
    BY DEF LocalTypes, Others, Same
<1>3. QED BY <1>1, <1>2 DEF LocalTypes

(* The lists of a command are lists of files, and rewriting one with       *)
(* itself changes nothing.                                                 *)
LEMMA ListsUnchanged ==
    ASSUME LocalTypes, NEW p \in Procs
    PROVE  /\ todo[p] \in Seq(Files) /\ todo = [todo EXCEPT ![p] = todo[p]]
           /\ read[p] \in Partial /\ read = [read EXCEPT ![p] = read[p]]
           /\ at = [at EXCEPT ![p] = at[p]]
           /\ roots[p] \in Seq(Files) /\ tests \in [Procs -> Seq(Files)]
BY DEF LocalTypes

(* A command that goes on without touching its locals keeps their types    *)
(* and leaves the others alone.                                            *)
LEMMA GoOnly ==
    ASSUME LocalTypes, NEW p \in Procs, NEW step \in Steps,
           at' = [at EXCEPT ![p] = step], UNCHANGED local
    PROVE  /\ LocalTypes' /\ Others(p)
           /\ at'[p] = step /\ todo'[p] = todo[p] /\ read'[p] = read[p]
           /\ cmd'[p] = cmd[p] /\ mode'[p] = mode[p] /\ roots'[p] = roots[p] /\ fp'[p] = fp[p]
<1>1. LocalTypes'
    BY DEF LocalTypes, local, project
<1>2. Others(p)
    BY DEF LocalTypes, Others, Same, local, project
<1>3. QED BY <1>1, <1>2 DEF LocalTypes, local, project

(* Reading the cache record keeps the command's locals in step.            *)
LEMMA LookUpLocal ==
    ASSUME Types, Stages, NEW p \in Procs, LookUp(p)
    PROVE  LocalTypes' /\ Stage(p)' /\ Others(p)
<1>1. /\ at[p] = "cache" /\ LocalTypes /\ Stage(p) /\ UNCHANGED <<cmd, mode, roots, fp, tests>>
    BY DEF Types, Stages, LookUp, project
<1>2. cmd[p] \in Caching /\ mode[p] \in Modes /\ read[p] = Nothing /\ DOMAIN fp[p].texts = W
    BY <1>1 DEF Stage, Steps
<1>3. \E step \in {"serve", "arguments"}, list \in Seq(Files), texts \in Partial :
          /\ at' = [at EXCEPT ![p] = step] /\ todo' = [todo EXCEPT ![p] = list]
          /\ read' = [read EXCEPT ![p] = texts] /\ texts = Nothing
    BY <1>1, <1>2, ListsUnchanged, NothingPartial DEF LookUp, Go, LoadFrom
<1>4. PICK step \in {"serve", "arguments"}, list \in Seq(Files), texts \in Partial :
          /\ at' = [at EXCEPT ![p] = step] /\ todo' = [todo EXCEPT ![p] = list]
          /\ read' = [read EXCEPT ![p] = texts] /\ texts = Nothing
    BY <1>3
<1>5. /\ LocalTypes' /\ Others(p)
      /\ at'[p] = step /\ todo'[p] = list /\ read'[p] = texts
      /\ cmd'[p] = cmd[p] /\ mode'[p] = mode[p] /\ roots'[p] = roots[p] /\ fp'[p] = fp[p]
    <2>1. step \in Steps
        BY <1>4 DEF Steps
    <2>2. tests' \in [Procs -> Seq(Files)]
        BY <1>1, ListsUnchanged
    <2>3. LocalTypes /\ UNCHANGED <<cmd, mode, roots, fp>>
        BY <1>1
    <2>4. /\ at' = [at EXCEPT ![p] = step] /\ todo' = [todo EXCEPT ![p] = list]
          /\ read' = [read EXCEPT ![p] = texts]
        BY <1>4
    <2>5. QED BY <2>1, <2>2, <2>3, <2>4, GoOn
<1>6. Stage(p)'
    BY <1>2, <1>4, <1>5, NothingPartial DEF Stage, Building, Steps
<1>7. QED BY <1>5, <1>6

(* So do the checks of _compile_main before it loads anything.             *)
LEMMA ArgumentsLocal ==
    ASSUME Types, Stages, NEW p \in Procs, Arguments(p)
    PROVE  LocalTypes' /\ Stage(p)' /\ Others(p)
<1>1. at[p] = "arguments" /\ LocalTypes /\ Stage(p)
    BY DEF Types, Stages, Arguments
<1>2. CASE End(p, "failed")
    BY <1>1, <1>2, EndLocal DEF Ended
<1>3. CASE Go(p, "load") /\ UNCHANGED local
    <2>1. /\ LocalTypes' /\ Others(p) /\ at'[p] = "load" /\ read'[p] = read[p]
          /\ cmd'[p] = cmd[p] /\ mode'[p] = mode[p] /\ roots'[p] = roots[p] /\ fp'[p] = fp[p]
        BY <1>1, <1>3, GoOnly DEF Go, Steps
    <2>2. Stage(p)'
        BY <1>1, <2>1 DEF Stage, Building, Steps
    <2>3. QED BY <2>1, <2>2
<1>4. QED BY <1>2, <1>3 DEF Arguments

(* So does loading the next module, and following what it imports.         *)
LEMMA LoadLocal ==
    ASSUME Types, Stages, NEW p \in Procs, Load(p)
    PROVE  LocalTypes' /\ Stage(p)' /\ Others(p)
<1> DEFINE f == Head(todo[p])
           t == disk[f]
<1>1. at[p] = "load" /\ todo[p] # <<>> /\ LocalTypes /\ FileTypes /\ Stage(p)
    BY DEF Types, Stages, Load
<1>2. f \in Files /\ Tail(todo[p]) \in Seq(Files)
    BY <1>1, HeadTailProperties DEF LocalTypes
<1> HIDE DEF f
<1>3. t \in Texts \cup {NoFile}
    BY <1>1, <1>2 DEF FileTypes
<1> HIDE DEF t
<1>4. CASE End(p, "failed")
    BY <1>1, <1>4, EndLocal DEF Ended
<1>5. ASSUME NEW list \in Seq(Files), NEW texts \in Partial,
             \A g \in DOMAIN texts : texts[g] \in Texts \ {Bad},
             todo' = [todo EXCEPT ![p] = list], read' = [read EXCEPT ![p] = texts],
             UNCHANGED <<at, project, fp, tests>>
      PROVE  LocalTypes' /\ Stage(p)' /\ Others(p)
    <2>1. at' = [at EXCEPT ![p] = "load"] /\ UNCHANGED <<cmd, mode, roots, fp, tests>>
        BY <1>1, <1>5, ListsUnchanged DEF project
    <2>2. /\ LocalTypes' /\ Others(p) /\ at'[p] = "load" /\ read'[p] = texts
          /\ cmd'[p] = cmd[p] /\ mode'[p] = mode[p] /\ roots'[p] = roots[p] /\ fp'[p] = fp[p]
        <3>1. "load" \in Steps
            BY DEF Steps
        <3>2. tests' \in [Procs -> Seq(Files)]
            BY <1>1, <2>1, ListsUnchanged
        <3>3. LocalTypes /\ UNCHANGED <<cmd, mode, roots, fp>> /\ at' = [at EXCEPT ![p] = "load"]
            BY <1>1, <2>1
        <3>4. todo' = [todo EXCEPT ![p] = list] /\ read' = [read EXCEPT ![p] = texts]
            BY <1>5
        <3>5. QED BY <3>1, <3>2, <3>3, <3>4, GoOn
    <2>3. Stage(p)'
        BY <1>1, <1>5, <2>2 DEF Stage, Building, Steps
    <2>4. QED BY <2>2, <2>3
<1>6. CASE /\ f \in DOMAIN read[p] /\ UNCHANGED <<read, at, project, fp, tests>>
           /\ todo' = [todo EXCEPT ![p] = Tail(@)]
    <2>1. \A g \in DOMAIN read[p] : read[p][g] \in Texts \ {Bad}
        BY <1>1 DEF Stage
    <2>2. todo' = [todo EXCEPT ![p] = Tail(todo[p])] /\ read' = [read EXCEPT ![p] = read[p]]
          /\ read[p] \in Partial
        BY <1>1, <1>6, ListsUnchanged
    <2>3. QED BY <1>2, <1>5, <1>6, <2>1, <2>2
<1>7. CASE /\ t \notin {NoFile, Bad} /\ UNCHANGED <<at, project, fp, tests>>
           /\ read' = [read EXCEPT ![p] =
                          [g \in DOMAIN @ \cup {f} |-> IF g = f THEN t ELSE @[g]]]
           /\ todo' = [todo EXCEPT ![p] = Imports[f][t] \o Tail(@)]
    <2> DEFINE texts == [g \in DOMAIN read[p] \cup {f} |-> IF g = f THEN t ELSE read[p][g]]
               list == Imports[f][t] \o Tail(todo[p])
    <2>1. read[p] \in Partial /\ texts \in Partial
        <3>1. read[p] \in Partial
            BY <1>1 DEF LocalTypes
        <3>2. QED BY <1>2, <1>3, <3>1, PartialAdd
    <2>2. \A g \in DOMAIN texts : texts[g] \in Texts \ {Bad}
        BY <1>1, <1>3, <1>7 DEF Stage
    <2>3. list \in Seq(Files)
        <3>1. Imports[f][t] \in Seq(Files)
            BY <1>2, <1>3, <1>7, ImportsAssumption
        <3>2. QED BY <1>2, <3>1, ConcatProperties
    <2>4. read' = [read EXCEPT ![p] = texts] /\ todo' = [todo EXCEPT ![p] = list]
        BY <1>1, <1>7 DEF LocalTypes
    <2> HIDE DEF texts, list
    <2>5. QED BY <1>5, <1>7, <2>1, <2>2, <2>3, <2>4
<1>8. QED BY <1>4, <1>6, <1>7 DEF Load, f, t

(* So do the checker and generator, the C compiler, and coverage's reading *)
(* of the generated file.                                                  *)
LEMMA BackendLocal ==
    ASSUME Types, Stages, NEW p \in Procs,
           Translate(p) \/ Compile(p) \/ CompileTest(p) \/ ReadCoverage(p)
    PROVE  LocalTypes' /\ Stage(p)' /\ Others(p)
<1>1. LocalTypes /\ Stage(p)
    BY DEF Types, Stages
<1>2. CASE End(p, "failed")
    BY <1>1, <1>2, EndLocal DEF Ended
<1>3. ASSUME NEW step \in {"backend", "test"}, at' = [at EXCEPT ![p] = step],
             at[p] \in {"load", "counts"}, UNCHANGED local, at[p] = "load" <=> step = "backend"
      PROVE  LocalTypes' /\ Stage(p)' /\ Others(p)
    <2>1. /\ LocalTypes' /\ Others(p) /\ at'[p] = step /\ read'[p] = read[p]
          /\ cmd'[p] = cmd[p] /\ mode'[p] = mode[p] /\ roots'[p] = roots[p] /\ fp'[p] = fp[p]
        BY <1>1, <1>3, GoOnly DEF Steps
    <2>2. Stage(p)'
        BY <1>1, <1>3, <2>1 DEF Stage, Building, Steps, Caching, Testing
    <2>3. QED BY <2>1, <2>2
<1>4. ASSUME NEW step \in {"truncate", "test", "counts"}, at' = [at EXCEPT ![p] = step],
             at[p] = "backend", LoadFrom(p, <<>>), UNCHANGED <<project, fp, tests>>,
             IF step = "truncate" THEN cmd[p] \in Caching ELSE cmd[p] \in Testing
      PROVE  LocalTypes' /\ Stage(p)' /\ Others(p)
    <2>1. /\ todo' = [todo EXCEPT ![p] = <<>>] /\ read' = [read EXCEPT ![p] = Nothing]
          /\ UNCHANGED <<cmd, mode, roots, fp>> /\ tests' \in [Procs -> Seq(Files)]
          /\ step \in Steps
        BY <1>1, <1>4 DEF LoadFrom, project, LocalTypes, Steps
    <2>2. /\ LocalTypes' /\ Others(p) /\ at'[p] = step /\ read'[p] = Nothing
          /\ cmd'[p] = cmd[p] /\ mode'[p] = mode[p] /\ roots'[p] = roots[p] /\ fp'[p] = fp[p]
        BY <1>1, <1>4, <2>1, GoOn, NothingPartial, EmptyList
    <2>3. Stage(p)'
        BY <1>1, <1>4, <2>2, NothingPartial DEF Stage, Building, Steps, Caching, Testing
    <2>4. QED BY <2>2, <2>3
<1>5. CASE Translate(p)
    BY <1>2, <1>3, <1>5 DEF Translate, Go
<1>6. CASE Compile(p)
    BY <1>2, <1>4, <1>6 DEF Compile, Go
<1>7. CASE CompileTest(p)
    <2>1. cmd[p] \in Testing /\ at[p] = "backend"
        BY <1>7 DEF CompileTest
    <2>2. CASE cmd[p] = "test"
        BY <1>2, <1>4, <1>7, <2>1, <2>2 DEF CompileTest, Go
    <2>3. CASE cmd[p] # "test"
        BY <1>2, <1>4, <1>7, <2>1, <2>3 DEF CompileTest, Go
    <2>4. QED BY <2>2, <2>3
<1>8. CASE ReadCoverage(p)
    BY <1>2, <1>3, <1>8 DEF ReadCoverage, Go
<1>9. QED BY <1>5, <1>6, <1>7, <1>8

(* So does going on to the next test file.                                 *)
LEMMA TestLocal ==
    ASSUME Types, Stages, NEW p \in Procs, Test(p)
    PROVE  LocalTypes' /\ Stage(p)' /\ Others(p)
<1>1. LocalTypes /\ Stage(p) /\ at[p] = "test"
    BY DEF Types, Stages, Test
<1>2. CASE End(p, "idle")
    BY <1>1, <1>2, EndLocal DEF Ended
<1>3. CASE /\ tests[p] # <<>> /\ Go(p, "arguments")
           /\ LoadFrom(p, Append(roots[p], Head(tests[p])))
           /\ tests' = [tests EXCEPT ![p] = Tail(@)] /\ UNCHANGED <<project, fp>>
    <2> DEFINE list == Append(roots[p], Head(tests[p]))
    <2>1. tests[p] \in Seq(Files) /\ roots[p] \in Seq(Files)
        BY <1>1 DEF LocalTypes
    <2>2. list \in Seq(Files) /\ Tail(tests[p]) \in Seq(Files)
        BY <1>3, <2>1, HeadTailProperties, AppendProperties
    <2> HIDE DEF list
    <2>3. /\ at' = [at EXCEPT ![p] = "arguments"] /\ UNCHANGED <<cmd, mode, roots, fp>>
          /\ todo' = [todo EXCEPT ![p] = list] /\ read' = [read EXCEPT ![p] = Nothing]
          /\ tests' \in [Procs -> Seq(Files)]
        BY <1>1, <1>3, <2>2 DEF Go, LoadFrom, project, list, LocalTypes
    <2>4. /\ LocalTypes' /\ Others(p) /\ at'[p] = "arguments" /\ read'[p] = Nothing
          /\ cmd'[p] = cmd[p] /\ mode'[p] = mode[p] /\ roots'[p] = roots[p] /\ fp'[p] = fp[p]
        BY <1>1, <2>2, <2>3, GoOn, NothingPartial DEF Steps
    <2>5. Stage(p)'
        BY <1>1, <2>4, NothingPartial DEF Stage, Building, Steps, Caching, Testing
    <2>6. QED BY <2>4, <2>5
<1>4. QED BY <1>2, <1>3 DEF Test

(* So do writing the record, serving the output, and being killed.         *)
LEMMA LastLocal ==
    ASSUME Types, Stages, NEW p \in Procs, WriteCache(p) \/ Serve(p) \/ Kill(p)
    PROVE  LocalTypes' /\ Stage(p)' /\ Others(p)
<1>1. LocalTypes /\ Stage(p)
    BY DEF Types, Stages
<1>2. CASE WriteCache(p)
    <2>1. PICK step \in {"record", "serve"} :
             at' = [at EXCEPT ![p] = step] /\ at[p] \in {"truncate", "record"} /\ UNCHANGED local
        BY <1>2 DEF WriteCache, Go
    <2>2. /\ LocalTypes' /\ Others(p) /\ at'[p] = step /\ read'[p] = read[p]
          /\ cmd'[p] = cmd[p] /\ mode'[p] = mode[p] /\ roots'[p] = roots[p] /\ fp'[p] = fp[p]
        BY <1>1, <2>1, GoOnly DEF Steps
    <2>3. Stage(p)'
        BY <1>1, <2>1, <2>2 DEF Stage, Building, Steps
    <2>4. QED BY <2>2, <2>3
<1>3. CASE Serve(p) \/ Kill(p)
    BY <1>1, <1>3, EndLocal DEF Serve, Kill, Ended
<1>4. QED BY <1>2, <1>3

(* Every step of a command keeps the types, its own stage and the others.  *)
Does(p) == Step(p) \/ Kill(p) \/ \E c \in Caching \cup Testing : Start(p, c)
Meanwhile ==
    \/ \E f \in Saved, t \in Texts \cup {NoFile} : Edit(f, t)
    \/ \E m \in Modes : Configure(m)
    \/ Clean

(* Whatever a command does keeps its locals in step and leaves the other   *)
(* commands alone.                                                         *)
LEMMA DoesLocal ==
    ASSUME Types, Stages, NEW p \in Procs, Does(p)
    PROVE  LocalTypes' /\ Stage(p)' /\ Others(p)
BY StartLocal, WalkLocal, ReadLocal, LookUpLocal, ArgumentsLocal, LoadLocal, BackendLocal,
   TestLocal, LastLocal DEF Does, Step

(* What editors, changes of mode and `clean` do between two steps leaves   *)
(* the commands' locals alone.                                             *)
LEMMA MeanwhileLocal ==
    ASSUME Meanwhile
    PROVE  UNCHANGED <<at, local>> /\ \A q \in Procs : Same(q)
<1>1. UNCHANGED <<at, local>>
    BY DEF Meanwhile, Edit, Configure, Clean
<1>2. QED BY <1>1 DEF local, project, Same

(* Every step keeps the commands' locals in step.                          *)
LEMMA StagesStep ==
    ASSUME Types, Stages, [Next]_vars
    PROVE  LocalTypes' /\ Stages'
<1>1. ASSUME NEW p \in Procs, Does(p)
      PROVE  LocalTypes' /\ Stages'
    BY <1>1, DoesLocal, SameStage DEF Stages, Others
<1>2. ASSUME UNCHANGED <<at, local>>
      PROVE  LocalTypes' /\ Stages'
    BY <1>2 DEF Types, LocalTypes, Stages, Stage, Building, local, project
<1>3. CASE UNCHANGED vars
    BY <1>2, <1>3 DEF vars
<1>4. QED BY <1>1, <1>2, <1>3, MeanwhileLocal DEF Next, Does, Meanwhile

(* Every step keeps the types of the files and of the counters.            *)
LEMMA FilesStep ==
    ASSUME Types, [Next]_vars
    PROVE  FileTypes' /\ CountTypes'
<1>1. FileTypes /\ LocalTypes /\ CountTypes
    BY DEF Types
<1>2. CASE UNCHANGED vars
    BY <1>1, <1>2 DEF vars, files, counts, FileTypes, CountTypes
<1>3. ASSUME NEW p \in Procs, Does(p)
      PROVE  FileTypes' /\ CountTypes'
    <2>1. UNCHANGED <<manifest, disk, edits>>
        BY <1>3 DEF Does, Step, Start, Walk, ReadForFingerprint, LookUp, Arguments, Load, Translate,
           Compile, CompileTest, Test, ReadCoverage, WriteCache, Serve, Kill, files, counts
    <2>2. output' \in {output, NoFile, Program(p)}
        BY <1>3 DEF Does, Step, Start, Walk, ReadForFingerprint, LookUp, Arguments, Load, Translate,
           Compile, CompileTest, Test, ReadCoverage, WriteCache, Serve, Kill, files
    <2>3. Program(p).texts \in Partial
        BY <1>1 DEF LocalTypes, Program
    <2>4. FileTypes'
        BY <1>1, <2>1, <2>2, <2>3 DEF FileTypes
    <2>5. disturbed' \in BOOLEAN
        <3>1. CASE LookUp(p) \/ Kill(p)
            BY <3>1, Zenon DEF LookUp, Kill
        <3>2. CASE UNCHANGED disturbed
            BY <1>1, <3>2 DEF CountTypes
        <3>3. QED
            BY <1>3, <3>1, <3>2 DEF Does, Step, Start, Walk, ReadForFingerprint, Arguments, Load,
               Translate, Compile, CompileTest, Test, ReadCoverage, WriteCache, Serve, counts
    <2>6. /\ commands' = commands \/ (commands < MaxCommands /\ commands' = commands + 1)
          /\ kills' = kills \/ (kills < MaxKills /\ kills' = kills + 1)
        <3>1. ASSUME NEW c \in Caching \cup Testing, Start(p, c)
              PROVE  commands < MaxCommands /\ commands' = commands + 1 /\ kills' = kills
            BY <3>1 DEF Start
        <3>2. CASE Kill(p)
            BY <3>2 DEF Kill
        <3>3. CASE Step(p)
            BY <3>3 DEF Step, Walk, ReadForFingerprint, LookUp, Arguments, Load, Translate, Compile,
               CompileTest, Test, ReadCoverage, WriteCache, Serve, counts
        <3>4. QED BY <1>3, <3>1, <3>2, <3>3 DEF Does
    <2>7. CountTypes'
        BY <1>1, <2>1, <2>5, <2>6, BoundsAssumption DEF CountTypes
    <2>8. QED BY <2>4, <2>7
<1>4. ASSUME NEW f \in Saved, NEW t \in Texts \cup {NoFile}, Edit(f, t)
      PROVE  FileTypes' /\ CountTypes'
    <2>1. FileTypes'
        BY <1>1, <1>4 DEF Edit, FileTypes
    <2>2. CountTypes'
        BY <1>1, <1>4, BoundsAssumption DEF Edit, CountTypes
    <2>3. QED BY <2>1, <2>2
<1>5. ASSUME NEW m \in Modes, Configure(m)
      PROVE  FileTypes' /\ CountTypes'
    BY <1>1, <1>5, BoundsAssumption DEF Configure, FileTypes, CountTypes
<1>6. CASE Clean
    BY <1>1, <1>6, BoundsAssumption DEF Clean, FileTypes, CountTypes
<1>7. QED BY <1>2, <1>3, <1>4, <1>5, <1>6 DEF Next, Does

(* The invariant holds at the start: nothing has been built, or what was   *)
(* built is of the files on the disk.                                      *)
LEMMA InitInv == Init => Inv
<1> SUFFICES ASSUME Init
             PROVE  Inv
    OBVIOUS
<1>1. /\ cmd = [p \in Procs |-> "build"] /\ at = [p \in Procs |-> "idle"]
      /\ mode = [p \in Procs |-> NoFile] /\ roots = [p \in Procs |-> <<>>]
      /\ fp = [p \in Procs |-> Unread] /\ todo = [p \in Procs |-> <<>>]
      /\ tests = [p \in Procs |-> <<>>] /\ read = [p \in Procs |-> Nothing]
      /\ edits = 0 /\ commands = 0 /\ kills = 0 /\ disturbed = FALSE
    BY DEF Init
<1>2. LocalTypes
    <2>1. Unread \in [manifest : Modes \cup {NoFile}, texts : Partial]
        BY NothingPartial DEF Unread
    <2>2. QED BY <1>1, <2>1, NothingPartial, EmptyList DEF LocalTypes, Caching, Ended
<1>3. CountTypes
    <2>1. disturbed \in BOOLEAN
        BY <1>1, Zenon
    <2>2. edits \in 0 .. MaxEdits /\ commands \in 0 .. MaxCommands /\ kills \in 0 .. MaxKills
        BY <1>1, BoundsAssumption
    <2>3. QED BY <2>1, <2>2 DEF CountTypes
<1>4. Stages
    BY <1>1, NothingPartial DEF Stages, Stage, Building, Steps
<1>5. manifest \in Modes /\ disk \in [Files -> Texts]
    BY FilesAssumption DEF Init
<1>6. \/ output = NoFile
      \/ /\ output.texts \in Partial
         /\ Agrees(disk, cache, output)
    <2>1. CASE output = NoFile
        BY <2>1
    <2>2. CASE output # NoFile
        <3>1. PICK t \in Texts \ {Bad} :
                 LET built == [f \in Files |-> IF f \in W THEN t ELSE disk[f]]
                 IN /\ output = [mode |-> manifest, texts |-> Restrict(built, Loads(Roots, built))]
                    /\ cache = [mode |-> manifest, manifest |-> manifest, texts |-> Restrict(built, W)]
            BY <2>2 DEF Init, W
        <3> DEFINE built == [f \in Files |-> IF f \in W THEN t ELSE disk[f]]
                   loaded == Loads(Roots, built)
        <3>2. built \in [Files -> Texts]
            BY <1>5
        <3>3. loaded \in SUBSET Files
            <4> HIDE DEF built
            <4>1. QED BY <3>2, FilesAssumption, LoadsFiles
        <3> HIDE DEF loaded
        <3>4. /\ output.mode = manifest /\ output.texts = [f \in loaded |-> built[f]]
              /\ cache.mode = manifest /\ cache.texts = [f \in W |-> built[f]]
            BY <3>1 DEF Restrict, loaded
        <3>5. output.texts \in Partial
            <4>1. [f \in loaded |-> built[f]] \in [loaded -> Texts \cup {NoFile}]
                BY <3>2, <3>3
            <4>2. QED BY <3>3, <3>4, <4>1, PartialMember
        <3>6. \A f \in loaded : built[f] = IF f \in W THEN cache.texts[f] ELSE disk[f]
            BY <3>3, <3>4
        <3> HIDE DEF built
        <3>7. Agrees(disk, cache, output)
            BY <3>4, <3>6 DEF Agrees
        <3>8. QED BY <3>5, <3>7
    <2>3. QED BY <2>1, <2>2
<1>7. FileTypes
    BY <1>5, <1>6 DEF FileTypes
<1>8. Fresh /\ Together /\ Outputs
    BY <1>1, <1>6 DEF Fresh, StillFresh, Together, Building, Outputs, Built
<1>9. QED BY <1>2, <1>3, <1>4, <1>7, <1>8 DEF Inv, Types

-----------------------------------------------------------------------------
(* What the cache can see.                                                 *)

(* A command that reads.                                                   *)
LEMMA FreshDoes ==
    ASSUME Inv, NEW p \in Procs, Does(p), ~disturbed, LocalTypes', Stage(p)', Others(p)
    PROVE  Fresh'
<1>1. LocalTypes /\ FileTypes /\ Stage(p) /\ StillFresh(p) /\ Fresh
    BY DEF Inv, Types, Stages, Fresh
<1>2. UNCHANGED disk
    BY DEF Does, Step, Start, Walk, ReadForFingerprint, LookUp, Arguments, Load, Translate,
       Compile, CompileTest, Test, ReadCoverage, WriteCache, Serve, Kill, files
<1>3. \A q \in Procs : q # p => StillFresh(q)'
    BY <1>1, <1>2 DEF Others, Same, Fresh, StillFresh
<1>4. W \subseteq Files
    BY FilesAssumption, RangeOfSeq DEF W
<1> SUFFICES StillFresh(p)'
    BY <1>3 DEF Fresh
<1>5. ASSUME at'[p] \notin {"fingerprint", "cache", "arguments", "load", "backend"}
             \/ cmd'[p] \notin Caching
      PROVE  StillFresh(p)'
    BY <1>5 DEF StillFresh
<1>6. CASE Walk(p)
    <2> DEFINE list == Kept(Walked, Range(roots[p]) \cup Present)
    <2>1. /\ at'[p] = "fingerprint" /\ read'[p] = Nothing
          /\ fp'[p].texts = [f \in W \ Range(list) |-> NoFile]
        BY <1>1, <1>6 DEF Walk, Go, LocalTypes, Stage, W
    <2>2. Range(list) = W \cap (Range(roots[p]) \cup Present)
        BY FilesAssumption, KeptRange DEF W
    <2> HIDE DEF list
    <2>3. \A f \in W \ Range(list) : disk[f] = NoFile
        BY <1>4, <2>2 DEF Present
    <2>4. QED BY <1>2, <2>1, <2>3 DEF StillFresh
<1>7. CASE ReadForFingerprint(p)
    <2> DEFINE f == Head(todo[p])
    <2>1. /\ at[p] = "fingerprint" /\ at'[p] \in {"fingerprint", "cache"}
          /\ UNCHANGED <<read[p], cmd[p]>>
          /\ fp'[p].texts = [g \in DOMAIN fp[p].texts \cup {f} |->
                                IF g = f THEN disk[f] ELSE fp[p].texts[g]]
        BY <1>1, <1>7 DEF ReadForFingerprint, Go, LocalTypes, project
    <2> HIDE DEF f
    <2>2. QED BY <1>1, <1>2, <2>1 DEF StillFresh
<1>8. CASE LookUp(p)
    <2>1. /\ at[p] = "cache" /\ at'[p] \in {"serve", "arguments"} /\ read[p] = Nothing
          /\ UNCHANGED <<fp[p], cmd[p]>>
        BY <1>1, <1>8 DEF LookUp, Go, LocalTypes, project, Stage
    <2>2. read'[p] = Nothing
        BY <2>1 DEF Stage
    <2>3. QED BY <1>1, <1>2, <2>1, <2>2 DEF StillFresh
<1>9. CASE Arguments(p)
    <2>1. CASE End(p, "failed")
        BY <1>1, <1>5, <2>1, EndLocal DEF Ended
    <2>2. CASE Go(p, "load") /\ UNCHANGED local
        <3>1. at[p] = "arguments" /\ at'[p] = "load" /\ UNCHANGED <<read[p], fp[p], cmd[p]>>
            BY <1>1, <1>9, <2>2 DEF Arguments, Go, LocalTypes, local, project
        <3>2. DOMAIN read[p] = {}
            BY <1>1, <3>1, NothingPartial DEF Stage
        <3>3. QED BY <1>1, <1>2, <3>1, <3>2 DEF StillFresh
    <2>3. QED BY <1>9, <2>1, <2>2 DEF Arguments
<1>10. CASE Load(p)
    <2> DEFINE f == Head(todo[p])
    <2>1. CASE End(p, "failed")
        BY <1>1, <1>5, <2>1, EndLocal DEF Ended
    <2>2. CASE UNCHANGED <<read, at, project, fp, tests>>
        BY <1>1, <1>2, <2>2 DEF StillFresh, project
    <2>3. CASE /\ f \notin DOMAIN read[p] /\ UNCHANGED <<at, project, fp, tests>>
               /\ read' = [read EXCEPT ![p] =
                              [g \in DOMAIN @ \cup {f} |-> IF g = f THEN disk[f] ELSE @[g]]]
        <3>1. /\ at[p] = "load" /\ UNCHANGED <<at, fp, cmd>>
              /\ read'[p] = [g \in DOMAIN read[p] \cup {f} |->
                                IF g = f THEN disk[f] ELSE read[p][g]]
            BY <1>1, <1>10, <2>3 DEF Load, LocalTypes, project
        <3>2. cmd[p] \in Caching => DOMAIN fp[p].texts = W
            BY <1>1, <3>1 DEF Stage, Building
        <3> HIDE DEF f
        <3>3. QED BY <1>1, <1>2, <2>3, <3>1, <3>2 DEF StillFresh
    <2>4. QED BY <1>10, <2>1, <2>2, <2>3 DEF Load
<1>11. CASE Translate(p)
    <2>1. CASE End(p, "failed")
        BY <1>1, <1>5, <2>1, EndLocal DEF Ended
    <2>2. CASE Go(p, "backend") /\ UNCHANGED local
        <3>1. at[p] = "load" /\ at'[p] = "backend" /\ UNCHANGED <<read[p], fp[p], cmd[p]>>
            BY <1>1, <1>11, <2>2 DEF Translate, Go, LocalTypes, local, project
        <3>2. QED BY <1>1, <1>2, <3>1 DEF StillFresh
    <2>3. QED BY <1>11, <2>1, <2>2 DEF Translate
<1>12. CASE Compile(p) \/ CompileTest(p) \/ ReadCoverage(p) \/ WriteCache(p) \/ Serve(p) \/ Kill(p)
    <2>1. ASSUME NEW how \in Ended, End(p, how)
          PROVE  StillFresh(p)'
        BY <1>1, <1>5, <2>1, EndLocal DEF Ended
    <2>2. ASSUME NEW step \in {"truncate", "record", "serve", "test", "counts"},
                 at' = [at EXCEPT ![p] = step]
          PROVE  StillFresh(p)'
        <3>1. at'[p] = step
            BY <1>1, <2>2 DEF LocalTypes
        <3>2. QED BY <1>5, <3>1
    <2>3. QED
        BY <1>12, <2>1, <2>2 DEF Compile, CompileTest, ReadCoverage, WriteCache, Serve, Kill, Go, Ended
<1>13. CASE Test(p)
    <2>1. CASE End(p, "idle")
        BY <1>1, <1>5, <2>1, EndLocal DEF Ended
    <2>2. CASE UNCHANGED cmd
        BY <1>1, <1>5, <1>13, <2>2 DEF Test, Stage, Caching, Testing
    <2>3. QED BY <1>13, <2>1, <2>2 DEF Test, project
<1>14. ASSUME NEW c \in Caching \cup Testing, Start(p, c)
       PROVE  StillFresh(p)'
    <2>1. at'[p] \in {"failed", "test", "walk"}
        BY <1>1, <1>14 DEF Start, Go, LocalTypes
    <2>2. QED BY <1>5, <2>1
<1>15. QED
    BY <1>6, <1>7, <1>8, <1>9, <1>10, <1>11, <1>12, <1>13, <1>14 DEF Does, Step

(* The steps of a command by what they do to the output and the cache.     *)
Aside(p) ==         \* the command does not build, or no longer
    /\ output' \in {output, NoFile} /\ cache' = cache
    /\ ~Building(p)' /\ (at[p] = "truncate" => disturbed')
GoesOn(p) ==
    /\ UNCHANGED <<output, cache, cmd, mode, fp>>
    /\ at[p] \in {"arguments", "load"} /\ at'[p] \in {"load", "backend"} /\ cmd[p] \in Caching
Compiled(p) ==
    /\ output' = Program(p) /\ UNCHANGED <<cache, cmd, mode, fp>>
    /\ at[p] = "backend" /\ at'[p] = "truncate" /\ cmd[p] \in Caching
Recorded(p) ==
    /\ UNCHANGED <<output, cmd, mode, fp>> /\ cmd[p] \in Caching
    /\ at[p] \in Built /\ at'[p] \in Built
    /\ at[p] = "truncate" => cache' = Torn
    /\ cache' = Torn \/ cache' = Fingerprint(p)

(* What a step of a command does to the output and the cache record:       *)
(* nothing, go on, compile, record, or look the record up.                 *)
LEMMA StepKinds ==
    ASSUME Types, Stages, NEW p \in Procs, Does(p)
    PROVE  Aside(p) \/ GoesOn(p) \/ Compiled(p) \/ Recorded(p) \/ LookUp(p)
<1>1. LocalTypes /\ Stage(p)
    BY DEF Types, Stages
<1>2. ASSUME NEW how \in Ended, End(p, how), output' \in {output, NoFile}, cache' = cache,
             at[p] = "truncate" => disturbed'
      PROVE  Aside(p)
    BY <1>1, <1>2, EndLocal DEF Aside, Building, Ended
<1>3. ASSUME NEW step \in {"walk", "fingerprint", "cache", "failed", "test", "counts"},
             at' = [at EXCEPT ![p] = step], UNCHANGED <<output, cache>>, at[p] # "truncate"
      PROVE  Aside(p)
    <2>1. at'[p] = step
        BY <1>1, <1>3 DEF LocalTypes
    <2>2. QED BY <1>3, <2>1 DEF Aside, Building
<1>4. ASSUME NEW step \in {"arguments", "load", "backend"}, UNCHANGED <<output, cache>>,
             at' = [at EXCEPT ![p] = step], cmd' = cmd, cmd[p] \notin Caching, at[p] # "truncate"
      PROVE  Aside(p)
    BY <1>1, <1>4 DEF Aside, Building, LocalTypes
<1>5. ASSUME NEW c \in Caching \cup Testing, Start(p, c)
      PROVE  Aside(p)
    <2>1. \E step \in {"walk", "failed", "test"} : at' = [at EXCEPT ![p] = step]
        BY <1>5 DEF Start, Go
    <2>2. UNCHANGED <<output, cache>> /\ at[p] # "truncate"
        BY <1>5 DEF Start, files, Ended
    <2>3. QED BY <1>3, <2>1, <2>2
<1>6. CASE Walk(p) \/ ReadForFingerprint(p)
    <2>1. \E step \in {"fingerprint", "cache"} : at' = [at EXCEPT ![p] = step]
        BY <1>6 DEF Walk, ReadForFingerprint, Go
    <2>2. UNCHANGED <<output, cache>> /\ at[p] # "truncate"
        BY <1>6 DEF Walk, ReadForFingerprint, files
    <2>3. QED BY <1>3, <2>1, <2>2
<1>7. CASE Arguments(p) \/ Load(p) \/ Translate(p)
    <2>1. UNCHANGED <<output, cache>> /\ at[p] \in {"arguments", "load"}
        BY <1>7 DEF Arguments, Load, Translate, files
    <2>2. CASE End(p, "failed")
        BY <1>2, <2>1, <2>2 DEF Ended
    <2>3. CASE UNCHANGED <<cmd, mode, fp>>
               /\ \E step \in {"load", "backend"} : at' = [at EXCEPT ![p] = step]
        <3>1. PICK step \in {"load", "backend"} : at' = [at EXCEPT ![p] = step]
            BY <2>3
        <3>2. at'[p] = step
            BY <1>1, <3>1 DEF LocalTypes
        <3>3. CASE cmd[p] \in Caching
            BY <2>1, <2>3, <3>2, <3>3 DEF GoesOn
        <3>4. CASE cmd[p] \notin Caching
            BY <1>4, <2>1, <2>3, <3>1, <3>4
        <3>5. QED BY <3>3, <3>4
    <2>4. CASE Arguments(p)
        BY <2>2, <2>3, <2>4 DEF Arguments, Go, local, project
    <2>5. CASE Load(p)
        <3>1. at = [at EXCEPT ![p] = "load"]
            BY <1>1, <2>5 DEF Load, LocalTypes
        <3>2. QED BY <2>2, <2>3, <2>5, <3>1 DEF Load, project
    <2>6. CASE Translate(p)
        BY <2>2, <2>3, <2>6 DEF Translate, Go, local, project
    <2>7. QED BY <1>7, <2>4, <2>5, <2>6
<1>8. CASE Compile(p)
    <2>1. at[p] = "backend" /\ cmd[p] \in Caching /\ UNCHANGED cache
        BY <1>8 DEF Compile
    <2>2. CASE output' = Program(p) /\ Go(p, "truncate") /\ UNCHANGED <<project, fp, tests>>
        BY <1>1, <2>1, <2>2 DEF Compiled, Go, project, LocalTypes
    <2>3. CASE output' \in {output, NoFile} /\ End(p, "failed")
        BY <1>2, <2>1, <2>3 DEF Ended
    <2>4. QED BY <1>8, <2>2, <2>3 DEF Compile
<1>9. CASE CompileTest(p) \/ Test(p) \/ ReadCoverage(p)
    <2>1. UNCHANGED <<output, cache>> /\ at[p] \in {"backend", "test", "counts"}
          /\ cmd[p] \in Testing
        BY <1>1, <1>9 DEF CompileTest, Test, ReadCoverage, files, Stage
    <2>2. ASSUME NEW how \in Ended, End(p, how)
          PROVE  Aside(p)
        BY <1>2, <2>1, <2>2
    <2>3. ASSUME NEW step \in {"test", "counts"}, at' = [at EXCEPT ![p] = step]
          PROVE  Aside(p)
        BY <1>3, <2>1, <2>3
    <2>4. CASE CompileTest(p) \/ ReadCoverage(p)
        BY <2>2, <2>3, <2>4 DEF CompileTest, ReadCoverage, Go, Ended
    <2>5. CASE Test(p)
        BY <1>4, <2>1, <2>2, <2>5 DEF Test, Go, project, Ended, Caching, Testing
    <2>6. QED BY <1>9, <2>4, <2>5
<1>10. CASE WriteCache(p)
    <2>1. PICK step \in {"record", "serve"} :
             /\ at' = [at EXCEPT ![p] = step] /\ UNCHANGED <<output, cmd, mode, fp>>
             /\ at[p] \in {"truncate", "record"}
             /\ at[p] = "truncate" => cache' = Torn
             /\ cache' = Torn \/ cache' = Fingerprint(p)
        BY <1>10 DEF WriteCache, Go, local, project
    <2>2. at'[p] = step /\ cmd[p] \in Caching
        BY <1>1, <2>1 DEF LocalTypes, Stage
    <2>3. QED BY <2>1, <2>2 DEF Recorded, Built
<1>11. CASE Serve(p) \/ Kill(p)
    <2>1. UNCHANGED <<output, cache>> /\ (at[p] = "truncate" => disturbed')
        BY <1>11 DEF Serve, Kill, files
    <2>2. QED BY <1>2, <1>11, <2>1 DEF Serve, Kill, Ended
<1>12. QED
    BY <1>5, <1>6, <1>7, <1>8, <1>9, <1>10, <1>11 DEF Does, Step

(* Nothing that has happened is forgotten.                                 *)
LEMMA StaysDisturbed ==
    ASSUME [Next]_vars, disturbed
    PROVE  disturbed'
<1>1. CASE UNCHANGED disturbed
    BY <1>1
<1>2. ASSUME NEW p \in Procs, LookUp(p) \/ Kill(p)
      PROVE  disturbed'
    BY <1>2 DEF LookUp, Kill
<1>3. ASSUME NEW f, NEW t, Edit(f, t)
      PROVE  disturbed'
    BY <1>3 DEF Edit
<1>4. QED
    BY <1>1, <1>2, <1>3 DEF Next, Step, Start, Walk, ReadForFingerprint, Arguments, Load,
       Translate, Compile, CompileTest, Test, ReadCoverage, WriteCache, Serve, Configure, Clean,
       counts, vars

(* The commands that build go on agreeing.                                 *)
LEMMA TogetherDoes ==
    ASSUME Inv, NEW p \in Procs, Does(p), ~disturbed, ~disturbed', LocalTypes', Stage(p)', Others(p)
    PROVE  Together'
<1>1. Together /\ LocalTypes /\ Types /\ Stages /\ Stage(p)
    BY DEF Inv, Types, Stages
<1>2. \A q \in Procs : q # p => /\ Building(q)' <=> Building(q)
                                /\ Fingerprint(q)' = Fingerprint(q)
    BY SameStage DEF Others
<1>3. CASE /\ Building(p)' => Building(p)
           /\ Building(p) => Fingerprint(p)' = Fingerprint(p)
    BY <1>1, <1>2, <1>3 DEF Together
<1>4. CASE LookUp(p)
    <2>1. \A q \in Procs \ {p} : Building(q) => Fingerprint(q) = Fingerprint(p)
        BY <1>4 DEF LookUp
    <2>2. Fingerprint(p)' = Fingerprint(p)
        BY <1>4 DEF LookUp, Fingerprint, project
    <2>3. QED BY <1>1, <1>2, <2>1, <2>2 DEF Together
<1>5. CASE Aside(p)
    BY <1>1, <1>2, <1>5 DEF Together, Aside
<1>6. CASE GoesOn(p) \/ Compiled(p) \/ Recorded(p)
    BY <1>3, <1>6 DEF GoesOn, Compiled, Recorded, Built, Building, Fingerprint
<1>7. QED BY <1>1, <1>4, <1>5, <1>6, StepKinds

(* The fingerprint of a command that builds is no mark of a file.          *)
LEMMA PrintIsNoMark ==
    ASSUME LocalTypes, Stages, NEW p \in Procs, at[p] = "cache" \/ Building(p)
    PROVE  Fingerprint(p) \notin {NoFile, Torn}
<1>1. mode[p] \in Modes /\ DOMAIN fp[p].texts = W
    BY DEF Stages, Stage, Steps, Building
<1>2. fp[p].manifest \in Modes \cup {NoFile} /\ fp[p].texts \in Partial
    BY DEF LocalTypes
<1>3. fp[p].texts \in [W -> Texts \cup {NoFile}]
    BY <1>1, <1>2 DEF Partial
<1>4. Fingerprint(p) \in Fingerprints
    BY <1>1, <1>2, <1>3 DEF Fingerprint, Fingerprints, W
<1>5. QED BY <1>4, MarksAssumption

(* A command that has compiled is one of those that keep a record of it.   *)
LEMMA BuiltBuilds ==
    ASSUME Stages, NEW p \in Procs, at[p] \in Built
    PROVE  Building(p)
BY DEF Stages, Stage, Built, Building

(* The output and the cache go on agreeing with those that have built.     *)
LEMMA OutputsDoes ==
    ASSUME Inv, NEW p \in Procs, Does(p), ~disturbed, ~disturbed', LocalTypes', Stage(p)', Others(p)
    PROVE  Outputs'
<1>1. Together /\ LocalTypes /\ Types /\ Stages /\ Stage(p) /\ Outputs /\ Fresh
    BY DEF Inv, Types, Stages
<1>2. \A q \in Procs : q # p => at'[q] = at[q] /\ Fingerprint(q)' = Fingerprint(q)
    BY SameStage DEF Others, Same
<1>3. UNCHANGED disk
    BY DEF Does, Step, Start, Walk, ReadForFingerprint, LookUp, Arguments, Load, Translate,
       Compile, CompileTest, Test, ReadCoverage, WriteCache, Serve, Kill, files
<1>4. SUFFICES ASSUME output' # NoFile
               PROVE  /\ \A q \in Procs : at'[q] \in Built => Agrees(disk, Fingerprint(q)', output')
                      /\ \/ cache' \in {NoFile, Torn} \/ Agrees(disk, cache', output')
                         \/ \E q \in Procs : at'[q] = "truncate"
    BY <1>3 DEF Outputs
<1>5. ASSUME output' = output, cache' = cache, at[p] # "truncate",
             at'[p] \in Built => Agrees(disk, Fingerprint(p)', output)
      PROVE  /\ \A q \in Procs : at'[q] \in Built => Agrees(disk, Fingerprint(q)', output')
             /\ \/ cache' \in {NoFile, Torn} \/ Agrees(disk, cache', output')
                \/ \E q \in Procs : at'[q] = "truncate"
    BY <1>1, <1>2, <1>4, <1>5 DEF Outputs
<1>6. CASE Aside(p)
    <2>1. at'[p] \notin Built
        BY <1>6 DEF Aside, Building, Built, Stage, Caching, Testing
    <2>2. output' = output /\ cache' = cache /\ at[p] # "truncate"
        BY <1>4, <1>6 DEF Aside
    <2>3. QED BY <1>5, <2>1, <2>2
<1>7. CASE GoesOn(p)
    BY <1>5, <1>7 DEF GoesOn, Built
<1>8. CASE Compiled(p)
    <2>1. /\ output' = Program(p) /\ Fingerprint(p)' = Fingerprint(p) /\ Building(p)
          /\ at[p] = "backend" /\ at'[p] = "truncate" /\ cmd[p] \in Caching
        BY <1>8 DEF Compiled, Fingerprint, Building
    <2>2. \A f \in DOMAIN read[p] : read[p][f] = IF f \in W THEN fp[p].texts[f] ELSE disk[f]
        BY <1>1, <2>1 DEF Fresh, StillFresh
    <2>3. Agrees(disk, Fingerprint(p), output')
        BY <2>1, <2>2 DEF Agrees, Fingerprint, Program
    <2>4. ASSUME NEW q \in Procs, at'[q] \in Built
          PROVE  Fingerprint(q)' = Fingerprint(p)
        <3>1. CASE q = p
            BY <2>1, <3>1
        <3>2. CASE q # p
            BY <1>1, <1>2, <2>1, <2>4, <3>2, BuiltBuilds DEF Together
        <3>3. QED BY <3>1, <3>2
    <2>5. QED BY <2>1, <2>3, <2>4
<1>9. CASE Recorded(p)
    <2>1. /\ output' = output /\ Fingerprint(p)' = Fingerprint(p)
          /\ at[p] \in Built /\ cache' \in {Torn, Fingerprint(p)}
        BY <1>9 DEF Recorded, Fingerprint
    <2>2. Agrees(disk, Fingerprint(p), output)
        BY <1>1, <1>4, <2>1 DEF Outputs
    <2>3. \A q \in Procs : at'[q] \in Built => Agrees(disk, Fingerprint(q)', output')
        BY <1>1, <1>2, <1>4, <2>1, <2>2 DEF Outputs
    <2>4. QED BY <2>1, <2>2, <2>3
<1>10. CASE LookUp(p)
    <2>1. /\ at[p] = "cache" /\ output' = output /\ cache' = cache
          /\ Fingerprint(p)' = Fingerprint(p) /\ at'[p] \in {"serve", "arguments"}
          /\ at'[p] = "serve" => cache = Fingerprint(p)
          /\ \A q \in Procs \ {p} : Building(q) => Fingerprint(q) = Fingerprint(p)
        BY <1>1, <1>10 DEF LookUp, Go, LocalTypes, Fingerprint, files, project
    <2>2. ASSUME at'[p] \in Built
          PROVE  Agrees(disk, Fingerprint(p)', output)
        <3>1. cache = Fingerprint(p) /\ cache \notin {NoFile, Torn}
            BY <1>1, <2>1, <2>2, PrintIsNoMark DEF Built
        <3>2. CASE Agrees(disk, cache, output)
            BY <2>1, <3>1, <3>2
        <3>3. ASSUME NEW q \in Procs, at[q] = "truncate"
              PROVE  Agrees(disk, Fingerprint(p)', output)
            <4>1. Building(q) /\ at[q] \in Built /\ q # p
                BY <1>1, <2>1, <3>3, BuiltBuilds DEF Built
            <4>2. Agrees(disk, Fingerprint(q), output)
                BY <1>1, <1>4, <2>1, <4>1 DEF Outputs
            <4>3. QED BY <2>1, <4>1, <4>2
        <3>4. QED BY <1>1, <1>4, <2>1, <3>1, <3>2, <3>3 DEF Outputs
    <2>3. QED BY <1>5, <2>1, <2>2
<1>11. QED BY <1>1, <1>6, <1>7, <1>8, <1>9, <1>10, StepKinds

(* What happens meanwhile, when the cache can see it.                      *)
LEMMA MeanwhileInv ==
    ASSUME Inv, Meanwhile, ~disturbed, ~disturbed'
    PROVE  Fresh' /\ Together' /\ Outputs'
<1>1. /\ Fresh /\ Together /\ Outputs /\ LocalTypes /\ FileTypes
      /\ UNCHANGED <<at, local>> /\ \A q \in Procs : Same(q)
    BY MeanwhileLocal DEF Inv, Types
<1>2. \A q \in Procs : /\ Building(q)' <=> Building(q)
                       /\ Fingerprint(q)' = Fingerprint(q)
    BY <1>1, SameStage
<1>3. Together'
    BY <1>1, <1>2 DEF Together
<1>4. CASE UNCHANGED <<disk, cache>> /\ output' \in {output, NoFile}
    <2>1. Fresh'
        BY <1>1, <1>4 DEF Fresh, StillFresh, Same
    <2>2. Outputs'
        BY <1>1, <1>2, <1>4 DEF Outputs, Same
    <2>3. QED BY <1>3, <2>1, <2>2
<1>5. ASSUME NEW f \in Saved, NEW t \in Texts \cup {NoFile}, Edit(f, t)
      PROVE  Fresh' /\ Outputs'
    <2>1. /\ disk' = [disk EXCEPT ![f] = t] /\ f \in W /\ UNCHANGED <<output, cache>>
          /\ \A p \in Procs : /\ cmd[p] \in Caching
                              /\ at[p] \in {"fingerprint", "cache", "arguments", "load"}
                              => f \notin DOMAIN fp[p].texts \ DOMAIN read[p]
        BY <1>5 DEF Edit, W
    <2>2. \A g \in Files : g # f => disk'[g] = disk[g]
        BY <1>1, <2>1 DEF FileTypes
    <2>3. ASSUME NEW p \in Procs
          PROVE  StillFresh(p)'
        <3>1. DOMAIN fp[p].texts \subseteq Files /\ DOMAIN read[p] \subseteq Files
            BY <1>1, PartialDomain DEF LocalTypes
        <3>2. StillFresh(p) /\ Same(p)
            BY <1>1 DEF Fresh
        <3>3. QED BY <2>1, <2>2, <3>1, <3>2 DEF StillFresh, Same
    <2>4. ASSUME NEW print, output # NoFile, Agrees(disk, print, output)
          PROVE  Agrees(disk', print, output)
        <3>1. DOMAIN output.texts \subseteq Files
            BY <1>1, <2>4, PartialDomain DEF FileTypes
        <3>2. QED BY <2>1, <2>2, <2>4, <3>1 DEF Agrees
    <2>5. Outputs'
        BY <1>1, <1>2, <2>1, <2>4 DEF Outputs, Same
    <2>6. QED BY <2>3, <2>5 DEF Fresh
<1>6. QED
    BY <1>3, <1>4, <1>5 DEF Meanwhile, Configure, Clean

(* Whatever is saved, built, failed, killed or cleaned, commands that the  *)
(* cache can tell apart agree with the output that they report or run.     *)
THEOREM CacheAgrees == Spec => []Inv
<1>1. Inv /\ [Next]_vars => Inv'
    <2> SUFFICES ASSUME Inv, [Next]_vars
                 PROVE  Inv'
        OBVIOUS
    <2>1. Types' /\ Stages'
        BY StagesStep, FilesStep DEF Inv, Types
    <2>2. ASSUME ~disturbed'
          PROVE  Fresh' /\ Together' /\ Outputs'
        <3>1. ~disturbed
            BY <2>2, StaysDisturbed
        <3>2. ASSUME NEW p \in Procs, Does(p)
              PROVE  Fresh' /\ Together' /\ Outputs'
            <4>1. LocalTypes' /\ Stage(p)' /\ Others(p)
                BY <3>2, DoesLocal DEF Inv
            <4>2. QED BY <2>2, <3>1, <3>2, <4>1, FreshDoes, TogetherDoes, OutputsDoes
        <3>3. CASE Meanwhile
            BY <2>2, <3>1, <3>3, MeanwhileInv
        <3>4. CASE UNCHANGED vars
            BY <3>1, <3>4 DEF Inv, vars, files, local, project, counts, Fresh, StillFresh,
               Together, Building, Fingerprint, Outputs, Agrees
        <3>5. QED BY <3>2, <3>3, <3>4 DEF Next, Does, Meanwhile
    <2>3. QED BY <2>1, <2>2 DEF Inv
<1>2. QED BY <1>1, InitInv, PTL DEF Spec

(* What commands, files and counters hold.                                 *)
THEOREM TypeCorrect == Spec => []TypeOK
<1>1. Inv => TypeOK
    <2> SUFFICES ASSUME Inv
                 PROVE  TypeOK
        OBVIOUS
    <2>1. FileTypes /\ LocalTypes /\ CountTypes /\ Stages
        BY DEF Inv, Types
    <2>2. ASSUME NEW p \in Procs
          PROVE  /\ {todo[p], roots[p], tests[p]} \subseteq Seq(Files)
                 /\ Range(read[p]) \subseteq Texts \ {Bad}
        <3>1. \A f \in DOMAIN read[p] : read[p][f] \in Texts \ {Bad}
            BY <2>1 DEF Stages, Stage
        <3>2. todo[p] \in Seq(Files) /\ roots[p] \in Seq(Files) /\ tests[p] \in Seq(Files)
            BY <2>1 DEF LocalTypes
        <3>3. QED BY <3>1, <3>2 DEF Range
    <2>3. QED BY <2>1, <2>2 DEF TypeOK, FileTypes, LocalTypes, CountTypes, Steps
<1>2. QED BY <1>1, CacheAgrees, PTL

(* A program that is about to be run or reported is the program of the     *)
(* sources and the build mode as the command fingerprinted them.           *)
THEOREM ServedIsFingerprinted == Spec => []ServedAsFingerprinted
<1>1. Inv => ServedAsFingerprinted
    <2> SUFFICES ASSUME Inv, NEW p \in Procs, at[p] = "serve", ~disturbed, output # NoFile
                 PROVE  /\ output.mode = mode[p]
                        /\ \A f \in DOMAIN output.texts :
                              output.texts[f] = IF f \in DOMAIN fp[p].texts
                                                THEN fp[p].texts[f] ELSE disk[f]
        BY DEF ServedAsFingerprinted
    <2>1. Agrees(disk, Fingerprint(p), output)
        BY DEF Inv, Outputs, Built
    <2>2. DOMAIN fp[p].texts = W
        BY BuiltBuilds DEF Inv, Stages, Stage, Built
    <2>3. QED BY <2>1, <2>2 DEF Agrees, Fingerprint
<1>2. QED BY <1>1, CacheAgrees, PTL
=============================================================================

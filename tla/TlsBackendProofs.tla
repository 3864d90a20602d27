-------------------------- MODULE TlsBackendProofs -------------------------
(***************************************************************************)
(* Proofs about TlsBackend for every set of processes and every number of  *)
(* polls, kills and locks removed by hand.                                 *)
(***************************************************************************)
EXTENDS TlsBackend, FiniteSetTheorems, TLAPS

-----------------------------------------------------------------------------
(* The inductive invariant. *)

(* What a build leaves behind when nothing interferes.                     *)
Valid == archive \in Whole /\ stamp = archive

Hashing == {"hash", "poll hash", "rehash"}
(* A process that is here has nothing left to build.                       *)
Past == {"release", "link"} \cup Ended

(* A stamp is a whole archive's, and its builder is past the build.        *)
StampOfBuild ==
    /\ stamp \in Whole \cup {NoFile}
    /\ stamp \in Procs => at[stamp] \in Past

(* So is a stamp that was read before it was compared, and if the archive  *)
(* is that one, the stamp still stands.                                    *)
SeenOfBuild ==
    \A p \in Procs : at[p] \in Hashing =>
        /\ seen[p] \in Whole
        /\ seen[p] \in Procs => at[seen[p]] \in Past
        /\ archive = seen[p] => stamp = archive

(* What a builder may rely on at each step.                                *)
BuilderRelies(p) ==
    /\ at[p] = "rehash" => seen[p] = stamp
    /\ at[p] = "unlink archive" => ~Valid
    /\ at[p] \in {"unlink stamp", "stage", "move"} => archive = NoFile
    /\ at[p] \in {"stage", "move", "digest", "stamp"} => stamp = NoFile
    /\ at[p] \in {"digest", "stamp"} => archive = p
    /\ at[p] = "stamp" => seen[p] = p
BuilderFiles == \A p \in Procs : BuilderRelies(p)

Returned == \A p \in Procs : at[p] \in {"release", "link"} => Valid

FilesInv == ~usurped => StampOfBuild /\ SeenOfBuild /\ BuilderFiles /\ Returned

-----------------------------------------------------------------------------
(* The constants and where a step may lead. *)

(* The marks for no file, a damaged one and an earlier build differ.       *)
LEMMA Marks ==
    /\ Earlier \notin Procs /\ NoFile \notin Procs /\ Damaged \notin Procs
    /\ Earlier # NoFile /\ Earlier # Damaged /\ NoFile # Damaged
    /\ MaxPolls \in Nat /\ MaxKills \in Nat /\ MaxRemovals \in Nat
<1>1. ASSUME NEW a, NEW b
      PROVE  Cardinality({a, b}) # 3
    <2>1. IsFiniteSet({}) /\ Cardinality({}) = 0
        BY FS_EmptySet
    <2>2. IsFiniteSet({b}) /\ Cardinality({b}) = 1
        BY FS_Singleton
    <2>3. {a, b} = {b} \cup {a}
        OBVIOUS
    <2>4. Cardinality({a, b}) = IF a \in {b} THEN 1 ELSE 2
        BY <2>2, <2>3, FS_AddElement
    <2>5. QED BY <2>4
<1>2. Earlier # NoFile
    <2>1. Earlier = NoFile => {Earlier, NoFile, Damaged} = {NoFile, Damaged}
        OBVIOUS
    <2>2. QED BY <1>1, <2>1, FilesAssumption
<1>3. Earlier # Damaged
    <2>1. Earlier = Damaged => {Earlier, NoFile, Damaged} = {NoFile, Damaged}
        OBVIOUS
    <2>2. QED BY <1>1, <2>1, FilesAssumption
<1>4. NoFile # Damaged
    <2>1. NoFile = Damaged => {Earlier, NoFile, Damaged} = {Earlier, Damaged}
        OBVIOUS
    <2>2. QED BY <1>1, <2>1, FilesAssumption
<1>5. QED BY <1>2, <1>3, <1>4, FilesAssumption, BoundsAssumption

(* How the groups of steps lie among the steps.                            *)
LEMMA StepsAre ==
    /\ Locked \subseteq Steps /\ Building \subseteq Locked /\ Ended \subseteq Steps
    /\ {"look", "hash", "acquire", "poll", "poll hash", "nap", "link"} \subseteq Steps
    /\ Locked \cap Ended = {} /\ Past \subseteq Steps /\ Hashing \subseteq Steps
BY DEF Steps, Locked, Building, Ended, Past, Hashing

(* A process moves to a step, and nobody else moves.                       *)
LEMMA Moves ==
    ASSUME TypeOK, NEW p \in Procs, NEW s, Go(p, s)
    PROVE  /\ at'[p] = s
           /\ \A q \in Procs : q # p => at'[q] = at[q]
           /\ s \in Steps => at' \in [Procs -> Steps]
BY DEF TypeOK, Go

(* The file checks read one stamp and do not write a file.                 *)
LEMMA CheckType ==
    ASSUME TypeOK, NEW p \in Procs, NEW here, NEW a \in Steps, NEW b \in Steps,
           NEW c \in Steps,
           ReadStamp(p, here, a, b) \/ HashArchive(p, here, a, b, c)
    PROVE  /\ at' \in [Procs -> Steps] /\ seen' \in [Procs -> Whole \cup {NoFile, Damaged}]
           /\ UNCHANGED <<files, lock, Rest>>
<1>1. CASE ReadStamp(p, here, a, b)
    BY <1>1, Moves DEF ReadStamp, TypeOK
<1>2. CASE HashArchive(p, here, a, b, c)
    BY <1>2, Moves DEF HashArchive, TypeOK
<1>3. QED BY <1>1, <1>2

-----------------------------------------------------------------------------
(* Type correctness. *)

(* A step of a build keeps the types.                                      *)
LEMMA StepType ==
    ASSUME TypeOK, NEW p \in Procs, Step(p)
    PROVE  TypeOK'
<1> USE Marks
<1>1. CASE CannotStart(p)
    <2>1. Go(p, "failed") /\ UNCHANGED <<files, lock, seen, Rest>>
        BY <1>1 DEF CannotStart
    <2>2. QED BY <2>1, Moves, StepsAre DEF TypeOK, files, Rest, Ended
<1>2. CASE Look(p)
    <2>1. {"hash", "acquire", "link", "raised"} \subseteq Steps
        BY DEF Steps, Ended
    <2>2. QED BY <1>2, <2>1, CheckType DEF Look, TypeOK, files, Rest
<1>3. CASE Acquire(p)
    <2>1. "recheck" \in Steps /\ "poll" \in Steps
        BY DEF Steps, Locked
    <2>2. QED BY <1>3, <2>1, Moves DEF Acquire, TypeOK, files, Rest
<1>4. CASE Poll(p)
    <2>1. {"poll hash", "nap", "link", "raised"} \subseteq Steps
        BY DEF Steps, Ended
    <2>2. CASE Nap(p)
        <3>1. "failed" \in Steps /\ "acquire" \in Steps
            BY DEF Steps, Ended
        <3>2. at' \in [Procs -> Steps]
            BY <2>2, <3>1, Moves DEF Nap
        <3>3. polls' \in [Procs -> 0 .. MaxPolls]
            BY <2>2 DEF Nap, TypeOK
        <3>4. QED BY <2>2, <3>2, <3>3 DEF Nap, TypeOK, files
    <2>3. QED BY <1>4, <2>1, <2>2, CheckType DEF Poll, TypeOK, files, Rest
<1>5. CASE Recheck(p)
    <2>1. {"rehash", "release", "unlink archive", "give up"} \subseteq Steps
        BY DEF Steps, Locked, Building
    <2>2. QED BY <1>5, <2>1, CheckType DEF Recheck, TypeOK, files, Rest
<1>6. CASE UnlinkStale(p)
    <2>1. "unlink stamp" \in Steps /\ "stage" \in Steps
        BY DEF Steps, Locked, Building
    <2>2. QED BY <1>6, <2>1, Moves DEF UnlinkStale, TypeOK, Rest
<1>7. CASE Stage(p)
    <2>1. "move" \in Steps /\ "give up" \in Steps
        BY DEF Steps, Locked, Building
    <2>2. at' \in [Procs -> Steps] /\ UNCHANGED <<files, lock, seen, Rest>>
        BY <1>7, <2>1, Moves DEF Stage
    <2>3. QED BY <2>2 DEF TypeOK, files, Rest
<1>8. CASE Move(p)
    <2>1. "digest" \in Steps /\ "give up" \in Steps
        BY DEF Steps, Locked, Building
    <2>2. QED BY <1>8, <2>1, Moves DEF Move, TypeOK, Rest, Whole
<1>9. CASE Stamp(p)
    <2>1. "stamp" \in Steps /\ "give up" \in Steps /\ "release" \in Steps
        BY DEF Steps, Locked, Building
    <2>2. at' \in [Procs -> Steps] /\ UNCHANGED <<archive, lock, Rest>>
        BY <1>9, <2>1, Moves DEF Stamp, files
    <2>3. /\ stamp' \in Whole \cup {NoFile, Damaged}
          /\ seen' \in [Procs -> Whole \cup {NoFile, Damaged}]
        <3>1. CASE stamp' = stamp /\ seen' \in {seen, [seen EXCEPT ![p] = archive]}
            BY <3>1 DEF TypeOK
        <3>2. CASE stamp' = seen[p] /\ seen' = seen
            BY <3>2 DEF TypeOK
        <3>3. QED BY <1>9, <3>1, <3>2 DEF Stamp, files
    <2>4. QED BY <2>2, <2>3 DEF TypeOK, Rest
<1>10. CASE Release(p)
    <2>1. "link" \in Steps /\ "failed" \in Steps
        BY DEF Steps, Ended
    <2>2. QED BY <1>10, <2>1, Moves DEF Release, TypeOK, Rest, files
<1>11. CASE Link(p)
    <2>1. "linked" \in Steps /\ "failed" \in Steps
        BY DEF Steps, Ended
    <2>2. QED BY <1>11, <2>1, Moves DEF Link, TypeOK, Rest, files
<1>12. QED
    BY <1>1, <1>2, <1>3, <1>4, <1>5, <1>6, <1>7, <1>8, <1>9, <1>10, <1>11 DEF Step

(* Killing a build keeps them.                                             *)
LEMMA KillType ==
    ASSUME TypeOK, NEW p \in Procs, Kill(p)
    PROVE  TypeOK'
<1>1. "killed" \in Steps
    BY DEF Steps, Ended
<1>2. at' \in [Procs -> Steps]
    BY <1>1, Moves DEF Kill
<1>3. QED BY <1>2, Marks DEF Kill, TypeOK, files

(* The files hold an archive or a mark, the lock its creator, and the      *)
(* counts of polls, kills and removals stay within their bounds.           *)
THEOREM TypeCorrect == Spec => []TypeOK
<1>1. Init => TypeOK
    <2>1. "look" \in Steps
        BY DEF Steps
    <2> SUFFICES ASSUME Init
                 PROVE  TypeOK
        OBVIOUS
    <2>2. archive \in Whole \cup {NoFile, Damaged} /\ stamp \in Whole \cup {NoFile, Damaged}
        BY DEF Init, Whole
    <2>3. /\ at \in [Procs -> Steps] /\ seen \in [Procs -> Whole \cup {NoFile, Damaged}]
          /\ polls \in [Procs -> 0 .. MaxPolls]
          /\ kills \in 0 .. MaxKills /\ removals \in 0 .. MaxRemovals
        BY <2>1, Marks DEF Init
    <2>4. QED BY <2>2, <2>3 DEF Init, TypeOK
<1>2. TypeOK /\ [Next]_vars => TypeOK'
    <2> SUFFICES ASSUME TypeOK, [Next]_vars
                 PROVE  TypeOK'
        OBVIOUS
    <2>1. CASE RemoveLock
        <3>1. (at[lock] \in Locked) \in BOOLEAN
            OBVIOUS
        <3>2. QED BY <2>1, <3>1, Marks DEF RemoveLock, TypeOK, files
    <2>2. CASE UNCHANGED vars
        BY <2>2 DEF vars, files, TypeOK
    <2>3. QED BY <2>1, <2>2, StepType, KillType DEF Next
<1>3. QED BY <1>1, <1>2, PTL DEF Spec

-----------------------------------------------------------------------------
(* The lock and its builder. *)

(* Only os.open and the finally clause let a process in and out of the     *)
(* steps that hold the lock.                                               *)
LEMMA StaysOutside ==
    ASSUME TypeOK, NEW p \in Procs, Step(p), ~Acquire(p), ~Release(p)
    PROVE  /\ UNCHANGED <<lock, usurped>>
           /\ \A q \in Procs : /\ at'[q] \in Locked <=> at[q] \in Locked
                               /\ at'[q] = "killed" <=> at[q] = "killed"
<1> USE DEF Locked, Building
<1>1. ASSUME NEW s, Go(p, s), at[p] # "killed", s # "killed", at[p] \in Locked <=> s \in Locked
      PROVE  \A q \in Procs : /\ at'[q] \in Locked <=> at[q] \in Locked
                              /\ at'[q] = "killed" <=> at[q] = "killed"
    BY <1>1, Moves
<1>2. \E s : /\ Go(p, s) /\ at[p] # "killed" /\ s # "killed"
             /\ at[p] \in Locked <=> s \in Locked
             /\ UNCHANGED <<lock, usurped>>
    <2>1. CASE CannotStart(p)
        BY <2>1 DEF CannotStart, Rest
    <2>2. CASE Look(p)
        <3>1. CASE ReadStamp(p, "look", "hash", "acquire")
            BY <3>1 DEF ReadStamp, Rest
        <3>2. CASE HashArchive(p, "hash", "link", "acquire", "raised")
            BY <3>2 DEF HashArchive, Rest
        <3>3. QED BY <2>2, <3>1, <3>2 DEF Look
    <2>3. CASE Poll(p)
        <3>1. CASE ReadStamp(p, "poll", "poll hash", "nap")
            BY <3>1 DEF ReadStamp, Rest
        <3>2. CASE HashArchive(p, "poll hash", "link", "nap", "raised")
            BY <3>2 DEF HashArchive, Rest
        <3>3. CASE Nap(p)
            BY <3>3 DEF Nap
        <3>4. QED BY <2>3, <3>1, <3>2, <3>3 DEF Poll
    <2>4. CASE Recheck(p)
        <3>1. CASE ReadStamp(p, "recheck", "rehash", "unlink archive")
            BY <3>1 DEF ReadStamp, Rest
        <3>2. CASE HashArchive(p, "rehash", "release", "unlink archive", "give up")
            BY <3>2 DEF HashArchive, Rest
        <3>3. QED BY <2>4, <3>1, <3>2 DEF Recheck
    <2>5. CASE UnlinkStale(p)
        BY <2>5 DEF UnlinkStale, Rest
    <2>6. CASE Stage(p)
        BY <2>6 DEF Stage, Rest
    <2>7. CASE Move(p)
        BY <2>7 DEF Move, Rest
    <2>8. CASE Stamp(p)
        BY <2>8 DEF Stamp, Rest
    <2>9. CASE Link(p)
        BY <2>9 DEF Link, Rest
    <2>10. QED
        BY <2>1, <2>2, <2>3, <2>4, <2>5, <2>6, <2>7, <2>8, <2>9 DEF Step
<1>3. QED BY <1>1, <1>2

(* The lock file and its holder go together.                               *)
THEOREM LockIsBuilders == Spec => []LockMeansBuilder
<1>1. Init => LockMeansBuilder
    BY DEF Init, LockMeansBuilder, Locked, Building
<1>2. TypeOK /\ LockMeansBuilder /\ [Next]_vars => LockMeansBuilder'
    <2> SUFFICES ASSUME TypeOK, LockMeansBuilder, [Next]_vars, ~usurped'
                 PROVE  /\ \A p \in Procs : at'[p] \in Locked => lock' = p
                        /\ lock' # NoFile => at'[lock'] \in Locked \cup {"killed"}
        BY DEF LockMeansBuilder
    <2> USE Marks
    <2>1. CASE UNCHANGED vars
        BY <2>1 DEF vars, files, LockMeansBuilder
    <2>2. CASE RemoveLock
        <3>1. ~usurped /\ at[lock] \notin Locked /\ lock \in Procs
            BY <2>2 DEF RemoveLock, TypeOK
        <3>2. \A q \in Procs : at[q] \notin Locked
            BY <3>1 DEF LockMeansBuilder
        <3>3. QED BY <2>2, <3>2 DEF RemoveLock
    <2>3. ASSUME NEW p \in Procs, Kill(p)
          PROVE  /\ \A q \in Procs : at'[q] \in Locked => lock' = q
                 /\ lock' # NoFile => at'[lock'] \in Locked \cup {"killed"}
        <3>1. ~usurped /\ lock' = lock /\ Go(p, "killed") /\ lock \in Procs \cup {NoFile}
            BY <2>3 DEF Kill, TypeOK
        <3>2. "killed" \notin Locked
            BY DEF Locked, Building
        <3>3. QED BY <3>1, <3>2, Moves DEF LockMeansBuilder
    <2>4. ASSUME NEW p \in Procs, Step(p)
          PROVE  /\ \A q \in Procs : at'[q] \in Locked => lock' = q
                 /\ lock' # NoFile => at'[lock'] \in Locked \cup {"killed"}
        <3>1. CASE Acquire(p)
            <4>1. ~usurped /\ "recheck" \in Locked /\ "poll" \notin Locked \cup {"killed"}
                  /\ at[p] \notin Locked \cup {"killed"} /\ lock \in Procs \cup {NoFile}
                BY <3>1 DEF Acquire, Rest, Locked, Building, TypeOK
            <4>2. CASE lock = NoFile
                BY <3>1, <4>1, <4>2, Moves DEF Acquire, LockMeansBuilder
            <4>3. CASE lock # NoFile
                BY <3>1, <4>1, <4>3, Moves DEF Acquire, LockMeansBuilder
            <4>4. QED BY <4>2, <4>3
        <3>2. CASE Release(p)
            <4>1. ~usurped /\ at[p] \in Locked /\ lock' = NoFile
                  /\ "link" \notin Locked /\ "failed" \notin Locked
                BY <3>2 DEF Release, Rest, Locked, Building
            <4>2. at'[p] \notin Locked /\ \A q \in Procs : q # p => at'[q] = at[q]
                BY <3>2, <4>1, Moves DEF Release
            <4>3. QED BY <4>1, <4>2 DEF LockMeansBuilder
        <3>3. CASE ~Acquire(p) /\ ~Release(p)
            <4>1. lock \in Procs \cup {NoFile}
                BY DEF TypeOK
            <4>2. QED BY <2>4, <3>3, <4>1, StaysOutside DEF LockMeansBuilder
        <3>4. QED BY <3>1, <3>2, <3>3
    <2>5. QED BY <2>1, <2>2, <2>3, <2>4 DEF Next
<1>3. QED BY <1>1, <1>2, TypeCorrect, PTL DEF Spec

-----------------------------------------------------------------------------
(* The archive and its stamp. *)

Inv == TypeOK /\ LockMeansBuilder /\ FilesInv

(* While a process builds, nobody else does, and nobody relies on a pair   *)
(* that it has found missing or unequal.                                   *)
LEMMA OneBuilder ==
    ASSUME Inv, ~usurped, NEW p \in Procs, at[p] \in Locked
    PROVE  \A q \in Procs : q # p => at[q] \notin Locked
BY DEF Inv, LockMeansBuilder

(* A step of p that leaves the files and takes p to a step s for which     *)
(* these conditions hold.                                                  *)
LEMMA FilesKept ==
    ASSUME Inv, ~usurped, NEW p \in Procs, NEW s \in Steps, Go(p, s),
           UNCHANGED <<archive, stamp>>,
           at[p] \in Past => s \in Past,
           \A q \in Procs : q # p => seen'[q] = seen[q],
           s \in Hashing => /\ seen'[p] = stamp /\ stamp \in Whole,
           s = "unlink archive" => ~Valid,
           s \in {"unlink stamp", "stage", "move"} => archive = NoFile,
           s \in {"stage", "move", "digest", "stamp"} => stamp = NoFile,
           s \in {"digest", "stamp"} => archive = p,
           s = "stamp" => seen'[p] = p,
           s \in {"release", "link"} => Valid
    PROVE  FilesInv'
<1>1. at'[p] = s /\ \A q \in Procs : q # p => at'[q] = at[q]
    BY Moves DEF Inv
<1>2. StampOfBuild /\ SeenOfBuild /\ BuilderFiles /\ Returned
    BY DEF Inv, FilesInv
<1>3. \A q \in Procs : at[q] \in Past => at'[q] \in Past
    BY <1>1
<1>4. StampOfBuild'
    BY <1>2, <1>3 DEF StampOfBuild
<1>5. SeenOfBuild'
    <2> SUFFICES ASSUME NEW q \in Procs, at'[q] \in Hashing
                 PROVE  /\ seen'[q] \in Whole
                        /\ seen'[q] \in Procs => at'[seen'[q]] \in Past
                        /\ archive' = seen'[q] => stamp' = archive'
        BY DEF SeenOfBuild
    <2>1. CASE q = p
        <3>1. seen'[q] = stamp /\ stamp \in Whole /\ archive' = archive /\ stamp' = stamp
            BY <1>1, <2>1
        <3>2. stamp \in Procs => at'[stamp] \in Past
            BY <1>2, <1>3 DEF StampOfBuild
        <3>3. QED BY <3>1, <3>2
    <2>2. CASE q # p
        <3>1. seen'[q] = seen[q] /\ at[q] \in Hashing /\ archive' = archive /\ stamp' = stamp
            BY <1>1, <2>2
        <3>2. /\ seen[q] \in Whole /\ (seen[q] \in Procs => at[seen[q]] \in Past)
              /\ (archive = seen[q] => stamp = archive)
            BY <1>2, <3>1 DEF SeenOfBuild
        <3>3. seen[q] \in Procs => at'[seen[q]] \in Past
            BY <1>3, <3>2
        <3>4. QED BY <3>1, <3>2, <3>3
    <2>3. QED BY <2>1, <2>2
<1>6. BuilderFiles'
    <2> SUFFICES ASSUME NEW q \in Procs
                 PROVE  BuilderRelies(q)'
        BY DEF BuilderFiles
    <2>1. CASE q = p
        BY <1>1, <2>1 DEF BuilderRelies, Valid, Hashing
    <2>2. CASE q # p
        BY <1>1, <1>2, <2>2 DEF BuilderFiles, BuilderRelies, Valid
    <2>3. QED BY <2>1, <2>2
<1>7. Returned'
    BY <1>1, <1>2 DEF Returned, Valid
<1>8. QED BY <1>4, <1>5, <1>6, <1>7 DEF FilesInv

(* cache_is_valid: the stamp is read, then the archive is compared. *)
LEMMA ReadStampFiles ==
    ASSUME Inv, ~usurped, NEW p \in Procs, NEW here, NEW hash \in Hashing,
           NEW invalid \in Steps, ReadStamp(p, here, hash, invalid),
           here \notin Past, invalid \notin Hashing \cup Building \cup {"release", "link"}
             \/ invalid = "unlink archive"
    PROVE  FilesInv'
<1>1. UNCHANGED <<archive, stamp>> /\ StampOfBuild
    BY DEF ReadStamp, files, Inv, FilesInv
<1>2. CASE NoFile \in {archive, stamp}
    <2>1. Go(p, invalid) /\ UNCHANGED seen
        BY <1>2 DEF ReadStamp
    <2>2. ~Valid
        BY <1>2, Marks DEF Valid, Whole
    <2>3. QED BY <1>1, <2>1, <2>2, FilesKept DEF ReadStamp, Hashing, Building
<1>3. CASE NoFile \notin {archive, stamp}
    <2>1. Go(p, hash) /\ seen' = [seen EXCEPT ![p] = stamp]
        BY <1>3 DEF ReadStamp
    <2>2. seen'[p] = stamp /\ \A q \in Procs : q # p => seen'[q] = seen[q]
        BY <2>1 DEF Inv, TypeOK
    <2>3. stamp \in Whole /\ hash \in Steps
        BY <1>1, <1>3, StepsAre DEF StampOfBuild
    <2>4. QED BY <1>1, <2>1, <2>2, <2>3, FilesKept DEF ReadStamp, Hashing
<1>4. QED BY <1>2, <1>3

(* Hashing the archive keeps the files' invariant, wherever in the call it *)
(* happens.                                                                *)
LEMMA HashArchiveFiles ==
    ASSUME Inv, ~usurped, NEW p \in Procs, NEW here \in Hashing,
           NEW valid \in {"release", "link"}, NEW invalid \in Steps, NEW raised \in Steps,
           HashArchive(p, here, valid, invalid, raised),
           invalid \notin Hashing \cup Building \cup {"release", "link"}
             \/ (here = "rehash" /\ invalid = "unlink archive"),
           raised \notin Hashing \cup Building \cup {"release", "link"}
    PROVE  FilesInv'
<1>1. /\ UNCHANGED <<archive, stamp, seen>> /\ at[p] = here
      /\ SeenOfBuild /\ BuilderFiles
    BY DEF HashArchive, files, Inv, FilesInv
<1>2. at[p] \notin Past /\ valid \in Steps
    BY <1>1, StepsAre DEF Past, Hashing, Ended
<1>3. CASE archive = NoFile
    <2>1. archive # seen[p]
        BY <1>1, <1>3, Marks DEF SeenOfBuild, Whole
    <2>2. Go(p, raised)
        BY <1>3, <2>1 DEF HashArchive
    <2>3. QED BY <1>1, <1>2, <2>2, FilesKept DEF Building, Hashing
<1>4. CASE archive # NoFile /\ archive = seen[p]
    <2>1. Go(p, valid)
        BY <1>4 DEF HashArchive
    <2>2. Valid
        BY <1>1, <1>4 DEF SeenOfBuild, Valid
    <2>3. QED BY <1>1, <1>2, <2>1, <2>2, FilesKept DEF Past, Hashing
<1>5. CASE archive # NoFile /\ archive # seen[p]
    <2>1. Go(p, invalid)
        BY <1>5 DEF HashArchive
    <2>2. here = "rehash" => ~Valid
        BY <1>1, <1>5 DEF BuilderFiles, BuilderRelies, Valid
    <2>3. QED BY <1>1, <1>2, <2>1, <2>2, FilesKept DEF Building, Hashing
<1>6. QED BY <1>3, <1>4, <1>5

(* The three steps of a builder that write a file.                         *)
LEMMA UnlinkFiles ==
    ASSUME Inv, ~usurped, NEW p \in Procs, UnlinkStale(p)
    PROVE  FilesInv'
<1>1. StampOfBuild /\ SeenOfBuild /\ BuilderFiles /\ Returned
    BY DEF Inv, FilesInv
<1>2. at[p] \in {"unlink archive", "unlink stamp"} /\ UNCHANGED <<lock, seen>>
    BY DEF UnlinkStale
<1>3. \A q \in Procs : q # p => at[q] \notin Locked /\ at'[q] = at[q]
    BY <1>2, OneBuilder, Moves DEF UnlinkStale, Locked, Building, Inv
<1>4. \A q \in Procs : at[q] \notin {"release", "link"}
    BY <1>1, <1>2, Marks DEF Returned, BuilderFiles, BuilderRelies, Valid, Whole
<1>5. CASE at[p] = "unlink archive"
    <2>1. archive' = NoFile /\ stamp' = stamp /\ at'[p] = "unlink stamp"
        BY <1>5, Moves DEF UnlinkStale, Inv
    <2>2. \A q \in Procs : at[q] \in Past => at'[q] \in Past
        BY <1>3, <1>5 DEF Past, Ended
    <2>3. \A q \in Procs : at'[q] \in Hashing => at[q] \in Hashing
        BY <1>3, <2>1 DEF Hashing
    <2>4. StampOfBuild'
        BY <1>1, <2>1, <2>2 DEF StampOfBuild
    <2>5. SeenOfBuild'
        BY <1>1, <1>2, <2>1, <2>2, <2>3, Marks DEF SeenOfBuild, Whole
    <2>6. BuilderFiles'
        BY <1>3, <2>1 DEF BuilderFiles, BuilderRelies, Locked, Building
    <2>7. Returned'
        BY <1>3, <1>4, <2>1 DEF Returned
    <2>8. QED BY <2>4, <2>5, <2>6, <2>7 DEF FilesInv
<1>6. CASE at[p] = "unlink stamp"
    <2>1. archive' = archive /\ stamp' = NoFile /\ at'[p] = "stage" /\ archive = NoFile
        BY <1>1, <1>6, Moves DEF UnlinkStale, Inv, BuilderFiles, BuilderRelies
    <2>2. \A q \in Procs : at[q] \in Past => at'[q] \in Past
        BY <1>3, <1>6 DEF Past, Ended
    <2>3. \A q \in Procs : at'[q] \in Hashing => at[q] \in Hashing
        BY <1>3, <2>1 DEF Hashing
    <2>4. StampOfBuild'
        BY <2>1, Marks DEF StampOfBuild
    <2>5. SeenOfBuild'
        BY <1>1, <1>2, <2>1, <2>2, <2>3, Marks DEF SeenOfBuild, Whole
    <2>6. BuilderFiles'
        BY <1>3, <2>1 DEF BuilderFiles, BuilderRelies, Locked, Building
    <2>7. Returned'
        BY <1>3, <1>4, <2>1 DEF Returned
    <2>8. QED BY <2>4, <2>5, <2>6, <2>7 DEF FilesInv
<1>7. QED BY <1>2, <1>5, <1>6

(* Moving the new archive in place keeps it.                               *)
LEMMA MoveFiles ==
    ASSUME Inv, ~usurped, NEW p \in Procs, Move(p)
    PROVE  FilesInv'
<1>1. /\ StampOfBuild /\ SeenOfBuild /\ BuilderFiles /\ Returned
      /\ at[p] = "move" /\ UNCHANGED <<stamp, seen>> /\ archive = NoFile /\ stamp = NoFile
    BY DEF Inv, FilesInv, Move, BuilderFiles, BuilderRelies
<1>2. \A q \in Procs : q # p => at[q] \notin Locked /\ at'[q] = at[q]
    BY <1>1, OneBuilder, Moves DEF Move, Locked, Building, Inv
<1>3. \A q \in Procs : at[q] \notin {"release", "link"}
    BY <1>1, Marks DEF Returned, Valid, Whole
<1>4. CASE archive' = p
    <2>1. at'[p] \in {"digest", "give up"}
        BY <1>1, Moves DEF Move, Inv
    <2>2. \A q \in Procs : at[q] \in Hashing => seen[q] # p
        BY <1>1 DEF SeenOfBuild, Past, Ended
    <2>3. \A q \in Procs : at[q] \in Past => at'[q] \in Past
        BY <1>1, <1>2 DEF Past, Ended
    <2>4. \A q \in Procs : at'[q] \in Hashing => at[q] \in Hashing
        BY <1>2, <2>1 DEF Hashing
    <2>5. StampOfBuild'
        BY <1>1, Marks DEF StampOfBuild
    <2>6. SeenOfBuild'
        BY <1>1, <1>4, <2>2, <2>3, <2>4 DEF SeenOfBuild
    <2>7. BuilderFiles'
        BY <1>1, <1>2, <1>4, <2>1 DEF BuilderFiles, BuilderRelies, Locked, Building
    <2>8. Returned'
        BY <1>2, <1>3, <2>1 DEF Returned
    <2>9. QED BY <2>5, <2>6, <2>7, <2>8 DEF FilesInv
<1>5. CASE archive' = archive
    <2>1. at'[p] = "give up"
        BY <1>1, <1>5, Moves, Marks DEF Move, Inv
    <2>2. QED
        BY <1>1, <1>2, <1>3, <1>5, <2>1, Marks
        DEF FilesInv, StampOfBuild, SeenOfBuild, BuilderFiles, BuilderRelies, Returned,
            Valid, Past, Ended, Hashing, Whole, Locked, Building
<1>6. QED BY <1>4, <1>5 DEF Move

(* Replacing the stamp keeps it: it names the archive that was moved.      *)
LEMMA StampFiles ==
    ASSUME Inv, ~usurped, NEW p \in Procs, Stamp(p)
    PROVE  FilesInv'
<1>1. /\ StampOfBuild /\ SeenOfBuild /\ BuilderFiles /\ Returned
      /\ UNCHANGED archive /\ archive = p /\ stamp = NoFile
      /\ at[p] \in {"digest", "stamp"}
    BY DEF Inv, FilesInv, Stamp, files, BuilderFiles, BuilderRelies
<1>2. CASE at[p] = "digest"
    <2>1. Go(p, "stamp") /\ seen' = [seen EXCEPT ![p] = archive] /\ UNCHANGED stamp
        BY <1>1, <1>2, Marks DEF Stamp, files
    <2>2. seen'[p] = p /\ \A q \in Procs : q # p => seen'[q] = seen[q]
        BY <1>1, <2>1 DEF Inv, TypeOK
    <2>3. "stamp" \in Steps /\ "digest" \notin Past /\ "stamp" \notin Hashing
        BY DEF Steps, Locked, Building, Past, Ended, Hashing
    <2>4. QED BY <1>1, <1>2, <2>1, <2>2, <2>3, FilesKept
<1>3. CASE at[p] = "stamp"
    <2>1. /\ stamp' = p /\ UNCHANGED seen /\ at'[p] = "release"
          /\ \A q \in Procs : q # p => at[q] \notin Locked /\ at'[q] = at[q]
        BY <1>1, <1>3, OneBuilder, Moves
        DEF Stamp, BuilderFiles, BuilderRelies, Inv, Locked, Building
    <2>2. StampOfBuild' /\ SeenOfBuild'
        BY <1>1, <2>1 DEF StampOfBuild, SeenOfBuild, Past, Hashing, Whole, Ended
    <2>3. BuilderFiles' /\ Returned'
        BY <1>1, <2>1 DEF BuilderFiles, BuilderRelies, Returned, Valid, Whole, Locked, Building
    <2>4. QED BY <2>2, <2>3 DEF FilesInv
<1>4. QED BY <1>1, <1>2, <1>3

(* What an archive goes through between two looks at the cache.            *)
LEMMA StepFiles ==
    ASSUME Inv, ~usurped, NEW p \in Procs, Step(p)
    PROVE  FilesInv'
<1> USE StepsAre
<1>1. CASE CannotStart(p)
    <2>1. Go(p, "failed") /\ at[p] = "look" /\ UNCHANGED <<archive, stamp, seen>>
        BY <1>1 DEF CannotStart, files
    <2>2. QED BY <2>1, FilesKept DEF Past, Ended, Hashing, Steps
<1>2. CASE Look(p)
    <2>1. ReadStamp(p, "look", "hash", "acquire") => FilesInv'
        BY ReadStampFiles DEF Past, Ended, Hashing, Building, Steps
    <2>2. HashArchive(p, "hash", "link", "acquire", "raised") => FilesInv'
        BY HashArchiveFiles DEF Past, Ended, Hashing, Building, Steps
    <2>3. QED BY <1>2, <2>1, <2>2 DEF Look
<1>3. CASE Acquire(p)
    <2>1. \E s \in {"recheck", "poll"} : Go(p, s)
        BY <1>3 DEF Acquire
    <2>2. at[p] = "acquire" /\ UNCHANGED <<archive, stamp, seen>>
        BY <1>3 DEF Acquire, files
    <2>3. QED BY <2>1, <2>2, FilesKept DEF Past, Ended, Hashing, Steps, Locked
<1>4. CASE Poll(p)
    <2>1. ReadStamp(p, "poll", "poll hash", "nap") => FilesInv'
        BY ReadStampFiles DEF Past, Ended, Hashing, Building, Steps
    <2>2. HashArchive(p, "poll hash", "link", "nap", "raised") => FilesInv'
        BY HashArchiveFiles DEF Past, Ended, Hashing, Building, Steps
    <2>3. CASE Nap(p)
        <3>1. \E s \in {"failed", "acquire"} : Go(p, s)
            BY <2>3 DEF Nap
        <3>2. at[p] = "nap" /\ UNCHANGED <<archive, stamp, seen>>
            BY <2>3 DEF Nap, files
        <3>3. QED BY <3>1, <3>2, FilesKept DEF Past, Ended, Hashing, Steps
    <2>4. QED BY <1>4, <2>1, <2>2, <2>3 DEF Poll
<1>5. CASE Recheck(p)
    <2>1. ReadStamp(p, "recheck", "rehash", "unlink archive") => FilesInv'
        BY ReadStampFiles DEF Past, Ended, Hashing, Steps, Locked, Building
    <2>2. HashArchive(p, "rehash", "release", "unlink archive", "give up") => FilesInv'
        BY HashArchiveFiles DEF Past, Ended, Hashing, Building, Steps, Locked
    <2>3. QED BY <1>5, <2>1, <2>2 DEF Recheck
<1>6. CASE UnlinkStale(p)
    BY <1>6, UnlinkFiles
<1>7. CASE Stage(p)
    <2>1. \E s \in {"move", "give up"} : Go(p, s)
        BY <1>7 DEF Stage
    <2>2. at[p] = "stage" /\ UNCHANGED <<archive, stamp, seen>>
        BY <1>7 DEF Stage, files
    <2>3. archive = NoFile /\ stamp = NoFile
        BY <2>2 DEF Inv, FilesInv, BuilderFiles, BuilderRelies
    <2>4. QED BY <2>1, <2>2, <2>3, FilesKept DEF Past, Ended, Hashing, Steps, Locked, Building
<1>8. CASE Move(p)
    BY <1>8, MoveFiles
<1>9. CASE Stamp(p)
    BY <1>9, StampFiles
<1>10. CASE Release(p)
    <2>1. Go(p, IF at[p] = "release" THEN "link" ELSE "failed")
        BY <1>10 DEF Release
    <2>2. at[p] \in {"release", "give up"} /\ UNCHANGED <<archive, stamp, seen>>
        BY <1>10 DEF Release, files
    <2>3. at[p] = "release" => Valid
        BY DEF Inv, FilesInv, Returned
    <2>4. QED BY <2>1, <2>2, <2>3, FilesKept DEF Past, Ended, Hashing, Steps
<1>11. CASE Link(p)
    <2>1. \E s \in {"failed", "linked"} : Go(p, s)
        BY <1>11 DEF Link
    <2>2. at[p] = "link" /\ UNCHANGED <<archive, stamp>>
          /\ \A q \in Procs : q # p => seen'[q] = seen[q]
        BY <1>11 DEF Link, files, Inv, TypeOK
    <2>3. QED BY <2>1, <2>2, FilesKept DEF Past, Ended, Hashing, Steps
<1>12. QED
    BY <1>1, <1>2, <1>3, <1>4, <1>5, <1>6, <1>7, <1>8, <1>9, <1>10, <1>11 DEF Step

(* Being killed takes a process past everything, with the files as they    *)
(* are.                                                                    *)
LEMMA KillFiles ==
    ASSUME Inv, ~usurped, NEW p \in Procs, Kill(p)
    PROVE  FilesInv'
<1>1. Go(p, "killed") /\ UNCHANGED <<archive, stamp, seen>>
    BY DEF Kill, files
<1>2. QED BY <1>1, StepsAre, FilesKept DEF Past, Ended, Hashing, Steps

(* Unless a lock was removed under its builder, a stamp names a finished   *)
(* build, nobody relies on a pair that a builder has found bad, and the    *)
(* pair a process has been given stays as it is.                           *)
THEOREM PairsHold == Spec => []FilesInv
<1>1. Init => FilesInv
    <2> SUFFICES ASSUME Init
                 PROVE  FilesInv
        OBVIOUS
    <2>1. /\ archive \in {Earlier, NoFile, Damaged} /\ stamp \in Whole \cup {NoFile}
          /\ stamp \notin Procs
        BY Marks DEF Init, Whole
    <2>2. \A p \in Procs : at[p] = "look"
        BY DEF Init
    <2>3. QED
        BY <2>1, <2>2 DEF FilesInv, StampOfBuild, SeenOfBuild, BuilderFiles, BuilderRelies,
           Returned, Hashing
<1>2. Inv /\ [Next]_vars => FilesInv'
    <2> SUFFICES ASSUME Inv, [Next]_vars, ~usurped'
                 PROVE  FilesInv'
        BY DEF FilesInv
    <2>1. CASE UNCHANGED vars
        BY <2>1 DEF vars, files, Inv, FilesInv, StampOfBuild, SeenOfBuild, BuilderFiles,
           BuilderRelies, Returned, Valid
    <2>2. CASE RemoveLock
        BY <2>2 DEF RemoveLock, files, Inv, FilesInv, StampOfBuild, SeenOfBuild,
           BuilderFiles, BuilderRelies, Returned, Valid
    <2>3. ASSUME NEW p \in Procs, Step(p)
          PROVE  FilesInv'
        <3>1. ~usurped
            BY <2>3, StaysOutside DEF Inv, Acquire, Release, Rest
        <3>2. QED BY <2>3, <3>1, StepFiles
    <2>4. ASSUME NEW p \in Procs, Kill(p)
          PROVE  FilesInv'
        BY <2>4, KillFiles DEF Kill
    <2>5. QED BY <2>1, <2>2, <2>3, <2>4 DEF Next
<1>3. Spec => [](TypeOK /\ LockMeansBuilder)
    BY TypeCorrect, LockIsBuilders, PTL
<1>4. QED BY <1>1, <1>2, <1>3, PTL DEF Spec, Inv

(* An archive whose path ensure_tls_backend has returned stays whole and   *)
(* stamped until the process links it, unless a lock was removed under its *)
(* builder.                                                                *)
THEOREM ReturnedIsWhole == Spec => []ReturnedStaysWhole
<1>1. FilesInv => ReturnedStaysWhole
    BY DEF FilesInv, Returned, Valid, ReturnedStaysWhole
<1>2. QED BY <1>1, PairsHold, PTL
=============================================================================

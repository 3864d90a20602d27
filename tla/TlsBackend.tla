----------------------------- MODULE TlsBackend -----------------------------
(***************************************************************************)
(* ensure_tls_backend of mort/tls_backend.py: the static TLS library that  *)
(* every build of a TLS program shares through a cache directory, a lock   *)
(* file and a stamp with the archive's digest, and _compile_main of        *)
(* mortc.py, which links the path it is given.  A digest is the archive it *)
(* is taken of.  A builder may be killed anywhere and a user who is told   *)
(* to may remove the lock.                                                 *)
(***************************************************************************)
EXTENDS Naturals, FiniteSets

CONSTANTS
    Procs,          \* invocations of mortc that need the library
    Earlier,        \* an invocation that has ended
    NoFile,         \* no such file
    Damaged,        \* an archive that is not a whole one
    MaxPolls,       \* bound: polls of the lock until the deadline
    MaxKills,       \* bound: builders killed
    MaxRemovals     \* bound: locks removed by hand

ASSUME FilesAssumption == 
    /\ {Earlier, NoFile, Damaged} \cap Procs = {}
    /\ Cardinality({Earlier, NoFile, Damaged}) = 3
ASSUME BoundsAssumption == MaxPolls \in Nat /\ MaxKills \in Nat /\ MaxRemovals \in Nat

VARIABLES
    archive,    \* libmort_tls.a: NoFile, Damaged, or the process that built it
    stamp,      \* its .sha256: NoFile or the digest recorded
    lock,       \* build.lock: NoFile or the process that created it
    movable,    \* is the cache on the file system of the temporary directory?
    at,         \* where each process is
    seen,       \* the digest each process has last read or taken
    polls,      \* polls of the lock left to each process
    kills, removals,
    usurped     \* has a lock been removed whose builder was still running?

files == <<archive, stamp>>
vars == <<archive, stamp, lock, movable, at, seen, polls, kills, removals, usurped>>

Whole == Procs \cup {Earlier}
Building == {"unlink archive", "unlink stamp", "stage", "move", "digest", "stamp"}
Locked == Building \cup {"recheck", "rehash", "release", "give up"}
Ended == {"linked", "failed", "raised", "killed"}
Steps == {"look", "hash", "acquire", "poll", "poll hash", "nap", "link"} \cup Locked \cup Ended

TypeOK ==
    /\ archive \in Whole \cup {NoFile, Damaged}
    /\ stamp \in Whole \cup {NoFile, Damaged}
    /\ lock \in Procs \cup {NoFile}
    /\ movable \in BOOLEAN
    /\ at \in [Procs -> Steps]
    /\ seen \in [Procs -> Whole \cup {NoFile, Damaged}]
    /\ polls \in [Procs -> 0 .. MaxPolls]
    /\ kills \in 0 .. MaxKills /\ removals \in 0 .. MaxRemovals
    /\ usurped \in BOOLEAN

(* What earlier runs may have left: nothing, a build killed between the    *)
(* archive and its stamp, or a pair of which the archive has been damaged. *)
Init ==
    /\ archive \in {Earlier, NoFile, Damaged}
    /\ stamp \in IF archive = Damaged THEN {Earlier, NoFile} ELSE {NoFile, archive}
    /\ lock = NoFile
    /\ movable \in BOOLEAN
    /\ at = [p \in Procs |-> "look"]
    /\ seen = [p \in Procs |-> NoFile]
    /\ polls = [p \in Procs |-> MaxPolls]
    /\ kills = 0 /\ removals = 0 /\ usurped = FALSE

Go(p, step) == at' = [at EXCEPT ![p] = step]
Rest == <<movable, polls, kills, removals, usurped>>

-----------------------------------------------------------------------------
(* The shipped sources are verified and a writable cache directory is      *)
(* found, or the command ends.  The directory is that of the compiler and  *)
(* its flags: processes with others do not meet here.                      *)

PayloadsVerified == BOOLEAN
CacheRootFound == BOOLEAN
CannotStart(p) ==
    /\ at[p] = "look"
    /\ \E verified \in PayloadsVerified, root \in CacheRootFound :
          ~(verified /\ root) /\ Go(p, "failed")
    /\ UNCHANGED <<files, lock, seen, Rest>>

(* cache_is_valid, in two steps: both files are there and the stamp is     *)
(* read; then the archive is digested, which raises when it has gone.      *)

ReadStamp(p, here, hash, invalid) ==
    /\ at[p] = here
    /\ IF NoFile \in {archive, stamp}
       THEN Go(p, invalid) /\ UNCHANGED seen
       ELSE Go(p, hash) /\ seen' = [seen EXCEPT ![p] = stamp]
    /\ UNCHANGED <<files, lock, Rest>>

HashArchive(p, here, valid, invalid, raised) ==
    /\ at[p] = here
    /\ Go(p, CASE archive = NoFile -> raised
               [] archive = seen[p] -> valid
               [] OTHER -> invalid)
    /\ UNCHANGED <<files, lock, seen, Rest>>

Look(p) ==
    \/ ReadStamp(p, "look", "hash", "acquire")
    \/ HashArchive(p, "hash", "link", "acquire", "raised")

(* os.open with O_EXCL, or the lock is somebody's.                         *)
Acquire(p) ==
    /\ at[p] = "acquire"
    /\ IF lock = NoFile
       THEN lock' = p /\ Go(p, "recheck")
       ELSE Go(p, "poll") /\ UNCHANGED lock
    /\ UNCHANGED <<files, seen, Rest>>

(* While waiting: the cache again, then the deadline, then a nap.          *)

(* Mutant: the clock is not looked at until after the nap. *)
NapFirst(p) ==
    /\ at[p] = "nap"
    /\ Go(p, IF polls[p] = 0 THEN "failed" ELSE "acquire")
    /\ polls' = [polls EXCEPT ![p] = @ - 1]
    /\ UNCHANGED <<files, lock, seen, movable, kills, removals, usurped>>
(* Mutant: a waiter naps without looking at the clock. *)
NapWithoutDeadline(p) ==
    /\ at[p] = "nap" /\ Go(p, "acquire")
    /\ UNCHANGED <<files, lock, seen, Rest>>
Nap(p) ==
    /\ at[p] = "nap"
    /\ IF polls[p] = 0
       THEN Go(p, "failed") /\ UNCHANGED polls
       ELSE Go(p, "acquire") /\ polls' = [polls EXCEPT ![p] = @ - 1]
    /\ UNCHANGED <<files, lock, seen, movable, kills, removals, usurped>>
Poll(p) ==
    \/ ReadStamp(p, "poll", "poll hash", "nap")
    \/ HashArchive(p, "poll hash", "link", "nap", "raised")
    \/ Nap(p)

-----------------------------------------------------------------------------
(* The builder.                                                            *)

(* Mutant: the winner of the lock builds without looking again. *)
RecheckNothing(p) ==
    at[p] = "recheck" /\ Go(p, "unlink archive") /\ UNCHANGED <<files, lock, seen, Rest>>
Recheck(p) ==
    \/ ReadStamp(p, "recheck", "rehash", "unlink archive")
    \/ HashArchive(p, "rehash", "release", "unlink archive", "give up")

UnlinkStale(p) ==
    /\ \/ at[p] = "unlink archive" /\ archive' = NoFile /\ Go(p, "unlink stamp")
          /\ UNCHANGED stamp
       \/ at[p] = "unlink stamp" /\ stamp' = NoFile /\ Go(p, "stage")
          /\ UNCHANGED archive
    /\ UNCHANGED <<lock, seen, Rest>>

(* _build_archive extracts the sources, compiles each of them and archives *)
(* the objects in a temporary directory, and any of it may fail.           *)
Extracted == BOOLEAN
Compiled == BOOLEAN
Stage(p) ==
    /\ at[p] = "stage"
    /\ \E extracted \in Extracted, compiled \in Compiled, archived \in BOOLEAN :
          Go(p, IF extracted /\ compiled /\ archived THEN "move" ELSE "give up")
    /\ UNCHANGED <<files, lock, seen, Rest>>
(* It then moves the archive into the cache.  os.replace refuses another   *)
(* file system, an error unless an archive is there already.               *)
Move(p) ==
    /\ at[p] = "move"
    /\ \/ archive' = p /\ movable /\ Go(p, "digest")
       \/ ~movable /\ Go(p, IF archive = NoFile THEN "give up" ELSE "digest")
          /\ UNCHANGED archive
    /\ UNCHANGED <<stamp, lock, seen, Rest>>

Stamp(p) ==
    \/ /\ at[p] = "digest"
       /\ IF archive = NoFile
          THEN Go(p, "give up") /\ UNCHANGED seen
          ELSE Go(p, "stamp") /\ seen' = [seen EXCEPT ![p] = archive]
       /\ UNCHANGED <<files, lock, Rest>>
    \/ /\ at[p] = "stamp"
       /\ stamp' = seen[p] /\ Go(p, "release")
       /\ UNCHANGED <<archive, lock, seen, Rest>>

(* Mutant: only a build that succeeds removes the lock. *)
ReleaseOnSuccess(p) ==
    /\ at[p] \in {"release", "give up"}
    /\ lock' = IF at[p] = "release" THEN NoFile ELSE lock
    /\ Go(p, IF at[p] = "release" THEN "link" ELSE "failed")
    /\ UNCHANGED <<files, seen, Rest>>
(* The finally clause unlinks whatever lock is there.                      *)
Release(p) ==
    /\ at[p] \in {"release", "give up"}
    /\ lock' = NoFile
    /\ Go(p, IF at[p] = "release" THEN "link" ELSE "failed")
    /\ UNCHANGED <<files, seen, Rest>>

(* The C compiler reads the archive at the path ensure_tls_backend gave.   *)
Link(p) ==
    /\ at[p] = "link"
    /\ Go(p, IF archive = NoFile THEN "failed" ELSE "linked")
    /\ seen' = [seen EXCEPT ![p] = archive]
    /\ UNCHANGED <<files, lock, Rest>>

-----------------------------------------------------------------------------
(* What happens to processes.                                              *)

Kill(p) ==
    /\ at[p] \notin Ended /\ kills < MaxKills
    /\ Go(p, "killed") /\ kills' = kills + 1
    /\ UNCHANGED <<files, lock, seen, movable, polls, removals, usurped>>

(* A process that timed out has told its user to remove a stale lock.      *)
RemoveLock ==
    /\ lock # NoFile /\ removals < MaxRemovals
    /\ \E p \in Procs : at[p] = "failed" /\ polls[p] = 0
    /\ lock' = NoFile /\ removals' = removals + 1
    /\ usurped' = (usurped \/ at[lock] \in Locked)
    /\ UNCHANGED <<files, movable, at, seen, polls, kills>>

Step(p) ==
    \/ CannotStart(p) \/ Look(p) \/ Acquire(p) \/ Poll(p) \/ Recheck(p) \/ UnlinkStale(p)
    \/ Stage(p) \/ Move(p)
    \/ Stamp(p) \/ Release(p) \/ Link(p)

Next == (\E p \in Procs : Step(p) \/ Kill(p)) \/ RemoveLock

(* The operating system runs every process that is not killed.             *)
Spec == Init /\ [][Next]_vars /\ \A p \in Procs : WF_vars(Step(p))

-----------------------------------------------------------------------------
(* Unless a lock was removed under its builder, the lock file and its      *)
(* holder go together: whoever is past os.open owns the lock, and a lock   *)
(* that is there is that of a running builder or of a killed one.  (Of a   *)
(* builder that failed, too, the finally clause leaves no lock.)           *)
LockMeansBuilder ==
    ~usurped => /\ \A p \in Procs : at[p] \in Locked => lock = p
                /\ lock # NoFile => at[lock] \in Locked \cup {"killed"}

(* Unless a lock was removed under its builder, an archive whose path      *)
(* ensure_tls_backend has returned stays whole and stamped until it is     *)
(* linked, whatever the other builds do: a waiter that gets the lock after *)
(* a build looks at the cache again before it unlinks what is there.       *)
ReturnedStaysWhole ==
    ~usurped => \A p \in Procs : at[p] = "link" => archive \in Whole /\ stamp = archive

(* Every build ends, with a program or an error: a lock left behind by a   *)
(* killed builder makes the others time out, not wait for ever.            *)
EveryBuildEnds == \A p \in Procs : <>(at[p] \in Ended)
=============================================================================

--------------------------- MODULE RegistryProofs ---------------------------
(***************************************************************************)
(* Proofs about Registry for every set of invocations, builds, keys and    *)
(* versions and every bound on the log.                                    *)
(***************************************************************************)
EXTENDS Registry, SequenceTheorems, FiniteSetTheorems, TLAPS

-----------------------------------------------------------------------------
(* The inductive invariant. *)

(* No publication follows the revocation of its key.                       *)
Ordered(log) ==
    \A m, n \in DOMAIN log :
        /\ log[m].event = "revoke-key" /\ log[n].event = "publish"
        /\ log[m].key = log[n].key
        => n < m

(* Every index an invocation ever wrote.                                   *)
Sound(i) == i \in Index /\ Verified(i) /\ Ordered(i.log)

FilesSound ==
    /\ index # Torn => Sound(index)
    /\ tmp \notin {NoFile, Torn} => Sound(tmp)
    /\ \A i \in served : i # Torn => Sound(i)
AdminsSound ==
    \A a \in Admins :
        /\ admin[a].at = "idle" <=> admin[a].new = NoFile
        /\ admin[a].new # NoFile => Sound(admin[a].new)

(* One invocation at a time: what it finds of the others' files and what   *)
(* it leaves of its own.                                                   *)
Serial ==
    /\ index # Torn
    /\ \A a, b \in Admins : admin[a].at # "idle" /\ admin[b].at # "idle" => a = b
    /\ \A a \in Admins :
          /\ admin[a].at # "idle" => IsPrefix(index.log, admin[a].new.log)
          /\ admin[a].at = "fill" => admin[a].file = "tmp" /\ tmp = Torn
          /\ admin[a].at = "replace" => admin[a].file = "tmp" /\ tmp = admin[a].new

(* What the builds have in hand.                                           *)
BuildsSound ==
    /\ cache # NoFile => Sound(cache)
    /\ \A b \in Builds :
          /\ build[b].index # NoFile => Sound(build[b].index)
          /\ build[b].at \in {"store", "resolve", "built"} => build[b].index # NoFile
          /\ build[b].at = "built" <=> build[b].picked \in Keys

(* One build at a time: what the cache has shown it still shows.           *)
Single ==
    /\ IF cache = NoFile THEN revoked = {} ELSE revoked \subseteq RevokedIn(cache)
    /\ \A b \in Builds :
          /\ build[b].at \in {"fetch", "store", "fall back"} => build[b].previous = cache
          /\ build[b].at = "store" => Acceptable(b, build[b].index)
          /\ build[b].at = "resolve" => build[b].index = cache
          /\ build[b].at = "built" => build[b].picked \notin revoked

AdminTypes ==
    /\ admin \in [Admins -> [at : {"idle", "open", "fill", "replace"}, new : Index \cup {NoFile},
                             file : {"none", "tmp", "index", "gone"}]]
    /\ serial \in BOOLEAN
BuildRecord == [at : {"idle", "fetch", "fall back", "store", "resolve", "built"},
                previous : Index \cup {NoFile}, index : Index \cup {NoFile},
                picked : Keys \cup {NoKey}]
BuildTypes ==
    /\ build \in [Builds -> BuildRecord]
    /\ revoked \subseteq Keys /\ builds \in 0 .. MaxBuilds

AdminInv == AdminTypes /\ FilesSound /\ AdminsSound /\ (serial => Serial)
BuildInv == BuildTypes /\ BuildsSound /\ (OneBuild => Single)

-----------------------------------------------------------------------------
(* Logs. *)

(* One log is a prefix of another when it agrees with it as far as it goes.*)
LEMMA PrefixByEntry ==
    ASSUME NEW S, NEW s \in Seq(S), NEW t \in Seq(S)
    PROVE  IsPrefix(s, t) <=> Len(s) <= Len(t) /\ \A n \in 1 .. Len(s) : s[n] = t[n]
<1>1. Len(s) \in Nat /\ Len(t) \in Nat /\ SubSeq(s, 1, Len(s)) = s
    BY LenProperties, SubSeqFull
<1>2. SUFFICES ASSUME Len(s) <= Len(t)
               PROVE  s = SubSeq(t, 1, Len(s)) <=> \A n \in 1 .. Len(s) : s[n] = t[n]
    BY <1>1 DEF IsPrefix
<1>3. \A i \in 1 .. Len(s) : t[i] \in S
    BY <1>1, <1>2, ElementOfSeq
<1>4. /\ SubSeq(t, 1, Len(s)) \in Seq(S) /\ Len(SubSeq(t, 1, Len(s))) = Len(s)
      /\ \A i \in 1 .. Len(s) : SubSeq(t, 1, Len(s))[i] = t[i]
    BY <1>1, <1>3, SubSeqProperties
<1>5. QED BY <1>1, <1>4, SeqEqual

(* A log is a prefix of itself.                                            *)
LEMMA PrefixReflexive ==
    ASSUME NEW S, NEW s \in Seq(S)
    PROVE  IsPrefix(s, s)
BY PrefixByEntry, LenProperties

(* A log is a prefix of itself with one more event.                        *)
LEMMA PrefixOfAppend ==
    ASSUME NEW S, NEW s \in Seq(S), NEW e \in S
    PROVE  IsPrefix(s, Append(s, e))
<1>1. /\ Len(s) \in Nat /\ Append(s, e) \in Seq(S) /\ Len(Append(s, e)) = Len(s) + 1
      /\ \A n \in 1 .. Len(s) : Append(s, e)[n] = s[n]
    BY LenProperties
<1> DEFINE t == Append(s, e)
<1> HIDE DEF t
<1>2. t \in Seq(S) /\ Len(s) <= Len(t) /\ \A n \in 1 .. Len(s) : s[n] = t[n]
    BY <1>1 DEF t
<1>3. IsPrefix(s, t)
    BY <1>2, PrefixByEntry
<1>4. QED BY <1>3 DEF t

(* Prefixes of prefixes are prefixes.                                      *)
LEMMA PrefixTransitive ==
    ASSUME NEW S, NEW s \in Seq(S), NEW t \in Seq(S), NEW u \in Seq(S),
           IsPrefix(s, t), IsPrefix(t, u)
    PROVE  IsPrefix(s, u)
<1>1. Len(s) \in Nat /\ Len(t) \in Nat /\ Len(u) \in Nat
    BY LenProperties
<1>2. /\ Len(s) <= Len(t) /\ \A n \in 1 .. Len(s) : s[n] = t[n]
      /\ Len(t) <= Len(u) /\ \A n \in 1 .. Len(t) : t[n] = u[n]
    BY PrefixByEntry
<1>3. Len(s) <= Len(u) /\ \A n \in 1 .. Len(s) : s[n] = u[n]
    BY <1>1, <1>2
<1>4. QED BY <1>3, PrefixByEntry

(* A longer log shows every revocation of a shorter one.                   *)
LEMMA RevocationsStay ==
    ASSUME NEW i \in Index, NEW j \in Index, IsPrefix(i.log, j.log)
    PROVE  RevokedIn(i) \subseteq RevokedIn(j)
<1>1. i.log \in Seq(Events) /\ j.log \in Seq(Events)
    BY DEF Index
<1>2. DOMAIN i.log = 1 .. Len(i.log) /\ DOMAIN j.log = 1 .. Len(j.log)
      /\ Len(i.log) \in Nat /\ Len(j.log) \in Nat
    BY <1>1, LenProperties
<1>3. Len(i.log) <= Len(j.log) /\ \A n \in 1 .. Len(i.log) : i.log[n] = j.log[n]
    BY <1>1, PrefixByEntry
<1>4. \A n \in Entries(i, "revoke-key") : n \in Entries(j, "revoke-key") /\ i.log[n] = j.log[n]
    BY <1>2, <1>3 DEF Entries
<1>5. QED BY <1>4 DEF RevokedIn

-----------------------------------------------------------------------------
(* What the commands of registry_admin.py make of an index.                *)

(* Signing a checkpoint over publishers, records and a log makes an index. *)
LEMMA SignedType ==
    ASSUME NEW p \in Publishers, NEW r \in [Versions -> Keys \cup {NoKey}],
           NEW l \in Seq(Events), NEW x
    PROVE  LET i == [publishers |-> p, records |-> r, log |-> l, checkpoint |-> x]
           IN  Checkpoint(i) \in Index /\ Checkpoint(i).log = l
<1> DEFINE i == [publishers |-> p, records |-> r, log |-> l, checkpoint |-> x]
<1>1. Checkpoint(i) = [publishers |-> p, records |-> r, log |-> l,
                       checkpoint |-> [log |-> l, publishers |-> p]]
    BY DEF Checkpoint
<1>2. QED BY <1>1 DEF Index

(* The events the commands log are events.                                 *)
LEMMA EventType ==
    /\ \A k \in Keys : Event("add-key", k, NoKey) \in Events
                       /\ Event("revoke-key", k, NoKey) \in Events
    /\ \A k \in Keys, v \in Versions : Event("publish", k, v) \in Events
BY DEF Event, Events

(* A command adds one entry to the log, or none; a publication is signed   *)
(* with a key that is active.                                              *)
LEMMA CommandsAre ==
    ASSUME NEW i \in Index, NEW j \in Commands(i)
    PROVE  /\ Checkpoint(j) \in Index
           /\ \/ Checkpoint(j).log = i.log
              \/ \E e \in Events :
                    /\ Checkpoint(j).log = Append(i.log, e)
                    /\ e.event = "publish" => i.publishers[e.key] = "active"
<1>0. PICK p \in Publishers, r \in [Versions -> Keys \cup {NoKey}], l \in Seq(Events) :
          \E x : i = [publishers |-> p, records |-> r, log |-> l, checkpoint |-> x]
    BY DEF Index
<1>1. PICK x : i = [publishers |-> p, records |-> r, log |-> l, checkpoint |-> x]
    BY <1>0
<1>2. CASE j = i
    BY <1>1, <1>2, SignedType
<1>3. ASSUME NEW k \in Keys, j \in AddPublisher(i, k) \cup Revoke(i, k)
      PROVE  \E e \in Events : /\ Checkpoint(j) \in Index /\ Checkpoint(j).log = Append(l, e)
                               /\ e.event # "publish"
    <2>1. PICK s \in {"active", "revoked"},
               e \in {Event("add-key", k, NoKey), Event("revoke-key", k, NoKey)} :
                j = Append1([i EXCEPT !.publishers[k] = s], e)
        BY <1>3 DEF AddPublisher, Revoke
    <2>2. e \in Events /\ e.event # "publish"
        BY DEF Event, Events
    <2>3. [i EXCEPT !.publishers[k] = s]
            = [publishers |-> [p EXCEPT ![k] = s], records |-> r, log |-> l, checkpoint |-> x]
        BY <1>1
    <2> DEFINE q == [p EXCEPT ![k] = s]
               new == Append(l, e)
    <2>4. j = [publishers |-> q, records |-> r, log |-> new, checkpoint |-> x]
        BY <2>1, <2>3 DEF Append1
    <2>5. q \in Publishers /\ new \in Seq(Events)
        BY <2>2 DEF Publishers
    <2> HIDE DEF q, new
    <2>6. Checkpoint(j) \in Index /\ Checkpoint(j).log = new
        BY <2>4, <2>5, SignedType
    <2>7. QED BY <2>2, <2>6 DEF new
<1>4. ASSUME NEW k \in Keys, NEW v \in Versions, j \in Publish(i, k, v)
      PROVE  \E e \in Events : /\ Checkpoint(j) \in Index /\ Checkpoint(j).log = Append(l, e)
                               /\ i.publishers[e.key] = "active"
    <2> DEFINE e == Event("publish", k, v)
    <2>1. j = Append1([i EXCEPT !.records[v] = k], e) /\ i.publishers[k] = "active"
        BY <1>4 DEF Publish
    <2>2. e \in Events /\ e.key = k
        BY EventType DEF Event
    <2> HIDE DEF e
    <2>3. [i EXCEPT !.records[v] = k]
            = [publishers |-> p, records |-> [r EXCEPT ![v] = k], log |-> l, checkpoint |-> x]
        BY <1>1
    <2> DEFINE signed == [r EXCEPT ![v] = k]
               new == Append(l, e)
    <2>4. j = [publishers |-> p, records |-> signed, log |-> new, checkpoint |-> x]
        BY <2>1, <2>3 DEF Append1
    <2>5. signed \in [Versions -> Keys \cup {NoKey}] /\ new \in Seq(Events)
        BY <2>2
    <2> HIDE DEF signed, new
    <2>6. Checkpoint(j) \in Index /\ Checkpoint(j).log = new
        BY <2>4, <2>5, SignedType
    <2>7. QED BY <2>1, <2>2, <2>6 DEF new
<1>5. i.log = l
    BY <1>1
<1>6. CASE \E k \in Keys : j \in AddPublisher(i, k) \cup Revoke(i, k)
    BY <1>3, <1>5, <1>6
<1>7. CASE \E k \in Keys, v \in Versions : j \in Publish(i, k, v)
    BY <1>4, <1>5, <1>7
<1>8. \/ j = i \/ \E k \in Keys : j \in AddPublisher(i, k) \cup Revoke(i, k)
      \/ \E k \in Keys, v \in Versions : j \in Publish(i, k, v)
    <2>1. CASE j \in UNION {AddPublisher(i, k) \cup Revoke(i, k) : k \in Keys}
        BY <2>1
    <2>2. CASE j \in UNION {Publish(i, k, v) : k \in Keys, v \in Versions}
        BY <2>2
    <2>3. QED BY <2>1, <2>2 DEF Commands
<1>9. QED BY <1>2, <1>6, <1>7, <1>8

-----------------------------------------------------------------------------
(* Sound indexes. *)

(* The index that `initialize` makes is sound.                             *)
LEMMA NewIndexSound == Sound(NewIndex)
<1> DEFINE p == [k \in Keys |-> "absent"]
           r == [v \in Versions |-> NoKey]
<1>1. NewIndex = [publishers |-> p, records |-> r, log |-> << >>,
                  checkpoint |-> [log |-> << >>, publishers |-> p]]
    BY DEF NewIndex, Checkpoint
<1>2. p \in Publishers /\ r \in [Versions -> Keys \cup {NoKey}] /\ << >> \in Seq(Events)
    BY DEF Publishers
<1>3. NewIndex \in Index
    BY <1>1, <1>2 DEF Index
<1>4. NewIndex.log = << >> /\ NewIndex.publishers = p /\ NewIndex.records = r
      /\ NewIndex.checkpoint = [log |-> << >>, publishers |-> p]
    BY <1>1
<1>5. DOMAIN NewIndex.log = {}
    BY <1>4
<1>6. \A event : Entries(NewIndex, event) = {}
    BY <1>5 DEF Entries
<1>7. KeysLogged(NewIndex) /\ RecordsLogged(NewIndex) /\ RevocationsLoggedOnce(NewIndex)
    BY <1>4, <1>6 DEF KeysLogged, RecordsLogged, RevocationsLoggedOnce, Once
<1>8. Verified(NewIndex)
    BY <1>4, <1>7 DEF Verified
<1>9. Ordered(NewIndex.log)
    BY <1>5 DEF Ordered
<1>10. QED BY <1>3, <1>8, <1>9 DEF Sound

(* A key whose revocation an index that verifies shows is revoked there.   *)
LEMMA RevokedKey ==
    ASSUME NEW i \in Index, Verified(i), NEW k \in RevokedIn(i)
    PROVE  k \in Keys /\ i.publishers[k] = "revoked"
BY DEF Verified, RevocationsLoggedOnce, RevokedIn

(* What an invocation is about to write is as sound as what it has read,   *)
(* and continues its log.                                                  *)
LEMMA CommandSound ==
    ASSUME NEW i, Sound(i), NEW j \in Commands(i), Verified(Checkpoint(j))
    PROVE  Sound(Checkpoint(j)) /\ IsPrefix(i.log, Checkpoint(j).log)
<1>1. i \in Index /\ Verified(i) /\ Ordered(i.log) /\ i.log \in Seq(Events)
    BY DEF Sound, Index
<1>2. CASE Checkpoint(j).log = i.log
    BY <1>1, <1>2, CommandsAre, PrefixReflexive DEF Sound
<1>3. ASSUME NEW e \in Events, Checkpoint(j).log = Append(i.log, e),
             e.event = "publish" => i.publishers[e.key] = "active"
      PROVE  Sound(Checkpoint(j)) /\ IsPrefix(i.log, Checkpoint(j).log)
    <2> DEFINE new == Append(i.log, e)
    <2>1. /\ DOMAIN i.log = 1 .. Len(i.log) /\ Len(i.log) \in Nat
          /\ new \in Seq(Events) /\ DOMAIN new = 1 .. Len(i.log) + 1
          /\ \A n \in 1 .. Len(i.log) : new[n] = i.log[n]
          /\ new[Len(i.log) + 1] = e
        BY <1>1, LenProperties
    <2> HIDE DEF new
    <2>2. ASSUME NEW m \in DOMAIN new, NEW n \in DOMAIN new,
                 new[m].event = "revoke-key", new[n].event = "publish", new[m].key = new[n].key
          PROVE  n < m
        <3>1. CASE m = Len(i.log) + 1
            <4>1. n # m
                BY <2>2
            <4>2. QED BY <2>1, <3>1, <4>1
        <3>2. CASE n = Len(i.log) + 1 /\ m \in 1 .. Len(i.log)
            <4>1. i.log[m].event = "revoke-key" /\ i.log[m].key = e.key
                BY <2>1, <2>2, <3>2
            <4>2. e.key \in RevokedIn(i)
                BY <2>1, <3>2, <4>1 DEF RevokedIn, Entries
            <4>3. i.publishers[e.key] = "revoked"
                BY <1>1, <4>2, RevokedKey
            <4>4. i.publishers[e.key] = "active"
                BY <1>3, <2>1, <2>2, <3>2
            <4>5. QED BY <4>3, <4>4
        <3>3. CASE m \in 1 .. Len(i.log) /\ n \in 1 .. Len(i.log)
            BY <1>1, <2>1, <2>2, <3>3 DEF Ordered
        <3>4. QED BY <2>1, <3>1, <3>2, <3>3
    <2>3. Ordered(new)
        BY <2>2 DEF Ordered
    <2>4. QED BY <1>1, <1>3, <2>3, CommandsAre, PrefixOfAppend DEF Sound, new
<1>4. QED BY <1>1, <1>2, <1>3, CommandsAre

-----------------------------------------------------------------------------
(* The invocations of registry_admin.py.                                   *)

(* A sound index is an index, and neither missing nor torn.                *)
LEMMA SoundIsIndex ==
    ASSUME NEW i, Sound(i)
    PROVE  i \in Index /\ i # NoFile /\ i # Torn
BY IndexAssumption DEF Sound

(* Loading, changing and verifying an index keeps the invariant.           *)
LEMMA BeginInv ==
    ASSUME AdminInv, NEW a \in Admins, Begin(a)
    PROVE  AdminInv'
<1>1. PICK j \in Commands(index) :
          /\ Verified(Checkpoint(j))
          /\ admin' = [admin EXCEPT ![a] =
                 [at |-> "open", new |-> Checkpoint(j), file |-> "none"]]
    BY DEF Begin
<1> DEFINE new == Checkpoint(j)
<1>2. /\ admin[a].at = "idle" /\ Sound(index)
      /\ serial => \A other \in Admins : admin[other].at = "idle"
      /\ UNCHANGED <<index, tmp, served, serial>>
    BY DEF Begin, AdminInv, FilesSound
<1>3. Sound(new) /\ IsPrefix(index.log, new.log)
    BY <1>1, <1>2, CommandSound
<1> HIDE DEF new
<1>4. new \in Index /\ new # NoFile
    BY <1>3, SoundIsIndex
<1>5. /\ admin'[a] = [at |-> "open", new |-> new, file |-> "none"]
      /\ \A b \in Admins : b # a => admin'[b] = admin[b]
    BY <1>1 DEF AdminInv, AdminTypes, new
<1>6. AdminTypes'
    BY <1>1, <1>2, <1>4 DEF AdminInv, AdminTypes, new
<1>7. FilesSound'
    BY <1>2 DEF AdminInv, FilesSound
<1>8. AdminsSound'
    BY <1>3, <1>4, <1>5 DEF AdminInv, AdminsSound
<1>9. serial' => Serial'
    BY <1>2, <1>3, <1>5 DEF AdminInv, Serial
<1>10. QED BY <1>6, <1>7, <1>8, <1>9 DEF AdminInv

(* The rest of an invocation, after it has made its new index.             *)
LEMMA OpenTmpInv ==
    ASSUME AdminInv, NEW a \in Admins, OpenTmp(a)
    PROVE  AdminInv'
<1>1. /\ admin[a].at = "open" /\ tmp' = Torn /\ UNCHANGED <<index, served, serial>>
      /\ admin' = [admin EXCEPT ![a].at = "fill", ![a].file = "tmp"]
    BY DEF OpenTmp
<1>2. /\ admin'[a].at = "fill" /\ admin'[a].file = "tmp" /\ admin'[a].new = admin[a].new
      /\ \A b \in Admins : b # a => admin'[b] = admin[b]
    BY <1>1 DEF AdminInv, AdminTypes
<1>3. AdminTypes'
    BY <1>1 DEF AdminInv, AdminTypes
<1>4. FilesSound' /\ AdminsSound'
    BY <1>1, <1>2 DEF AdminInv, FilesSound, AdminsSound
<1>5. ASSUME serial
      PROVE  Serial'
    <2>1. Serial /\ \A b \in Admins : b # a => admin[b].at = "idle"
        BY <1>1, <1>5 DEF AdminInv, Serial
    <2>2. \A b \in Admins : b # a => admin'[b].at = "idle"
        BY <1>2, <2>1
    <2>3. IsPrefix(index'.log, admin'[a].new.log)
        BY <1>1, <1>2, <2>1 DEF Serial
    <2>4. QED BY <1>1, <1>2, <2>1, <2>2, <2>3 DEF Serial
<1>6. QED BY <1>1, <1>3, <1>4, <1>5 DEF AdminInv

(* Writing the temporary file keeps it.                                    *)
LEMMA FillTmpInv ==
    ASSUME AdminInv, NEW a \in Admins, FillTmp(a)
    PROVE  AdminInv'
<1>1. /\ admin[a].at = "fill" /\ UNCHANGED serial
      /\ tmp' \in {tmp, admin[a].new, Torn}
      /\ index' \in {index, admin[a].new, Torn}
      /\ admin[a].file # "index" => index' = index
      /\ admin[a].file = "tmp" => tmp' \in Over(tmp, admin[a].new)
      /\ served' = served \cup {index'}
      /\ admin' = [admin EXCEPT ![a].at = "replace"]
    BY DEF FillTmp, Over
<1>2. /\ admin'[a].at = "replace" /\ admin'[a].file = admin[a].file
      /\ admin'[a].new = admin[a].new
      /\ \A b \in Admins : b # a => admin'[b] = admin[b]
    BY <1>1 DEF AdminInv, AdminTypes
<1>3. Sound(admin[a].new)
    BY <1>1 DEF AdminInv, AdminsSound
<1>4. AdminTypes'
    BY <1>1 DEF AdminInv, AdminTypes
<1>5. FilesSound'
    BY <1>1, <1>3 DEF AdminInv, FilesSound
<1>6. AdminsSound'
    BY <1>1, <1>2 DEF AdminInv, AdminsSound
<1>7. serial' => Serial'
    BY <1>1, <1>2 DEF AdminInv, Serial, Over
<1>8. QED BY <1>4, <1>5, <1>6, <1>7 DEF AdminInv

(* os.replace keeps it: what becomes the index is sound and longer.        *)
LEMMA ReplaceInv ==
    ASSUME AdminInv, NEW a \in Admins, Replace(a)
    PROVE  AdminInv'
<1>1. /\ admin[a].at = "replace" /\ UNCHANGED serial /\ tmp # NoFile
      /\ index' = tmp /\ tmp' = NoFile /\ served' = served \cup {tmp}
      /\ admin' = Renamed(a)
    BY DEF Replace
<1>2. /\ admin'[a] = Idle
      /\ \A b \in Admins \ {a} :
            /\ admin'[b].at = admin[b].at /\ admin'[b].new = admin[b].new
            /\ admin'[b] \in [at : {"idle", "open", "fill", "replace"},
                              new : Index \cup {NoFile},
                              file : {"none", "tmp", "index", "gone"}]
    BY <1>1 DEF Renamed, AdminInv, AdminTypes
<1>3. AdminTypes'
    BY <1>1, <1>2 DEF AdminInv, AdminTypes, Idle, Renamed
<1>4. FilesSound'
    BY <1>1, KeyAssumption DEF AdminInv, FilesSound
<1>5. AdminsSound'
    BY <1>2 DEF AdminInv, AdminsSound, Idle
<1>6. ASSUME serial
      PROVE  Serial'
    <2>1. tmp = admin[a].new /\ Sound(tmp)
        BY <1>1, <1>6 DEF AdminInv, Serial, AdminsSound
    <2>2. \A b \in Admins : admin'[b].at = "idle"
        BY <1>1, <1>2, <1>6 DEF AdminInv, Serial, Idle
    <2>3. QED BY <1>1, <2>1, <2>2, SoundIsIndex DEF Serial
<1>7. QED BY <1>1, <1>3, <1>4, <1>5, <1>6 DEF AdminInv

(* An invocation that fails to replace the index, or is killed, keeps it.  *)
LEMMA StopInv ==
    ASSUME AdminInv, NEW a \in Admins, ReplaceFails(a) \/ Killed(a)
    PROVE  AdminInv'
<1>1. UNCHANGED <<index, tmp, served, serial>> /\ admin' = [admin EXCEPT ![a] = Idle]
    BY DEF ReplaceFails, Killed
<1>2. admin'[a] = Idle /\ \A b \in Admins : b # a => admin'[b] = admin[b]
    BY <1>1 DEF AdminInv, AdminTypes
<1>3. AdminTypes'
    BY <1>1 DEF AdminInv, AdminTypes, Idle
<1>4. FilesSound' /\ AdminsSound'
    BY <1>1, <1>2 DEF AdminInv, FilesSound, AdminsSound, Idle
<1>5. serial' => Serial'
    BY <1>1, <1>2 DEF AdminInv, Serial, Idle
<1>6. QED BY <1>3, <1>4, <1>5 DEF AdminInv

(* Every file and every index in hand is one that an invocation made and   *)
(* checked, or is torn; one invocation at a time finds its own temporary.  *)
THEOREM AdminsKeepIndex == Spec => []AdminInv
<1>1. Init => AdminInv
    <2> SUFFICES ASSUME Init
                 PROVE  AdminInv
        OBVIOUS
    <2>1. AdminTypes
        BY DEF Init, AdminTypes, Idle
    <2>2. FilesSound /\ AdminsSound
        BY NewIndexSound DEF Init, FilesSound, AdminsSound, Idle
    <2>3. Serial
        BY NewIndexSound, SoundIsIndex DEF Init, Serial, Idle
    <2>4. QED BY <2>1, <2>2, <2>3 DEF AdminInv
<1>2. AdminInv /\ [Next]_vars => AdminInv'
    <2> SUFFICES ASSUME AdminInv, [Next]_vars
                 PROVE  AdminInv'
        OBVIOUS
    <2>1. ASSUME NEW a \in Admins, Admin(a)
          PROVE  AdminInv'
        BY <2>1, BeginInv, OpenTmpInv, FillTmpInv, ReplaceInv, StopInv DEF Admin
    <2>2. ASSUME UNCHANGED <<index, tmp, admin, served, serial>>
          PROVE  AdminInv'
        BY <2>2 DEF AdminInv, AdminTypes, FilesSound, AdminsSound, Serial
    <2>3. ASSUME NEW b \in Builds, Build(b)
          PROVE  UNCHANGED <<index, tmp, admin, served, serial>>
        BY <2>3 DEF Build, Start, Fetch, Refuse, Store, NoNetwork, FallBack, Resolve, Done
    <2>4. CASE UNCHANGED vars
        BY <2>2, <2>4 DEF vars
    <2>5. QED BY <2>1, <2>2, <2>3, <2>4 DEF Next
<1>3. QED BY <1>1, <1>2, PTL DEF Spec

(* The published index verifies at every moment, an invocation killed      *)
(* anywhere included, when invocations do not overlap.                     *)
THEOREM IndexAlwaysVerifies == Spec => []IndexVerifies
<1>1. AdminInv => IndexVerifies
    BY DEF AdminInv, Serial, FilesSound, Sound, IndexVerifies
<1>2. QED BY <1>1, AdminsKeepIndex, PTL

(* No index that anybody can read has a publication after the revocation   *)
(* of its key, overlapping invocations or not.                             *)
THEOREM RevokedNeverPublishes == Spec => []NoPublishAfterRevocation
<1>1. AdminInv => NoPublishAfterRevocation
    BY DEF AdminInv, FilesSound, Sound, Ordered, NoPublishAfterRevocation
<1>2. QED BY <1>1, AdminsKeepIndex, PTL

-----------------------------------------------------------------------------
(* The builds.                                                             *)

(* While builds run one at a time there is one build.                      *)
LEMMA OneOnly ==
    ASSUME OneBuild, NEW b \in Builds, NEW c \in Builds
    PROVE  b = c
<1>1. PICK x : Builds = {x}
    BY FS_Singleton, BuildsAssumption DEF OneBuild
<1>2. QED BY <1>1

(* A version a build may pick is published under a key that is not         *)
(* revoked.                                                                *)
LEMMA CandidateKeys ==
    ASSUME NEW i, Sound(i), NEW v \in Candidates(i)
    PROVE  i.records[v] \in Keys /\ i.records[v] \notin RevokedIn(i)
<1>1. i \in Index /\ Verified(i)
    BY DEF Sound
<1>2. i.records[v] \in Keys /\ i.publishers[i.records[v]] = "active"
    BY <1>1 DEF Candidates, Index
<1>3. QED BY <1>1, <1>2, RevokedKey

(* A build that moves on, or falls asleep, without touching the cache.     *)
LEMMA MoveOn ==
    ASSUME BuildInv, NEW b \in Builds, UNCHANGED <<cache, revoked>>,
           builds' \in 0 .. MaxBuilds,
           NEW r, build' = [build EXCEPT ![b] = r],
           r \in BuildRecord,
           r.index # NoFile => Sound(r.index),
           r.at \in {"store", "resolve", "built"} => r.index # NoFile,
           r.at = "built" <=> r.picked \in Keys,
           OneBuild => /\ r.at \in {"fetch", "store", "fall back"} => r.previous = cache
                       /\ r.at = "store" => /\ r.index # Torn /\ Verified(r.index)
                                            /\ cache # NoFile => AppendOnly(cache, r.index)
                       /\ r.at = "resolve" => r.index = cache
                       /\ r.at = "built" => r.picked \notin revoked
    PROVE  BuildInv'
<1>1. build'[b] = r /\ \A c \in Builds : c # b => build'[c] = build[c]
    BY DEF BuildInv, BuildTypes
<1>2. BuildTypes'
    BY DEF BuildInv, BuildTypes
<1>3. BuildsSound'
    <2>1. BuildsSound
        BY DEF BuildInv
    <2>2. cache' # NoFile => Sound(cache')
        BY <2>1 DEF BuildsSound
    <2>3. ASSUME NEW c \in Builds
          PROVE  /\ build'[c].index # NoFile => Sound(build'[c].index)
                 /\ build'[c].at \in {"store", "resolve", "built"} => build'[c].index # NoFile
                 /\ build'[c].at = "built" <=> build'[c].picked \in Keys
        BY <1>1, <2>1 DEF BuildsSound
    <2>4. QED BY <2>2, <2>3 DEF BuildsSound
<1>4. ASSUME OneBuild
      PROVE  Single'
    <2>1. \A c \in Builds : c = b
        BY <1>4, OneOnly
    <2>2. IF cache' = NoFile THEN revoked' = {} ELSE revoked' \subseteq RevokedIn(cache')
        BY <1>4 DEF BuildInv, Single
    <2>3. /\ r.at \in {"fetch", "store", "fall back"} => r.previous = cache'
          /\ r.at = "store" => /\ r.index # Torn /\ Verified(r.index)
                               /\ r.previous # NoFile => AppendOnly(r.previous, r.index)
          /\ r.at = "resolve" => r.index = cache'
          /\ r.at = "built" => r.picked \notin revoked'
        BY <1>4
    <2>4. ASSUME NEW c \in Builds
          PROVE  /\ build'[c].at \in {"fetch", "store", "fall back"} => build'[c].previous = cache'
                 /\ build'[c].at = "store" => Acceptable(c, build[c].index)'
                 /\ build'[c].at = "resolve" => build'[c].index = cache'
                 /\ build'[c].at = "built" => build'[c].picked \notin revoked'
        BY <1>1, <2>1, <2>3 DEF Acceptable
    <2>5. QED BY <2>2, <2>4 DEF Single
<1>5. QED BY <1>2, <1>3, <1>4 DEF BuildInv, OneBuild

(* A build that ends without touching the cache keeps the invariant.       *)
LEMMA AsleepMoves ==
    ASSUME BuildInv, NEW b \in Builds, UNCHANGED <<cache, revoked, builds>>,
           build' = [build EXCEPT ![b] = Asleep]
    PROVE  BuildInv'
<1>1. Asleep \in BuildRecord
      /\ Asleep.index = NoFile /\ Asleep.at = "idle" /\ Asleep.picked \notin Keys
      /\ builds' \in 0 .. MaxBuilds
    BY KeyAssumption DEF Asleep, BuildInv, BuildTypes, BuildRecord
<1>2. QED BY <1>1, MoveOn

(* The cache is replaced by an index that continues it. *)
LEMMA StoreInv ==
    ASSUME BuildInv, NEW b \in Builds, Store(b)
    PROVE  /\ BuildInv'
           /\ OneBuild /\ cache # NoFile => cache' # NoFile /\ IsPrefix(cache.log, cache'.log)
<1> DEFINE new == build[b].index
<1>1. /\ build[b].at = "store" /\ cache' = new /\ revoked' = revoked \cup RevokedIn(new)
      /\ build' = [build EXCEPT ![b].at = "resolve"] /\ UNCHANGED builds
    BY DEF Store
<1>2. /\ build'[b].at = "resolve" /\ build'[b].index = new /\ build'[b].picked = build[b].picked
      /\ \A c \in Builds : c # b => build'[c] = build[c]
    BY <1>1 DEF BuildInv, BuildTypes
<1>3. Sound(new) /\ new # NoFile /\ new \in Index
    BY <1>1, SoundIsIndex DEF BuildInv, BuildsSound
<1>4. RevokedIn(new) \subseteq Keys
    BY <1>3, RevokedKey DEF Sound
<1>5. BuildTypes'
    BY <1>1, <1>4 DEF BuildInv, BuildTypes, BuildRecord
<1>6. BuildsSound'
    BY <1>1, <1>2, <1>3 DEF BuildInv, BuildsSound
<1>7. ASSUME OneBuild
      PROVE  /\ Single'
             /\ cache # NoFile => IsPrefix(cache.log, new.log)
    <2>1. \A c \in Builds : c = b
        BY <1>7, OneOnly
    <2>2. Single /\ build[b].previous = cache /\ Acceptable(b, new)
        BY <1>1, <1>7 DEF BuildInv, Single
    <2>3. cache # NoFile => IsPrefix(cache.log, new.log)
        BY <2>2 DEF Acceptable, AppendOnly
    <2>4. revoked \subseteq RevokedIn(new)
        <3>1. CASE cache = NoFile
            BY <2>2, <3>1 DEF Single
        <3>2. CASE cache # NoFile
            <4>1. cache \in Index /\ revoked \subseteq RevokedIn(cache)
                BY <2>2, <3>2, SoundIsIndex DEF Single, BuildInv, BuildsSound
            <4>2. QED BY <1>3, <2>3, <3>2, <4>1, RevocationsStay
        <3>3. QED BY <3>1, <3>2
    <2>5. cache' # NoFile /\ revoked' \subseteq RevokedIn(cache')
        BY <1>1, <1>3, <2>4
    <2>6. QED BY <1>1, <1>2, <2>1, <2>3, <2>5 DEF Single
<1>8. QED BY <1>1, <1>3, <1>5, <1>6, <1>7 DEF BuildInv, OneBuild

(* A step of a build keeps the invariant, and a cache that is replaced is  *)
(* replaced by a longer log.                                               *)
LEMMA BuildStepInv ==
    ASSUME BuildInv, AdminInv, NEW b \in Builds, Build(b)
    PROVE  /\ BuildInv'
           /\ OneBuild /\ cache # NoFile => cache' # NoFile /\ IsPrefix(cache.log, cache'.log)
<1>1. /\ build[b] \in BuildRecord /\ builds \in 0 .. MaxBuilds
      /\ build \in [Builds -> BuildRecord]
      /\ cache # NoFile => Sound(cache)
      /\ build[b].index # NoFile => Sound(build[b].index)
      /\ build[b].at = "built" <=> build[b].picked \in Keys
      /\ OneBuild => Single
    BY DEF BuildInv, BuildTypes, BuildsSound
<1>2. cache \in Index \cup {NoFile}
    BY <1>1, SoundIsIndex
<1>3. CASE Store(b)
    BY <1>3, StoreInv
<1>4. ASSUME UNCHANGED cache, BuildInv'
      PROVE  /\ BuildInv'
             /\ OneBuild /\ cache # NoFile => cache' # NoFile /\ IsPrefix(cache.log, cache'.log)
    <2>1. CASE cache = NoFile
        BY <1>4, <2>1
    <2>2. CASE cache # NoFile
        <3>1. cache.log \in Seq(Events)
            BY <1>2, <2>2 DEF Index
        <3>2. QED BY <1>4, <3>1, PrefixReflexive
    <2>3. QED BY <2>1, <2>2
<1>5. CASE Start(b)
    <2>1. UNCHANGED <<cache, revoked>> /\ builds' \in 0 .. MaxBuilds
        <3>1. builds < MaxBuilds /\ builds' = builds + 1 /\ UNCHANGED <<cache, revoked>>
            BY <1>5 DEF Start
        <3>2. builds \in 0 .. MaxBuilds
            BY <1>1
        <3>3. QED BY <3>1, <3>2, BoundAssumption
    <2>2. PICK at \in {"fetch", "fall back"} :
             build' = [build EXCEPT ![b] = [Asleep EXCEPT !.at = at, !.previous = cache]]
        BY <1>5 DEF Start
    <2> DEFINE r == [Asleep EXCEPT !.at = at, !.previous = cache]
    <2>3. r \in BuildRecord /\ r.index = NoFile /\ r.picked \notin Keys /\ r.previous = cache
          /\ r.at \in {"fetch", "fall back"}
        <3>1. Asleep \in BuildRecord /\ Asleep.index = NoFile /\ Asleep.picked \notin Keys
            BY KeyAssumption DEF Asleep, BuildRecord
        <3>2. QED BY <1>2, <3>1 DEF BuildRecord
    <2> HIDE DEF r
    <2>4. build' = [build EXCEPT ![b] = r]
        BY <2>2 DEF r
    <2>5. BuildInv'
        BY <2>1, <2>3, <2>4, MoveOn
    <2>6. QED BY <1>4, <2>1, <2>5
<1>6. CASE \E i \in served : Fetch(b, i)
    <2>1. PICK i \in served : Fetch(b, i)
        BY <1>6
    <2>2. /\ build[b].at = "fetch" /\ Acceptable(b, i) /\ UNCHANGED <<cache, revoked, builds>>
          /\ build' = [build EXCEPT ![b].at = "store", ![b].index = i]
        BY <2>1 DEF Fetch
    <2>3. Sound(i) /\ i \in Index /\ i # NoFile
        BY <2>2, SoundIsIndex DEF AdminInv, FilesSound, Acceptable
    <2> DEFINE r == [build[b] EXCEPT !.at = "store", !.index = i]
    <2>4. build' = [build EXCEPT ![b] = r]
        BY <1>1, <2>2
    <2>5. r \in BuildRecord /\ r.index = i /\ r.picked = build[b].picked /\ r.at = "store"
          /\ r.previous = build[b].previous /\ r.picked \notin Keys
        BY <1>1, <2>2, <2>3 DEF BuildRecord
    <2>6. OneBuild => r.previous = cache
        BY <1>1, <2>2, <2>5 DEF Single
    <2>7. /\ i # Torn /\ Verified(i)
          /\ OneBuild /\ cache # NoFile => AppendOnly(cache, i)
        BY <1>1, <2>2 DEF Acceptable, Single
    <2> HIDE DEF r
    <2>8. BuildInv'
        <3>1. OneBuild => (cache # NoFile => AppendOnly(cache, r.index))
            BY <2>5, <2>7
        <3>2. UNCHANGED <<cache, revoked>> /\ builds' \in 0 .. MaxBuilds
            BY <1>1, <2>2
        <3>3. r.index # NoFile /\ Sound(r.index) /\ r.index # Torn /\ Verified(r.index)
            BY <2>3, <2>5, <2>7
        <3>4. QED BY <2>4, <2>5, <2>6, <3>1, <3>2, <3>3, MoveOn
    <2>9. QED BY <1>4, <2>2, <2>8
<1>7. CASE \E i \in served : Refuse(b, i)
    <2>1. UNCHANGED <<cache, revoked, builds>> /\ build' = [build EXCEPT ![b] = Asleep]
        BY <1>7 DEF Refuse
    <2>2. QED BY <1>4, <2>1, AsleepMoves
<1>8. CASE NoNetwork(b)
    <2>1. /\ build[b].at \in {"fetch", "store"} /\ UNCHANGED <<cache, revoked, builds>>
          /\ build' = [build EXCEPT ![b].at = "fall back"]
        BY <1>8 DEF NoNetwork
    <2> DEFINE r == [build[b] EXCEPT !.at = "fall back"]
    <2>2. build' = [build EXCEPT ![b] = r]
        BY <1>1, <2>1
    <2>3. r \in BuildRecord /\ r.index = build[b].index /\ r.picked = build[b].picked
          /\ r.at = "fall back" /\ r.previous = build[b].previous
        BY <1>1 DEF BuildRecord
    <2>4. r.picked \notin Keys /\ (OneBuild => r.previous = cache)
        BY <1>1, <2>1, <2>3 DEF Single
    <2> HIDE DEF r
    <2>5. BuildInv'
        <3>1. UNCHANGED <<cache, revoked>> /\ builds' \in 0 .. MaxBuilds
            BY <1>1, <2>1
        <3>2. r.index # NoFile => Sound(r.index)
            BY <1>1, <2>3
        <3>3. QED BY <2>2, <2>3, <2>4, <3>1, <3>2, MoveOn
    <2>6. QED BY <1>4, <2>1, <2>5
<1>9. CASE FallBack(b)
    <2>1. build[b].at = "fall back" /\ UNCHANGED <<cache, revoked, builds>>
        BY <1>9 DEF FallBack
    <2>2. CASE cache = NoFile
        <3>1. build' = [build EXCEPT ![b] = Asleep]
            BY <1>9, <2>2 DEF FallBack
        <3>2. QED BY <1>4, <2>1, <3>1, AsleepMoves
    <2>3. CASE cache # NoFile
        <3> DEFINE r == [build[b] EXCEPT !.at = "resolve", !.index = cache]
        <3>1. build' = [build EXCEPT ![b] = r]
            BY <1>1, <1>9, <2>3 DEF FallBack
        <3>2. r \in BuildRecord /\ r.index = cache /\ r.picked = build[b].picked /\ r.at = "resolve"
              /\ r.picked \notin Keys
            BY <1>1, <1>2, <2>1 DEF BuildRecord
        <3> HIDE DEF r
        <3>3. BuildInv'
            BY <1>1, <2>1, <2>3, <3>1, <3>2, MoveOn
        <3>4. QED BY <1>4, <2>1, <3>3
    <2>4. QED BY <2>2, <2>3
<1>10. CASE Resolve(b)
    <2>1. build[b].at = "resolve" /\ UNCHANGED <<cache, revoked, builds>>
        BY <1>10 DEF Resolve
    <2>2. CASE build' = [build EXCEPT ![b] = Asleep]
        BY <1>4, <2>1, <2>2, AsleepMoves
    <2>3. ASSUME NEW v \in Candidates(build[b].index),
                 build' = [build EXCEPT ![b].at = "built",
                                        ![b].picked = build[b].index.records[v]]
          PROVE  BuildInv'
        <3> DEFINE picked == build[b].index.records[v]
                   r == [build[b] EXCEPT !.at = "built", !.picked = picked]
        <3>1. build[b].index # NoFile
            BY <2>1 DEF BuildInv, BuildsSound
        <3>2. picked \in Keys /\ picked \notin RevokedIn(build[b].index)
            BY <1>1, <3>1, CandidateKeys
        <3>3. OneBuild => picked \notin revoked
            BY <1>1, <2>1, <3>1, <3>2 DEF Single
        <3> HIDE DEF picked
        <3>4. build' = [build EXCEPT ![b] = r]
            BY <1>1, <2>3 DEF picked
        <3>5. r \in BuildRecord /\ r.index = build[b].index /\ r.picked = picked /\ r.at = "built"
            BY <1>1, <3>2 DEF BuildRecord
        <3> HIDE DEF r
        <3>6. QED BY <1>1, <2>1, <3>1, <3>2, <3>3, <3>4, <3>5, MoveOn
    <2>4. QED BY <1>4, <1>10, <2>1, <2>2, <2>3 DEF Resolve
<1>11. CASE Done(b)
    <2>1. UNCHANGED <<cache, revoked, builds>> /\ build' = [build EXCEPT ![b] = Asleep]
        BY <1>11 DEF Done
    <2>2. QED BY <1>4, <2>1, AsleepMoves
<1>12. QED
    BY <1>3, <1>5, <1>6, <1>7, <1>8, <1>9, <1>10, <1>11 DEF Build

(* Whatever the network gives it, a build resolves against an index that   *)
(* verifies; one build at a time never forgets a revocation it has seen.   *)
THEOREM BuildsKeepCache == Spec => []BuildInv
<1>1. Init => BuildInv
    <2> SUFFICES ASSUME Init
                 PROVE  BuildInv
        OBVIOUS
    <2>1. Asleep \in BuildRecord /\ Asleep.index = NoFile /\ Asleep.at = "idle"
          /\ Asleep.picked \notin Keys
        BY KeyAssumption DEF Asleep, BuildRecord
    <2>2. cache = NoFile /\ revoked = {} /\ builds = 0 /\ build = [b \in Builds |-> Asleep]
        BY DEF Init
    <2>3. BuildTypes
        BY <2>1, <2>2, BoundAssumption DEF BuildTypes
    <2>4. BuildsSound /\ Single
        BY <2>1, <2>2 DEF BuildsSound, Single
    <2>5. QED BY <2>3, <2>4 DEF BuildInv
<1>2. BuildInv /\ AdminInv /\ [Next]_vars => BuildInv'
    <2> SUFFICES ASSUME BuildInv, AdminInv, [Next]_vars
                 PROVE  BuildInv'
        OBVIOUS
    <2>1. ASSUME NEW b \in Builds, Build(b)
          PROVE  BuildInv'
        BY <2>1, BuildStepInv
    <2>2. ASSUME UNCHANGED <<cache, build, builds, revoked>>
          PROVE  BuildInv'
        BY <2>2 DEF BuildInv, BuildTypes, BuildsSound, Single, OneBuild, Acceptable
    <2>3. ASSUME NEW a \in Admins, Admin(a)
          PROVE  UNCHANGED <<cache, build, builds, revoked>>
        BY <2>3 DEF Admin, Begin, OpenTmp, FillTmp, Replace, ReplaceFails, Killed
    <2>4. CASE UNCHANGED vars
        BY <2>2, <2>4 DEF vars
    <2>5. QED BY <2>1, <2>2, <2>3, <2>4 DEF Next
<1>3. QED BY <1>1, <1>2, AdminsKeepIndex, PTL DEF Spec

(* A key that the project has seen revoked signs nothing it builds with,   *)
(* even when an index from before the revocation is served again.          *)
THEOREM RevocationHolds == Spec => []RevocationSticks
<1>1. BuildInv => RevocationSticks
    BY DEF BuildInv, Single, RevocationSticks
<1>2. QED BY <1>1, BuildsKeepCache, PTL

(* The files hold indexes, a step that needs an index has one, and what a  *)
(* build picks was published.                                              *)
THEOREM TypeCorrect == Spec => []TypeOK
<1>1. AdminInv /\ BuildInv => TypeOK
    <2> SUFFICES ASSUME AdminInv, BuildInv
                 PROVE  TypeOK
        OBVIOUS
    <2>1. index # NoFile
        BY SoundIsIndex, KeyAssumption DEF AdminInv, FilesSound
    <2>2. cache # Torn
        BY SoundIsIndex, KeyAssumption DEF BuildInv, BuildsSound
    <2>3. \A a \in Admins : (admin[a].at = "idle") = (admin[a].new = NoFile)
        BY DEF AdminInv, AdminsSound
    <2>4. \A b \in Builds :
              /\ build[b].at \in {"store", "resolve", "built"} => build[b].index # NoFile
              /\ (build[b].at = "built") = (build[b].picked \in Keys)
        BY DEF BuildInv, BuildsSound
    <2>5. revoked \subseteq Keys /\ builds \in 0 .. MaxBuilds
        BY DEF BuildInv, BuildTypes
    <2>6. QED BY <2>1, <2>2, <2>3, <2>4, <2>5 DEF TypeOK
<1>2. QED BY <1>1, AdminsKeepIndex, BuildsKeepCache, PTL

(* The history a project has cached is continued, never rolled back or     *)
(* rewritten, by builds that do not overlap.                               *)
THEOREM CacheOnlyGrows == Spec => CacheGrows
<1> DEFINE Grows == OneBuild /\ cache # NoFile =>
                        cache' # NoFile /\ IsPrefix(cache.log, cache'.log)
<1>1. BuildInv /\ AdminInv /\ [Next]_vars => [Grows]_cache
    <2> SUFFICES ASSUME BuildInv, AdminInv, [Next]_vars
                 PROVE  [Grows]_cache
        OBVIOUS
    <2>1. ASSUME NEW b \in Builds, Build(b)
          PROVE  Grows
        BY <2>1, BuildStepInv
    <2>2. ASSUME NEW a \in Admins, Admin(a)
          PROVE  UNCHANGED cache
        BY <2>2 DEF Admin, Begin, OpenTmp, FillTmp, Replace, ReplaceFails, Killed
    <2> HIDE DEF Grows
    <2>3. QED BY <2>1, <2>2 DEF Next, vars
<1>2. QED BY <1>1, AdminsKeepIndex, BuildsKeepCache, PTL DEF Spec, CacheGrows

(* Under invocations that do not overlap the published log only grows,     *)
(* wherever one of them is killed.                                         *)
THEOREM SerialIndexGrows == Spec => SerialLogGrows
<1> DEFINE Grows == serial => index' # Torn /\ IsPrefix(index.log, index'.log)
<1>1. AdminInv /\ [Next]_vars => [Grows]_index
    <2> SUFFICES ASSUME AdminInv, [Next]_vars, serial, index' # index
                 PROVE  index' # Torn /\ IsPrefix(index.log, index'.log)
        OBVIOUS
    <2>1. ASSUME NEW b \in Builds, Build(b)
          PROVE  UNCHANGED index
        BY <2>1 DEF Build, Start, Fetch, Refuse, Store, NoNetwork, FallBack, Resolve, Done
    <2>2. PICK a \in Admins : Admin(a)
        BY <2>1 DEF Next, vars
    <2>3. CASE FillTmp(a)
        BY <2>3 DEF FillTmp, AdminInv, Serial
    <2>4. CASE Replace(a)
        <3>1. index' = admin[a].new /\ Sound(index') /\ IsPrefix(index.log, admin[a].new.log)
            BY <2>4, IndexAssumption, KeyAssumption
               DEF Replace, AdminInv, Serial, AdminsSound
        <3>2. QED BY <3>1, SoundIsIndex
    <2>5. QED BY <2>2, <2>3, <2>4 DEF Admin, Begin, OpenTmp, ReplaceFails, Killed
<1>2. QED BY <1>1, AdminsKeepIndex, PTL DEF Spec, SerialLogGrows
=============================================================================

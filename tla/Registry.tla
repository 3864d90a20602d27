------------------------------ MODULE Registry ------------------------------
(***************************************************************************)
(* The package registry: tools/registry_admin.py, which rewrites the index *)
(* file, and the builds that read it through a cached copy                 *)
(* (_load_registry_index of mort/project.py), both checking it with        *)
(* mort/registry_security.py.  A hash is the value it is taken of and a    *)
(* signature verifies; one package stands for all of them.                 *)
(***************************************************************************)
EXTENDS Integers, Sequences, SequencesExt, FiniteSets

CONSTANTS
    Admins,         \* invocations of registry_admin.py that may overlap
    Builds,         \* builds of one project that may overlap
    Keys,           \* publisher keys
    Versions,       \* versions of the package
    NoKey,          \* a version that is not published
    NoFile, Torn,   \* no such file; a file cut short
    MaxLog,         \* bound: entries of the transparency log
    MaxBuilds       \* bound: builds started

ASSUME BoundAssumption == MaxLog \in Nat /\ MaxBuilds \in Nat
ASSUME KeyAssumption == NoKey \notin Keys /\ NoFile # Torn
ASSUME BuildsAssumption == IsFiniteSet(Builds)

VARIABLES
    index,      \* index.json
    tmp,        \* .index.json.tmp, the one name every invocation writes to
    admin,      \* each invocation: its step, its new index, its open file
    served,     \* every index a build may be given: the present and past ones
    cache,      \* .mort/registry-index.json
    build,      \* each build: its step, what it read, what it resolved
    builds,     \* builds started
    revoked,    \* keys whose revocation the cache has ever shown
    serial      \* is registry_admin.py run one invocation at a time?

vars == <<index, tmp, admin, served, cache, build, builds, revoked, serial>>

----------------------------------------------------------------------------
(* The index.                                                              *)

Event(event, k, v) == [event |-> event, key |-> k, version |-> v]

Events == [event : {"add-key", "publish", "revoke-key"}, key : Keys,
           version : Versions \cup {NoKey}]
Publishers == [Keys -> {"absent", "active", "revoked"}]
Index == [publishers : Publishers, records : [Versions -> Keys \cup {NoKey}],
          log : Seq(Events), checkpoint : [log : Seq(Events), publishers : Publishers]]
ASSUME IndexAssumption == NoFile \notin Index /\ Torn \notin Index

(* _checkpoint: the operator signs the log and the publisher map.          *)
Checkpoint(i) == [i EXCEPT !.checkpoint = [log |-> i.log, publishers |-> i.publishers]]
Append1(i, event) == [i EXCEPT !.log = Append(i.log, event)]

NewIndex == Checkpoint([publishers |-> [k \in Keys |-> "absent"],
                        records |-> [v \in Versions |-> NoKey],
                        log |-> << >>, checkpoint |-> << >>])

Entries(i, event) == {n \in DOMAIN i.log : i.log[n].event = event}
Once(i, ns, field) ==
    \A m, n \in ns : i.log[m][field] = i.log[n][field] => m = n

(* verify_registry.                                                        *)
KeysLogged(i) ==
    /\ \A n \in Entries(i, "add-key") : i.publishers[i.log[n].key] # "absent"
    /\ Once(i, Entries(i, "add-key"), "key")
    /\ {i.log[n].key : n \in Entries(i, "add-key")}
         = {k \in Keys : i.publishers[k] # "absent"}
RecordsLogged(i) ==
    /\ \A n \in Entries(i, "publish") :
           /\ i.log[n].key = i.records[i.log[n].version]
           /\ \E m \in Entries(i, "add-key") : m < n /\ i.log[m].key = i.log[n].key
    /\ Once(i, Entries(i, "publish"), "version")
    /\ {i.log[n].version : n \in Entries(i, "publish")}
         = {v \in Versions : i.records[v] # NoKey}
RevocationsLoggedOnce(i) ==
    /\ Once(i, Entries(i, "revoke-key"), "key")
    /\ {i.log[n].key : n \in Entries(i, "revoke-key")}
         = {k \in Keys : i.publishers[k] = "revoked"}
Verified(i) ==
    /\ KeysLogged(i) /\ RecordsLogged(i) /\ RevocationsLoggedOnce(i)
    /\ i.checkpoint = [log |-> i.log, publishers |-> i.publishers]

(* verify_append_only.                                                     *)
(* Mutant: only what the two have in common is compared. *)
AppendOnlyShared(old, new) ==
    IsPrefix(old.log, new.log) \/ IsPrefix(new.log, old.log)
AppendOnly(old, new) == IsPrefix(old.log, new.log)

----------------------------------------------------------------------------
(* registry_admin.py: load, change, sign, verify, and replace the file.    *)

Idle == [at |-> "idle", new |-> NoFile, file |-> "none"]

(* The commands; what their checks refuse ends the invocation unchanged.   *)
AddPublisher(i, k) ==
    IF i.publishers[k] # "absent" THEN {}
    ELSE {Append1([i EXCEPT !.publishers[k] = "active"],
                  Event("add-key", k, NoKey))}
(* Mutant: a revoked key may publish. *)
PublishAnyKey(i, k, v) ==
    IF i.publishers[k] = "absent" \/ i.records[v] # NoKey THEN {}
    ELSE {Append1([i EXCEPT !.records[v] = k], Event("publish", k, v))}
Publish(i, k, v) ==
    IF i.publishers[k] # "active" \/ i.records[v] # NoKey THEN {}
    ELSE {Append1([i EXCEPT !.records[v] = k], Event("publish", k, v))}
(* Mutant: a revoked key goes, and everything logged of it. *)
RevokeForgets(i, k) ==
    IF i.publishers[k] # "active" THEN {}
    ELSE {[i EXCEPT !.publishers[k] = "absent",
                    !.records = [v \in Versions |-> IF @[v] = k THEN NoKey ELSE @[v]],
                    !.log = SelectSeq(@, LAMBDA e : e.key # k)]}
Revoke(i, k) ==
    IF i.publishers[k] # "active" THEN {}
    ELSE {Append1([i EXCEPT !.publishers[k] = "revoked"],
                  Event("revoke-key", k, NoKey))}
Commands(i) ==
    (UNION {AddPublisher(i, k) \cup Revoke(i, k) : k \in Keys})
        \cup (UNION {Publish(i, k, v) : k \in Keys, v \in Versions})
        \cup {i}        \* command_checkpoint signs what is there

(* _load and _operator_update up to _write: nothing shared is touched.  An *)
(* index that does not parse ends the invocation.                          *)
Begin(a) ==
    /\ admin[a].at = "idle" /\ index # Torn
    /\ serial => \A other \in Admins : admin[other].at = "idle"
    /\ \E new \in Commands(index) :
           /\ Len(new.log) <= MaxLog
           /\ Verified(Checkpoint(new))
           /\ admin' = [admin EXCEPT ![a] =
                  [at |-> "open", new |-> Checkpoint(new), file |-> "none"]]
    /\ UNCHANGED <<index, tmp, served, cache, build, builds, revoked, serial>>

(* Mutant: the file is opened in place. *)
OpenInPlace(a) ==
    /\ admin[a].at = "open"
    /\ index' = Torn
    /\ admin' = [admin EXCEPT ![a].at = "fill", ![a].file = "index"]
    /\ UNCHANGED <<tmp, served, cache, build, builds, revoked, serial>>
(* write_text: the temporary file is opened and cut to nothing, ...        *)
OpenTmp(a) ==
    /\ admin[a].at = "open"
    /\ tmp' = Torn
    /\ admin' = [admin EXCEPT ![a].at = "fill", ![a].file = "tmp"]
    /\ UNCHANGED <<index, served, cache, build, builds, revoked, serial>>

(* ... and written, under whatever name the open file has by now; a longer *)
(* text that another invocation wrote there keeps its end.                 *)
Over(old, new) == IF old = Torn THEN {new} ELSE {new, Torn}
FillTmp(a) ==
    /\ admin[a].at = "fill"
    /\ IF admin[a].file = "tmp" THEN tmp' \in Over(tmp, admin[a].new) ELSE tmp' = tmp
    /\ IF admin[a].file = "index"
       THEN index' \in Over(index, admin[a].new) ELSE index' = index
    /\ served' = served \cup {index'}
    /\ admin' = [admin EXCEPT ![a].at = "replace"]
    /\ UNCHANGED <<cache, build, builds, revoked, serial>>

(* Another invocation's open file is renamed, or unlinked, by os.replace.  *)
Renamed(a) ==
    [b \in Admins |->
        IF b = a THEN Idle
        ELSE [admin[b] EXCEPT !.file = CASE @ = "tmp" -> "index"
                                         [] @ = "index" -> "gone"
                                         [] OTHER -> @]]

Replace(a) ==
    /\ admin[a].at = "replace" /\ tmp # NoFile
    /\ index' = tmp /\ tmp' = NoFile
    /\ served' = served \cup {tmp}
    /\ admin' = Renamed(a)
    /\ UNCHANGED <<cache, build, builds, revoked, serial>>

(* The temporary file is not there any more; or the invocation is killed.  *)
ReplaceFails(a) ==
    /\ admin[a].at = "replace" /\ tmp = NoFile
    /\ admin' = [admin EXCEPT ![a] = Idle]
    /\ UNCHANGED <<index, tmp, served, cache, build, builds, revoked, serial>>
Killed(a) ==
    /\ admin[a].at # "idle"
    /\ admin' = [admin EXCEPT ![a] = Idle]
    /\ UNCHANGED <<index, tmp, served, cache, build, builds, revoked, serial>>

Admin(a) ==
    Begin(a) \/ OpenTmp(a) \/ FillTmp(a) \/ Replace(a) \/ ReplaceFails(a) \/ Killed(a)

----------------------------------------------------------------------------
(* _load_registry_index and the choice of a version in resolve_project.    *)

Asleep == [at |-> "idle", previous |-> NoFile, index |-> NoFile, picked |-> NoKey]

(* The cached index is read first.  The build then goes to the registry, or*)
(* straight to the cache when it is offline and the registry is remote.    *)
Start(b) ==
    /\ build[b].at = "idle" /\ builds < MaxBuilds
    /\ builds' = builds + 1
    /\ \E at \in {"fetch", "fall back"} :
           build' = [build EXCEPT ![b] = [Asleep EXCEPT !.at = at, !.previous = cache]]
    /\ UNCHANGED <<index, tmp, admin, served, cache, revoked, serial>>

(* A download, perhaps of an index that is no longer the present one.      *)
Acceptable(b, i) ==
    /\ i # Torn /\ Verified(i)
    /\ build[b].previous # NoFile => AppendOnly(build[b].previous, i)
Fetch(b, i) ==
    /\ build[b].at = "fetch" /\ Acceptable(b, i)
    /\ build' = [build EXCEPT ![b].at = "store", ![b].index = i]
    /\ UNCHANGED <<index, tmp, admin, served, cache, builds, revoked, serial>>
Refuse(b, i) ==
    /\ build[b].at = "fetch" /\ ~Acceptable(b, i)
    /\ build' = [build EXCEPT ![b] = Asleep]
    /\ UNCHANGED <<index, tmp, admin, served, cache, builds, revoked, serial>>

RevokedIn(i) == {i.log[n].key : n \in Entries(i, "revoke-key")}

(* _atomic_write: a temporary of its own, then os.replace.                 *)
Store(b) ==
    /\ build[b].at = "store"
    /\ cache' = build[b].index
    /\ revoked' = revoked \cup RevokedIn(build[b].index)
    /\ build' = [build EXCEPT ![b].at = "resolve"]
    /\ UNCHANGED <<index, tmp, admin, served, builds, serial>>

(* No network, or a cache that cannot be written: the cache is read again. *)
NoNetwork(b) ==
    /\ build[b].at \in {"fetch", "store"}
    /\ build' = [build EXCEPT ![b].at = "fall back"]
    /\ UNCHANGED <<index, tmp, admin, served, cache, builds, revoked, serial>>
FallBack(b) ==
    /\ build[b].at = "fall back"
    /\ build' = [build EXCEPT ![b] =
           IF cache = NoFile THEN Asleep
           ELSE [@ EXCEPT !.at = "resolve", !.index = cache]]
    /\ UNCHANGED <<index, tmp, admin, served, cache, builds, revoked, serial>>

(* A version signed by a key that is active in the index read.             *)
(* Mutant: any version not signed by a revoked key, published or not. *)
CandidatesUnpublished(i) ==
    {v \in Versions : i.records[v] = NoKey \/ i.publishers[i.records[v]] = "active"}
(* Mutant: the key's status is not looked at. *)
CandidatesAnyStatus(i) == {v \in Versions : i.records[v] # NoKey}
Candidates(i) ==
    {v \in Versions : i.records[v] # NoKey /\ i.publishers[i.records[v]] = "active"}
Resolve(b) ==
    /\ build[b].at = "resolve"
    /\ \/ \E v \in Candidates(build[b].index) :
              build' = [build EXCEPT ![b].at = "built",
                                     ![b].picked = build[b].index.records[v]]
       \/ /\ Candidates(build[b].index) = {}
          /\ build' = [build EXCEPT ![b] = Asleep]
    /\ UNCHANGED <<index, tmp, admin, served, cache, builds, revoked, serial>>

Done(b) ==
    /\ build[b].at = "built"
    /\ build' = [build EXCEPT ![b] = Asleep]
    /\ UNCHANGED <<index, tmp, admin, served, cache, builds, revoked, serial>>

Build(b) ==
    \/ Start(b)
    \/ \E i \in served : Fetch(b, i) \/ Refuse(b, i)
    \/ Store(b) \/ NoNetwork(b) \/ FallBack(b) \/ Resolve(b) \/ Done(b)

Init ==
    /\ index = NewIndex /\ tmp = NoFile /\ served = {NewIndex}
    /\ admin = [a \in Admins |-> Idle]
    /\ cache = NoFile /\ build = [b \in Builds |-> Asleep]
    /\ builds = 0 /\ revoked = {} /\ serial \in BOOLEAN

Next == (\E a \in Admins : Admin(a)) \/ (\E b \in Builds : Build(b))

Spec == Init /\ [][Next]_vars

----------------------------------------------------------------------------
(* What the registry promises.                                             *)

(* The files hold indexes, a step that needs an index has one, and what a  *)
(* build picks was published (resolve_project).                            *)
TypeOK ==
    /\ index # NoFile /\ cache # Torn
    /\ \A a \in Admins : (admin[a].at = "idle") = (admin[a].new = NoFile)
    /\ \A b \in Builds :
           /\ build[b].at \in {"store", "resolve", "built"} => build[b].index # NoFile
           /\ (build[b].at = "built") = (build[b].picked \in Keys)
    /\ revoked \subseteq Keys /\ builds \in 0 .. MaxBuilds

(* index.json verifies at every moment, an invocation killed anywhere      *)
(* included: _write replaces the file, it never edits it.  Invocations     *)
(* that overlap write through one temporary file, and may tear it.         *)
IndexVerifies == serial => index # Torn /\ Verified(index)

(* The log in index.json only ever grows ("a hash-chained, append-only     *)
(* log", registry/README.md), between two states in which it parses.       *)
LogAppendOnly ==
    [][index # Torn /\ index' # Torn => IsPrefix(index.log, index'.log)]_index

(* It does so when invocations do not overlap, wherever one is killed.     *)
SerialLogGrows ==
    [][serial => index' # Torn /\ IsPrefix(index.log, index'.log)]_index

(* Nothing is published with a key after that key's revocation: only       *)
(* command_publish sees to it, verify_registry accepts such a log.         *)
NoPublishAfterRevocation ==
    index # Torn =>
        \A m, n \in DOMAIN index.log :
            /\ index.log[m].event = "revoke-key" /\ index.log[n].event = "publish"
            /\ index.log[m].key = index.log[n].key
            => n < m

(* The history a project has cached is never rolled back or rewritten      *)
(* (_load_registry_index), whatever index the network gives it, by builds  *)
(* that do not overlap.                                                    *)
OneBuild == Cardinality(Builds) = 1
CacheGrows ==
    [][OneBuild /\ cache # NoFile =>
           cache' # NoFile /\ IsPrefix(cache.log, cache'.log)]_cache

(* No such build uses a release of a key whose revocation this project has *)
(* seen, even when an index from before the revocation is served again, or *)
(* one that a lost update has taken the revocation out of.                 *)
RevocationSticks ==
    OneBuild => \A b \in Builds : build[b].at = "built" => build[b].picked \notin revoked
=============================================================================

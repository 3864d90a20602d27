--------------------------- MODULE GitDependency ----------------------------
(***************************************************************************)
(* A Git or registry dependency of a project: mortc add, resolve_project's *)
(* use of it, _prepare_git_dependency, which clones or refreshes the       *)
(* checkout under .mort/deps that all commands share, and write_lockfile,  *)
(* as mort/project.py runs them, one Git command or one reading of the     *)
(* checkout at a time.  The files of a commit are the commit, but for the  *)
(* version its manifest declares and whether it has Git dependencies of    *)
(* its own.  Meanwhile the remote gains commits and tags, the user edits   *)
(* mort.toml and the checkout, commands overlap and are killed.            *)
(***************************************************************************)
EXTENDS Naturals, FiniteSets, Functions, Semver

CONSTANTS
    Procs,          \* commands that resolve the project
    MaxCommit,      \* bound: commits of the remote, 1 is there first
    Declared,       \* Declared[c]: package.version in the manifest of c
    Nested,         \* commits with Git dependencies whose .mort is not ignored
    Specs,          \* what mort.toml may say: its origin, its kind and the
                    \* tag, the commit or the clauses of a range it asks for
    None,           \* no checkout, no entry, no commit, no tag, other files
    MaxCommands,    \* bound: commands started
    MaxChanges,     \* bound: changes of the remote, of mort.toml, of files
    MaxFaults       \* bound: commands killed, remotes away

Commits == 1 .. MaxCommit
Versions == Range(Declared)

ASSUME CommitsAssumption ==
    MaxCommit \in Nat \ {0} /\ Declared \in [Commits -> SemverVersions] /\ Nested \subseteq Commits
ASSUME SpecsAssumption ==
    \A s \in Specs : /\ s.kind \in {"branch", "tag", "range", "registry"}
                     /\ s.kind = "registry" => s.commit \in Nat \ {0}
(* .mort/deps/<alias>, where there is one.                                 *)
Checkouts ==
    [url : {s.url : s \in Specs}, branch : Commits, tagged : [Versions -> Commits \cup {None}],
     head : Commits, tree : Commits \cup {None}, extra : SUBSET {"edit", "nested"}]
ASSUME NoneAssumption == None \notin Checkouts \cup Commits
ASSUME BoundsAssumption == MaxCommands \in Nat /\ MaxChanges \in Nat /\ MaxFaults \in Nat

VARIABLES
    branch,     \* the remote's branch: its last commit
    tagged,     \* the remote's version tags: a commit or None
    manifest,   \* the dependency in mort.toml
    clone,      \* .mort/deps/<alias>: its origin, refs, HEAD, files, other files
    lock,       \* its entry in mort.lock
    at, run,    \* where each command is and what it knows
    commands, changes, faults,
    edited,     \* has somebody changed a file of the checkout by hand?
    overlapped  \* have two commands run at once?

remote == <<branch, tagged>>
counts == <<commands, changes, faults, edited, overlapped>>
vars == <<remote, manifest, clone, lock, at, run, counts>>

Commands == {"fetch", "offline", "locked"}
Ended == {"over", "refused"}      \* refused: the checkout has local changes
Steps == {"list", "prepare", "clone", "origin", "status", "fetch", "resolve", "checkout",
          "verify", "nested", "load", "digest", "content", "revision", "write"}
Fresh == [spec |-> None, cmd |-> "fetch", created |-> FALSE, chosen |-> None,
          asked |-> None, commit |-> None, entry |-> None]
Entry == [manifest : Commits, content : Commits \cup {None}, revision : Commits]

TypeOK ==
    /\ branch \in Commits /\ tagged \in [Versions -> Commits \cup {None}]
    /\ manifest \in Specs \cup {None} /\ lock \in Entry \cup {None}
    /\ clone \in Checkouts \cup {None}
    /\ at \in [Procs -> Ended \cup Steps]
    /\ commands \in 0 .. MaxCommands /\ changes \in 0 .. MaxChanges /\ faults \in 0 .. MaxFaults

Init ==
    /\ branch = 1 /\ tagged = [v \in Versions |-> IF v = Declared[1] THEN 1 ELSE None]
    /\ manifest \in Specs \cup {None}
    /\ clone = None /\ lock = None
    /\ at = [p \in Procs |-> "over"] /\ run = [p \in Procs |-> Fresh]
    /\ commands = 0 /\ changes = 0 /\ faults = 0
    /\ edited = FALSE /\ overlapped = FALSE

Go(p, step) == at' = [at EXCEPT ![p] = step]
End(p, how) == Go(p, how) /\ run' = [run EXCEPT ![p] = Fresh]
Know(p, field, value) == run' = [run EXCEPT ![p][field] = value]
Offline(p) == run[p].cmd = "offline"
Kind(p) == run[p].spec.kind

\* _resolve_cached_git_commit among tags and the commits up to head
Lookup(p, tags, head) ==
    LET commit == run[p].spec.commit
        tag == IF Kind(p) = "range" THEN run[p].chosen ELSE run[p].spec.tag
    IN CASE Kind(p) = "branch" -> head
         [] Kind(p) = "registry" -> IF commit <= head THEN commit ELSE None
         [] OTHER -> IF tag \in Versions THEN tags[tag] ELSE None

-----------------------------------------------------------------------------
(* A command starts and resolve_project reaches the dependency.            *)

Begin(p, c, spec) ==
    /\ at[p] \in Ended /\ commands < MaxCommands
    /\ commands' = commands + 1
    /\ run' = [run EXCEPT ![p] = [Fresh EXCEPT !.spec = spec, !.cmd = c]]
    /\ Go(p, IF spec.kind = "range" THEN "list" ELSE "prepare")
    /\ overlapped' = (overlapped \/ \E q \in Procs \ {p} : at[q] \notin Ended)
    /\ UNCHANGED <<remote, clone, lock, changes, faults, edited>>
Start(p, c) == manifest # None /\ Begin(p, c, manifest) /\ UNCHANGED manifest
\* add_git_dependency, add_registry_dependency: first mort.toml, then fetch
Add(p, spec) == manifest = None /\ Begin(p, "fetch", spec) /\ manifest' = spec

(* A range: the highest of the tags that satisfy it, of those git ls-remote *)
(* gives, or git tag offline.                                              *)
ListTags(p) ==
    /\ at[p] = "list"
    /\ LET tags == CASE ~Offline(p) -> tagged
                     [] Offline(p) /\ clone # None -> clone.tagged
                     [] OTHER -> [v \in Versions |-> None]
           there == {v \in Versions : tags[v] # None}
       IN IF Matches(there, run[p].spec.clauses) = {}
          THEN End(p, "over")
          ELSE Know(p, "chosen", Select(there, run[p].spec.clauses)) /\ Go(p, "prepare")
    /\ UNCHANGED <<remote, manifest, clone, lock, counts>>

-----------------------------------------------------------------------------
(* _prepare_git_dependency.                                                *)

Prepare(p) ==
    /\ at[p] = "prepare"
    /\ CASE clone # None -> Go(p, "origin") /\ UNCHANGED run
         [] clone = None /\ Offline(p) -> End(p, "over")
         [] OTHER -> Know(p, "created", TRUE) /\ Go(p, "clone")
    /\ UNCHANGED <<remote, manifest, clone, lock, counts>>

(* git clone --no-checkout: HEAD is the branch and there are no files.  It *)
(* fails when another command has made a checkout.                         *)
Clone(p) ==
    /\ at[p] = "clone"
    /\ \/ clone = None /\ Go(p, "origin") /\ UNCHANGED run
          /\ clone' = [url |-> run[p].spec.url, branch |-> branch, tagged |-> tagged,
                       head |-> branch, tree |-> None, extra |-> {}]
       \/ clone # None /\ End(p, "over") /\ UNCHANGED clone
    /\ UNCHANGED <<remote, manifest, lock, counts>>

Origin(p) ==
    /\ at[p] = "origin"
    /\ IF clone.url # run[p].spec.url
       THEN End(p, "over")
       ELSE /\ UNCHANGED run
            /\ Go(p, CASE ~run[p].created -> "status"
                       [] run[p].created -> "fetch")
    /\ UNCHANGED <<remote, manifest, clone, lock, counts>>

(* git status --porcelain of a checkout that was there before.             *)
Status(p) ==
    /\ at[p] = "status"
    /\ IF clone.tree # clone.head \/ clone.extra # {}
       THEN End(p, "refused")
       ELSE Go(p, IF Offline(p) THEN "resolve" ELSE "fetch") /\ UNCHANGED run
    /\ UNCHANGED <<remote, manifest, clone, lock, counts>>

(* Mutant: a checkout that has the revision is not refreshed. *)
FetchMissing(p) ==
    /\ at[p] = "fetch"
    /\ run' = [run EXCEPT ![p].asked = Lookup(p, tagged, branch)] /\ Go(p, "resolve")
    /\ clone' = IF Lookup(p, clone.tagged, clone.branch) # None THEN clone
                ELSE [clone EXCEPT !.branch = branch, !.tagged = tagged]
    /\ UNCHANGED <<remote, manifest, lock, counts>>
(* git fetch --prune --tags moves the branch and adds tags; a tag that has *)
(* moved is refused and fails the command.                                 *)
Fetch(p) ==
    /\ at[p] = "fetch"
    /\ LET moved == {v \in Versions : clone.tagged[v] \notin {None, tagged[v]}}
       IN /\ clone' = [clone EXCEPT !.branch = branch,
                         !.tagged = [v \in Versions |->
                                         IF @[v] = None THEN tagged[v] ELSE @[v]]]
          /\ IF moved # {}
             THEN End(p, "over")
             ELSE Know(p, "asked", Lookup(p, tagged, branch)) /\ Go(p, "resolve")
    /\ UNCHANGED <<remote, manifest, lock, counts>>

(* Mutant: no candidate is found, and no error raised. *)
ResolveAnyway(p) ==
    /\ at[p] = "resolve"
    /\ Know(p, "commit", Lookup(p, clone.tagged, clone.branch)) /\ Go(p, "checkout")
    /\ UNCHANGED <<remote, manifest, clone, lock, counts>>
Resolve(p) ==
    /\ at[p] = "resolve"
    /\ LET commit == Lookup(p, clone.tagged, clone.branch)
       IN IF commit = None
          THEN End(p, "over")
          ELSE Know(p, "commit", commit) /\ Go(p, "checkout")
    /\ UNCHANGED <<remote, manifest, clone, lock, counts>>

(* git checkout --detach; other Git commands of the checkout may lock it.  *)
Checkout(p) ==
    /\ at[p] = "checkout"
    /\ \/ clone' = [clone EXCEPT !.head = run[p].commit, !.tree = run[p].commit]
          /\ Go(p, IF Kind(p) = "registry" THEN "verify" ELSE "nested") /\ UNCHANGED run
       \/ overlapped /\ End(p, "over") /\ UNCHANGED clone
    /\ UNCHANGED <<remote, manifest, lock, counts>>

-----------------------------------------------------------------------------
(* What is done with the files of the checkout.                            *)

Content == IF "edit" \in clone.extra THEN None ELSE clone.tree
Reads(p, here, ok, next) ==
    /\ at[p] = here
    /\ IF ok THEN Go(p, next) /\ UNCHANGED run ELSE End(p, "over")
    /\ UNCHANGED <<remote, manifest, clone, lock, counts>>

\* _package_content_digest against the registry's record
Verify(p) == Reads(p, "verify", Content = run[p].spec.commit, "nested")

(* resolve_project of the dependency: its own Git dependencies are checked *)
(* out in the .mort of its checkout.                                       *)
ResolveNested(p) ==
    /\ at[p] = "nested" /\ clone.tree # None
    /\ clone' = IF clone.tree \in Nested
                THEN [clone EXCEPT !.extra = @ \cup {"nested"}] ELSE clone
    /\ Go(p, "load")
    /\ UNCHANGED <<remote, manifest, lock, run, counts>>

\* a version that was selected is the one the manifest declares
LoadManifest(p) ==
    Reads(p, "load",
          /\ clone.tree # None
          /\ Kind(p) = "range" => /\ Satisfies(Declared[clone.tree], run[p].spec.clauses)
                                  /\ Declared[clone.tree] = run[p].chosen,
          "digest")

(* write_lockfile: the manifest, the contents and HEAD, one after another, *)
(* and then mort.lock is replaced, or compared with.                       *)
ReadEntry(p) ==
    /\ \/ at[p] = "digest" /\ Go(p, "content")
          /\ Know(p, "entry", [manifest |-> clone.tree, content |-> None, revision |-> None])
       \/ at[p] = "content" /\ Go(p, "revision")
          /\ run' = [run EXCEPT ![p].entry.content = Content]
       \/ at[p] = "revision" /\ Go(p, "write")
          /\ run' = [run EXCEPT ![p].entry.revision = clone.head]
    /\ UNCHANGED <<remote, manifest, clone, lock, counts>>
WriteLock(p) ==
    /\ at[p] = "write"
    /\ IF run[p].cmd = "locked"
       THEN UNCHANGED lock
       ELSE lock' = run[p].entry
    /\ End(p, "over")
    /\ UNCHANGED <<remote, manifest, clone, counts>>

-----------------------------------------------------------------------------
(* What happens meanwhile.                                                 *)

Change == changes < MaxChanges /\ changes' = changes + 1
          /\ UNCHANGED <<lock, at, run, commands, faults, overlapped>>
Push ==
    /\ branch < MaxCommit /\ branch' = branch + 1
    /\ Change /\ UNCHANGED <<tagged, manifest, clone, edited>>
PushTag(v) ==
    /\ tagged[v] # branch /\ tagged' = [tagged EXCEPT ![v] = branch]
    /\ Change /\ UNCHANGED <<branch, manifest, clone, edited>>
EditManifest(s) ==
    /\ s # manifest /\ manifest' = s
    /\ Change /\ UNCHANGED <<remote, clone, edited>>
EditCheckout ==
    /\ clone # None /\ clone.tree # None
    /\ clone' = [clone EXCEPT !.extra = @ \cup {"edit"}] /\ edited' = TRUE
    /\ Change /\ UNCHANGED <<remote, manifest>>

(* A command is killed, or its Git fails.  A checkout that is killed has   *)
(* replaced files and not moved HEAD.                                      *)
Kill(p) ==
    /\ at[p] \notin Ended /\ faults < MaxFaults
    /\ End(p, "over") /\ faults' = faults + 1
    /\ clone' \in {clone} \cup
                  (IF at[p] = "checkout" THEN {[clone EXCEPT !.tree = run[p].commit]} ELSE {})
    /\ UNCHANGED <<remote, manifest, lock, commands, changes, edited, overlapped>>

Step(p) ==
    \/ ListTags(p) \/ Prepare(p) \/ Clone(p) \/ Origin(p) \/ Status(p) \/ Fetch(p)
    \/ Resolve(p) \/ Checkout(p) \/ Verify(p) \/ ResolveNested(p) \/ LoadManifest(p)
    \/ ReadEntry(p) \/ WriteLock(p)

Next ==
    \/ \E p \in Procs : \/ Step(p) \/ Kill(p)
                        \/ \E c \in Commands : Start(p, c)
                        \/ \E s \in Specs : Add(p, s)
    \/ Push \/ (\E v \in Versions : PushTag(v))
    \/ (\E s \in Specs : EditManifest(s)) \/ EditCheckout

Spec == Init /\ [][Next]_vars

-----------------------------------------------------------------------------
(* What a command is about to write to mort.lock, or to find there, is one *)
(* commit: its manifest, its contents and its revision, the one that       *)
(* mort.toml asked for, as the remote named it when it was fetched, and of *)
(* the version that was selected; whatever commands failed or were killed  *)
(* before.  Unless commands have overlapped or files were edited.          *)
LockedAsAsked ==
    \A p \in Procs : at[p] = "write" /\ ~overlapped /\ ~edited =>
        LET e == run[p].entry IN
        /\ e.manifest = e.revision /\ e.content = e.revision
        /\ ~Offline(p) => e.revision = run[p].asked
        /\ Kind(p) = "range" => Declared[e.revision] = run[p].chosen
        /\ Kind(p) = "registry" => e.revision = run[p].spec.commit

(* A checkout has local changes only when somebody made some: mortc itself *)
(* leaves it clean.                                                        *)
DirtyMeansEdited == (\E p \in Procs : at[p] = "refused") => edited
=============================================================================

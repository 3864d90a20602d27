------------------------------- MODULE Build --------------------------------
(***************************************************************************)
(* The project commands of mortc.py that compile: build, run, profile and  *)
(* bench share an output file and a build cache, test compiles each test   *)
(* file to a directory of its own.  _project_build takes a fingerprint of  *)
(* the sources file by file, compiles them when the cache has not the same *)
(* one, reading them again import by import, and records the fingerprint   *)
(* after the C compiler has replaced the output.  An editor saves files in *)
(* between, commands overlap, and a command may be killed.                 *)
(***************************************************************************)
EXTENDS Naturals, Sequences, FiniteSets, Functions

CONSTANTS
    Procs,          \* commands that may be running at once
    Files,          \* the .mx files a program may be made of
    Walked,         \* those that _project_fingerprint finds, in sorted order
    Roots,          \* the source patterns of mort.toml, in order, a file each
    Tests,          \* the test files, in order
    Texts,          \* what a file may say
    Bad,            \* a text that does not parse
    NoFile,         \* no such file
    Torn,           \* a file opened for writing and not written yet
    Modes,          \* what mort.toml may ask for: opt_level, debug, sanitizers
    Refused,        \* a mode that resolve_project refuses
    FirstMode,      \* what it asks for at first
    Imports,        \* Imports[f][t]: the files that f imports when it says t
    Saved,          \* the files an editor saves
    MaxEdits,       \* bound: saves
    MaxCommands,    \* bound: commands started
    MaxKills        \* bound: commands killed

ASSUME FilesAssumption ==
    /\ Walked \in Seq(Files) /\ Roots \in Seq(Files) /\ Tests \in Seq(Files)
    /\ Range(Roots) \subseteq Range(Walked)
    /\ Bad \in Texts /\ FirstMode \in Modes \ {Refused} /\ NoFile \notin Texts /\ Saved \subseteq Files
ASSUME BoundsAssumption == MaxEdits \in Nat /\ MaxCommands \in Nat /\ MaxKills \in Nat
ASSUME ImportsAssumption ==
    \A f \in Files, t \in Texts : Imports[f][t] \in Seq(Files)

(* What a build cache may hold, and no other file is mistaken for.         *)
Fingerprints == [mode : Modes, manifest : Modes \cup {NoFile},
                 texts : [Range(Walked) -> Texts \cup {NoFile}]]
ASSUME MarksAssumption == NoFile \notin Fingerprints /\ Torn \notin Fingerprints

Nothing == <<>>         \* no file has been read
Unread == [manifest |-> NoFile, texts |-> Nothing]

VARIABLES
    manifest,   \* mort.toml
    disk,       \* the source files
    output,     \* project["output"]: NoFile or the mode and texts it is made of
    cache,      \* .mort/build-cache.json: NoFile, Torn or a fingerprint
    cmd, at,    \* what each process runs and where it is
    mode, roots,    \* the mode and the sources each process has resolved
    fp,         \* the texts it has fingerprinted
    todo,       \* the files it has still to fingerprint, or to load
    read,       \* the texts it has loaded
    tests,      \* the test files it has still to run
    edits, commands, kills,
    disturbed   \* has something happened that the cache cannot see?

files == <<manifest, disk, output, cache>>
project == <<cmd, mode, roots>>
local == <<project, fp, todo, read, tests>>
counts == <<edits, commands, kills, disturbed>>
vars == <<files, at, local, counts>>

\* run and bench are build, and then execute the output
Caching == {"build", "profile"}
Testing == {"test", "coverage"}
Ended == {"idle", "failed", "killed"}
Fingerprint(p) == [mode |-> mode[p], manifest |-> fp[p].manifest, texts |-> fp[p].texts]
\* p has its fingerprint and is not over
Building(p) == cmd[p] \in Caching /\ at[p] \in {"arguments", "load", "backend", "truncate",
                                                      "record", "serve"}

TypeOK ==
    /\ manifest \in Modes /\ disk \in [Files -> Texts \cup {NoFile}]
    /\ at \in [Procs -> Ended \cup {"walk", "fingerprint", "cache", "arguments", "load",
                                    "backend", "truncate", "record", "serve", "counts", "test"}]
    /\ mode \in [Procs -> Modes \cup {NoFile}]
    /\ \A p \in Procs : /\ {todo[p], roots[p], tests[p]} \subseteq Seq(Files)
                        /\ Range(read[p]) \subseteq Texts \ {Bad}
    /\ edits \in 0 .. MaxEdits /\ commands \in 0 .. MaxCommands /\ kills \in 0 .. MaxKills

(* The files that are loaded from some files when the disk says texts.     *)
Loads(start, texts) ==
    LET Closed(S) == \A f \in S : Range(Imports[f][texts[f]]) \subseteq S
    IN CHOOSE S \in SUBSET Files :
          /\ Range(start) \subseteq S /\ Closed(S)
          /\ \A T \in SUBSET S : Range(start) \subseteq T /\ Closed(T) => T = S

(* Nothing has been built, or the sources were built and those that the    *)
(* fingerprint covers changed since.                                       *)
Init ==
    /\ manifest = FirstMode
    /\ \E t \in Texts \ {Bad} : disk = [f \in Files |-> t]
    /\ \/ output = NoFile /\ cache = NoFile
       \/ \E t \in Texts \ {Bad} :
             LET built == [f \in Files |-> IF f \in Range(Walked) THEN t ELSE disk[f]]
             IN /\ output = [mode |-> manifest, texts |-> Restrict(built, Loads(Roots, built))]
                /\ cache = [mode |-> manifest, manifest |-> manifest,
                            texts |-> Restrict(built, Range(Walked))]
    /\ cmd = [p \in Procs |-> "build"] /\ at = [p \in Procs |-> "idle"]
    /\ mode = [p \in Procs |-> NoFile] /\ roots = [p \in Procs |-> <<>>]
    /\ fp = [p \in Procs |-> Unread]
    /\ todo = [p \in Procs |-> <<>>] /\ tests = [p \in Procs |-> <<>>]
    /\ read = [p \in Procs |-> Nothing]
    /\ edits = 0 /\ commands = 0 /\ kills = 0 /\ disturbed = FALSE

Go(p, step) == at' = [at EXCEPT ![p] = step]
LoadFrom(p, list) ==
    todo' = [todo EXCEPT ![p] = list] /\ read' = [read EXCEPT ![p] = Nothing]
End(p, how) ==
    /\ Go(p, how) /\ LoadFrom(p, <<>>)
    /\ cmd' = [cmd EXCEPT ![p] = "build"] /\ mode' = [mode EXCEPT ![p] = NoFile]
    /\ roots' = [roots EXCEPT ![p] = <<>>]
    /\ fp' = [fp EXCEPT ![p] = Unread] /\ tests' = [tests EXCEPT ![p] = <<>>]

(* The members of a list that are in some set, in the order of the list.   *)
Kept(list, set) ==
    LET kept[n \in 0 .. Len(list)] ==
            IF n = 0 THEN <<>>
            ELSE IF list[n] \in set THEN Append(kept[n - 1], list[n]) ELSE kept[n - 1]
    IN kept[Len(list)]
Present == {f \in Files : disk[f] # NoFile}
There(list) == Kept(list, Present)

-----------------------------------------------------------------------------
(* A command starts: resolve_project reads the manifest and looks for the  *)
(* sources, and for test the test files.                                   *)

Start(p, c) ==
    /\ at[p] \in Ended /\ commands < MaxCommands
    /\ commands' = commands + 1
    /\ LET found == IF c \in Testing THEN There(Tests) ELSE <<>>
       IN IF manifest = Refused \/ There(Roots) = <<>> \/ (c \in Testing /\ found = <<>>)
          THEN Go(p, "failed") /\ UNCHANGED <<project, tests>>
          ELSE /\ cmd' = [cmd EXCEPT ![p] = c] /\ mode' = [mode EXCEPT ![p] = manifest]
               /\ roots' = [roots EXCEPT ![p] = There(Roots)]
               /\ tests' = [tests EXCEPT ![p] = found]
               /\ Go(p, IF c \in Testing THEN "test" ELSE "walk")
    /\ UNCHANGED <<files, fp, todo, read, edits, kills, disturbed>>

(* _project_fingerprint lists the sources and the other files that are     *)
(* there, and then reads one at a time, the manifest with the first.       *)
Walk(p) ==
    /\ at[p] = "walk"
    /\ LET list == Kept(Walked, Range(roots[p]) \cup Present)
       IN /\ todo' = [todo EXCEPT ![p] = list]
          /\ fp' = [fp EXCEPT ![p].texts = [f \in Range(Walked) \ Range(list) |-> NoFile]]
    /\ Go(p, "fingerprint")
    /\ UNCHANGED <<files, project, read, tests, counts>>
ReadForFingerprint(p) ==
    /\ at[p] = "fingerprint"
    /\ LET f == Head(todo[p])
       IN /\ fp' = [fp EXCEPT ![p] =
                [manifest |-> IF @.manifest = NoFile THEN manifest ELSE @.manifest,
                 texts |-> [g \in DOMAIN @.texts \cup {f} |->
                                IF g = f THEN disk[f] ELSE @.texts[g]]]]
          /\ todo' = [todo EXCEPT ![p] = Tail(@)]
          /\ Go(p, IF Tail(todo[p]) = <<>> THEN "cache" ELSE "fingerprint")
    /\ UNCHANGED <<files, project, read, tests, counts>>

(* The cache is read: a hit, or the compiler.  profile always compiles.    *)
LookUp(p) ==
    /\ at[p] = "cache"
    /\ IF cmd[p] # "profile" /\ cache = Fingerprint(p) /\ output # NoFile
       THEN Go(p, "serve") /\ UNCHANGED <<todo, read>>
       ELSE Go(p, "arguments") /\ LoadFrom(p, roots[p])
    /\ disturbed' = (disturbed \/ \E q \in Procs \ {p} :
                        Building(q) /\ Fingerprint(q) # Fingerprint(p))
    /\ UNCHANGED <<files, project, fp, tests, edits, commands, kills>>

-----------------------------------------------------------------------------
(* _compile_main first looks whether the files it is given are there.      *)
Arguments(p) ==
    /\ at[p] = "arguments"
    /\ IF NoFile \in {disk[f] : f \in Range(todo[p])}
       THEN End(p, "failed")
       ELSE Go(p, "load") /\ UNCHANGED local
    /\ UNCHANGED <<files, counts>>

(* compile_files_to_c: load reads a file once and then what it imports.    *)

(* Mutant: a file that is imported again is read and followed again. *)
LoadAgain(p) ==
    /\ at[p] = "load" /\ todo[p] # <<>>
    /\ LET f == Head(todo[p])
           t == disk[f]
       IN IF t \in {NoFile, Bad}
          THEN End(p, "failed")
          ELSE /\ read' = [read EXCEPT ![p] =
                            [g \in DOMAIN @ \cup {f} |-> IF g = f THEN t ELSE @[g]]]
               /\ todo' = [todo EXCEPT ![p] = Imports[f][t] \o Tail(@)]
               /\ UNCHANGED <<at, project, fp, tests>>
    /\ UNCHANGED <<files, counts>>
(* Mutant: a file that does not parse is loaded, without imports. *)
LoadUnparsed(p) ==
    /\ at[p] = "load" /\ todo[p] # <<>>
    /\ LET f == Head(todo[p])
       IN /\ read' = [read EXCEPT ![p] =
                        [g \in DOMAIN @ \cup {f} |-> IF g = f THEN disk[f] ELSE @[g]]]
          /\ todo' = [todo EXCEPT ![p] = Tail(@)]
    /\ UNCHANGED <<files, at, project, fp, tests, counts>>
Load(p) ==
    /\ at[p] = "load" /\ todo[p] # <<>>
    /\ LET f == Head(todo[p])
           t == disk[f]
       IN IF f \notin DOMAIN read[p] /\ t \in {NoFile, Bad}
          THEN End(p, "failed")
          ELSE /\ IF f \in DOMAIN read[p]
                  THEN todo' = [todo EXCEPT ![p] = Tail(@)] /\ UNCHANGED read
                  ELSE /\ read' = [read EXCEPT ![p] =
                            [g \in DOMAIN @ \cup {f} |-> IF g = f THEN t ELSE @[g]]]
                       /\ todo' = [todo EXCEPT ![p] = Imports[f][t] \o Tail(@)]
               /\ UNCHANGED <<at, project, fp, tests>>
    /\ UNCHANGED <<files, counts>>

(* The aliases of imports are resolved, the program checked, C generated.  *)
Translate(p) ==
    /\ at[p] = "load" /\ todo[p] = <<>>
    /\ \/ Go(p, "backend") /\ UNCHANGED local
       \/ End(p, "failed")
    /\ UNCHANGED <<files, counts>>

Program(p) == [mode |-> mode[p], texts |-> read[p]]

(* Mutant: the result of the compiler is not looked at. *)
CompileUnchecked(p) ==
    /\ at[p] = "backend" /\ cmd[p] \in Caching
    /\ output' \in {output, Program(p)} /\ Go(p, "truncate") /\ LoadFrom(p, <<>>)
    /\ UNCHANGED <<manifest, disk, cache, project, fp, tests, counts>>
(* The C compiler replaces the output; or it is not found, or fails, and   *)
(* leaves the output or nothing.                                           *)
Compile(p) ==
    /\ at[p] = "backend" /\ cmd[p] \in Caching
    /\ \/ /\ output' = Program(p) /\ Go(p, "truncate") /\ LoadFrom(p, <<>>)
          /\ UNCHANGED <<project, fp, tests>>
       \/ output' \in {output, NoFile} /\ End(p, "failed")
    /\ UNCHANGED <<manifest, disk, cache, counts>>

(* A test program is compiled elsewhere and run; the first that fails ends *)
(* the command.                                                            *)
CompileTest(p) ==
    /\ at[p] = "backend" /\ cmd[p] \in Testing
    /\ \/ /\ Go(p, IF cmd[p] = "test" THEN "test" ELSE "counts")
          /\ LoadFrom(p, <<>>) /\ UNCHANGED <<project, fp, tests>>
       \/ End(p, "failed")
    /\ UNCHANGED <<files, counts>>
Test(p) ==
    /\ at[p] = "test"
    /\ IF tests[p] = <<>>
       THEN End(p, "idle")
       ELSE /\ Go(p, "arguments") /\ LoadFrom(p, Append(roots[p], Head(tests[p])))
            /\ tests' = [tests EXCEPT ![p] = Tail(@)]
            /\ UNCHANGED <<project, fp>>
    /\ UNCHANGED <<files, counts>>

(* coverage reads the counts that a test program leaves behind, and ends   *)
(* when it cannot.                                                         *)
ReadCoverage(p) ==
    /\ at[p] = "counts"
    /\ \/ Go(p, "test") /\ UNCHANGED local
       \/ End(p, "failed")
    /\ UNCHANGED <<files, counts>>

(* The cache file is opened for writing, which empties it, and written.    *)
WriteCache(p) ==
    /\ \/ at[p] = "truncate" /\ cache' = Torn /\ Go(p, "record")
       \/ at[p] = "record" /\ cache' = Fingerprint(p) /\ Go(p, "serve")
    /\ UNCHANGED <<manifest, disk, output, local, counts>>

(* build reports the output, run executes it, bench does so many times.    *)
Serve(p) ==
    /\ at[p] = "serve"
    /\ End(p, "idle")
    /\ UNCHANGED <<files, counts>>

-----------------------------------------------------------------------------
(* What the user and the system do meanwhile.  The cache cannot see a save *)
(* of a file between its fingerprint and its load, or of a file that is    *)
(* not fingerprinted.                                                      *)

Edit(f, t) ==
    /\ edits < MaxEdits /\ t # disk[f]
    /\ disk' = [disk EXCEPT ![f] = t] /\ edits' = edits + 1
    /\ disturbed' = (disturbed \/ f \notin Range(Walked)
                        \/ \E p \in Procs : /\ cmd[p] \in Caching
                                            /\ at[p] \in {"fingerprint", "cache", "arguments", "load"}
                                            /\ f \in DOMAIN fp[p].texts \ DOMAIN read[p])
    /\ UNCHANGED <<manifest, output, cache, at, local, commands, kills>>
Configure(m) ==
    /\ edits < MaxEdits /\ m # manifest
    /\ manifest' = m /\ edits' = edits + 1
    /\ UNCHANGED <<disk, output, cache, at, local, commands, kills, disturbed>>
Clean ==
    /\ edits < MaxEdits /\ output # NoFile
    /\ output' = NoFile /\ edits' = edits + 1
    /\ UNCHANGED <<manifest, disk, cache, at, local, commands, kills, disturbed>>

(* Killed between the new output and the emptied cache, a command leaves   *)
(* the fingerprint of another program.                                     *)
Kill(p) ==
    /\ at[p] \notin Ended /\ kills < MaxKills
    /\ End(p, "killed") /\ kills' = kills + 1
    /\ disturbed' = (disturbed \/ at[p] = "truncate")
    /\ UNCHANGED <<files, edits, commands>>

Step(p) ==
    \/ Walk(p) \/ ReadForFingerprint(p) \/ LookUp(p) \/ Arguments(p) \/ Load(p)
    \/ Translate(p) \/ Compile(p) \/ CompileTest(p) \/ Test(p) \/ ReadCoverage(p)
    \/ WriteCache(p) \/ Serve(p)

Next ==
    \/ \E p \in Procs : Step(p) \/ Kill(p) \/ \E c \in Caching \cup Testing : Start(p, c)
    \/ \E f \in Saved, t \in Texts \cup {NoFile} : Edit(f, t)
    \/ \E m \in Modes : Configure(m)
    \/ Clean

(* The operating system runs a command that is not killed.                 *)
Spec == Init /\ [][Next]_vars /\ \A p \in Procs : WF_vars(Step(p))

-----------------------------------------------------------------------------
(* A program that is about to be run or reported, built now or found in    *)
(* the cache, is the program of the sources and the build mode as the      *)
(* command fingerprinted them, whatever was saved, built, failed, killed   *)
(* or cleaned before; unless what the cache cannot see has happened.       *)
ServedAsFingerprinted ==
    \A p \in Procs : at[p] = "serve" /\ ~disturbed /\ output # NoFile =>
        /\ output.mode = mode[p]
        /\ \A f \in DOMAIN output.texts :
               output.texts[f] = IF f \in DOMAIN fp[p].texts THEN fp[p].texts[f] ELSE disk[f]

(* Every command ends: files that import each other are loaded once.       *)
CommandsEnd == \A p \in Procs : []<>(at[p] \in Ended)
=============================================================================

# Mort: a verification project

Mort is a small systems language with a compiler written in Python
(`src/mort`, `src/mortc.py`), a standard library written in Mort (`src/std`),
a package registry (`src/tools/registry_admin.py`,
`src/mort/registry_security.py`, `src/mort/project.py`) and MortOS, a kernel
with a file system, a shell and a small desktop (`src/kernel`). This directory
holds TLA+ models of the parts whose behaviour is a matter of many steps or
several actors, the TLC configurations that check them on small instances, and
TLAPS proofs of the safety of all of them but the parser, for every value of the
constants. `PROJECT.json` maps every definition to the source lines it models, lists the runs with their properties, and for
every property a *mutant*: a plausible bug in the code under which TLC finds
the property violated. The mutants stand in the modules in front of the
definition they would replace, marked `Mutant:`; no specification uses them.

Run a check with `tlc -config X.cfg M.tla`, the proofs of a
component with `tlapm MProofs.tla`.

## 1. Inventory

Two independent programs live in the repository: the tool chain (a sequential
Python process that several users may run at once over shared files) and the
kernel (one processor, interrupt handlers that are never preempted, a disk
that fails on its own account).

| component | state it keeps | operations | interacts with | what is hard | what makes it correct |
|---|---|---|---|---|---|
| **MortFS** `kernel/kmain.mx` 1030-1250 | superblock and 64 table entries in TABCACHE, one sector in SECBUF, the disk | `fs_init`, `fs_sync`, `fs_find`, `fs_free_slot`, `fs_create`, `fs_read_file`, `fs_append_line`, `fs_remove` | ATA driver below, shell above, `mkfs.py` for the initial disk | power cuts between any two of the nine sectors of a sync; refused writes after the cache has changed; ends of extents, table and disk | extents stay apart on the disk and in memory; acknowledged lines survive; saved bytes never change; the store behaves like a map from names to lines |
| **ATA driver** 900-1030 | `g_disk_ok`, the poll counter, the caller's buffer; the drive's registers | `ata_init`, `ata_read`, `ata_write`, the two waits | the drive, at its own pace | a drive that is late, absent, busy for ever or faults after the data | true means done; every call returns |
| **Shell and scripts** 780-880, 1370-1520 | FILEBUF, `g_buf`, `g_run_depth`, the program region | `run_command` and its commands, `run_range_lines`, `run_file`, `exec_file` | MortFS; called from the keyboard handler and at boot | one buffer shared by script, `cat` and `exec`; scripts that write, remove or run themselves | a script executes the text it had; the prompt comes back |
| **Desktop and keyboard** 600-780, 1270-1360, 1600-1850 | line, cursor, history ring, active app, Files' selection, Shift and 0xE0 state | `on_key` and the apps' key handlers, `read_line`, program output | shell, file table | key sequences across apps, commands and running programs that poll the keyboard themselves | cursor and line agree; history recalls what was entered; the selection exists |
| **Ownership** `mort/typechecker.py`, `mort/codegen.py` | checker: scopes, moved bindings, loop depth; generator: `defer_scopes` | statements over resource bindings; cleanup at every way out of a scope | the two passes agree through names and scopes; the emitted C is what runs | merges of branches, jumps out of nested scopes, hoisted `try`, defers | a resource is destroyed exactly once, and read only before |
| **Registry** `tools/registry_admin.py`, `mort/project.py`, `mort/registry_security.py` | `index.json`, its temporary file, the project's cached index | add, publish, revoke, checkpoint; load, verify, compare, cache, choose | files shared by processes; a network that may deliver an old index | overlapping or killed invocations, stale downloads | the log only grows and verifies; a revocation stays in force |
| Rest of the type checker | types of a syntax tree | checks, inference, generics, constants | parser, generator | breadth | soundness of types |
| Rest of the C generator | emitted text | expressions, layouts, runtime | C compiler | integer widths, evaluation order | C computes what the language says |
| **Lexer, parser, syntax tree** `mort/lexer.py`, `mort/parser.py`, `mort/mort_ast.py`, `mort/tokens.py` | position in the text, position in the tokens, the ban of struct literals | `tokenize`, `parse` and one method per production | the checker takes the tree; every command loads files through them | guesses with unbounded lookahead, longest match, eleven levels of precedence | what the documented grammar writes is parsed to the tree it was written from |
| Diagnostics `mort/errors.py` | - | rendering of messages | all of the compiler | - | wording |
| **Projects, versions, Git dependencies** `mort/project.py`, `mortc.py` | `mort.toml`, `mort.lock`, a checkout per dependency under `.mort/deps` | order and choose versions; clone, refresh, check out, verify, digest, lock | Git and its remote, the registry, other commands on the same checkout | a remote that moves, commands that overlap or are killed between Git commands, a checkout that is not clean | the lock names one commit, the one the manifest asked for |
| **Build commands** `mortc.py` | the output and `.mort/build-cache.json` | `build`, `run`, `profile`, `bench`, `test`, `coverage` | parser, generator, C compiler; editors and other commands on the same files | files saved between fingerprint and load, kills between output and record, modules that import each other | what is run is the program of the fingerprinted sources; every command ends |
| **TLS backend cache** `mort/tls_backend.py` | archive, its digest and a lock file in a cache directory | find it valid, build it once, wait for the builder | every build of a TLS program; the linker reads the archive without the lock | a builder that dies under its lock, archives moved before their digest is written | one builder; a returned archive is whole and stays so |
| Language server, formatter, fuzzer | open documents | requests one after the other | parser and checker | little | formatting keeps the program |
| Containers of `src/std` (vec, map, option, result, algorithm, sort, bytes, owned_string) | buffers with length and capacity | insert, remove, grow, rehash, iterate | the ownership rules, through raw slots | resources in slots the checker does not see | the abstract sequence or map |
| Concurrency of `src/std` (task, thread, mutex, atomic) | task groups with a flag and handles | spawn, cancel, join, destroy | threads of the runtime | cancel between a test and its use | every task joined once |
| Network of `src/std` (net, http, https, tls, websocket, json, strings) | stream buffers | read and write messages and frames | peers that send pieces | partial reads, lengths at boundaries | every message framed as sent |
| Small wrappers of `src/std` | none | one C call each | C library | nothing | the call |
| Kernel boot, interrupts, graphics, image builder | descriptor tables, pixels | assembly, drawing | the modelled parts | assumed: handlers run with interrupts off | - |
| Tests, conformance suite, examples, documents, release tooling, vendored data | - | - | - | - | read as the statement of what the code should do |

The hazards these parts are exposed to are in `PROJECT.json`, each at the line
where it bites, with the properties that would catch it going wrong, or a note
why none does.

## 2. Modules

| module | models | composed with |
|---|---|---|
| `LineStore` | what MortFS promises (abstract specification) | implemented by `MortFS` |
| `MortFS` | the file system and the commands `write`, `rm`, boot and power cuts over it | instantiates `LineStore` |
| `AtaDriver` | the driver against a drive | its results are what `MortFS` assumes of a sector read or write |
| `Shell` | the commands and scripts over whole-file reads | uses the contents MortFS stores, as a function from names |
| `Desktop` | keyboard, line editor, apps, programs' input and output | a command is an arbitrary change of the file table |
| `Ownership` | checker and generator, statement by statement, then the emitted C | - |
| `Registry` | administrations and builds as processes over shared files | - |
| `TlsBackend` | builds over one archive, stamp and lock | - |
| `Build` | the commands that compile, over one output and cache record | takes from `Parser` only whether a text parses and what it imports |
| `Semver` | version order, ranges and choice, as operators | used by `GitDependency` |
| `GitDependency` | a dependency from `mort.toml` to `mort.lock` over a shared checkout | a command of `Build` runs it first |
| `MortAst`, `Lexer`, `Parser` | syntax trees, `tokenize` and `parse` as operators | each extends the one before |
| `Grammar` | the EBNF of `docs/language-specification.md` as a printer of trees | extends `Lexer` and `Parser` |
| `StorageProofs`, `ShellProofs`, `DesktopProofs`, `OwnershipProofs`, `RegistryProofs`, `TlsBackendProofs`, `BuildProofs`, `GitDependencyProofs` | the theorems about a module (in the first, about `MortFS` and `AtaDriver`; in the last, about `Semver` too) with their inductive invariants | each extends its module and `TLAPS` |
| `MC...` | small instances: sets for the constants, symmetry | extend their module |

### MortFS

One step is one transfer of a sector, because that is where a power cut or a
failing drive can fall; between two transfers the handler only touches memory.
`cSuper` and `cTable` are TABCACHE, `dSuper`, `dTable` and `dData` the disk;
`job` holds the locals of the call in progress and `ctl` where it stands:
`sync` is the loop of `fs_sync` (one `SyncSector` per sector, superblock
first), `fetch` and `put` the two halves of `fs_append_line`: `AppendFetch`
reads the last sector of the file back when it is partly filled, and the byte
loop is one `AppendPut` per sector. `fs_create` is `WriteRefused` (its checks in
their order) and `WriteCreates`, `fs_remove` is `RemoveFound`, `fs_init` is
`Boot` or `BootFails`. A sector write ends in one of four ways (`Outcomes`):
stored and reported, refused, stored but reported refused, and reported though
not stored, which `AtaDriver` shows the driver can do. The read of an append
may fail in two ways (`ReadFaults`): the drive refuses it or stays busy, or the
driver abandons it while it waits for DRQ. An abandoned read stays `owed`: the
next sector read may get it instead of its own (`Fetched`), and a write in the
meantime is reported though not stored. `AtaDriver` is the reason for both. `MkfsImage` is what
`mkfs.py` writes. `Names` are what a user types, `LongNames` those over 23
characters. `file_count` is kept at its width (`% U32`).

`LineStore` is the promise: a command changes one file at a time in memory,
files are saved behind that in any order but only to their live content, and a
command that is acknowledged has saved everything. A content is a sequence of
`Bytes`, those of the lines and of the files `mkfs.py` was given. The mapping reads `live`
off the table in memory (off the disk when the machine is off) and `saved` off
the disk.

### AtaDriver

The driver's two waits read the status port `MaxPolls` times (a million in the
code); between two reads the drive does what it likes: clears BSY, raises DRQ
or ERR, stores a sector, keeps it for the flush, fails it, or nothing, also
after the driver has given up. `abandoned` says that the driver has given up a
wait for DRQ, the only one whose end leaves a command with the drive that the
next call does not wait for. One sector stands for the medium and its value
is the number of the call that wrote it, so which block is addressed is not
modelled; that `ata_read` returned *this* block's data is.

### Shell

A byte is a token: a whole command, the newline, or zero. `frames` are the
calls of `run_range_lines` in progress; a frame scans either a boot module's
memory or FILEBUF, and reads FILEBUF *as it is now*. `fs_read_file` is
`ReadFile`: as many whole sectors as the size needs land in FILEBUF, or fewer
when the drive fails, and then the size is 0 (a read abandoned by the driver,
and what the next one then returns, is in `MortFS` and `AtaDriver` only). Lines
longer than `MaxLine` are cut as in the code. `Exec` ends where `exec_enter`
calls the program (`inProgram`); the shell goes on when `ProgramExits`, which
nothing obliges the program to do: it may loop, or wait in `read_line`, whose
poll of the keyboard has no bound (1300). A program runs in the kernel's ring
and could write anywhere; it is assumed to write in its own region and the
mailbox only.

### Desktop

`Key` is one interrupt (or one byte polled by `read_line`): `OnKey` is
`on_key` with its order of tests, function keys, Files, Vex, terminal.
`CommandEffect` stands for whatever `run_command` does to the table and the
rows; what commands really do is in the modules above. `gfx` and `fsOk` are
fixed at boot. Characters are a key and a case.

### Ownership

A behaviour first writes a function, one statement per step, each only if the
checker accepts it, while the code the generator emits is appended to `code`;
then `code` runs, every condition going either way. So TLC enumerates *every*
accepted function of a style up to its `bound` of statements, and every
execution.
The checker's part is `visible`, `moved`, `frames` (with the moves of each
branch, `_merge_moved_states` as `Merged`) and the tests `MayDeclare`,
`MayUse`, `MayMove`; the generator's part is `items` (`defer_scopes`),
`Cleanup`, `Leaving`, `LoopJump`, `Propagate`. A variable of the emitted C is
the declaration the C compiler resolves its name to at that point. `style`,
fixed in the initial state, is the kind of function: its statement forms, its
number of statements (`bound`) and whether it returns void.

### Registry

Every invocation of `registry_admin.py` is a process: load, change and verify
(`Begin`, nothing shared is touched), truncate the temporary file (`OpenTmp`),
write it (`FillTmp`), `os.replace` (`Replace`, with what a rename does to
another invocation's open file), or be killed between any two of them. A build
reads its cache, is given any index that was ever served (`served`), verifies
it, compares it with what it read, replaces the cache, and picks a version by
key status; it may lose the network at any point. Hashes and signatures are
perfect: an index verifies exactly when it satisfies `verify_registry`'s other
conditions and its checkpoint was taken of it.

### TlsBackend

A process is one call of `ensure_tls_backend` and the link that follows; each
step is one file operation, because another build can look in between: reading
the stamp and hashing the archive are two (`ReadStamp`, `HashArchive`), and so
are unlinking the two stale files, moving the new archive in place and
replacing the stamp. `seen` is the digest a process holds. An archive is the
process that built it; its digest is itself, as the compiler's debug lines
hold the temporary directory and no two builds are byte for byte the same.
`Nap` is a turn of the waiting loop; `MaxPolls` of them reach the 300 s
deadline. `movable` is FALSE when the temporary directory is on another file
system than the cache, where the move fails.

### Build

A process is one command; a step reads or writes one file. `Start` is
`resolve_project`, `Walk` and `ReadForFingerprint` are `_project_fingerprint`,
`LookUp` reads the cache record, `Arguments` and `Load` are the checks and the
loading of `_compile_main` and `compile_files_to_c`, `Translate` the checker
and generator (which may refuse any program), `Compile` the C compiler, whose
failure may leave the old output or none, `WriteCache` opens the record, which
empties it, and writes it. A source file is one of a few texts, of which one
does not parse; `Imports` says what it imports. The output is the texts and
mode it was compiled from; the one there is in an initial state, with its
record, is an older command's, and no file outside the fingerprint has changed
since. `disturbed` records that something has happened
that the cache cannot see; its cases are in section 4.

### Semver and GitDependency

`Below` is `_compare_semver`, `Satisfies` is `semver_satisfies` with its
clauses taken apart, `Select` is `select_semver`. A version is its numbers and
prerelease identifiers; `MCGitDependency` assumes, and TLC evaluates, that the
order is total and transitive over 56 versions of every shape.

One step is one Git command or one reading of the checkout: `ListTags`,
`Clone` (which leaves no files: `--no-checkout`), `Origin`, `Status`, `Fetch`,
`Resolve`, `Checkout`, then `Verify` (the registry's content hash),
`ResolveNested`, `LoadManifest`, `Content` (the digest), and for the lock
`ReadEntry` and `WriteLock`. `run[p]` holds the locals of a command. The remote
pushes commits and moves tags, the user edits `mort.toml` or the checkout.
The registry's choice of a commit is fixed here; `Registry` models it.

### MortAst, Lexer, Parser and Grammar

`Tokenize` takes a sequence of characters, a letter run or a number being one
character, `Parse` a sequence of tokens. The parser's methods are operators
that return the tree and the tokens that are left, or `Fail`; `Item` is
the choice of a production, through which all recursion goes, `Sequel` the
comma loop they share and `Level` the eleven methods of `_logic_or` to
`_factor`, which have one shape. `ban` is `no_struct`. The scans ahead are
`LooksLikeCallTypeArgs`, `LooksLikeGenericQualifier` and
`LooksLikeStructLit`. `Grammar` prints a tree by the documented EBNF, with
parentheses only where a production asks for them; a behaviour grows an
expression step by step and then encloses it in a statement and a file.

## 3. What is checked

Every cfg gives the constants of its instance. Runs that bound a counter
(calls, statements, log entries) stop when it is used up, so they do not check
for deadlock; the others do.

| run | instance | shows |
|---|---|---|
| `MortFS_faults` | two entries in one table sector, sectors of two bytes, extents of two sectors, two seed images, two faults (a refused or late write, a refused read), two boots | `ExtentsApart` in memory, on the disk and between them; `IInv` (of which `TypeOK` is a part) is invariant; `AckedIsStored`; `AllocatorNeverRewinds`; `SavedBytesStay`; `ImplementsLineStore`; `CommandEnds` |
| `MortFS_crash` | a table of two sectors, three boots, no drive faults | a power cut between *table* sectors leaves no name twice (`NamesUnique`) |
| `AtaDriver_any` | three polls per wait, four calls | a true read is the sector until a wait for DRQ has timed out, whichever other waits have; a true write is on the medium until then or a fault after the data; every call returns |
| `Shell_run` | buffer of three sectors of two tokens, scripts of two lines out of six commands, second file of six kinds, boot script, one failed read | a script that reads no file executes the text it had; `exec` enters the file's bytes with zeros behind; the prompt returns if the programs do |
| `Desktop_apps` | lines of one character, ring of two lines, three commands, two table entries | cursor, recall and selection |
| `Ownership_functions` | functions of four to six statements over two names, eight styles | no double destroy, no read after the end, nothing left, reverse order |
| `Registry_admin` | two administrations, one build started twice, one key and version, three log entries | the index verifies and grows when administrations do not overlap; nothing is published after its key's revocation even when they do; cache and revocations stick |
| `TlsBackend_builds` | three builds, one poll to the deadline, one kill, one lock removed by hand, six initial caches | one builder at a time (`LockMeansBuilder`); what was returned is whole and stamped until it is linked (`ReturnedStaysWhole`); every build ends |
| `Build_cache` | two commands of six kinds, three files of which one is generated and imported back and forth, three texts, three modes, one save, one kill | what is served is what was fingerprinted, outside the blind spots (`ServedAsFingerprinted`); every command ends |
| `GitDependency_locks` | two commands, three commits (a release, a prerelease with nested dependencies, another), six requests, two changes, one fault | the lock's manifest, content and revision are one commit, the one asked for, when commands do not overlap (`LockedAsAsked`) |
| `Parser_files` | expressions grown twice, in every statement, after every declaration, in two styles | `ParsesBack` |

Why these bounds are enough to be interesting: two table entries, two extents
and four data sectors fill the table and the disk, a line of three bytes
straddles a sector and ends an extent, a removal and re-creation reuses a slot
with a new extent, and a second boot reads what a first crash left. Three
polls distinguish a first, a middle and a last read of the status port; four
calls let an abandoned command meet a read and a write after it. A script of
two lines can rewrite itself, run itself and run another. Three commands turn
a ring of two. Five statements hold two resources, a branch or loop and two
ends of a binding; the four of the styles with most forms a nest of two blocks
with a jump; the six of the jumps two loops, a resource in each and a jump. Three log entries are
a key's whole life. The one-key instance of the registry does not show two
keys at once; with `Keys = {k1, k2}` and one administration the same
properties were checked over 56 000 states.

The TLS run needs three builds for one that waits, one that is killed and one
that takes over; a single poll already separates an answer before the deadline
from one after it. In the build run two commands overlap in every way, or run
one after the other with a save, a kill or a change of mode between any two
steps; the module graph has a cycle. In the Git run two changes let a tag or
branch move and the manifest change between two commands. Two growth steps put
every operator beside and under every other level, and every type under two
levels of angles.

`Ownership_shadow` is the run that TLC must find violated, with its finding in
`PROJECT.json`: a return out of a block that shadows an outer resource
destroys the inner one twice. The other promises that the code does not keep
have a configuration each to produce the counterexample with
`tlc -config X.cfg M.tla`:

| configuration | module | property | what it shows |
|---|---|---|---|
| `MortFS_names` | `MCMortFS` | `NamesUnique` | `kmain.mx:1080` calls `fs_find` the "Index of the used entry named `name`". A `rm` whose `fs_sync` failed (1142) leaves the entry used on the disk and free in memory; a later `write` re-creates the name in a lower slot, and a power cut in that `fs_sync` leaves two used entries of one name. `ImplementsLineStore` fails under the same configuration: a later `rm` of that name uncovers the entry of the file removed before |
| `AtaDriver_late` | `AtaDriver` | `ReadTrueMeansRead` | `kmain.mx:922-923` and `fs-design.md:105` say a poll that times out "fails cleanly". Nothing drains the abandoned command: the next `ata_read` (990) takes its late DRQ for its own and returns true with another sector's data |
| `MortFS_late` | `MCMortFS` | `SavedBytesStay` | The same under `fs_append_line`, which reads the last sector of a file back (1182) and writes it out again: a first `write` whose read is given up prints an error, the next one takes the late answer for its own sector and stores the bytes of another file, or of another sector of the same one, over saved ones |
| `Shell_clobber` | `MCShell` | `ScriptIntact` | `fs-design.md:503-504` forbids a nested `run` because it "would clobber FILEBUF"; `cat` (1467) and `exec` (1388) do the same without a guard: a script that cats a file goes on executing that file |
| `Registry_lostUpdate` | `MCRegistry` | `LogAppendOnly` | `registry/README.md:9-10` promises an append-only log of "every publisher addition, publication, and revocation"; `_operator_update` (93-99) takes no lock, and the later of two overlapping invocations drops the earlier one's entry |
| `GitDependency_dirty` | `MCGitDependency` | `DirtyMeansEdited` | `docs/production-readiness.md:43-45` says that existing Git caches "refresh and detach" and must have "no local changes". Resolving a package that has Git dependencies of its own makes `.mort/deps` inside its checkout; unless the package ignores `.mort`, the next `mortc fetch` says that the cached dependency "has local changes" (`project.py:377`), though nobody made any |
| `Parser_grammar` | `Grammar` | `ParsesAsWritten` | `docs/language-specification.md:109` says "The following EBNF is normative." A comparison followed later by `>` and a parenthesis is taken for type arguments (`parser.py:695-715`): `if x < lo \|\| x > (hi - 1) {` is rejected |

### Hypotheses inside properties

Where the code does not keep a promise in general, the general form is the
property of a counterexample configuration (or run) and the passing run checks it under the weakest
hypothesis found: `ReadTrueUntilAbandoned`, `WriteTrueUntilFault` (no wait for
DRQ has timed out), `PromptReturns` (the programs `exec` enters exit),
`QuietScriptIntact` (no line of the script is `cat` or `exec`),
`FollowedDestroyedOnce` (no form the checker does not follow), `UsedWhole` and
`NothingLeaks` (no defer next to what defeats it), `IndexVerifies` and
`SerialLogGrows` (administrations run one at a time), `CacheGrows` and
`RevocationSticks` (builds of a project run one at a time),
`ReturnedStaysWhole` and `LockMeansBuilder` (nobody removes the lock of a build
that is still at work), `ServedAsFingerprinted` (`disturbed`, the blind spots
of section 4), `LockedAsAsked` (commands do not overlap and nobody edits the
checkout) and `ParsesBack` (no comparison reads as type arguments). `MortFS_crash`
checks `NamesUnique` on a drive without faults, `MortFS_names` with one.

The properties of `MortFS` have theirs in the constants. They are about a drive
that raises DRQ or ERR for every command before the driver's million reads of
the status port are used up: `ReadFaults` of the passing runs is without
"abandoned", and `Outcomes` has no write that is abandoned so (its data would
go to the sector the next command names, and every promise on saved bytes with
it; `MortFS_late` shows the same of a read). Whichever other waits time out,
before a command is sent or after its data, what `ata_read` and `ata_write`
report is true: `ReadTrueUntilAbandoned` and `WriteTrueUntilFault`, which are
proved. So the reads of `MortFS` that return true return the sector also after
a late write. `MortFS_late` is what happens outside the hypothesis.
The whole-file reads of `cat`, `run`, `exec` and `fs_init` are under the same
hypothesis.

### Fairness

Only where the code's own scheduling gives it. `WF_vars(Handler)` in MortFS
and `WF_vars(Scan)` in Shell: a command runs inside an interrupt handler (or
before interrupts are enabled), which nothing preempts, and the waits for the
drive under it are bounded, which is what `CallReturns` shows. Two things under
it are not: the program that `exec` enters may run for ever, and so may
`read_line`'s wait for a key, which only a program calls. `ProgramExits` therefore
has no fairness, and `PromptReturns` says that a script ends *if* every program
that is entered exits (`ProgramsExit`). `WF_ataVars(Driver)` in AtaDriver:
the processor keeps polling; the drive gets no fairness at all. `WF_vars(Step(p))`
of each process of TlsBackend and Build: the operating system runs a process
that has not been killed, its loops are bounded by the deadline or the files,
and the C compiler, Git and editors are outside it. Nothing obliges
the user to type, the power to stay on, or the network to answer. Desktop,
Ownership, Registry and GitDependency state safety only.

## 4. Deviations met while modelling

Besides the counterexamples above, these were read off the models and, for
Ownership, reproduced by compiling and running a program. Each can be
reproduced by changing constants as said.

- `fs_create` returns 64 without a message when its `fs_sync` fails
  (`kmain.mx` 1142-1144), though 1107-1108 says it prints its own error and
  success prints nothing either: a failed `write` looks like a successful one
  (`SyncFailure` of a create is empty).
- `ata_write` looks at ERR and DF no more after the data phase (1023-1026): a
  fault then returns true. Drop `~faulted` from `WriteTrueUntilFault`.
- Shift pressed or released while Files or Vex is active never reaches
  `g_shift` (1800-1807 before 1824-1831).
- `terminal_activate` (1766-1777) leaves `g_hist_nav`: the fresh empty line
  counts as a recalled one.
- `read_line`'s echo (1328-1333) does not wrap where `print_inline` would.
- `let x = move x` in an inner block reads the new C variable in its own
  initializer (`codegen.py` 2127, 2503-2507). `Shadowing = TRUE`, a style of
  let, let move, block.
- `defer destroy(&x)` in a branch removes x's cleanup from the other paths too
  (`codegen.py` 2264-2274). A style of let, if, defer destroy; drop the
  hypothesis of `NothingLeaks`.
- A binding with a deferred destroy may still be moved or destroyed
  (`typechecker.py` 2746): let, take, defer destroy violates `DestroyedOnce`.
- A deferred read is checked where it is registered and runs where the scope
  ends (1658-1667): let, take, defer use reads a destroyed resource.
- `destroy(&x)` in a loop of an outer x is accepted (2747): let, destroy,
  while violates `DestroyedOnce`.
- The condition of a `while` is checked outside the loop (1456-1458): let,
  while move violates `DestroyedOnce`.
- `let y = x.field` copies a resource (1058-1064): let, let field violates
  `DestroyedOnce`.
- Two overlapping builds may store an older index over a newer one
  (`project.py` 241-262): `CacheGrows` without `OneBuild`, two builds.
- An interrupted sync makes the superblock's `file_count` differ from the
  number of used entries; no code depends on it.

- The build cache serves a program that is not that of the sources when a
  file is saved between its fingerprint and its loading and later saved back
  (`mortc.py` 613-629), when a command is killed between the new output and
  the emptied record, when builds with different fingerprints overlap, and for
  modules imported from a directory named `build`, `.mort` or `__pycache__`,
  which the fingerprint leaves out (673-677) and the imports do not.
  `README.md:281-283` calls builds content-addressed. Drop `~disturbed` from
  `ServedAsFingerprinted`.
- A build that waits for the TLS archive may raise an uncaught
  `FileNotFoundError` when the archive is unlinked between the test and the
  reading of `cache_is_valid` (`tls_backend.py` 365-372).
- The `finally` of `ensure_tls_backend` (415-420) unlinks whatever lock is
  there: when a user has removed the lock of a build that was only slow, two
  builders run and the first to end removes the second one's lock
  (`~usurped` in `LockMeansBuilder`).
- A cache directory on another file system than the temporary directory makes
  `os.replace` fail: the archive is always "failed to prepare" (337-342).
- A first `fetch` that is killed after `clone --no-checkout` or asks for a
  revision that does not exist leaves a checkout without files, which every
  later command refuses as changed (`project.py` 364-382).
- A tag moved on the remote makes `git fetch --tags` fail for ever (383-386).
- `mortc add` writes `mort.toml` before it resolves the dependency
  (`mortc.py` 1127-1136): when that fails the dependency stays.
- Two overlapping commands on one checkout can lock one commit's digest with
  another's revision. Drop `~overlapped` from `LockedAsAsked`.
- `^1.0.0` admits `2.0.0-alpha`, which is below 2.0.0 (`project.py` 84-117);
  `README.md:273` speaks of the highest compatible release.
- `Box<Box<i64>> { ... }` is rejected as an expression: the scan for struct
  literals (`parser.py` 805-823) does not count `>>` as two angles, as the
  scans beside it do (838). `let b: Box<Box<i64>>= x` is rejected because the
  lexer joins `>>=` (`ClosesTwo`). With a blank before the last angle, or
  before the `=`, they are accepted.
- A struct literal inside the parentheses of a call stays banned in a
  condition, though `parser.py:478-479` says that parentheses
  re-enable them.
  A call of a call, `f(x)(y)`, is rejected, and `x as T < y` reads `< y` as
  type arguments.

## 5. What is proved

Every safety invariant that a run checks is a theorem of the specification for
all values of the constants, but for `ParsesBack` of `Grammar`; those of
`Ownership` under the hypotheses given below. The theorems use the assumptions named in the modules (`GeometryAssumption`,
`FilesAssumption`, ...), which say what the code fixes: sizes are positive,
marks such as `Absent` or `Torn` are none of the values they stand beside. TLC
evaluates them in every run. In each module the
proof has one inductive invariant, one lemma per action that can disturb it,
and a theorem per property; TLC checked every inductive invariant on the run's
instance before it was proved (of that of `Ownership`, the part about the
compiler's state: TLC cannot enumerate annotations).

**MortFS**, with two hypotheses on the drive: `"silent" \notin WriteFaults` (one
that fails a write after its data tells nobody, and then nothing can be said of
the disk) and `"abandoned" \notin ReadFaults` (it answers a read before the wait
for DRQ runs out; `MortFS_late` is the counterexample without). Refused reads,
and refused and late writes, are all in:

- `ExtentsStayApart`, `AllocatorIsMonotone`, `TypeCorrect`, from `Invariant`:
  `Spec => []IInv`. `ExtentsApart` is not inductive: nothing in it says that a
  new extent, taken at `next_free_sector`, lies above the old ones, nor why
  that survives a sync cut in the middle. `IInv` adds that. `Allocated(t, s)`:
  every used entry of a table ends below the superblock's allocator; it holds
  of the disk (`DiskInv`) and of the cache (`CacheInv`), with the disk's
  allocator never ahead of the cache's and entries of *different* slots apart
  between the two tables. `SuperFirst` is why a mixed table is safe: `fs_sync`
  writes the superblock first, so once a table sector has been written the
  disk's allocator is the cache's. `JobInv` ties the call in progress to its
  slot, so that an append stays inside its extent. `NothingOwed` is where the
  hypothesis on reads enters: no read is abandoned, so the sector an append
  fills is the one it asked for (`FetchedIsAsked`) and no write meets a drive
  that is still at another command. `ImageInv` shows the same
  of every image `mkfs` makes.
- `AcknowledgedIsStored`: `AckInv` adds that, while `fs_sync` runs, the table
  sectors it has been over are the cache's, and that nothing is acknowledged
  while a command is in flight.
- `SavedBytesAreKept`: `Spec => SavedBytesStay`. `SavedInv` has two parts.
  `SlotInv`: a slot that is used on the disk and in the cache holds the same
  file in both, grown or not, or two files apart. `PutInv`, for the byte loop
  of `fs_append_line`: what is left of the line starts at the position, the
  sector being filled agrees with the medium up to it, and behind the file's
  old end the medium holds the line as far as it has come. The offset of a byte and its
  sector are related by `Split` and `Joined`, the division with remainder.
- `NamesStayUnique` and `IsLineStore` (`Spec => ImplementsLineStore`, the
  refinement), with the further hypothesis `Whole`: no write is refused, or
  the table is a single sector. `MortFS_names` shows that it is needed: a
  refused write followed by a power cut between table sectors leaves two
  entries of one name, and then neither holds. `NamesInv`: names are unique in
  both tables, and where no write is refused the disk is at most one entry
  behind, and behind only during a sync; hence a table sector that is saved
  brings the disk's table to the cached one or leaves it (`SyncWhole`). The
  refinement has a lemma for each kind of step: `CreateImplements`,
  `RemoveImplements` and `GrowImplements` are `Update`s of one file
  (`LineIsPut`: after its last sector the file is its old content and the
  line), a sector of a sync is `Persist` or, with its last, `Acknowledge`, a
  refused command is a `Persist` of no file, power on stutters.

**AtaDriver** (`MaxPolls` positive, any number of calls): `AtaTypeCorrect`,
`ReadIsTrue`, `WriteIsTrue`, from `InStep`: until a wait for DRQ gives up, what the
driver has in hand at each step agrees with the command the drive is at, and
between calls nothing is under way but what the first wait of the next call
waits for. So a wait for BSY may time out anywhere, in a write too: this is what
lets `MortFS` take the reads after a late write for true.

**Shell**: `TypeCorrect`, `QuietScriptsRun`, `ProgramsAreFiles`. The invariant
says that the stack is at most a boot module's call and a script's (`Shape`,
which is `g_run_depth`'s guard), that a line is empty when its range is done
(`LineDone`; without it the first line of the next script could begin with the
end of the last one), and that of a script whose lines read no file the rest
is in FILEBUF (`QuietRun`).

**Desktop**: `TypeCorrect`, `CursorIsBehind`, `SelectionExists`, `RecallIsTrue`.
Its invariant keeps the slots of the history ring equal to the last commands
entered, by number modulo the ring's size (`Ring`), and has the table change
only while the terminal is in front (`Browser`).

**Ownership**: `DestroysOnce`, `UsesWhole`, `LeaksNothing`, `DropsInReverse`, for
any names, any length of a function and any nesting of its blocks, with two
hypotheses. `~Shadowing`: no name is declared again while it is open;
`Ownership_shadow` is the counterexample without it. `Followed`: no `letField`,
`deferDestroy` or `whileMove` is written, and no `destroy` together with loops;
`FollowedDestroyedOnce` states it itself, and the other three, which the run
checks for the forms outside it too, are proved for the forms inside. There is
no induction over the text of a function: the invariant (`Inv`, theorem
`Correct`) carries, while the function is written, a proof about the code so far,
and while it runs, that the execution follows that proof.

- The proof carried is an *annotation*. A note says of a place in `code`
  whether the checker's flow reaches it, which bindings are still to be cleaned
  up there (`open`) and which of them certainly hold a whole resource (`whole`);
  every block has a label with a note for its head and one for its tail. `Rule`
  is what an instruction must find and leave: a `take`, `destroy` or `out` finds
  its binding whole, a `drop` finds it the last one open, a `ret` finds nothing
  open, a jump finds what its target's label says.
- `Compiled(T)`: the code has an annotation with the labels `T` that ends in what
  the checker knows now (`Cur`: `visible` without `moved`), all jumps have their
  places but for those of the statements still open (`Matched`), and the labels
  of those are what their frames say (`Links`). A statement appends a piece
  that leads from one note to the next. What a loop's or branch's tail joins is
  known only as the jumps to it are written, so labels may get weaker while
  their statement is open (`Relabel`): this is where `_merge_moved_states`
  must take every branch, and why a move inside a loop may only be of a binding
  of that loop.
- `Scoped` is what the annotation needs of the two passes: open names differ, the
  cleanups are in order of declaration, in their scopes, each with its drop
  and before it whatever it defers (`Deferred`); the moves of a frame only grow
  from its beginning, in a loop only by its own bindings (`Moved`).
- `Executed`: an execution that agrees with its note (`Agrees`) has one owner for
  every live resource, among the open bindings. None of the four properties is
  inductive: that a drop destroys nothing twice at one place rests on what
  every path to that place did.

**Registry**: `IndexAlwaysVerifies` and `SerialIndexGrows` while
administrations run one at a time, `RevokedNeverPublishes` always,
`RevocationHolds` and `CacheOnlyGrows` while a project's builds do, `TypeCorrect`.
`AdminInv`: every index that is written, served or held by an invocation
verifies and has its publications before the revocation of their key; `Serial`:
the file an invocation is about to replace is the beginning of the one it
holds. `BuildInv`: the cache verifies and shows every revocation a build has
seen.

**TlsBackend**: `LockIsBuilders` (any number of builds, kills and removals of a lock),
`ReturnedIsWhole`, `TypeCorrect`. `LockMeansBuilder` is inductive. `FilesInv` adds
what a builder may rely on at each step, and that a stamp belongs to a whole
archive whose builder is past its build.

**Build**: `ServedIsFingerprinted`, `TypeCorrect`. The invariant says, while
nothing has happened that the cache cannot see (`disturbed`), that what a
command has read is what its fingerprint was taken of (`Fresh`), that commands
that build at once have one fingerprint (`Together`), and that a record which
is not torn is of the sources of the output (`Outputs`).

**GitDependency and Semver**: `BelowIsTotalOrder` (versions are totally
ordered, prereleases of any length included), `SelectIsHighest` (`select_semver`
returns the highest version a range admits, of any finite set),
`LockIsAsked`, `SelectedSatisfies`, `TypeCorrect`. The invariant says of each
step what a command knows (`Stage`) and, while commands do not overlap, what it
has done to the checkout and is still there (`Holds`).

What the proofs changed in the models: `Build` admitted initial states in
which a file outside the fingerprint differed from the one an old output was
compiled from, which no sequence of commands leaves behind undisturbed;
`LineStore` took the contents of files to be made of the bytes of lines only,
and the images of `mkfs.py` hold others. Both are mended.

Only model-checked:

- the liveness properties `CommandEnds`, `CallReturns`, `PromptReturns`,
  `EveryBuildEnds` and `CommandsEnd`, whose fairness is out of the proof
  system's reach;
- `UsedWhole`, `NothingLeaks` and `ReverseOrder` of `Ownership` for functions that
  copy a resource out of a field, defer a destroy, move in a loop's condition
  or destroy in a loop. There the checker's `moved` says too little of what the
  execution did, and what holds (within the hypotheses the properties name) no
  annotation of this kind expresses;
- `ParsesBack` of `Grammar`: what recursive operators compute for every input
  needs induction over trees, which the installed provers cannot instantiate.
  Where the model takes a least number instead (the first difference of two
  prereleases, the first slot of a name, the highest version of a set) a
  well-founded order serves.

## 6. What is not modelled, and why

The rows of the inventory without a module in section 2: the rest of the type
checker and of the generator are large functions over syntax trees whose
meaning is a language semantics of its own; the standard library's containers,
task groups and network framing are written in Mort and planned below; the
language server is one request after the other. Of the modelled parts: pixels,
colours and message texts; which block an ATA command names; `hlt` and the
interrupt flag (handlers are atomic with respect to each other, as `idt.s`
arranges); the wording of errors; the field formats, hashes and signatures of
the registry; types, generics and resources inside aggregates in the ownership
model; the digits of numbers, the letters of names and the positions of tokens
in the lexer; the TOML subset of `mort.toml`, path dependencies, mirrors and
source archives; the reports of `coverage`, `bench` and `doc`. `help`,
`clear`, `uptime`, `mods`, `mem` change nothing the models keep. `Ownership`'s
`TypeOK` holds but is not listed with a run: its other properties imply what
it says of the parts they read.

## 7. Plan

1. *More proofs.* The forms of `Ownership` outside `Followed`, with notes that
   say of a binding what a deferred destroy still does to it; the exact condition under which names stay
   unique when writes are refused and the table has several sectors (no
   command follows a failed sync before the next one succeeds); for `Shell`
   and `Desktop`, that their abstract file table is what `LineStore` promises.
   `Lexer`, `Parser` and `Grammar` are recursive and stay with TLC.
2. *More of the system*, if room is made for it: `TaskGroup` (spawn, cancel,
   join and destroy of `std/task.mx` over interleaving threads), `Framing` (the
   HTTP and WebSocket readers over a stream that delivers any prefix,
   implementing a channel of messages), `Containers` (`vec` and `map` over raw
   slots against sequences and functions).

------------------------------- MODULE Shell -------------------------------
(***************************************************************************)
(* The shell of kernel/kmain.mx: run_command and the script machinery that *)
(* calls it back line by line.  Files are read whole into one buffer,      *)
(* FILEBUF, a script is executed in place from there, and every command    *)
(* line is assembled in the one buffer g_buf.  A byte is a token: a whole  *)
(* command, the newline, or a zero.                                        *)
(***************************************************************************)
EXTENDS Integers, Sequences, SequencesExt

CONSTANTS
    Cmd,            \* command token -> [op, name, text]
    Names,
    Newline, Zero,
    InitialFiles,   \* set of functions name -> content, the disk at boot
    BootScripts,    \* set of contents of the boot module
    Absent,         \* no such file
    SectorLen,      \* tokens in a sector
    BufLen,         \* tokens in FILEBUF and in a file's extent (64 KiB)
    MaxLine,        \* tokens of a script line that are kept (76)
    MaxFaults       \* bound: failed disk reads in a behaviour

Tokens == DOMAIN Cmd
Bytes == Tokens \cup {Newline, Zero}
Ops == {"echo", "cat", "write", "rm", "run", "exec"}

Contents == Seq(Tokens \cup {Newline})

ASSUME CommandAssumption ==
    \A t \in Tokens : Cmd[t].op \in Ops /\ Cmd[t].name \in Names /\ Cmd[t].text \in Tokens
ASSUME BytesAssumption ==
    Newline # Zero /\ Newline \notin Tokens /\ Zero \notin Tokens /\ Absent \notin Contents
ASSUME DiskAssumption ==
    /\ \A disk \in InitialFiles :
          /\ disk \in [Names -> Contents \cup {Absent}]
          /\ \A n \in Names : disk[n] # Absent => Len(disk[n]) <= BufLen
    /\ BootScripts \subseteq Contents
ASSUME SizeAssumption ==
    /\ SectorLen \in Nat \ {0} /\ BufLen \in Nat /\ MaxLine \in Nat \ {0} /\ MaxFaults \in Nat
    /\ BufLen % SectorLen = 0

VARIABLES
    files,      \* name -> content, or Absent
    filebuf,    \* FILEBUF
    gbuf,       \* g_buf: the line being assembled or executed
    frames,     \* the run_range_lines calls in progress, innermost last
    depth,      \* g_run_depth
    prog,       \* the program region at 0x00A00000, as exec last left it
    loaded,     \* the file `exec' last started, at the time it was read
    inProgram,  \* exec_enter has not returned: the user's program runs, or
                \* waits for the keyboard in read_line
    out,        \* the error the last command printed, "" for none
    faults

vars == <<files, filebuf, gbuf, frames, depth, prog, loaded, inProgram, out, faults>>

(***************************************************************************)
(* A call of run_range_lines: the range it scans, the next byte, and, for  *)
(* the properties, the text of the script it was called to execute.        *)
(***************************************************************************)
Frame(src, text) == [src |-> src, p |-> 1, end |-> Len(text), text |-> text]

Padded(s, n) == [k \in 1 .. n |-> IF k <= Len(s) THEN s[k] ELSE Zero]

Init ==
    /\ files \in InitialFiles
    /\ filebuf = Padded(<< >>, BufLen)
    /\ prog = Padded(<< >>, BufLen) /\ loaded = << >>
    /\ gbuf = << >> /\ depth = 0 /\ out = "" /\ faults = 0 /\ inProgram = FALSE
    /\ \E s \in BootScripts : frames = <<Frame("module", s)>>

-----------------------------------------------------------------------------
(***************************************************************************)
(* fs_read_file: as many whole sectors as the size needs are transferred,  *)
(* whatever follows the last byte in them; a read error stops it midway    *)
(* and yields size 0.  Got(content, size, buf): the content was asked for, *)
(* size was returned, buf is FILEBUF afterwards.                           *)
(***************************************************************************)
Sectors(content) == (Len(content) + SectorLen - 1) \div SectorLen

Overlaid(content, n) ==     \* FILEBUF with n sectors of content read into it
    [k \in 1 .. BufLen |-> IF k <= n * SectorLen
                           THEN Padded(content, BufLen)[k] ELSE filebuf[k]]

ReadFile(content, size) ==
    \/ /\ size = Len(content)
       /\ filebuf' = Overlaid(content, Sectors(content))
       /\ UNCHANGED faults
    \/ /\ size = 0 /\ faults < MaxFaults
       /\ \E n \in 0 .. Sectors(content) - 1 : filebuf' = Overlaid(content, n)
       /\ faults' = faults + 1

NotFound(n) == files[n] = Absent

(* Commands that leave FILEBUF and the program region alone. *)
KeepsBuffers == UNCHANGED <<filebuf, depth, prog, loaded, inProgram, faults>>

Write(n, text) ==
    LET old == IF NotFound(n) THEN << >> ELSE files[n]
    IN  /\ IF Len(old) + 2 > BufLen
           THEN UNCHANGED files /\ out' = "file full"
           ELSE files' = [files EXCEPT ![n] = old \o <<text, Newline>>] /\ out' = ""
        /\ KeepsBuffers

Rm(n) ==
    /\ files' = [files EXCEPT ![n] = Absent]
    /\ out' = IF NotFound(n) THEN "not found" ELSE ""
    /\ KeepsBuffers

Cat(n) ==
    /\ IF NotFound(n)
       THEN UNCHANGED <<filebuf, faults>> /\ out' = "not found"
       ELSE (\E size \in {0, Len(files[n])} : ReadFile(files[n], size)) /\ out' = ""
    /\ UNCHANGED <<files, depth, prog, loaded, inProgram>>

(* The size bytes in FILEBUF, zeros behind them. *)
(* Mutant: the region is not zeroed first.      *)
ImageOver(size) == [k \in 1 .. BufLen |-> IF k <= size THEN filebuf'[k] ELSE prog[k]]
Image(size) == Padded(SubSeq(filebuf', 1, size), BufLen)

(***************************************************************************)
(* exec_file: FILEBUF is copied over a zeroed program region and entered.  *)
(* The kernel goes on where it was when the program returns, if it does    *)
(* (ProgramExits): it may loop, or wait in read_line for a key.            *)
(***************************************************************************)
Exec(n) ==
    /\ IF NotFound(n)
       THEN UNCHANGED <<filebuf, prog, loaded, inProgram, faults>> /\ out' = "not found"
       ELSE \E size \in {0, Len(files[n])} :
               /\ ReadFile(files[n], size)
               /\ inProgram' = (size # 0)
               /\ IF size = 0
                  THEN out' = "empty program" /\ UNCHANGED <<prog, loaded>>
                  ELSE /\ prog' = Image(size)
                       /\ loaded' = files[n] /\ out' = ""
    /\ UNCHANGED <<files, depth>>

(* The commands that do not call run_range_lines. *)
Simple(t) ==
    LET c == Cmd[t]
    IN  \/ c.op = "echo" /\ out' = "" /\ UNCHANGED files /\ KeepsBuffers
        \/ c.op = "write" /\ Write(c.name, c.text)
        \/ c.op = "rm" /\ Rm(c.name)
        \/ c.op = "cat" /\ Cat(c.name)
        \/ c.op = "exec" /\ Exec(c.name)

(* Mutant: the guard is missing. *)
NestedNever == FALSE
Nested == depth > 0

(* run_file: the guard, the lookup, the read, then the range is scanned.   *)
(* below is the stack of calls that stay in progress under it.             *)
RunFile(n, below) ==
    /\ \/ /\ Nested /\ out' = "nested run"
          /\ frames' = below
          /\ UNCHANGED <<filebuf, depth, faults>>
       \/ /\ ~Nested /\ NotFound(n) /\ out' = "not found"
          /\ frames' = below
          /\ UNCHANGED <<filebuf, depth, faults>>
       \/ /\ ~Nested /\ ~NotFound(n) /\ out' = ""
          /\ \E size \in {0, Len(files[n])} :
                /\ ReadFile(files[n], size)
                /\ frames' = Append(below, Frame("filebuf", SubSeq(files[n], 1, size)))
          /\ depth' = depth + 1
    /\ UNCHANGED <<files, prog, loaded, inProgram>>

(* A command is a string: it ends at the first zero. *)
CString(s) == LET z == SelectInSeq(s, LAMBDA x : x = Zero)
              IN  IF z = 0 THEN s ELSE SubSeq(s, 1, z - 1)

(* run_command on the line in g_buf, empty and unknown ones included. *)
RunCommand(line, below) ==
    \/ /\ Len(line) = 1 /\ Cmd[line[1]].op = "run"
       /\ RunFile(Cmd[line[1]].name, below)
    \/ /\ Len(line) = 1 /\ Cmd[line[1]].op # "run"
       /\ Simple(line[1]) /\ frames' = below
    \/ /\ Len(line) # 1
       /\ out' = (IF line = << >> THEN "" ELSE "unknown command")
       /\ frames' = below
       /\ UNCHANGED files /\ KeepsBuffers

-----------------------------------------------------------------------------
(* The user types a command at the prompt. *)
Type(t) ==
    /\ frames = << >> /\ ~inProgram
    /\ RunCommand(<<t>>, << >>)
    /\ gbuf' = << >>

(* The program returns from the call of exec_enter, having written in its  *)
(* own region and the mailbox only.                                        *)
ProgramExits ==
    /\ inProgram /\ inProgram' = FALSE
    /\ UNCHANGED <<files, filebuf, gbuf, frames, depth, prog, loaded, out, faults>>

(***************************************************************************)
(* One turn of run_range_lines: the byte at p, a newline past the end, is  *)
(* appended to g_buf, or ends a line that is then executed.                *)
(***************************************************************************)
Top == frames[Len(frames)]
Stepped == [frames EXCEPT ![Len(frames)].p = @ + 1]

ByteRead == IF Top.p > Top.end THEN Newline
            ELSE IF Top.src = "module" THEN Top.text[Top.p] ELSE filebuf[Top.p]

Scans == ~inProgram /\ frames # << >> /\ Top.p <= Top.end + 1

ScanLine ==
    /\ Scans /\ ByteRead = Newline /\ gbuf # << >>
    /\ RunCommand(CString(gbuf), Stepped)
    /\ gbuf' = << >>

(* Mutant: an empty line is not stepped over. *)
ScanEmptyLineAgain ==
    /\ Scans /\ ByteRead = Newline /\ gbuf = << >>
    /\ UNCHANGED vars

ScanEmptyLine ==
    /\ Scans /\ ByteRead = Newline /\ gbuf = << >>
    /\ frames' = Stepped
    /\ UNCHANGED <<files, filebuf, gbuf, depth, prog, loaded, inProgram, out, faults>>

(* Mutant: one character more than the buffer keeps. *)
ScanByteTooMany ==
    /\ Scans /\ ByteRead # Newline
    /\ gbuf' = IF Len(gbuf) <= MaxLine THEN Append(gbuf, ByteRead) ELSE gbuf
    /\ frames' = Stepped
    /\ UNCHANGED <<files, filebuf, depth, prog, loaded, inProgram, out, faults>>

ScanByte ==
    /\ Scans /\ ByteRead # Newline
    /\ gbuf' = IF Len(gbuf) < MaxLine THEN Append(gbuf, ByteRead) ELSE gbuf
    /\ frames' = Stepped
    /\ UNCHANGED <<files, filebuf, depth, prog, loaded, inProgram, out, faults>>

(* run_range_lines returns, to run_file or to kmain. *)
ScanEnds ==
    /\ ~inProgram /\ frames # << >> /\ Top.p > Top.end + 1
    /\ frames' = Front(frames)
    /\ depth' = IF Top.src = "filebuf" THEN depth - 1 ELSE depth
    /\ UNCHANGED <<files, filebuf, gbuf, prog, loaded, inProgram, out, faults>>

Scan == ScanLine \/ ScanEmptyLine \/ ScanByte \/ ScanEnds

Next == Scan \/ ProgramExits \/ \E t \in Tokens : Type(t)

(* The handler keeps running; the user need not type, nor a program exit. *)
Spec == Init /\ [][Next]_vars /\ WF_vars(Scan)

-----------------------------------------------------------------------------
(* Properties. *)

TypeOK ==
    /\ filebuf \in [1 .. BufLen -> Bytes] /\ prog \in [1 .. BufLen -> Bytes]
    /\ \A n \in Names : files[n] = Absent \/ files[n] \in Contents
    /\ gbuf \in Seq(Tokens \cup {Zero}) /\ Len(gbuf) <= MaxLine
    /\ Len(frames) <= 2 /\ depth \in 0 .. 1 /\ inProgram \in BOOLEAN
    /\ faults \in 0 .. MaxFaults

(* The text run_file was asked to execute is what is left to execute: no   *)
(* command of a script disturbs the buffer the script is executed from.    *)
ScriptIntact ==
    \A i \in 1 .. Len(frames) :
        frames[i].src = "filebuf" =>
            \A k \in frames[i].p .. frames[i].end : filebuf[k] = frames[i].text[k]

(* The same of the scripts that neither cat nor exec, whatever else they   *)
(* do: append to themselves, remove themselves, run themselves or others.  *)
ReadsAFile(text) == \E k \in 1 .. Len(text) :
                        text[k] # Newline /\ Cmd[text[k]].op \in {"cat", "exec"}
QuietScriptIntact ==
    \A i \in 1 .. Len(frames) :
        (frames[i].src = "filebuf" /\ ~ReadsAFile(frames[i].text)) =>
            \A k \in frames[i].p .. frames[i].end : filebuf[k] = frames[i].text[k]

(* exec enters the image it was asked for, zero-padded, and nothing of a   *)
(* longer program before it.                                               *)
ProgramIsFile == prog = Padded(loaded, BufLen)

(* A script comes to an end whatever its lines do, even one that appends   *)
(* to itself, removes itself or overwrites the buffer it is read from,     *)
(* as long as the programs it executes do (exec_enter, run_range_lines).   *)
ProgramsExit == inProgram ~> ~inProgram
PromptReturns == ProgramsExit => (frames # << >> ~> frames = << >>)

=============================================================================

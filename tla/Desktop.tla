------------------------------ MODULE Desktop ------------------------------
(***************************************************************************)
(* The keyboard side of kernel/kmain.mx: on_key decodes one scancode per   *)
(* interrupt and hands it to the application in front: the terminal's line *)
(* editor and history, the Files browser, the Vex viewer.  A program       *)
(* started by `exec' takes the keyboard over and polls it in read_line.    *)
(* What a command does otherwise is in Shell and MortFS; here it prints    *)
(* lines, clears the screen, and changes which table entries are used.     *)
(***************************************************************************)
EXTENDS Integers, Sequences, FiniteSets, SequencesExt

CONSTANTS
    Printable,      \* keys that type a character; "1" and "2" drive Vex
    Slots,          \* table entries of MortFS (64)
    HistSlots,      \* lines in the history ring (8)
    MaxLine,        \* characters in a line (76)
    MaxInput,       \* characters read_line keeps (120)
    Width, LastRow, \* 80 columns, rows 0..24
    MaxCommands     \* bound: commands entered in a behaviour

ASSUME SizesAssumption ==
    /\ Slots \in Nat /\ HistSlots \in Nat \ {0} /\ MaxCommands \in Nat
    /\ MaxLine \in Nat \ {0} /\ MaxInput \in Nat \ {0}
    /\ Width \in Nat /\ LastRow \in Nat /\ MaxLine + 4 <= Width /\ LastRow >= 2

SlotIds == 0 .. Slots - 1
Terminal == 0
Files == 1
Vex == 2

VARIABLES
    gfx, fsOk,                  \* set at boot: F1..F3 are there; g_fs_ok
    second,                     \* the keyboard has sent 0xE0
    shift, ext, app,            \* g_shift, g_ext, g_app
    line, col, row,             \* g_buf up to g_len, g_col, g_row
    hist, histN, nav,           \* g_history, g_hist_n, g_hist_nav
    sel, view, entry, count,    \* g_files_sel, _view, _entry, _count
    vexPage,
    used,                       \* the used entries of the file table
    mode,                       \* "key" | "program" | "readline"
    pcol, input, rlShift,       \* g_pcol, and read_line's line and shift
    entered                     \* for the properties: the commands entered

machine == <<gfx, fsOk>>
decode == <<shift, ext, app>>
edit == <<line, col, row>>
history == <<hist, histN, nav>>
browser == <<sel, view, entry, count, vexPage>>
program == <<mode, pcol, input, rlShift>>
vars == <<machine, second, decode, edit, history, browser, program, used, entered>>

Chars == Printable \X BOOLEAN       \* scancode_to_ascii: key and case
AtMost(n, m) == IF n <= m THEN n ELSE m
Feed(r, n) == AtMost(r + n, LastRow)    \* feed, called n times
(* Mutant: the ring is read one slot late. *)
RecentOffByOne(k) == hist[(histN + 1 - k) % HistSlots]
Recent(k) == hist[(histN - k) % HistSlots]      \* hist_slot

Init ==
    /\ gfx \in BOOLEAN /\ fsOk \in BOOLEAN /\ second = FALSE
    /\ shift = FALSE /\ ext = FALSE /\ app = Terminal
    /\ line = << >> /\ col = 2 /\ row \in 1 .. LastRow
    /\ hist = [k \in 0 .. HistSlots - 1 |-> << >>] /\ histN = 0 /\ nav = 0
    /\ sel = 0 /\ view = 0 /\ entry = 0 /\ count = 0 /\ vexPage = 0
    /\ used \in SUBSET (IF fsOk THEN SlotIds ELSE {})
    /\ mode = "key" /\ pcol = 0 /\ input = << >> /\ rlShift = FALSE
    /\ entered = << >>

-----------------------------------------------------------------------------
(* The terminal's line editor. *)

SetInput(s) == line' = s /\ col' = 2 + Len(s) /\ row' = row

HistoryUp ==
    IF nav < AtMost(histN, HistSlots)
    THEN nav' = nav + 1 /\ SetInput(Recent(nav + 1))
    ELSE UNCHANGED <<nav, edit>>

HistoryDown ==
    \/ nav > 1 /\ nav' = nav - 1 /\ SetInput(Recent(nav - 1))
    \/ nav <= 1 /\ nav' = 0 /\ SetInput(<< >>)

ArrowKey(sc) ==
    /\ ext' = FALSE
    /\ \/ sc = "up" /\ HistoryUp
       \/ sc = "down" /\ HistoryDown
       \/ sc \notin {"up", "down"} /\ UNCHANGED <<nav, edit>>
    /\ UNCHANGED <<shift, app, hist, histN, browser, program, used, entered>>

ShiftKey(sc) ==
    /\ shift' = (sc = "shiftDown")
    /\ UNCHANGED <<ext, app, edit, history, browser, program, used, entered>>

Backspace ==
    /\ IF Len(line) > 0
       THEN line' = Front(line) /\ col' = col - 1
       ELSE UNCHANGED <<line, col>>
    /\ UNCHANGED <<row, decode, history, browser, program, used, entered>>

(* Mutant: one character more than the buffer holds. *)
RoomForOneMore == Len(line) <= MaxLine
RoomInLine == Len(line) < MaxLine

TypeChar(sc) ==
    /\ IF RoomInLine
       THEN /\ nav' = 0 /\ line' = Append(line, <<sc, shift>>) /\ col' = col + 1
       ELSE UNCHANGED <<nav, line, col>>
    /\ UNCHANGED <<row, hist, histN, decode, browser, program, used, entered>>

(* A fresh prompt line after a command that left the cursor on row r. *)
(* Mutant: the line is not emptied. *)
NewPromptOldLine(r) == UNCHANGED line /\ col' = 2 /\ row' = r
NewPrompt(r) == line' = << >> /\ col' = 2 /\ row' = r

HistStore ==
    IF Len(line) > 0
    THEN /\ hist' = [hist EXCEPT ![histN % HistSlots] = line]
         /\ histN' = histN + 1
         /\ entered' = Append(entered, line)
    ELSE UNCHANGED <<hist, histN, entered>>

(* What run_command may change here: the table, through `write', `rm' and  *)
(* the lines of a script, and the row, through what it prints and clears.  *)
CommandEffect ==
    /\ used' \in IF fsOk THEN SUBSET SlotIds ELSE {{}}
    /\ \E r \in 0 .. LastRow : NewPrompt(Feed(r, 1))

Enter ==
    /\ Len(entered) < MaxCommands
    /\ HistStore /\ nav' = 0
    /\ \/ /\ Len(line) = 0
          /\ NewPrompt(Feed(row, 1)) /\ UNCHANGED <<used, program>>
       \/ /\ Len(line) > 0
          /\ CommandEffect /\ UNCHANGED program
       \/ /\ Len(line) > 0                      \* clear
          /\ NewPrompt(0) /\ UNCHANGED <<used, program>>
       \/ /\ Len(line) > 0                      \* exec: the program runs
          /\ mode' = "program" /\ pcol' = 0 /\ row' = Feed(row, 1)
          /\ UNCHANGED <<line, col, used, input, rlShift>>
    /\ UNCHANGED <<decode, browser>>

-----------------------------------------------------------------------------
(* The other applications. *)

(* files_draw counts the files whenever it draws the list. *)
FilesDraw == count' = IF fsOk /\ view' = 0 THEN Cardinality(used) ELSE count

(* files_selected_entry: the sel-th used entry, or 64. *)
SelectedEntry ==
    LET here == {i \in used : Cardinality({j \in used : j < i}) = sel}
    IN  IF here = {} THEN Slots ELSE CHOOSE i \in here : TRUE

FilesMove(sc) ==
    /\ ext' = FALSE
    /\ \/ sc = "up" /\ sel > 0 /\ sel' = sel - 1
       \/ sc = "down" /\ sel + 1 < count /\ sel' = sel + 1
       \/ /\ ~(sc = "up" /\ sel > 0) /\ ~(sc = "down" /\ sel + 1 < count)
          /\ UNCHANGED sel
    /\ UNCHANGED <<view, entry>>
    /\ IF sel' # sel THEN FilesDraw ELSE UNCHANGED count

FilesOpen ==
    /\ IF SelectedEntry = Slots
       THEN UNCHANGED <<entry, view, count>>
       ELSE entry' = SelectedEntry /\ view' = 1 /\ FilesDraw
    /\ UNCHANGED <<sel, ext>>

FilesBack == view' = 0 /\ FilesDraw /\ UNCHANGED <<sel, entry, ext>>

FilesKey(sc) ==
    /\ \/ sc = "e0" /\ ext' = TRUE /\ UNCHANGED <<sel, view, entry, count>>
       \/ sc # "e0" /\ ext /\ FilesMove(sc)
       \/ sc = "enter" /\ ~ext /\ FilesOpen
       \/ sc = "esc" /\ ~ext /\ FilesBack
       \/ /\ sc \notin {"e0", "enter", "esc"} /\ ~ext
          /\ UNCHANGED <<sel, view, entry, count, ext>>
    /\ UNCHANGED <<shift, app, edit, history, vexPage, program, used, entered>>

VexKey(sc) ==
    /\ vexPage' = CASE sc = "1" -> 0 [] sc = "2" -> 1 [] OTHER -> vexPage
    /\ UNCHANGED <<decode, edit, history, sel, view, entry, count, program, used,
                   entered>>

(* Mutant: Files keeps the selection it had. *)
FilesResetView == view' = 0 /\ UNCHANGED sel
FilesReset == view' = 0 /\ sel' = 0

SwitchApp(a) ==
    /\ app' = a
    /\ IF a = Terminal
       THEN NewPrompt(2) /\ pcol' = 0
       ELSE UNCHANGED <<edit, pcol>>
    /\ IF a = Files
       THEN FilesReset /\ FilesDraw
       ELSE UNCHANGED <<view, sel, count>>
    /\ UNCHANGED <<shift, ext, history, entry, vexPage, mode, input, rlShift, used,
                   entered>>

-----------------------------------------------------------------------------
(* on_key: function keys first, then the application, then the terminal.   *)

AppOf(sc) == CASE sc = "f1" -> Terminal [] sc = "f2" -> Files [] sc = "f3" -> Vex
Functions == {"f1", "f2", "f3"}

TerminalKey(sc) ==
    \/ /\ sc = "e0" /\ ext' = TRUE
       /\ UNCHANGED <<shift, app, edit, history, browser, program, used, entered>>
    \/ sc # "e0" /\ ext /\ ArrowKey(sc)
    \/ ~ext /\ sc \in {"shiftDown", "shiftUp"} /\ ShiftKey(sc)
    \/ ~ext /\ sc = "enter" /\ Enter
    \/ ~ext /\ sc = "backspace" /\ Backspace
    \/ ~ext /\ sc \in Printable /\ TypeChar(sc)
    \/ /\ ~ext /\ sc \in {"esc", "f1", "f2", "f3"}      \* no character
       /\ UNCHANGED <<decode, edit, history, browser, program, used, entered>>

OnKey(sc) ==
    /\ mode = "key"
    /\ \/ gfx /\ sc \in Functions /\ SwitchApp(AppOf(sc))
       \/ ~(gfx /\ sc \in Functions) /\ app = Files /\ FilesKey(sc)
       \/ ~(gfx /\ sc \in Functions) /\ app = Vex /\ VexKey(sc)
       \/ ~(gfx /\ sc \in Functions) /\ app = Terminal /\ TerminalKey(sc)

-----------------------------------------------------------------------------
(* A program: int 0x80 with the mailbox, see on_syscall. *)

(* One character of print_inline (syscalls 1 and 2). *)
PrintChar ==
    /\ mode = "program"
    /\ IF pcol >= Width
       THEN row' = Feed(row, 1) /\ pcol' = 1
       ELSE row' = row /\ pcol' = pcol + 1
    /\ UNCHANGED <<machine, second, decode, line, col, history, browser, mode, input, rlShift,
                   used, entered>>

PrintNewline ==
    /\ mode = "program"
    /\ row' = Feed(row, 1) /\ pcol' = 0
    /\ UNCHANGED <<machine, second, decode, line, col, history, browser, mode, input, rlShift,
                   used, entered>>

ReadLineStarts ==
    /\ mode = "program"
    /\ mode' = "readline"
    /\ UNCHANGED <<machine, second, decode, edit, history, browser, pcol, input, rlShift, used,
                   entered>>

(* read_line polls one byte; it knows neither 0xE0 nor the function keys. *)
ReadLineKey(sc) ==
    /\ mode = "readline"
    /\ \/ /\ sc \in {"shiftDown", "shiftUp"} /\ rlShift' = (sc = "shiftDown")
          /\ UNCHANGED <<row, mode, pcol, input>>
       \/ /\ sc = "enter"
          /\ row' = Feed(row, 1) /\ pcol' = 0
          /\ mode' = "program" /\ input' = << >> /\ rlShift' = FALSE
       \/ /\ sc = "backspace" /\ Len(input) > 0
          /\ input' = Front(input) /\ pcol' = (IF pcol > 0 THEN pcol - 1 ELSE 0)
          /\ UNCHANGED <<row, mode, rlShift>>
       \/ /\ sc \in Printable /\ Len(input) < MaxInput
          /\ input' = Append(input, <<sc, rlShift>>) /\ pcol' = pcol + 1
          /\ UNCHANGED <<row, mode, rlShift>>
       \/ /\ \/ sc \notin {"shiftDown", "shiftUp", "enter", "backspace"} \cup Printable
             \/ sc = "backspace" /\ input = << >>
             \/ sc \in Printable /\ Len(input) >= MaxInput
          /\ UNCHANGED <<row, program>>
    /\ UNCHANGED <<decode, line, col, history, browser, used, entered>>

(* The program returns to exec_file, to the rest of the script when one    *)
(* started it, and to on_key's last lines.                                 *)
ProgramExits ==
    /\ mode = "program"
    /\ mode' = "key" /\ CommandEffect
    /\ UNCHANGED <<machine, second, decode, history, browser, pcol, input, rlShift, entered>>

-----------------------------------------------------------------------------
(* The keyboard sends a byte: an arrow is two, as is the keypad's Enter;   *)
(* Shift is sent at both ends, again and again while it is held.           *)

Single == Printable \cup Functions
            \cup {"enter", "backspace", "esc", "shiftDown", "shiftUp"}
SecondByte == {"up", "down", "enter", "otherExt"}

Byte(sc) ==
    /\ \/ ~second /\ sc \in Single /\ UNCHANGED second
       \/ ~second /\ sc = "e0" /\ second' = TRUE
       \/ second /\ sc \in SecondByte /\ second' = FALSE
    /\ UNCHANGED machine

Key == \E sc \in Single \cup SecondByte \cup {"e0"} :
          Byte(sc) /\ (OnKey(sc) \/ ReadLineKey(sc))

Next == Key \/ PrintChar \/ PrintNewline \/ ReadLineStarts \/ ProgramExits

Spec == Init /\ [][Next]_vars

-----------------------------------------------------------------------------
(* Properties. *)

TypeOK ==
    /\ gfx \in BOOLEAN /\ fsOk \in BOOLEAN /\ second \in BOOLEAN /\ shift \in BOOLEAN /\ ext \in BOOLEAN
    /\ app \in {Terminal, Files, Vex} /\ mode \in {"key", "program", "readline"}
    /\ line \in Seq(Chars) /\ Len(line) <= MaxLine /\ row \in 0 .. LastRow
    /\ \A k \in 0 .. HistSlots - 1 : hist[k] \in Seq(Chars) /\ Len(hist[k]) <= MaxLine
    /\ nav \in 0 .. HistSlots
    /\ input \in Seq(Chars) /\ Len(input) <= MaxInput /\ pcol \in Nat
    /\ used \in SUBSET SlotIds /\ view \in 0 .. 1 /\ vexPage \in 0 .. 1

(* Up and Down show the command that many entries back, also when the ring *)
(* has wrapped (hist_slot, hist_store).                                    *)
RecallIsRecent ==
    [][nav' # nav /\ nav' > 0 => line' = entered[Len(entered) + 1 - nav']]_vars

(* The cursor stands behind the line being edited and inside the row,      *)
(* whatever mix of typing, recall, programs and switches led there.        *)
CursorFollowsLine ==
    mode = "key" => col = 2 + Len(line) /\ col <= Width - 2

(* While Files is in front its selection and the file it shows exist,      *)
(* although the terminal may have removed files since it was last shown.   *)
FilesSelectionExists ==
    app = Files =>
        /\ view = 1 => entry \in used
        /\ fsOk => count = Cardinality(used)
        /\ fsOk /\ used # {} => SelectedEntry \in used

=============================================================================

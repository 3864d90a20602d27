--------------------------- MODULE DesktopProofs ----------------------------
(***************************************************************************)
(* Proofs about Desktop for every keyboard, every size of the screen, the  *)
(* line and the history, every file table and every number of commands.    *)
(***************************************************************************)
EXTENDS Desktop, NaturalsInduction, WellFoundedInduction, SequenceTheorems,
        FiniteSetTheorems, TLAPS

-----------------------------------------------------------------------------
(* The inductive invariant. *)

Lines == {s \in Seq(Chars) : Len(s) <= MaxLine}

Types ==
    /\ TypeOK
    /\ hist \in [0 .. HistSlots - 1 -> Lines] /\ histN \in Nat
    /\ entered \in Seq(Lines) /\ sel \in Nat /\ count \in Nat /\ rlShift \in BOOLEAN

(* The terminal's cursor is behind its line.                               *)
Cursor == mode = "key" => col = 2 + Len(line)

(* A program runs in the terminal only, so that the table changes only     *)
(* while the terminal is in front; Files counts what there is.             *)
Browser ==
    /\ mode # "key" => app = Terminal
    /\ ~fsOk => used = {}
    /\ app = Files =>
          /\ view = 1 => entry \in used
          /\ fsOk => count = Cardinality(used) /\ (sel = 0 \/ sel < count)

(* The ring holds the last commands that were entered.                     *)
Ring ==
    /\ histN = Len(entered) /\ nav <= AtMost(histN, HistSlots)
    /\ \A m \in Nat : m < histN /\ m >= histN - HistSlots => hist[m % HistSlots] = entered[m + 1]

Inv == Types /\ Cursor /\ Browser /\ Ring

-----------------------------------------------------------------------------
(* Numbers. *)

(* A set of numbers that is not empty has a least one.                     *)
LEMMA Least ==
    ASSUME NEW T \in SUBSET Nat, T # {}
    PROVE  \E n \in T : \A m \in T : n <= m
<1> DEFINE R == {ss \in Nat \X Nat : ss[1] < ss[2]}
<1>1. IsWellFoundedOn(R, Nat)
    BY NatLessThanWellFounded DEF OpToRel
<1> HIDE DEF R
<1>2. PICK n \in T : \A m \in T : ~(<<m, n>> \in R)
    BY <1>1, WFMin
<1>3. ASSUME NEW m \in T, ~(n <= m)
      PROVE  FALSE
    <2>1. <<m, n>> \in R
        BY <1>3 DEF R
    <2>2. QED BY <1>2, <2>1
<1>4. QED BY <1>3

(* A finite set of numbers that is not empty has a greatest one.           *)
LEMMA Greatest ==
    ASSUME NEW S \in SUBSET Nat, IsFiniteSet(S), S # {}
    PROVE  \E x \in S : \A y \in S : y <= x
<1> DEFINE Top(R) == \E x \in R : \A y \in R : y <= x
           T == {n \in Nat : \E R \in SUBSET Nat :
                                IsFiniteSet(R) /\ Cardinality(R) = n /\ R # {} /\ ~Top(R)}
<1>1. T = {}
    <2> SUFFICES ASSUME T # {}
                 PROVE  FALSE
        OBVIOUS
    <2>1. PICK n \in T : \A m \in T : n <= m
        <3>1. T \in SUBSET Nat
            OBVIOUS
        <3> HIDE DEF T
        <3>2. QED BY <3>1, Least
    <2>2. n \in Nat
        OBVIOUS
    <2>3. PICK R \in SUBSET Nat : IsFiniteSet(R) /\ Cardinality(R) = n /\ R # {} /\ ~Top(R)
        BY <2>1
    <2>4. PICK z \in R : TRUE
        BY <2>3
    <2> DEFINE Q == R \ {z}
    <2>5. IsFiniteSet(Q) /\ Cardinality(Q) = n - 1 /\ n - 1 \in Nat
        <3>1. IsFiniteSet(Q) /\ Cardinality(Q) = n - 1
            BY <2>3, <2>4, FS_RemoveElement
        <3>2. Cardinality(Q) \in Nat
            BY <3>1, FS_CardinalityType
        <3>3. QED BY <3>1, <3>2
    <2>6. Q = {} \/ Top(Q)
        <3>1. n - 1 \notin T
            <4> HIDE DEF T
            <4>1. QED BY <2>1, <2>2, <2>5
        <3>2. Q \in SUBSET Nat
            OBVIOUS
        <3> HIDE DEF Q, Top
        <3>3. QED BY <2>5, <3>1, <3>2
    <2>7. CASE Q = {}
        BY <2>3, <2>4, <2>7
    <2>8. ASSUME NEW x \in Q, \A y \in Q : y <= x
          PROVE  Top(R)
        <3>1. x \in Nat /\ z \in Nat
            OBVIOUS
        <3>2. CASE x <= z
            BY <2>4, <2>8, <3>1, <3>2
        <3>3. CASE z <= x
            BY <2>4, <2>8, <3>1, <3>3
        <3>4. QED BY <3>1, <3>2, <3>3
    <2>9. QED BY <2>3, <2>6, <2>7, <2>8
<1>2. Cardinality(S) \in Nat
    BY FS_CardinalityType
<1>3. QED BY <1>1, <1>2

-----------------------------------------------------------------------------
(* Lines, the ring, and the places in the file table. *)

(* Lines keep within the buffer when they are cut, emptied or added to.    *)
LEMMA LineIs ==
    ASSUME NEW s \in Seq(Chars)
    PROVE  /\ Len(s) \in Nat /\ (s = << >> <=> Len(s) = 0)
           /\ s # << >> => Front(s) \in Seq(Chars) /\ Len(Front(s)) = Len(s) - 1
           /\ \A c \in Chars : Append(s, c) \in Seq(Chars) /\ Len(Append(s, c)) = Len(s) + 1
<1>1. Len(s) \in Nat /\ (s = << >> <=> Len(s) = 0)
    BY EmptySeq, LenProperties
<1>2. ASSUME s # << >>
      PROVE  Front(s) \in Seq(Chars) /\ Len(Front(s)) = Len(s) - 1
    <2>1. SubSeq(s, 1, Len(s) - 1) \in Seq(Chars) /\ Len(SubSeq(s, 1, Len(s) - 1)) = Len(s) - 1
        <3> DEFINE n == Len(s) - 1
        <3>1. n \in Nat
            <4>1. Len(s) \in Nat /\ Len(s) # 0
                BY <1>1, <1>2
            <4>2. QED BY <4>1
        <3>2. \A i \in 1 .. n : s[i] \in Chars
            <4>1. s \in [1 .. Len(s) -> Chars] /\ Len(s) \in Nat
                BY LenProperties
            <4>2. \A i \in 1 .. n : i \in 1 .. Len(s)
                BY <4>1
            <4>3. QED BY <4>1, <4>2
        <3> HIDE DEF n
        <3>3. SubSeq(s, 1, n) \in Seq(Chars)
              /\ Len(SubSeq(s, 1, n)) = IF 1 <= n THEN n - 1 + 1 ELSE 0
            BY <3>1, <3>2, SubSeqProperties
        <3>4. SubSeq(s, 1, n) \in Seq(Chars) /\ Len(SubSeq(s, 1, n)) = n
            BY <3>1, <3>3
        <3>5. QED BY <3>4 DEF n
    <2>2. QED BY <2>1 DEF Front
<1>3. \A c \in Chars : Append(s, c) \in Seq(Chars) /\ Len(Append(s, c)) = Len(s) + 1
    BY AppendProperties
<1>4. QED BY <1>1, <1>2, <1>3

(* The empty line is a line.                                               *)
LEMMA EmptyLine == << >> \in Seq(Chars) /\ Len(<< >>) = 0 /\ << >> \in Lines
BY EmptySeq, SizesAssumption DEF Lines

(* Feeding lines scrolls: the row stays on the screen.                     *)
LEMMA FeedIs ==
    ASSUME NEW r \in 0 .. LastRow, NEW n \in Nat
    PROVE  Feed(r, n) \in 0 .. LastRow
BY SizesAssumption DEF Feed, AtMost

(* Two numbers less than a ring apart have different slots in it.          *)
LEMMA SlotsDiffer ==
    ASSUME NEW n \in Nat, NEW m \in Nat, m < n, n - m < HistSlots
    PROVE  m % HistSlots # n % HistSlots
<1>1. HistSlots \in Nat /\ HistSlots > 0
    BY SizesAssumption
<1>2. \A a \in Nat, d \in Nat : d > 0 => a \div d \in Nat /\ a = d * (a \div d) + (a % d)
    OBVIOUS
<1>3. SUFFICES ASSUME m % HistSlots = n % HistSlots
               PROVE  FALSE
    OBVIOUS
<1>4. PICK q \in Nat : n = HistSlots * q + (n % HistSlots)
    BY <1>1, <1>2
<1>5. PICK r \in Nat : m = HistSlots * r + (m % HistSlots)
    BY <1>1, <1>2
<1>6. n % HistSlots \in Int
    BY <1>1
<1>7. HistSlots * q \in Int /\ HistSlots * r \in Int
    BY <1>1
<1>8. n - m = HistSlots * q - HistSlots * r
    <2> DEFINE a == HistSlots * q
               b == HistSlots * r
               c == n % HistSlots
    <2>1. n = a + c /\ m = b + c /\ a \in Int /\ b \in Int /\ c \in Int
        BY <1>3, <1>4, <1>5, <1>6, <1>7
    <2> HIDE DEF a, b, c
    <2>2. n - m = a - b
        BY <2>1
    <2>3. QED BY <2>2 DEF a, b
<1>9. HistSlots * q - HistSlots * r = HistSlots * (q - r)
    BY <1>1
<1>10. CASE q - r <= 0
    <2>1. HistSlots * (q - r) <= 0
        BY <1>1, <1>10
    <2>2. QED BY <1>8, <1>9, <2>1
<1>11. CASE q - r >= 1
    <2>1. HistSlots * (q - r) >= HistSlots
        BY <1>1, <1>11
    <2>2. n - m >= HistSlots
        BY <1>8, <1>9, <2>1
    <2>3. QED BY <1>1, <2>2
<1>12. QED BY <1>10, <1>11

(* hist_slot: the command that many entries back.                          *)
LEMMA RecentIs ==
    ASSUME Types, Ring, NEW k \in Nat \ {0}, k <= AtMost(histN, HistSlots)
    PROVE  Recent(k) = entered[Len(entered) + 1 - k] /\ Recent(k) \in Lines
<1>1. histN \in Nat /\ HistSlots \in Nat /\ HistSlots > 0 /\ k <= histN /\ k <= HistSlots
    BY SizesAssumption DEF AtMost, Types
<1> DEFINE m == histN - k
<1>2. m \in Nat /\ m < histN /\ m >= histN - HistSlots /\ m + 1 = histN + 1 - k
    BY <1>1
<1>3. m % HistSlots \in 0 .. HistSlots - 1
    BY <1>1, <1>2
<1>4. hist[m % HistSlots] = entered[m + 1] /\ histN = Len(entered)
    BY <1>2 DEF Ring
<1>5. Recent(k) = hist[m % HistSlots]
    BY DEF Recent
<1> HIDE DEF m
<1>6. hist[m % HistSlots] \in Lines
    BY <1>3 DEF Types
<1>7. QED BY <1>2, <1>4, <1>5, <1>6

(* The used entries before entry i.                                        *)
Before(S, i) == {j \in S : j < i}

(* Every place below the number of used entries is one of them: the one    *)
(* with as many used entries before it.                                    *)
LEMMA PlaceExists ==
    ASSUME NEW U \in SUBSET Nat, IsFiniteSet(U), NEW k \in Nat, k < Cardinality(U)
    PROVE  \E i \in U : Cardinality(Before(U, i)) = k
<1> DEFINE Good(S) == \A l \in Nat : l < Cardinality(S) => \E i \in S : Cardinality(Before(S, i)) = l
           T == {n \in Nat : \E S \in SUBSET Nat : IsFiniteSet(S) /\ Cardinality(S) = n /\ ~Good(S)}
<1>1. T = {}
    <2> SUFFICES ASSUME T # {}
                 PROVE  FALSE
        OBVIOUS
    <2>1. PICK n \in T : \A m \in T : n <= m
        <3>1. T \in SUBSET Nat
            OBVIOUS
        <3> HIDE DEF T
        <3>2. QED BY <3>1, Least
    <2>2. n \in Nat
        OBVIOUS
    <2>3. PICK S \in SUBSET Nat : IsFiniteSet(S) /\ Cardinality(S) = n /\ ~Good(S)
        BY <2>1
    <2>4. S # {}
        <3>1. CASE S = {}
            <4>1. Cardinality(S) = 0
                BY <3>1, FS_EmptySet
            <4>2. Good(S)
                BY <4>1
            <4>3. QED BY <2>3, <4>2
        <3>2. QED BY <3>1
    <2>5. PICK x \in S : \A y \in S : y <= x
        BY <2>3, <2>4, Greatest
    <2> DEFINE R == S \ {x}
    <2>6. IsFiniteSet(R) /\ Cardinality(R) = n - 1 /\ n - 1 \in Nat
        <3>1. IsFiniteSet(R) /\ Cardinality(R) = n - 1
            BY <2>3, <2>5, FS_RemoveElement
        <3>2. Cardinality(R) \in Nat
            BY <3>1, FS_CardinalityType
        <3>3. QED BY <3>1, <3>2
    <2>7. Good(R)
        <3>1. n - 1 \notin T
            <4> HIDE DEF T
            <4>1. QED BY <2>1, <2>2, <2>6
        <3>2. R \in SUBSET Nat
            OBVIOUS
        <3> HIDE DEF R, Good
        <3>3. QED BY <2>6, <3>1, <3>2
    <2>8. \A y \in R : y < x /\ y \in Nat
        BY <2>5
    <2>9. Before(S, x) = R
        <3>1. x \in Nat /\ x \in S
            BY <2>5
        <3>2. \A j \in S : j < x <=> j \in R
            BY <2>8, <3>1
        <3> HIDE DEF R
        <3>3. R \in SUBSET S
            BY DEF R
        <3>4. QED BY <3>2, <3>3 DEF Before
    <2>10. \A i \in R : Before(S, i) = Before(R, i)
        BY <2>8 DEF Before
    <2>11. Good(S)
        <3> SUFFICES ASSUME NEW l \in Nat, l < Cardinality(S)
                     PROVE  \E i \in S : Cardinality(Before(S, i)) = l
            OBVIOUS
        <3>1. CASE l = n - 1
            BY <2>5, <2>6, <2>9, <3>1
        <3>2. CASE l # n - 1
            <4>1. l < Cardinality(R)
                BY <2>2, <2>3, <2>6, <3>2
            <4>2. PICK i \in R : Cardinality(Before(R, i)) = l
                BY <2>7, <4>1
            <4>3. QED BY <2>10, <4>2
        <3>3. QED BY <3>1, <3>2
    <2>12. QED BY <2>3, <2>11
<1>2. Cardinality(U) \in Nat
    BY FS_CardinalityType
<1>3. QED BY <1>1, <1>2

(* files_selected_entry finds a used entry when the selection is in range. *)
LEMMA SelectedIsUsed ==
    ASSUME Types, used # {}, sel = 0 \/ sel < Cardinality(used)
    PROVE  SelectedEntry \in used
<1>1. used \in SUBSET SlotIds /\ sel \in Nat /\ SlotIds \in SUBSET Nat /\ IsFiniteSet(SlotIds)
    <2>1. 0 \in Int /\ Slots - 1 \in Int
        BY SizesAssumption
    <2>2. IsFiniteSet(0 .. Slots - 1)
        BY <2>1, FS_Interval
    <2>3. QED BY <2>2 DEF Types, TypeOK, SlotIds
<1>2. IsFiniteSet(used) /\ used \in SUBSET Nat
    BY <1>1, FS_Subset
<1>3. Cardinality(used) \in Nat /\ Cardinality(used) # 0
    BY <1>2, FS_CardinalityType, FS_EmptySet
<1>4. sel < Cardinality(used)
    BY <1>3
<1>5. \E i \in used : Cardinality(Before(used, i)) = sel
    BY <1>1, <1>2, <1>4, PlaceExists
<1>6. \E i \in used : Cardinality({j \in used : j < i}) = sel
    BY <1>5 DEF Before
<1>7. QED BY <1>6 DEF SelectedEntry

-----------------------------------------------------------------------------
(* Every step keeps the invariant. *)

(* A byte of the keyboard leaves the machine as it is.                     *)
Env == gfx' = gfx /\ fsOk' = fsOk /\ second' \in BOOLEAN

(* What each handler must show: the types, the cursor, Files, the ring.    *)
LEMMA InvIs ==
    ASSUME Types', Cursor', Browser', Ring'
    PROVE  Inv'
BY DEF Inv

(* Handlers that leave Files and the ring alone.                           *)
LEMMA ElsewhereKept ==
    ASSUME Inv, Env, UNCHANGED <<app, mode, used, sel, view, entry, count, hist, histN, entered>>,
           nav' <= nav, nav' \in Nat
    PROVE  Browser' /\ Ring'
<1>1. Browser /\ Ring /\ nav \in Nat /\ histN \in Nat /\ HistSlots \in Nat
    BY SizesAssumption DEF Inv, Types, TypeOK
<1>2. Browser'
    BY <1>1 DEF Browser, Env
<1>3. nav' <= AtMost(histN', HistSlots)
    BY <1>1 DEF Ring, AtMost
<1>4. QED BY <1>1, <1>2, <1>3 DEF Ring

(* The arrows, Shift, backspace and characters of the line editor.         *)
LEMMA ArrowStep ==
    ASSUME Inv, Env, NEW sc, ArrowKey(sc)
    PROVE  Inv'
<1>1. Types /\ Cursor /\ Browser /\ Ring /\ TypeOK
    BY DEF Inv, Types
<1>2. nav \in Nat /\ histN \in Nat /\ HistSlots \in Nat \ {0} /\ row \in 0 .. LastRow
      /\ nav <= AtMost(histN, HistSlots)
    BY <1>1, SizesAssumption DEF Types, TypeOK, Ring
<1>3. /\ ext' = FALSE
      /\ UNCHANGED <<shift, app, hist, histN, sel, view, entry, count, vexPage,
                     mode, pcol, input, rlShift, used, entered>>
    BY DEF ArrowKey, browser, program
<1>4. \/ nav' = nav /\ line' = line /\ col' = col /\ row' = row
      \/ \E s \in Lines : SetInput(s) /\ nav' \in Nat /\ nav' <= AtMost(histN, HistSlots)
    <2>1. CASE HistoryUp
        <3>1. CASE nav < AtMost(histN, HistSlots)
            <4>1. nav + 1 <= AtMost(histN, HistSlots) /\ nav + 1 \in Nat \ {0}
                BY <1>2, <3>1 DEF AtMost
            <4>2. Recent(nav + 1) \in Lines
                BY <1>1, <4>1, RecentIs
            <4>3. nav' = nav + 1 /\ SetInput(Recent(nav + 1))
                BY <2>1, <3>1 DEF HistoryUp
            <4>4. QED BY <4>1, <4>2, <4>3
        <3>2. CASE ~(nav < AtMost(histN, HistSlots))
            BY <2>1, <3>2 DEF HistoryUp, edit
        <3>3. QED BY <3>1, <3>2
    <2>2. CASE HistoryDown
        <3>1. CASE nav > 1 /\ nav' = nav - 1 /\ SetInput(Recent(nav - 1))
            <4>1. nav - 1 <= AtMost(histN, HistSlots) /\ nav - 1 \in Nat \ {0}
                BY <1>2, <3>1 DEF AtMost
            <4>2. Recent(nav - 1) \in Lines
                BY <1>1, <4>1, RecentIs
            <4>3. QED BY <3>1, <4>1, <4>2
        <3>2. CASE nav <= 1 /\ nav' = 0 /\ SetInput(<< >>)
            BY <1>2, <3>2, EmptyLine DEF AtMost
        <3>3. QED BY <2>2, <3>1, <3>2 DEF HistoryDown
    <2>3. CASE UNCHANGED <<nav, edit>>
        BY <2>3 DEF edit
    <2>4. QED BY <2>1, <2>2, <2>3 DEF ArrowKey
<1>5. /\ line' \in Seq(Chars) /\ Len(line') <= MaxLine /\ row' = row
      /\ nav' \in Nat /\ nav' <= AtMost(histN, HistSlots) /\ nav' \in 0 .. HistSlots
      /\ mode = "key" => col' = 2 + Len(line')
    <2>1. nav' \in Nat /\ nav' <= AtMost(histN, HistSlots) => nav' \in 0 .. HistSlots
        BY <1>2 DEF AtMost
    <2>2. QED BY <1>1, <1>2, <1>4, <2>1 DEF TypeOK, Lines, SetInput, Cursor
<1>6. Types'
    BY <1>1, <1>3, <1>5 DEF Types, TypeOK, Env
<1>7. Cursor'
    BY <1>3, <1>5 DEF Cursor
<1>8. Browser'
    BY <1>1, <1>3 DEF Browser, Env
<1>9. Ring'
    BY <1>1, <1>3, <1>5 DEF Ring
<1>10. QED BY <1>6, <1>7, <1>8, <1>9, InvIs

(* A Shift key, Backspace and a printed character keep the invariant: the  *)
(* cursor moves with the line.                                             *)
LEMMA LineStep ==
    ASSUME Inv, Env, NEW sc, ShiftKey(sc) \/ Backspace \/ (sc \in Printable /\ TypeChar(sc))
    PROVE  Inv'
<1>1. Types /\ Cursor /\ TypeOK /\ line \in Seq(Chars) /\ Len(line) <= MaxLine /\ nav \in Nat
      /\ Len(line) \in Nat /\ MaxLine \in Nat /\ HistSlots \in Nat
    BY SizesAssumption, LenProperties DEF Inv, Types, TypeOK
<1>2. /\ UNCHANGED <<row, app, hist, histN, sel, view, entry, count, vexPage, mode, pcol, input,
                     rlShift, used, entered, ext>>
      /\ shift' \in BOOLEAN
    <2>1. (sc = "shiftDown") \in BOOLEAN
        BY Zenon
    <2>2. CASE ShiftKey(sc)
        BY <2>1, <2>2 DEF ShiftKey, edit, history, browser, program
    <2>3. CASE Backspace
        BY <1>1, <2>3 DEF Backspace, decode, history, browser, program, TypeOK
    <2>4. CASE TypeChar(sc)
        BY <1>1, <2>4 DEF TypeChar, decode, browser, program, TypeOK
    <2>5. QED BY <2>2, <2>3, <2>4
<1>3. /\ line' \in Seq(Chars) /\ Len(line') <= MaxLine
      /\ nav' \in {0, nav}
      /\ mode = "key" => col' = 2 + Len(line')
    <2>1. CASE line' = line /\ col' = col /\ nav' \in {0, nav}
        BY <1>1, <2>1 DEF Cursor
    <2>2. CASE Backspace /\ Len(line) > 0
        <3>1. line' = Front(line) /\ col' = col - 1 /\ nav' = nav /\ line # << >>
            BY <1>1, <2>2, LineIs DEF Backspace, history
        <3>2. line' \in Seq(Chars) /\ Len(line') = Len(line) - 1
            BY <1>1, <3>1, LineIs
        <3>3. QED BY <1>1, <3>1, <3>2 DEF Cursor
    <2>3. CASE sc \in Printable /\ TypeChar(sc) /\ Len(line) < MaxLine
        <3>1. line' = Append(line, <<sc, shift>>) /\ col' = col + 1 /\ nav' = 0
            BY <2>3 DEF TypeChar, RoomInLine
        <3>2. <<sc, shift>> \in Chars
            BY <1>1, <2>3 DEF Chars, TypeOK
        <3>3. line' \in Seq(Chars) /\ Len(line') = Len(line) + 1
            BY <1>1, <3>1, <3>2, LineIs
        <3>4. QED BY <1>1, <2>3, <3>1, <3>3 DEF Cursor
    <2>4. CASE ShiftKey(sc)
        BY <2>1, <2>4 DEF ShiftKey, edit, history
    <2>5. CASE Backspace /\ ~(Len(line) > 0)
        BY <2>1, <2>5 DEF Backspace, history
    <2>6. CASE TypeChar(sc) /\ ~(Len(line) < MaxLine)
        BY <2>1, <2>6 DEF TypeChar, RoomInLine
    <2>7. QED BY <2>2, <2>3, <2>4, <2>5, <2>6
<1>4. nav' \in 0 .. HistSlots /\ nav' <= nav /\ nav' \in Nat
    BY <1>1, <1>3 DEF TypeOK
<1>5. Types'
    BY <1>1, <1>2, <1>3, <1>4 DEF Types, TypeOK, Env
<1>6. Cursor'
    BY <1>2, <1>3 DEF Cursor
<1>7. QED BY <1>2, <1>4, <1>5, <1>6, ElsewhereKept, InvIs

(* A command that is entered becomes the first of the ring.                *)
LEMMA StoreStep ==
    ASSUME Types, Ring, HistStore, nav' = 0
    PROVE  /\ Ring' /\ hist' \in [0 .. HistSlots - 1 -> Lines] /\ histN' \in Nat
           /\ entered' \in Seq(Lines)
<1>1. /\ histN \in Nat /\ HistSlots \in Nat \ {0} /\ line \in Lines /\ entered \in Seq(Lines)
      /\ hist \in [0 .. HistSlots - 1 -> Lines] /\ histN = Len(entered)
    BY SizesAssumption DEF Types, TypeOK, Lines, Ring
<1>2. CASE Len(line) > 0
    <2>1. /\ hist' = [hist EXCEPT ![histN % HistSlots] = line]
          /\ histN' = histN + 1 /\ entered' = Append(entered, line)
        BY <1>2 DEF HistStore
    <2>2. histN % HistSlots \in 0 .. HistSlots - 1
        BY <1>1
    <2>3. hist' \in [0 .. HistSlots - 1 -> Lines]
        BY <1>1, <2>1
    <2>4. /\ entered' \in Seq(Lines) /\ Len(entered') = histN + 1
          /\ entered'[histN + 1] = line
          /\ \A i \in 1 .. histN : entered'[i] = entered[i]
        BY <1>1, <2>1, AppendProperties
    <2>5. ASSUME NEW m \in Nat, m < histN + 1, m >= histN + 1 - HistSlots
          PROVE  hist'[m % HistSlots] = entered'[m + 1]
        <3>1. CASE m = histN
            BY <1>1, <2>1, <2>2, <2>4, <3>1
        <3>2. CASE m # histN
            <4>1. m < histN /\ m >= histN - HistSlots /\ histN - m < HistSlots
                BY <1>1, <2>5, <3>2
            <4>2. m % HistSlots # histN % HistSlots
                BY <1>1, <4>1, SlotsDiffer
            <4>3. m % HistSlots \in 0 .. HistSlots - 1
                BY <1>1
            <4>4. hist'[m % HistSlots] = hist[m % HistSlots]
                BY <1>1, <2>1, <4>2, <4>3
            <4>5. hist[m % HistSlots] = entered[m + 1]
                BY <4>1 DEF Ring
            <4>6. entered'[m + 1] = entered[m + 1]
                BY <1>1, <2>4, <4>1
            <4>7. QED BY <4>4, <4>5, <4>6
        <3>3. QED BY <3>1, <3>2
    <2>6. 0 <= AtMost(histN', HistSlots)
        BY <1>1, <2>1 DEF AtMost
    <2>7. Ring'
        <3>1. histN' = Len(entered') /\ nav' <= AtMost(histN', HistSlots)
            BY <2>1, <2>4, <2>6
        <3>2. ASSUME NEW m \in Nat, m < histN', m >= histN' - HistSlots
              PROVE  hist'[m % HistSlots] = entered'[m + 1]
            <4>1. m < histN + 1 /\ m >= histN + 1 - HistSlots
                BY <1>1, <2>1, <3>2
            <4>2. QED BY <2>5, <4>1
        <3>3. QED BY <3>1, <3>2 DEF Ring
    <2>8. QED BY <1>1, <2>1, <2>3, <2>4, <2>7
<1>3. CASE ~(Len(line) > 0)
    <2>1. hist' = hist /\ histN' = histN /\ entered' = entered
        BY <1>3 DEF HistStore
    <2>2. 0 <= AtMost(histN', HistSlots)
        BY <1>1, <2>1 DEF AtMost
    <2>3. QED BY <1>1, <2>1, <2>2 DEF Ring
<1>4. QED BY <1>2, <1>3

(* A command leaves a fresh prompt and a table of files.                   *)
LEMMA EffectIs ==
    ASSUME CommandEffect, fsOk' = fsOk
    PROVE  /\ used' \in SUBSET SlotIds /\ (~fsOk' => used' = {})
           /\ line' = << >> /\ col' = 2 /\ row' \in 0 .. LastRow
<1>1. used' \in IF fsOk THEN SUBSET SlotIds ELSE {{}}
    BY DEF CommandEffect
<1>2. PICK r \in 0 .. LastRow : NewPrompt(Feed(r, 1))
    BY DEF CommandEffect
<1>3. Feed(r, 1) \in 0 .. LastRow
    BY FeedIs
<1>4. QED BY <1>1, <1>2, <1>3 DEF NewPrompt

(* Enter at the prompt keeps the invariant: the line goes into the ring    *)
(* and a new prompt is drawn.                                              *)
LEMMA EnterStep ==
    ASSUME Inv, Env, app = Terminal, mode = "key", Enter
    PROVE  Inv'
<1>1. /\ Types /\ TypeOK /\ Cursor /\ Browser /\ Ring /\ row \in 0 .. LastRow
      /\ used \in SUBSET SlotIds /\ 0 \in 0 .. LastRow /\ 0 \in Nat /\ 0 \in 0 .. HistSlots
    BY SizesAssumption DEF Inv, Types, TypeOK
<1>2. /\ HistStore /\ nav' = 0
      /\ UNCHANGED <<shift, ext, app, sel, view, entry, count, vexPage>>
    BY DEF Enter, decode, browser
<1>3. /\ Ring' /\ hist' \in [0 .. HistSlots - 1 -> Lines] /\ histN' \in Nat
      /\ entered' \in Seq(Lines)
    BY <1>1, <1>2, StoreStep
<1>4. Feed(row, 1) \in 0 .. LastRow
    BY <1>1, FeedIs
<1>5. /\ line' \in Lines /\ row' \in 0 .. LastRow /\ used' \in SUBSET SlotIds
      /\ (~fsOk' => used' = {})
      /\ mode' \in {"key", "program"} /\ pcol' \in Nat /\ input' = input /\ rlShift' = rlShift
      /\ (mode' = "key" => col' = 2 + Len(line'))
    <2>1. CASE NewPrompt(Feed(row, 1)) /\ UNCHANGED <<used, program>>
        BY <1>1, <1>4, <2>1, EmptyLine DEF NewPrompt, program, Browser, Env, TypeOK
    <2>2. CASE CommandEffect /\ UNCHANGED program
        BY <1>1, <2>2, EffectIs, EmptyLine DEF program, Env, TypeOK
    <2>3. CASE NewPrompt(0) /\ UNCHANGED <<used, program>>
        BY <1>1, <2>3, EmptyLine DEF NewPrompt, program, Browser, Env, TypeOK
    <2>4. CASE /\ mode' = "program" /\ pcol' = 0 /\ row' = Feed(row, 1)
               /\ UNCHANGED <<line, col, used, input, rlShift>>
        BY <1>1, <1>4, <2>4 DEF Browser, Env, TypeOK, Lines
    <2>5. QED BY <2>1, <2>2, <2>3, <2>4 DEF Enter
<1>6. hist'[0] = hist'[0] /\ \A k \in 0 .. HistSlots - 1 : hist'[k] \in Lines
    BY <1>3
<1>7. Types'
    BY <1>1, <1>2, <1>3, <1>5, <1>6 DEF Types, TypeOK, Env, Lines
<1>8. Cursor'
    BY <1>5 DEF Cursor
<1>9. Browser'
    BY <1>1, <1>2, <1>5 DEF Browser, Terminal, Files
<1>10. QED BY <1>3, <1>7, <1>8, <1>9, InvIs

(* Only the Files browser uses the selection; moving, opening and going    *)
(* back leave a selection and a file that exist.                           *)
LEMMA FilesStep ==
    ASSUME Inv, Env, app = Files, mode = "key", NEW sc, FilesKey(sc)
    PROVE  Inv'
<1>1. /\ Types /\ TypeOK /\ Cursor /\ Browser /\ Ring /\ used \in SUBSET SlotIds
      /\ sel \in Nat /\ count \in Nat /\ view \in 0 .. 1
    BY DEF Inv, Types, TypeOK
<1>2. UNCHANGED <<shift, app, line, col, row, hist, histN, nav, vexPage, mode, pcol, input, rlShift,
                  used, entered>>
    BY DEF FilesKey, edit, history, program
<1>3. /\ view = 1 => entry \in used
      /\ fsOk => count = Cardinality(used) /\ (sel = 0 \/ sel < count)
    BY <1>1 DEF Browser
<1>4. Cardinality(used) \in Nat
    <2>1. IsFiniteSet(SlotIds)
        <3>1. 0 \in Int /\ Slots - 1 \in Int
            BY SizesAssumption
        <3>2. QED BY <3>1, FS_Interval DEF SlotIds
    <2>2. QED BY <1>1, <2>1, FS_Subset, FS_CardinalityType
<1>5. /\ ext' \in BOOLEAN /\ sel' \in Nat /\ count' \in Nat /\ view' \in 0 .. 1
      /\ view' = 1 => entry' \in used
      /\ fsOk => count' = Cardinality(used) /\ (sel' = 0 \/ sel' < count')
    <2>1. CASE UNCHANGED <<sel, view, entry, count>> /\ ext' \in {ext, TRUE}
        BY <1>1, <1>3, <2>1 DEF TypeOK
    <2>2. CASE FilesMove(sc)
        <3>1. ext' = FALSE /\ view' = view /\ entry' = entry
            BY <2>2 DEF FilesMove
        <3>2. \/ sel > 0 /\ sel' = sel - 1
              \/ sel + 1 < count /\ sel' = sel + 1
              \/ sel' = sel
            BY <2>2 DEF FilesMove
        <3>3. IF sel' # sel THEN FilesDraw ELSE UNCHANGED count
            BY <2>2 DEF FilesMove
        <3>4. /\ count' = count \/ count' = Cardinality(used)
              /\ fsOk => count' = Cardinality(used)
            BY <1>2, <1>3, <3>3 DEF FilesDraw
        <3>5. sel' \in Nat
            BY <1>1, <3>2
        <3>6. fsOk => sel' = 0 \/ sel' < count'
            BY <1>1, <1>3, <3>2, <3>4
        <3>7. QED BY <1>1, <1>3, <1>4, <3>1, <3>4, <3>5, <3>6
    <2>3. CASE FilesOpen /\ ext' = ext
        <3>1. CASE SelectedEntry = Slots
            BY <1>1, <1>3, <2>3, <3>1 DEF FilesOpen, TypeOK
        <3>2. CASE SelectedEntry # Slots
            <4>1. entry' = SelectedEntry /\ view' = 1 /\ count' = count /\ sel' = sel
                BY <1>1, <2>3, <3>2 DEF FilesOpen, FilesDraw
            <4>2. SelectedEntry \in used
                BY <3>2 DEF SelectedEntry
            <4>3. QED BY <1>1, <1>3, <2>3, <4>1, <4>2 DEF TypeOK
        <3>3. QED BY <3>1, <3>2
    <2>4. CASE FilesBack /\ ext' = ext
        BY <1>1, <1>2, <1>3, <1>4, <2>4 DEF FilesBack, FilesDraw, TypeOK
    <2>5. QED BY <2>1, <2>2, <2>3, <2>4 DEF FilesKey, FilesOpen, FilesBack
<1>6. Types'
    BY <1>1, <1>2, <1>5 DEF Types, TypeOK, Env
<1>7. Cursor' /\ Ring'
    BY <1>1, <1>2 DEF Cursor, Ring
<1>8. Browser'
    BY <1>1, <1>2, <1>5 DEF Browser, Env
<1>9. QED BY <1>6, <1>7, <1>8, InvIs

(* Vex turns its pages.                                                    *)
LEMMA VexStep ==
    ASSUME Inv, Env, NEW sc, VexKey(sc)
    PROVE  Inv'
<1>1. Types /\ TypeOK /\ Cursor /\ nav \in Nat
    BY DEF Inv, Types, TypeOK
<1>2. UNCHANGED <<shift, ext, app, line, col, row, hist, histN, nav, sel, view, entry, count, mode,
                  pcol, input, rlShift, used, entered>>
    BY DEF VexKey, decode, edit, history, program
<1>3. vexPage' \in 0 .. 1
    BY <1>1 DEF VexKey, TypeOK
<1>4. Types' /\ Cursor'
    BY <1>1, <1>2, <1>3 DEF Types, TypeOK, Cursor, Env
<1>5. QED BY <1>1, <1>2, <1>4, ElsewhereKept, InvIs

(* F1 to F3: the terminal gets a fresh prompt, Files a selection that is.  *)
LEMMA SwitchStep ==
    ASSUME Inv, Env, mode = "key", NEW a \in {Terminal, Files, Vex}, SwitchApp(a)
    PROVE  Inv'
<1>1. /\ Types /\ TypeOK /\ Cursor /\ Browser /\ Ring /\ used \in SUBSET SlotIds
      /\ sel \in Nat /\ count \in Nat /\ view \in 0 .. 1 /\ nav \in Nat /\ row \in 0 .. LastRow
    BY DEF Inv, Types, TypeOK
<1>2. /\ app' = a
      /\ UNCHANGED <<shift, ext, hist, histN, nav, entry, vexPage, mode, input, rlShift, used,
                     entered>>
    BY DEF SwitchApp, history
<1>3. /\ line' \in Lines /\ col' = 2 + Len(line') /\ row' \in 0 .. LastRow /\ pcol' \in Nat
    <2>1. CASE a = Terminal
        <3>1. NewPrompt(2) /\ pcol' = 0
            BY <2>1 DEF SwitchApp
        <3>2. 2 \in 0 .. LastRow
            BY SizesAssumption
        <3>3. QED BY <3>1, <3>2, EmptyLine DEF NewPrompt
    <2>2. CASE a # Terminal
        BY <1>1, <2>2 DEF SwitchApp, edit, Cursor, TypeOK, Lines
    <2>3. QED BY <2>1, <2>2
<1>4. Cardinality(used) \in Nat
    <2>1. IsFiniteSet(SlotIds)
        <3>1. 0 \in Int /\ Slots - 1 \in Int
            BY SizesAssumption
        <3>2. QED BY <3>1, FS_Interval DEF SlotIds
    <2>2. QED BY <1>1, <2>1, FS_Subset, FS_CardinalityType
<1>5. /\ view' \in 0 .. 1 /\ sel' \in Nat /\ count' \in Nat
      /\ a = Files => view' = 0 /\ sel' = 0 /\ (fsOk => count' = Cardinality(used))
    <2>1. CASE a = Files
        BY <1>1, <1>2, <1>4, <2>1 DEF SwitchApp, FilesReset, FilesDraw
    <2>2. CASE a # Files
        BY <1>1, <2>2 DEF SwitchApp
    <2>3. QED BY <2>1, <2>2
<1>6. Types'
    BY <1>1, <1>2, <1>3, <1>5 DEF Types, TypeOK, Env, Lines
<1>7. Cursor' /\ Ring'
    BY <1>1, <1>2, <1>3 DEF Cursor, Ring
<1>8. Browser'
    BY <1>1, <1>2, <1>5 DEF Browser, Env
<1>9. QED BY <1>6, <1>7, <1>8, InvIs

(* A byte that a handler takes no notice of, or the first of an arrow.     *)
LEMMA NothingStep ==
    ASSUME Inv, Env, ext' \in BOOLEAN,
           UNCHANGED <<shift, app, edit, history, browser, program, used, entered>>
    PROVE  Inv'
<1>1. Types /\ TypeOK /\ Cursor /\ nav \in Nat
    BY DEF Inv, Types, TypeOK
<1>2. UNCHANGED <<shift, app, line, col, row, hist, histN, nav, sel, view, entry, count, vexPage,
                  mode, pcol, input, rlShift, used, entered>>
    BY DEF edit, history, browser, program
<1>3. Types' /\ Cursor'
    BY <1>1, <1>2 DEF Types, TypeOK, Cursor, Env
<1>4. QED BY <1>1, <1>2, <1>3, ElsewhereKept, InvIs

(* on_key.                                                                 *)
LEMMA OnKeyStep ==
    ASSUME Inv, Env, NEW sc, OnKey(sc)
    PROVE  Inv'
<1>1. mode = "key" /\ ext \in BOOLEAN
    BY DEF OnKey, Inv, Types, TypeOK
<1>2. CASE gfx /\ sc \in Functions /\ SwitchApp(AppOf(sc))
    <2>1. AppOf(sc) \in {Terminal, Files, Vex}
        BY <1>2 DEF Functions, AppOf
    <2>2. QED BY <1>1, <1>2, <2>1, SwitchStep
<1>3. CASE app = Files /\ FilesKey(sc)
    BY <1>1, <1>3, FilesStep
<1>4. CASE VexKey(sc)
    BY <1>4, VexStep
<1>5. CASE app = Terminal /\ TerminalKey(sc)
    <2>1. CASE /\ sc = "e0" /\ ext' = TRUE
               /\ UNCHANGED <<shift, app, edit, history, browser, program, used, entered>>
        BY <2>1, NothingStep
    <2>2. CASE ArrowKey(sc)
        BY <2>2, ArrowStep
    <2>3. CASE ShiftKey(sc) \/ Backspace \/ (sc \in Printable /\ TypeChar(sc))
        BY <2>3, LineStep
    <2>4. CASE Enter
        BY <1>1, <1>5, <2>4, EnterStep
    <2>5. CASE UNCHANGED <<decode, edit, history, browser, program, used, entered>>
        <3>1. ext' = ext /\ UNCHANGED <<shift, app, edit, history, browser, program, used, entered>>
            BY <2>5 DEF decode
        <3>2. QED BY <1>1, <3>1, NothingStep
    <2>6. QED BY <1>5, <2>1, <2>2, <2>3, <2>4, <2>5 DEF TerminalKey
<1>6. QED BY <1>2, <1>3, <1>4, <1>5 DEF OnKey

(* A program that prints or reads changes neither line nor table.          *)
LEMMA ProgramStep ==
    ASSUME Inv, Env,
           UNCHANGED <<decode, line, col, history, browser, used, entered>>,
           mode \in {"program", "readline"}, mode' \in {"program", "readline"},
           row' \in 0 .. LastRow, pcol' \in Nat,
           input' \in Seq(Chars), Len(input') <= MaxInput, rlShift' \in BOOLEAN
    PROVE  Inv'
<1>1. Types /\ TypeOK /\ Cursor /\ Browser /\ Ring
    BY DEF Inv, Types
<1>2. UNCHANGED <<shift, ext, app, line, col, hist, histN, nav, sel, view, entry, count, vexPage,
                  used, entered>>
    BY DEF decode, history, browser
<1>3. Types'
    BY <1>1, <1>2 DEF Types, TypeOK, Env
<1>4. Cursor' /\ Ring'
    BY <1>1, <1>2 DEF Cursor, Ring
<1>5. Browser'
    BY <1>1, <1>2 DEF Browser, Env, Terminal, Files
<1>6. QED BY <1>3, <1>4, <1>5, InvIs

(* read_line takes one byte.                                               *)
LEMMA ReadLineStep ==
    ASSUME Inv, Env, NEW sc, ReadLineKey(sc)
    PROVE  Inv'
<1>1. /\ Types /\ TypeOK /\ row \in 0 .. LastRow /\ pcol \in Nat /\ input \in Seq(Chars)
      /\ Len(input) <= MaxInput /\ rlShift \in BOOLEAN /\ MaxInput \in Nat /\ Len(input) \in Nat
    BY SizesAssumption, LenProperties DEF Inv, Types, TypeOK
<1>2. mode = "readline" /\ UNCHANGED <<decode, line, col, history, browser, used, entered>>
    BY DEF ReadLineKey
<1>3. /\ row' \in 0 .. LastRow /\ pcol' \in Nat /\ mode' \in {"program", "readline"}
      /\ input' \in Seq(Chars) /\ Len(input') <= MaxInput /\ rlShift' \in BOOLEAN
    <2>1. CASE rlShift' = (sc = "shiftDown") /\ UNCHANGED <<row, mode, pcol, input>>
        <3>1. (sc = "shiftDown") \in BOOLEAN
            BY Zenon
        <3>2. QED BY <1>1, <1>2, <2>1, <3>1
    <2>2. CASE /\ row' = Feed(row, 1) /\ pcol' = 0
               /\ mode' = "program" /\ input' = << >> /\ rlShift' = FALSE
        <3>1. << >> \in Seq(Chars) /\ Len(<< >>) = 0
            BY EmptyLine
        <3>2. row' \in 0 .. LastRow
            BY <1>1, <2>2, FeedIs
        <3>3. rlShift' \in BOOLEAN
            BY <2>2
        <3>4. input' \in Seq(Chars) /\ Len(input') <= MaxInput
            BY <1>1, <2>2, <3>1
        <3>5. pcol' \in Nat /\ mode' \in {"program", "readline"}
            BY <2>2
        <3>6. QED BY <3>2, <3>3, <3>4, <3>5
    <2>3. CASE /\ Len(input) > 0
               /\ input' = Front(input) /\ pcol' = (IF pcol > 0 THEN pcol - 1 ELSE 0)
               /\ UNCHANGED <<row, mode, rlShift>>
        <3>1. input' \in Seq(Chars) /\ Len(input') = Len(input) - 1
            BY <1>1, <2>3, LineIs
        <3>2. QED BY <1>1, <1>2, <2>3, <3>1
    <2>4. CASE /\ sc \in Printable /\ Len(input) < MaxInput
               /\ input' = Append(input, <<sc, rlShift>>) /\ pcol' = pcol + 1
               /\ UNCHANGED <<row, mode, rlShift>>
        <3>1. <<sc, rlShift>> \in Chars
            BY <1>1, <2>4 DEF Chars
        <3>2. input' \in Seq(Chars) /\ Len(input') = Len(input) + 1
            BY <1>1, <2>4, <3>1, LineIs
        <3>3. QED BY <1>1, <1>2, <2>4, <3>2
    <2>5. CASE UNCHANGED <<row, program>>
        BY <1>1, <1>2, <2>5 DEF program
    <2>6. QED BY <2>1, <2>2, <2>3, <2>4, <2>5 DEF ReadLineKey
<1>4. QED BY <1>2, <1>3, ProgramStep

(* What a running program does, and its exit.                              *)
LEMMA ExecStep ==
    ASSUME Inv, PrintChar \/ PrintNewline \/ ReadLineStarts \/ ProgramExits
    PROVE  Inv'
<1>1. /\ Types /\ TypeOK /\ Cursor /\ Browser /\ Ring /\ row \in 0 .. LastRow /\ pcol \in Nat
      /\ input \in Seq(Chars) /\ Len(input) <= MaxInput /\ rlShift \in BOOLEAN
    BY DEF Inv, Types, TypeOK
<1>2. Env /\ mode = "program"
    BY <1>1 DEF PrintChar, PrintNewline, ReadLineStarts, ProgramExits, machine, Env, TypeOK
<1>3. Feed(row, 1) \in 0 .. LastRow
    BY <1>1, FeedIs
<1>4. CASE PrintChar \/ PrintNewline \/ ReadLineStarts
    <2>1. /\ row' \in 0 .. LastRow /\ pcol' \in Nat /\ mode' \in {"program", "readline"}
          /\ input' = input /\ rlShift' = rlShift
          /\ UNCHANGED <<decode, line, col, history, browser, used, entered>>
        BY <1>1, <1>2, <1>3, <1>4 DEF PrintChar, PrintNewline, ReadLineStarts, edit
    <2>2. QED BY <1>1, <1>2, <2>1, ProgramStep
<1>5. CASE ProgramExits
    <2>1. /\ mode' = "key" /\ CommandEffect /\ fsOk' = fsOk
          /\ UNCHANGED <<shift, ext, app, hist, histN, nav, sel, view, entry, count, vexPage, pcol,
                         input, rlShift, entered>>
        BY <1>5 DEF ProgramExits, machine, decode, history, browser
    <2>2. /\ used' \in SUBSET SlotIds /\ (~fsOk' => used' = {})
          /\ line' = << >> /\ col' = 2 /\ row' \in 0 .. LastRow
        BY <2>1, EffectIs
    <2>3. Types'
        BY <1>1, <1>2, <2>1, <2>2, EmptyLine, SizesAssumption DEF Types, TypeOK, Env
    <2>4. Cursor' /\ Ring'
        BY <1>1, <2>1, <2>2, EmptyLine DEF Cursor, Ring
    <2>5. Browser'
        BY <1>1, <1>2, <2>1, <2>2 DEF Browser, Terminal, Files
    <2>6. QED BY <2>3, <2>4, <2>5, InvIs
<1>6. QED BY <1>4, <1>5

(* Every key press and every step of a command or program keeps the        *)
(* invariant.                                                              *)
LEMMA InvStep ==
    ASSUME Inv, [Next]_vars
    PROVE  Inv'
<1>1. CASE UNCHANGED vars
    BY <1>1 DEF vars, machine, decode, edit, history, browser, program, Inv, Types, TypeOK, Cursor,
                Browser, Ring
<1>2. ASSUME NEW sc, Byte(sc), OnKey(sc) \/ ReadLineKey(sc)
      PROVE  Inv'
    <2>1. Env
        BY <1>2 DEF Byte, machine, Env, Inv, Types, TypeOK
    <2>2. QED BY <1>2, <2>1, OnKeyStep, ReadLineStep
<1>3. QED BY <1>1, <1>2, ExecStep DEF Next, Key

(* Types, cursor, Files and the ring are kept by every key and every       *)
(* program: the inductive invariant.                                       *)
THEOREM DesktopKeepsInStep == Spec => []Inv
<1>1. Init => Inv
    <2> SUFFICES ASSUME Init
                 PROVE  Inv
        OBVIOUS
    <2>1. Types
        <3>1. \A k \in 0 .. HistSlots - 1 : hist[k] \in Seq(Chars) /\ Len(hist[k]) <= MaxLine
            BY EmptyLine DEF Init, Lines
        <3>2. hist \in [0 .. HistSlots - 1 -> Lines] /\ entered \in Seq(Lines)
            BY EmptyLine DEF Init
        <3>3. row \in 0 .. LastRow /\ nav \in 0 .. HistSlots /\ used \in SUBSET SlotIds
              /\ Len(line) <= MaxLine /\ Len(input) <= MaxInput
            BY EmptyLine, SizesAssumption DEF Init
        <3>4. line = << >> /\ input = << >> /\ line \in Seq(Chars) /\ input \in Seq(Chars)
            BY EmptyLine DEF Init
        <3>5. /\ gfx \in BOOLEAN /\ fsOk \in BOOLEAN /\ second \in BOOLEAN /\ shift \in BOOLEAN
              /\ ext \in BOOLEAN /\ rlShift \in BOOLEAN
            BY DEF Init
        <3>6. /\ app \in {Terminal, Files, Vex} /\ mode \in {"key", "program", "readline"}
              /\ pcol \in Nat /\ view \in 0 .. 1 /\ vexPage \in 0 .. 1 /\ histN \in Nat
              /\ sel \in Nat /\ count \in Nat
            BY DEF Init
        <3>7. QED BY <3>1, <3>2, <3>3, <3>4, <3>5, <3>6 DEF Types, TypeOK
    <2>2. Cursor
        BY EmptyLine DEF Init, Cursor
    <2>3. Browser
        BY DEF Init, Browser, Terminal, Files
    <2>4. Ring
        <3>1. histN = 0 /\ nav = 0 /\ entered = << >> /\ HistSlots \in Nat
            BY SizesAssumption DEF Init
        <3>2. Len(entered) = 0 /\ 0 <= AtMost(histN, HistSlots)
            BY <3>1, EmptyLine DEF AtMost
        <3>3. QED BY <3>1, <3>2 DEF Ring
    <2>5. QED BY <2>1, <2>2, <2>3, <2>4 DEF Inv
<1>2. Inv /\ [Next]_vars => Inv'
    BY InvStep
<1>3. QED BY <1>1, <1>2, PTL DEF Spec

(* The machine, the line, the history and the table have their types: no   *)
(* line outgrows its buffer.                                               *)
THEOREM TypeCorrect == Spec => []TypeOK
<1>1. Inv => TypeOK
    BY DEF Inv, Types
<1>2. QED BY <1>1, DesktopKeepsInStep, PTL

(* The cursor stands behind the line that is edited, and inside the row.   *)
THEOREM CursorIsBehind == Spec => []CursorFollowsLine
<1>1. Inv => CursorFollowsLine
    BY SizesAssumption, LenProperties
       DEF Inv, Types, TypeOK, Cursor, CursorFollowsLine
<1>2. QED BY <1>1, DesktopKeepsInStep, PTL

(* The selection of Files and the file it shows exist while it is in front. *)
THEOREM SelectionExists == Spec => []FilesSelectionExists
<1>1. Inv => FilesSelectionExists
    <2> SUFFICES ASSUME Inv, app = Files
                 PROVE  /\ view = 1 => entry \in used
                        /\ fsOk => count = Cardinality(used)
                        /\ fsOk /\ used # {} => SelectedEntry \in used
        BY DEF FilesSelectionExists
    <2>1. Types /\ Browser
        BY DEF Inv
    <2>2. ASSUME fsOk, used # {}
          PROVE  SelectedEntry \in used
        <3>1. sel = 0 \/ sel < Cardinality(used)
            BY <2>1, <2>2 DEF Browser
        <3>2. QED BY <2>1, <2>2, <3>1, SelectedIsUsed
    <2>3. QED BY <2>1, <2>2 DEF Browser
<1>2. QED BY <1>1, DesktopKeepsInStep, PTL

(* Up and Down show the command that many entries back, also when the ring *)
(* has wrapped.                                                            *)
THEOREM RecallIsTrue == Spec => RecallIsRecent
<1>1. ASSUME Inv, [Next]_vars
      PROVE  [nav' # nav /\ nav' > 0 => line' = entered[Len(entered) + 1 - nav']]_vars
    <2> SUFFICES ASSUME Next, nav' # nav, nav' > 0
                 PROVE  line' = entered[Len(entered) + 1 - nav']
        BY <1>1
    <2>1. Types /\ Ring /\ nav \in Nat /\ histN \in Nat /\ HistSlots \in Nat
        BY <1>1, SizesAssumption DEF Inv, Types, TypeOK
    <2>2. HistoryUp \/ HistoryDown
        <3>1. ASSUME NEW sc, OnKey(sc)
              PROVE  HistoryUp \/ HistoryDown
            <4>1. CASE ArrowKey(sc)
                BY <4>1 DEF ArrowKey
            <4>2. CASE ~ArrowKey(sc)
                <5>1. nav' \in {nav, 0}
                    BY <3>1, <4>2
                    DEF OnKey, SwitchApp, FilesKey, VexKey, TerminalKey, ShiftKey, Enter, Backspace,
                        TypeChar, history
                <5>2. QED BY <2>1, <5>1
            <4>3. QED BY <4>1, <4>2
        <3>2. ASSUME NEW sc, ReadLineKey(sc)
              PROVE  FALSE
            BY <3>2 DEF ReadLineKey, history
        <3>3. CASE PrintChar \/ PrintNewline \/ ReadLineStarts \/ ProgramExits
            BY <3>3 DEF PrintChar, PrintNewline, ReadLineStarts, ProgramExits, history
        <3>4. QED BY <3>1, <3>2, <3>3 DEF Next, Key
    <2>3. CASE HistoryUp
        <3>1. nav < AtMost(histN, HistSlots) /\ nav' = nav + 1 /\ line' = Recent(nav + 1)
            BY <2>3 DEF HistoryUp, SetInput
        <3>2. nav + 1 \in Nat \ {0} /\ nav + 1 <= AtMost(histN, HistSlots)
            BY <2>1, <3>1 DEF AtMost
        <3>3. QED BY <2>1, <3>1, <3>2, RecentIs
    <2>4. CASE HistoryDown
        <3>1. nav > 1 /\ nav' = nav - 1 /\ line' = Recent(nav - 1)
            BY <2>4 DEF HistoryDown, SetInput
        <3>2. nav - 1 \in Nat \ {0} /\ nav - 1 <= AtMost(histN, HistSlots)
            BY <2>1, <3>1 DEF AtMost, Ring
        <3>3. QED BY <2>1, <3>1, <3>2, RecentIs
    <2>5. QED BY <2>2, <2>3, <2>4
<1>2. QED BY <1>1, DesktopKeepsInStep, PTL DEF Spec, RecallIsRecent
=============================================================================

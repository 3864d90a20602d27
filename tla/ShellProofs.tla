---------------------------- MODULE ShellProofs -----------------------------
(***************************************************************************)
(* Proofs about Shell for every disk, every set of commands and every size *)
(* of the buffers: what is left of a script that reads no other file stays *)
(* in FILEBUF, and exec enters the image of the file.                      *)
(***************************************************************************)
EXTENDS Shell, NaturalsInduction, WellFoundedInduction, SequenceTheorems, TLAPS

-----------------------------------------------------------------------------
(* The inductive invariant. *)

Stored == {s \in Contents : Len(s) <= BufLen}

(* A call of run_range_lines that is in progress: it has not gone past the *)
(* newline that follows its range by more than one turn.                   *)
Calls ==
    {c \in [src : {"module", "filebuf"}, p : Nat \ {0}, end : Nat, text : Contents] :
        /\ c.end = Len(c.text) /\ c.p <= c.end + 2
        /\ c.src = "filebuf" => c.end <= BufLen}

Types ==
    /\ files \in [Names -> Stored \cup {Absent}] /\ loaded \in Stored
    /\ filebuf \in [1 .. BufLen -> Bytes] /\ prog \in [1 .. BufLen -> Bytes]
    /\ gbuf \in Seq(Tokens \cup {Zero}) /\ Len(gbuf) <= MaxLine
    /\ frames \in Seq(Calls) /\ inProgram \in BOOLEAN /\ faults \in 0 .. MaxFaults

(* The stack: kmain's call for the boot module, then run_file's, which     *)
(* g_run_depth counts.                                                     *)
Runs(c) == c.src = "filebuf"
Shape ==
    \/ frames = << >> /\ depth = 0
    \/ Len(frames) = 1 /\ depth = IF Runs(frames[1]) THEN 1 ELSE 0
    \/ Len(frames) = 2 /\ ~Runs(frames[1]) /\ Runs(frames[2]) /\ depth = 1

(* A call whose range is done leaves no line behind.                       *)
LineDone == frames = << >> \/ Top.p > Top.end + 1 => gbuf = << >>

(* What is left of a quiet script is in FILEBUF, and the line that is      *)
(* being assembled is made of its tokens.                                  *)
Quiet(c) == Runs(c) /\ ~ReadsAFile(c.text)
Rest(c, buf) == \A k \in c.p .. c.end : buf[k] = c.text[k]
OfScript(c, line) == \A i \in 1 .. Len(line) : \E k \in 1 .. Len(c.text) : c.text[k] = line[i]
QuietRun == frames # << >> /\ Quiet(Top) => Rest(Top, filebuf) /\ OfScript(Top, gbuf)

Inv == Types /\ Shape /\ LineDone /\ QuietRun /\ ProgramIsFile

(* A set of numbers that is not empty has a least one.                     *)
LEMMA Least ==
    ASSUME NEW T \in SUBSET Nat, T # {}
    PROVE  \E n \in T : \A m \in T : n <= m
<1> DEFINE R == {ss \in Nat \X Nat : ss[1] < ss[2]}
<1>1. IsWellFoundedOn(R, Nat)
    BY NatLessThanWellFounded DEF OpToRel
<1> HIDE DEF R
<1>2. PICK n \in T : \A m \in T : ~(<<m, n>> \in R)
    BY <1>1, WFMin
<1>3. ASSUME NEW m \in T, ~(n <= m)
      PROVE  FALSE
    <2>1. <<m, n>> \in R
        BY <1>3 DEF R
    <2>2. QED BY <1>2, <2>1
<1>4. QED BY <1>3

-----------------------------------------------------------------------------
(* Reading a file. *)

(* The sectors of a content cover it.                                      *)
LEMMA SectorsCover ==
    ASSUME NEW content \in Stored
    PROVE  /\ Sectors(content) \in Nat /\ Len(content) \in Nat
           /\ Len(content) <= Sectors(content) * SectorLen
<1>1. Len(content) \in Nat /\ SectorLen \in Nat /\ SectorLen > 0
    BY SizeAssumption, LenProperties DEF Stored, Contents
<1> DEFINE a == Len(content) + SectorLen - 1
           q == a \div SectorLen
<1>2. a \in Nat
    BY <1>1
<1>3. \A n \in Nat, d \in Nat : d > 0 => n \div d \in Nat /\ n = d * (n \div d) + (n % d) /\ n % d \in 0 .. d - 1
    OBVIOUS
<1>4. q \in Nat /\ a = SectorLen * q + (a % SectorLen) /\ a % SectorLen \in 0 .. SectorLen - 1
    <2> HIDE DEF a
    <2>1. QED BY <1>1, <1>2, <1>3
<1>5. a % SectorLen <= SectorLen - 1 /\ a % SectorLen \in Int /\ SectorLen * q \in Int
    BY <1>1, <1>4
<1>6. Len(content) <= SectorLen * q
    <2> HIDE DEF q
    <2>1. Len(content) + SectorLen - 1 = SectorLen * q + (a % SectorLen)
        BY <1>4
    <2> DEFINE r == a % SectorLen
               m == SectorLen * q
    <2> HIDE DEF r, m, a
    <2>2. Len(content) + SectorLen - 1 = m + r /\ r <= SectorLen - 1 /\ r \in Int /\ m \in Int
        BY <1>5, <2>1 DEF r, m
    <2>3. Len(content) <= m
        BY <1>1, <2>2
    <2>4. QED BY <2>3 DEF m
<1>7. SectorLen * q = q * SectorLen
    BY <1>1, <1>4
<1>8. Sectors(content) = q
    BY DEF Sectors
<1>9. QED BY <1>1, <1>4, <1>6, <1>7, <1>8

(* fs_read_file leaves bytes in FILEBUF; what it returns as read is there. *)
LEMMA ReadFileGives ==
    ASSUME Types, NEW content \in Stored, NEW size \in {0, Len(content)}, ReadFile(content, size)
    PROVE  /\ filebuf' \in [1 .. BufLen -> Bytes] /\ faults' \in 0 .. MaxFaults
           /\ \A k \in 1 .. size : k <= Len(content) /\ k <= BufLen /\ filebuf'[k] = content[k]
<1>1. /\ Len(content) \in Nat /\ Len(content) <= BufLen /\ BufLen \in Nat /\ MaxFaults \in Nat
      /\ \A k \in 1 .. Len(content) : content[k] \in Bytes
    BY SizeAssumption, LenProperties, ElementOfSeq DEF Stored, Contents, Bytes
<1>2. filebuf \in [1 .. BufLen -> Bytes] /\ faults \in 0 .. MaxFaults
    BY DEF Types
<1>3. \A k \in 1 .. BufLen : Padded(content, BufLen)[k] = IF k <= Len(content) THEN content[k] ELSE Zero
    BY <1>1 DEF Padded
<1>4. \A n : Overlaid(content, n) \in [1 .. BufLen -> Bytes]
    BY <1>1, <1>2, <1>3 DEF Overlaid, Bytes
<1>5. CASE size = Len(content) /\ filebuf' = Overlaid(content, Sectors(content)) /\ UNCHANGED faults
    <2>1. ASSUME NEW k \in 1 .. size
          PROVE  k <= Len(content) /\ k <= BufLen /\ filebuf'[k] = content[k]
        <3>1. k <= Len(content) /\ k \in 1 .. BufLen
            BY <1>1, <1>5
        <3>2. k <= Sectors(content) * SectorLen
            <4>1. Sectors(content) * SectorLen \in Int
                BY SectorsCover, SizeAssumption
            <4>2. Len(content) <= Sectors(content) * SectorLen
                BY SectorsCover
            <4> DEFINE m == Sectors(content) * SectorLen
            <4> HIDE DEF m
            <4>3. k <= m
                BY <1>1, <3>1, <4>1, <4>2 DEF m
            <4>4. QED BY <4>3 DEF m
        <3>3. filebuf'[k] = Padded(content, BufLen)[k]
            BY <1>5, <3>1, <3>2 DEF Overlaid
        <3>4. QED BY <1>3, <3>1, <3>3
    <2>2. QED BY <1>2, <1>4, <1>5, <2>1
<1>6. CASE /\ size = 0 /\ faults < MaxFaults
           /\ \E n \in 0 .. Sectors(content) - 1 : filebuf' = Overlaid(content, n)
           /\ faults' = faults + 1
    BY <1>1, <1>2, <1>4, <1>6
<1>7. QED BY <1>5, <1>6 DEF ReadFile

-----------------------------------------------------------------------------
(* What a command does. *)

(* The first zero of a line ends it: what is left are tokens.              *)
LEMMA CStringType ==
    ASSUME NEW s \in Seq(Tokens \cup {Zero})
    PROVE  /\ CString(s) \in Seq(Tokens)
           /\ \A i \in 1 .. Len(CString(s)) : i \in 1 .. Len(s) /\ CString(s)[i] = s[i]
<1> DEFINE I == {i \in 1 .. Len(s) : s[i] = Zero}
           z == SelectInSeq(s, LAMBDA x : x = Zero)
<1>1. z = IF I # {} THEN Min(I) ELSE 0
    BY DEF SelectInSeq
<1>2. Len(s) \in Nat /\ \A i \in 1 .. Len(s) : s[i] \in Tokens \cup {Zero}
    BY LenProperties, ElementOfSeq
<1>3. CASE I = {}
    <2>1. \A i \in 1 .. Len(s) : s[i] \in Tokens
        BY <1>2, <1>3
    <2>2. s \in Seq(Tokens)
        BY <2>1, <1>2, IsASeq, LenProperties
    <2>3. CString(s) = s
        BY <1>1, <1>3 DEF CString
    <2>4. QED BY <2>2, <2>3
<1>4. CASE I # {}
    <2>1. PICK m \in I : \A n \in I : m <= n
        <3>1. I \in SUBSET Nat
            OBVIOUS
        <3> HIDE DEF I
        <3>2. QED BY <1>4, <3>1, Least
    <2>2. Min(I) \in I /\ \A n \in I : Min(I) <= n
        BY <2>1 DEF Min
    <2> DEFINE m0 == Min(I)
    <2>3. z = m0 /\ m0 \in 1 .. Len(s) /\ \A i \in 1 .. m0 - 1 : s[i] # Zero
        <3>1. z = m0
            BY <1>1, <1>4
        <3>2. m0 \in I /\ \A n \in I : m0 <= n
            BY <2>2
        <3> HIDE DEF m0, z
        <3>3. QED BY <1>2, <3>1, <3>2
    <2>4. CString(s) = SubSeq(s, 1, z - 1)
        <3>1. CString(s) = IF z = 0 THEN s ELSE SubSeq(s, 1, z - 1)
            BY DEF CString
        <3> HIDE DEF z, m0
        <3>2. z # 0
            BY <1>2, <2>3
        <3>3. QED BY <3>1, <3>2
    <2> HIDE DEF z, m0
    <2>5. /\ SubSeq(s, 1, z - 1) \in Seq(Tokens \cup {Zero}) /\ Len(SubSeq(s, 1, z - 1)) = z - 1
          /\ \A i \in 1 .. z - 1 : SubSeq(s, 1, z - 1)[i] = s[i]
        BY <1>2, <2>3, SubSeqProperties
    <2>6. \A i \in 1 .. z - 1 : s[i] \in Tokens
        BY <1>2, <2>3
    <2>7. SubSeq(s, 1, z - 1) \in Seq(Tokens)
        BY <2>5, <2>6, IsASeq, LenProperties
    <2>8. QED BY <1>2, <2>3, <2>4, <2>5, <2>7
<1>5. QED BY <1>3, <1>4

(* A command leaves files, buffers and the program region as they should   *)
(* be; only cat and exec, and run from the prompt or the boot module,      *)
(* write to FILEBUF.                                                       *)
Keeps ==
    /\ files' \in [Names -> Stored \cup {Absent}] /\ loaded' \in Stored
    /\ filebuf' \in [1 .. BufLen -> Bytes] /\ prog' \in [1 .. BufLen -> Bytes]
    /\ inProgram' \in BOOLEAN /\ faults' \in 0 .. MaxFaults
    /\ prog' = Padded(loaded', BufLen)

(* The bytes of a padded content, and where they come from.                *)
LEMMA PaddedType ==
    ASSUME NEW content \in Stored
    PROVE  /\ Padded(content, BufLen) \in [1 .. BufLen -> Bytes]
           /\ Len(content) \in Nat /\ Len(content) <= BufLen
           /\ \A k \in 1 .. Len(content) : content[k] \in Tokens \cup {Newline}
<1>1. /\ Len(content) \in Nat /\ Len(content) <= BufLen
      /\ \A k \in 1 .. Len(content) : content[k] \in Tokens \cup {Newline}
    BY LenProperties, ElementOfSeq DEF Stored, Contents
<1>2. QED BY <1>1, SizeAssumption DEF Padded, Bytes

(* write appends a line, or finds the file full.                           *)
LEMMA WriteKeeps ==
    ASSUME Types, ProgramIsFile, NEW n \in Names, NEW text \in Tokens, Write(n, text)
    PROVE  Keeps /\ filebuf' = filebuf /\ depth' = depth
<1> DEFINE old == IF NotFound(n) THEN << >> ELSE files[n]
<1>1. old \in Stored
    <2>1. << >> \in Stored
        BY EmptySeq, SizeAssumption DEF Stored, Contents
    <2>2. files[n] \in Stored \cup {Absent}
        BY DEF Types
    <2>3. QED BY <2>1, <2>2 DEF NotFound
<1>2. files' = files \/ (files' = [files EXCEPT ![n] = old \o <<text, Newline>>] /\ ~(Len(old) + 2 > BufLen))
    BY DEF Write
<1> HIDE DEF old
<1>3. ~(Len(old) + 2 > BufLen) => old \o <<text, Newline>> \in Stored
    <2>1. old \in Contents /\ <<text, Newline>> \in Contents /\ Len(<<text, Newline>>) = 2
        BY <1>1 DEF Stored, Contents
    <2>2. old \o <<text, Newline>> \in Contents
          /\ Len(old \o <<text, Newline>>) = Len(old) + 2
        BY <2>1, ConcatProperties DEF Contents
    <2>3. Len(old) \in Nat
        BY <2>1, LenProperties DEF Contents
    <2>4. QED BY <2>2, <2>3, SizeAssumption DEF Stored
<1>4. files' \in [Names -> Stored \cup {Absent}]
    BY <1>2, <1>3 DEF Types
<1>5. /\ filebuf' = filebuf /\ prog' = prog /\ loaded' = loaded
      /\ inProgram' = inProgram /\ faults' = faults /\ depth' = depth
    BY DEF Write, KeepsBuffers
<1>6. QED BY <1>4, <1>5 DEF Keeps, Types, ProgramIsFile

(* exec enters the image of the file it read, zeros behind it.             *)
LEMMA ExecKeeps ==
    ASSUME Types, ProgramIsFile, NEW n \in Names, Exec(n)
    PROVE  Keeps /\ depth' = depth
<1>1. files' = files /\ depth' = depth /\ files[n] \in Stored \cup {Absent}
    BY DEF Exec, Types
<1>2. CASE NotFound(n)
    <2>1. /\ filebuf' = filebuf /\ prog' = prog /\ loaded' = loaded
          /\ inProgram' = inProgram /\ faults' = faults
        BY <1>2 DEF Exec
    <2>2. QED BY <1>1, <2>1 DEF Keeps, Types, ProgramIsFile
<1>3. CASE ~NotFound(n)
    <2> DEFINE content == files[n]
    <2>1. content \in Stored
        BY <1>1, <1>3 DEF NotFound
    <2>2. PICK size \in {0, Len(content)} :
             /\ ReadFile(content, size) /\ inProgram' = (size # 0)
             /\ IF size = 0
                THEN out' = "empty program" /\ UNCHANGED <<prog, loaded>>
                ELSE prog' = Image(size) /\ loaded' = content /\ out' = ""
        BY <1>3 DEF Exec
    <2> HIDE DEF content
    <2>3. /\ filebuf' \in [1 .. BufLen -> Bytes] /\ faults' \in 0 .. MaxFaults
          /\ \A k \in 1 .. size : k <= Len(content) /\ k <= BufLen /\ filebuf'[k] = content[k]
        BY <2>1, <2>2, ReadFileGives
    <2>4. inProgram' \in BOOLEAN
        BY <2>2
    <2>5. CASE size = 0
        BY <1>1, <2>2, <2>3, <2>4, <2>5 DEF Keeps, Types, ProgramIsFile
    <2>6. CASE size # 0
        <3>1. size = Len(content) /\ size \in Nat /\ size <= BufLen /\ BufLen \in Nat
            BY <2>1, <2>2, <2>6, PaddedType, SizeAssumption
        <3>2. filebuf' \in Seq(Bytes) /\ Len(filebuf') = BufLen
            BY <2>3, <3>1, IsASeq, LenProperties
        <3>3. /\ Len(SubSeq(filebuf', 1, size)) = size
              /\ \A k \in 1 .. size : SubSeq(filebuf', 1, size)[k] = filebuf'[k]
            BY <3>1, <3>2, SubSeqProperties
        <3> DEFINE image == SubSeq(filebuf', 1, size)
        <3>4. Padded(image, BufLen) = Padded(content, BufLen)
            <4>1. Len(image) = size /\ \A k \in 1 .. size : image[k] = content[k]
                BY <2>3, <3>3
            <4> HIDE DEF image
            <4>2. QED BY <3>1, <4>1 DEF Padded
        <3>5. prog' = Padded(content, BufLen) /\ loaded' = content
            BY <2>2, <2>6, <3>4 DEF Image
        <3>6. QED BY <1>1, <2>1, <2>3, <2>4, <3>5, PaddedType DEF Keeps, Types
    <2>7. QED BY <2>5, <2>6
<1>4. QED BY <1>2, <1>3

(* A command that is not run: which of them write to FILEBUF.              *)
LEMMA SimpleKeeps ==
    ASSUME Types, ProgramIsFile, NEW t \in Tokens, Simple(t)
    PROVE  /\ Keeps /\ depth' = depth
           /\ filebuf' = filebuf \/ Cmd[t].op \in {"cat", "exec"}
<1>1. Cmd[t].name \in Names /\ Cmd[t].text \in Tokens
    BY CommandAssumption
<1>2. CASE Cmd[t].op = "echo" /\ out' = "" /\ UNCHANGED files /\ KeepsBuffers
    BY <1>2 DEF KeepsBuffers, Keeps, Types, ProgramIsFile
<1>3. CASE Cmd[t].op = "write" /\ Write(Cmd[t].name, Cmd[t].text)
    BY <1>1, <1>3, WriteKeeps
<1>4. CASE Cmd[t].op = "rm" /\ Rm(Cmd[t].name)
    <2>1. files' \in [Names -> Stored \cup {Absent}]
        BY <1>1, <1>4 DEF Rm, Types
    <2>2. QED BY <1>4, <2>1 DEF Rm, KeepsBuffers, Keeps, Types, ProgramIsFile
<1>5. CASE Cmd[t].op = "cat" /\ Cat(Cmd[t].name)
    <2> DEFINE n == Cmd[t].name
    <2>1. /\ files' = files /\ depth' = depth /\ prog' = prog /\ loaded' = loaded
          /\ inProgram' = inProgram
        BY <1>5 DEF Cat
    <2>2. CASE NotFound(n)
        BY <1>5, <2>1, <2>2 DEF Cat, Keeps, Types, ProgramIsFile
    <2>3. CASE ~NotFound(n)
        <3>1. files[n] \in Stored
            BY <1>1, <2>3 DEF Types, NotFound
        <3>2. PICK size \in {0, Len(files[n])} : ReadFile(files[n], size)
            BY <1>5, <2>3 DEF Cat
        <3>3. filebuf' \in [1 .. BufLen -> Bytes] /\ faults' \in 0 .. MaxFaults
            BY <3>1, <3>2, ReadFileGives
        <3>4. QED BY <1>5, <2>1, <3>3 DEF Keeps, Types, ProgramIsFile
    <2>4. QED BY <2>2, <2>3
<1>6. CASE Cmd[t].op = "exec" /\ Exec(Cmd[t].name)
    BY <1>1, <1>6, ExecKeeps
<1>7. QED BY <1>2, <1>3, <1>4, <1>5, <1>6 DEF Simple

(* A call on top of below whose text is the one that was read to FILEBUF.  *)
Called(below) ==
    \E text \in Stored :
        /\ ~Nested /\ depth' = depth + 1
        /\ frames' = Append(below, Frame("filebuf", text))
        /\ \A k \in 1 .. Len(text) : filebuf'[k] = text[k]

(* run_file refuses, or puts a call on top of below.                       *)
LEMMA RunFileKeeps ==
    ASSUME Types, ProgramIsFile, NEW n \in Names, NEW below, RunFile(n, below)
    PROVE  /\ Keeps
           /\ \/ frames' = below /\ depth' = depth /\ filebuf' = filebuf
              \/ Called(below)
<1>1. files' = files /\ prog' = prog /\ loaded' = loaded /\ inProgram' = inProgram
    BY DEF RunFile
<1>2. CASE frames' = below /\ filebuf' = filebuf /\ depth' = depth /\ faults' = faults
    BY <1>1, <1>2 DEF Keeps, Types, ProgramIsFile
<1>3. CASE /\ ~Nested /\ ~NotFound(n) /\ out' = ""
           /\ \E size \in {0, Len(files[n])} :
                 /\ ReadFile(files[n], size)
                 /\ frames' = Append(below, Frame("filebuf", SubSeq(files[n], 1, size)))
           /\ depth' = depth + 1
    <2> DEFINE content == files[n]
    <2>1. content \in Stored
        BY <1>3 DEF Types, NotFound
    <2>2. PICK size \in {0, Len(content)} :
             /\ ReadFile(content, size)
             /\ frames' = Append(below, Frame("filebuf", SubSeq(content, 1, size)))
        BY <1>3
    <2> HIDE DEF content
    <2>3. /\ filebuf' \in [1 .. BufLen -> Bytes] /\ faults' \in 0 .. MaxFaults
          /\ \A k \in 1 .. size : k <= Len(content) /\ k <= BufLen /\ filebuf'[k] = content[k]
        BY <2>1, <2>2, ReadFileGives
    <2>4. size \in Nat /\ size <= Len(content) /\ Len(content) \in Nat /\ Len(content) <= BufLen
        BY <2>1, PaddedType
    <2> DEFINE text == SubSeq(content, 1, size)
    <2>5. text \in Contents /\ Len(text) = size /\ \A k \in 1 .. size : text[k] = content[k]
        BY <2>1, <2>4, SubSeqProperties DEF Stored, Contents
    <2> HIDE DEF text
    <2>6. text \in Stored
        BY <2>4, <2>5, SizeAssumption DEF Stored
    <2>7. Called(below)
        BY <1>3, <2>2, <2>3, <2>5, <2>6 DEF Called, text
    <2>8. QED BY <1>1, <2>3, <2>7 DEF Keeps, Types, ProgramIsFile
<1>4. QED BY <1>2, <1>3 DEF RunFile

(* run_command leaves the types, the program region and the frames below   *)
(* in order, and touches FILEBUF only in `cat`, `exec` and `run`.          *)
LEMMA RunCommandKeeps ==
    ASSUME Types, ProgramIsFile, NEW line \in Seq(Tokens), NEW below, RunCommand(line, below)
    PROVE  /\ Keeps
           /\ \/ /\ frames' = below /\ depth' = depth
                 /\ filebuf' = filebuf \/ (Len(line) = 1 /\ Cmd[line[1]].op \in {"cat", "exec"})
              \/ Called(below)
<1>1. Len(line) = 1 => line[1] \in Tokens
    <2>1. line \in [1 .. Len(line) -> Tokens]
        BY LenProperties
    <2>2. Len(line) = 1 => 1 \in 1 .. Len(line)
        OBVIOUS
    <2>3. QED BY <2>1, <2>2
<1>2. CASE Len(line) = 1 /\ Cmd[line[1]].op = "run" /\ RunFile(Cmd[line[1]].name, below)
    BY <1>1, <1>2, CommandAssumption, RunFileKeeps
<1>3. CASE Len(line) = 1 /\ Simple(line[1]) /\ frames' = below
    BY <1>1, <1>3, SimpleKeeps
<1>4. CASE frames' = below /\ UNCHANGED files /\ KeepsBuffers
    BY <1>4 DEF KeepsBuffers, Keeps, Types, ProgramIsFile
<1>5. QED BY <1>2, <1>3, <1>4 DEF RunCommand

-----------------------------------------------------------------------------
(* The stack of calls. *)

(* Moving on in the innermost call leaves the others, and its script.      *)
LEMMA SteppedIs ==
    ASSUME Types, Shape, frames # << >>, Top.p <= Top.end + 1
    PROVE  /\ Stepped \in Seq(Calls) /\ Len(Stepped) = Len(frames) /\ Len(frames) \in Nat \ {0}
           /\ Top \in Calls /\ Stepped[Len(frames)] = [Top EXCEPT !.p = @ + 1]
           /\ \A i \in 1 .. Len(frames) : Runs(Stepped[i]) <=> Runs(frames[i])
<1>1. Len(frames) \in Nat \ {0} /\ \A i \in 1 .. Len(frames) : frames[i] \in Calls
    BY EmptySeq, LenProperties, ElementOfSeq DEF Types
<1>2. Top \in Calls /\ Top = frames[Len(frames)]
    BY <1>1 DEF Top
<1> DEFINE call == [Top EXCEPT !.p = @ + 1]
<1>3. call \in Calls /\ (Runs(call) <=> Runs(Top))
    BY <1>2 DEF Calls, Runs
<1>4. Stepped = [frames EXCEPT ![Len(frames)] = call]
    BY <1>2 DEF Stepped
<1> HIDE DEF call
<1>5. /\ Stepped \in Seq(Calls) /\ Len(Stepped) = Len(frames)
      /\ \A i \in 1 .. Len(frames) : Stepped[i] = IF i = Len(frames) THEN call ELSE frames[i]
    BY <1>1, <1>3, <1>4, ExceptSeq, LenProperties DEF Types
<1>6. \A i \in 1 .. Len(frames) : Runs(Stepped[i]) <=> Runs(frames[i])
    BY <1>2, <1>3, <1>5
<1>7. Stepped[Len(frames)] = call
    BY <1>1, <1>5
<1>8. QED BY <1>1, <1>2, <1>5, <1>6, <1>7 DEF call

(* The shape of the stack, of a stack that need not be frames.             *)
ShapeOf(calls, d) ==
    \/ calls = << >> /\ d = 0
    \/ Len(calls) = 1 /\ d = IF Runs(calls[1]) THEN 1 ELSE 0
    \/ Len(calls) = 2 /\ ~Runs(calls[1]) /\ Runs(calls[2]) /\ d = 1

(* A call of run_file is put on top of kmain's, or on nothing.             *)
LEMMA CalledIs ==
    ASSUME Types, NEW below \in Seq(Calls), ShapeOf(below, depth), Called(below)
    PROVE  /\ frames' \in Seq(Calls) /\ ShapeOf(frames', depth')
           /\ frames' # << >> /\ Runs(Top') /\ Rest(Top', filebuf')
<1>1. PICK text \in Stored :
         /\ ~Nested /\ depth' = depth + 1
         /\ frames' = Append(below, Frame("filebuf", text))
         /\ \A k \in 1 .. Len(text) : filebuf'[k] = text[k]
    BY DEF Called
<1> DEFINE call == Frame("filebuf", text)
<1>2. call \in Calls /\ Runs(call) /\ call.p = 1 /\ call.end = Len(text) /\ call.text = text
    BY PaddedType DEF Frame, Calls, Runs, Stored
<1> HIDE DEF call
<1>3. /\ frames' \in Seq(Calls) /\ Len(frames') = Len(below) + 1 /\ Len(below) \in Nat
      /\ \A i \in 1 .. Len(below) : frames'[i] = below[i]
      /\ frames'[Len(below) + 1] = call /\ frames' # << >>
    BY <1>1, <1>2, AppendProperties, LenProperties DEF call
<1>4. Top' = call
    BY <1>3 DEF Top
<1>5. depth = 0 /\ depth' = 1 /\ (below = << >> \/ (Len(below) = 1 /\ ~Runs(below[1])))
    BY <1>1 DEF Nested, ShapeOf
<1>6. ShapeOf(frames', depth')
    <2>1. CASE below = << >>
        <3>1. Len(frames') = 1 /\ frames'[1] = call
            BY <1>3, <2>1
        <3>2. QED BY <1>2, <1>5, <3>1 DEF ShapeOf
    <2>2. CASE Len(below) = 1 /\ ~Runs(below[1])
        <3>1. Len(frames') = 2 /\ frames'[1] = below[1] /\ frames'[2] = call
            BY <1>3, <2>2
        <3>2. QED BY <1>2, <1>5, <2>2, <3>1 DEF ShapeOf
    <2>3. QED BY <1>5, <2>1, <2>2
<1>7. QED BY <1>1, <1>2, <1>3, <1>4, <1>6 DEF Rest

-----------------------------------------------------------------------------
(* Every step keeps the invariant. *)

(* The user's command starts a script, or none.                            *)
LEMMA TypeStep ==
    ASSUME Inv, NEW t \in Tokens, Type(t)
    PROVE  Inv'
<1>1. frames = << >> /\ RunCommand(<<t>>, << >>) /\ gbuf' = << >>
    BY DEF Type
<1>2. <<t>> \in Seq(Tokens) /\ << >> \in Seq(Calls) /\ << >> \in Seq(Tokens \cup {Zero})
      /\ Len(<< >>) = 0 /\ depth = 0 /\ ShapeOf(<< >>, depth)
    BY <1>1 DEF Inv, Shape, ShapeOf
<1>3. Types /\ ProgramIsFile
    BY DEF Inv
<1>4. Keeps /\ ((frames' = << >> /\ depth' = depth) \/ Called(<< >>))
    BY <1>1, <1>2, <1>3, RunCommandKeeps
<1>5. gbuf' \in Seq(Tokens \cup {Zero}) /\ Len(gbuf') <= MaxLine
    BY <1>1, <1>2, SizeAssumption
<1>6. LineDone' /\ ProgramIsFile'
    BY <1>1, <1>4 DEF LineDone, ProgramIsFile, Keeps
<1>7. CASE frames' = << >> /\ depth' = depth
    BY <1>2, <1>4, <1>5, <1>6, <1>7 DEF Inv, Keeps, Types, Shape, QuietRun
<1>8. CASE Called(<< >>)
    <2>1. frames' \in Seq(Calls) /\ ShapeOf(frames', depth') /\ Rest(Top', filebuf')
        BY <1>2, <1>3, <1>8, CalledIs
    <2>2. QuietRun'
        BY <1>1, <2>1 DEF QuietRun, OfScript
    <2>3. QED BY <1>4, <1>5, <1>6, <2>1, <2>2 DEF Inv, Keeps, Types, Shape, ShapeOf
<1>9. QED BY <1>4, <1>7, <1>8

(* A line is executed: a quiet script holds no cat and no exec.            *)
LEMMA ScanLineStep ==
    ASSUME Inv, ScanLine
    PROVE  Inv'
<1>1. /\ frames # << >> /\ Top.p <= Top.end + 1 /\ gbuf' = << >>
      /\ RunCommand(CString(gbuf), Stepped)
    BY DEF ScanLine, Scans
<1>2. Types /\ Shape /\ ProgramIsFile /\ QuietRun /\ gbuf \in Seq(Tokens \cup {Zero})
    BY DEF Inv, Types
<1>3. /\ Stepped \in Seq(Calls) /\ Len(Stepped) = Len(frames) /\ Len(frames) \in Nat \ {0}
      /\ Top \in Calls /\ Stepped[Len(frames)] = [Top EXCEPT !.p = @ + 1]
      /\ \A i \in 1 .. Len(frames) : Runs(Stepped[i]) <=> Runs(frames[i])
    BY <1>1, <1>2, SteppedIs
<1> DEFINE line == CString(gbuf)
<1>4. /\ line \in Seq(Tokens)
      /\ \A i \in 1 .. Len(line) : i \in 1 .. Len(gbuf) /\ line[i] = gbuf[i]
    BY <1>2, CStringType
<1>5. RunCommand(line, Stepped)
    BY <1>1
<1> HIDE DEF line
<1>6. Keeps /\ (\/ /\ frames' = Stepped /\ depth' = depth
                   /\ filebuf' = filebuf \/ (Len(line) = 1 /\ Cmd[line[1]].op \in {"cat", "exec"})
                \/ Called(Stepped))
    BY <1>2, <1>4, <1>5, RunCommandKeeps
<1>7. ShapeOf(Stepped, depth)
    <2>1. CASE Len(frames) = 1 /\ depth = IF Runs(frames[1]) THEN 1 ELSE 0
        BY <1>3, <2>1 DEF ShapeOf
    <2>2. CASE Len(frames) = 2 /\ ~Runs(frames[1]) /\ Runs(frames[2]) /\ depth = 1
        BY <1>3, <2>2 DEF ShapeOf
    <2>3. QED BY <1>1, <1>2, <2>1, <2>2 DEF Shape
<1>8. gbuf' \in Seq(Tokens \cup {Zero}) /\ Len(gbuf') <= MaxLine
    BY <1>1, EmptySeq, SizeAssumption
<1>9. LineDone' /\ ProgramIsFile'
    BY <1>1, <1>6 DEF LineDone, ProgramIsFile, Keeps
<1>10. CASE /\ frames' = Stepped /\ depth' = depth
            /\ filebuf' = filebuf \/ (Len(line) = 1 /\ Cmd[line[1]].op \in {"cat", "exec"})
    <2> DEFINE call == [Top EXCEPT !.p = @ + 1]
    <2>1. Top' = call
        BY <1>3, <1>10 DEF Top
    <2>2. call.p = Top.p + 1 /\ call.end = Top.end /\ call.text = Top.text /\ call.src = Top.src
          /\ Top.p \in Nat /\ Top.end \in Nat
        BY <1>3 DEF Calls
    <2> HIDE DEF call
    <2>3. ASSUME Quiet(Top)
          PROVE  filebuf' = filebuf
        <3>1. OfScript(Top, gbuf)
            BY <1>1, <1>2, <2>3 DEF QuietRun
        <3>2. ASSUME Len(line) = 1, Cmd[line[1]].op \in {"cat", "exec"}
              PROVE  FALSE
            <4>1. 1 \in 1 .. Len(gbuf) /\ line[1] = gbuf[1] /\ line[1] \in Tokens
                <5>1. 1 \in 1 .. Len(line)
                    BY <3>2
                <5>2. line[1] \in Tokens
                    BY <1>4, <5>1, ElementOfSeq
                <5>3. QED BY <1>4, <5>1, <5>2
            <4>2. PICK k \in 1 .. Len(Top.text) : Top.text[k] = gbuf[1]
                BY <3>1, <4>1 DEF OfScript
            <4>3. Top.text[k] # Newline
                BY <4>1, <4>2, BytesAssumption
            <4>4. ReadsAFile(Top.text)
                BY <3>2, <4>1, <4>2, <4>3 DEF ReadsAFile
            <4>5. QED BY <2>3, <4>4 DEF Quiet
        <3>3. QED BY <1>10, <3>2
    <2>4. ASSUME Quiet(Top')
          PROVE  Rest(Top', filebuf') /\ OfScript(Top', gbuf')
        <3>1. Quiet(Top)
            BY <2>1, <2>2, <2>4 DEF Quiet, Runs
        <3>2. Rest(Top, filebuf)
            BY <1>1, <1>2, <3>1 DEF QuietRun
        <3>3. Rest(call, filebuf)
            BY <2>2, <3>2 DEF Rest
        <3>4. QED BY <1>1, <2>1, <2>3, <3>1, <3>3 DEF OfScript
    <2>5. QED BY <1>3, <1>6, <1>7, <1>8, <1>9, <1>10, <2>4
              DEF Inv, Keeps, Types, Shape, ShapeOf, QuietRun
<1>11. CASE Called(Stepped)
    <2>1. frames' \in Seq(Calls) /\ ShapeOf(frames', depth') /\ Rest(Top', filebuf')
        BY <1>2, <1>3, <1>7, <1>11, CalledIs
    <2>2. QuietRun'
        BY <1>1, <2>1 DEF QuietRun, OfScript
    <2>3. QED BY <1>6, <1>8, <1>9, <2>1, <2>2 DEF Inv, Keeps, Types, Shape, ShapeOf
<1>12. QED BY <1>6, <1>10, <1>11

(* An empty line is stepped over; a byte joins the line that is assembled. *)
LEMMA ScanByteStep ==
    ASSUME Inv, ScanEmptyLine \/ ScanByte
    PROVE  Inv'
<1>1. /\ frames # << >> /\ Top.p <= Top.end + 1 /\ frames' = Stepped
      /\ UNCHANGED <<files, filebuf, depth, prog, loaded, inProgram, faults>>
    BY DEF ScanEmptyLine, ScanByte, Scans
<1>2. /\ Types /\ Shape /\ ProgramIsFile /\ QuietRun /\ gbuf \in Seq(Tokens \cup {Zero})
      /\ filebuf \in [1 .. BufLen -> Bytes] /\ Len(gbuf) <= MaxLine /\ Len(gbuf) \in Nat
    BY LenProperties DEF Inv, Types
<1>3. /\ Stepped \in Seq(Calls) /\ Len(Stepped) = Len(frames) /\ Len(frames) \in Nat \ {0}
      /\ Top \in Calls /\ Stepped[Len(frames)] = [Top EXCEPT !.p = @ + 1]
      /\ \A i \in 1 .. Len(frames) : Runs(Stepped[i]) <=> Runs(frames[i])
    BY <1>1, <1>2, SteppedIs
<1>4. Shape'
    <2>1. CASE Len(frames) = 1 /\ depth = IF Runs(frames[1]) THEN 1 ELSE 0
        BY <1>1, <1>3, <2>1 DEF Shape
    <2>2. CASE Len(frames) = 2 /\ ~Runs(frames[1]) /\ Runs(frames[2]) /\ depth = 1
        BY <1>1, <1>3, <2>2 DEF Shape
    <2>3. QED BY <1>1, <1>2, <2>1, <2>2 DEF Shape
<1> DEFINE call == [Top EXCEPT !.p = @ + 1]
<1>5. Top' = call /\ frames' # << >>
    <2>1. Len(frames') = Len(frames)
        BY <1>1, <1>3
    <2>2. QED BY <1>1, <1>3, <2>1, EmptySeq DEF Top
<1>6. /\ call.p = Top.p + 1 /\ call.end = Top.end /\ call.text = Top.text /\ call.src = Top.src
      /\ Top.p \in Nat \ {0} /\ Top.end \in Nat /\ Top.end = Len(Top.text) /\ Top.text \in Contents
      /\ (Runs(Top) => Top.end <= BufLen) /\ Top.src \in {"module", "filebuf"}
    BY <1>3 DEF Calls, Runs
<1> HIDE DEF call
<1>7. CASE ScanEmptyLine
    <2>1. gbuf = << >> /\ gbuf' = gbuf
        BY <1>7 DEF ScanEmptyLine
    <2>2. QuietRun'
        <3>1. ASSUME Quiet(Top')
              PROVE  Rest(Top', filebuf') /\ OfScript(Top', gbuf')
            <4>1. Quiet(Top)
                BY <1>5, <1>6, <3>1 DEF Quiet, Runs
            <4>2. Rest(Top, filebuf)
                BY <1>1, <1>2, <4>1 DEF QuietRun
            <4>3. QED BY <1>1, <1>5, <1>6, <2>1, <4>2 DEF Rest, OfScript
        <3>2. QED BY <3>1 DEF QuietRun
    <2>3. QED BY <1>1, <1>2, <1>3, <1>4, <2>1, <2>2 DEF Inv, Types, LineDone, ProgramIsFile
<1>8. CASE ScanByte
    <2>1. ByteRead # Newline /\ gbuf' = IF Len(gbuf) < MaxLine THEN Append(gbuf, ByteRead) ELSE gbuf
        BY <1>8 DEF ScanByte
    <2>2. Top.p <= Top.end
        BY <2>1, <1>6 DEF ByteRead
    <2>3. Top.text[Top.p] \in Tokens \cup {Newline}
        BY <1>6, <2>2, ElementOfSeq DEF Contents
    <2>4. Runs(Top) => Top.p \in 1 .. BufLen /\ filebuf[Top.p] \in Bytes /\ ByteRead = filebuf[Top.p]
        BY <1>2, <1>6, <2>2, SizeAssumption DEF ByteRead, Runs
    <2>5. ~Runs(Top) => ByteRead = Top.text[Top.p]
        BY <1>6, <2>2 DEF ByteRead, Runs
    <2>6. ByteRead \in Tokens \cup {Zero}
        BY <2>1, <2>3, <2>4, <2>5 DEF Bytes
    <2>7. /\ gbuf' \in Seq(Tokens \cup {Zero}) /\ Len(gbuf') <= MaxLine
          /\ \A i \in 1 .. Len(gbuf') : gbuf'[i] = ByteRead \/ (i \in 1 .. Len(gbuf) /\ gbuf'[i] = gbuf[i])
        <3>1. CASE Len(gbuf) < MaxLine
            <4>1. /\ gbuf' \in Seq(Tokens \cup {Zero}) /\ Len(gbuf') = Len(gbuf) + 1
                  /\ \A i \in 1 .. Len(gbuf) : gbuf'[i] = gbuf[i]
                  /\ gbuf'[Len(gbuf) + 1] = ByteRead
                BY <1>2, <2>1, <2>6, <3>1, AppendProperties
            <4>2. QED BY <1>2, <3>1, <4>1, SizeAssumption
        <3>2. CASE ~(Len(gbuf) < MaxLine)
            BY <1>2, <2>1, <3>2
        <3>3. QED BY <3>1, <3>2
    <2>8. LineDone'
        BY <1>5, <1>6, <2>2 DEF LineDone
    <2>9. QuietRun'
        <3>1. ASSUME Quiet(Top')
              PROVE  Rest(Top', filebuf') /\ OfScript(Top', gbuf')
            <4>1. Quiet(Top) /\ Runs(Top)
                BY <1>5, <1>6, <3>1 DEF Quiet, Runs
            <4>2. Rest(Top, filebuf) /\ OfScript(Top, gbuf)
                BY <1>1, <1>2, <4>1 DEF QuietRun
            <4>3. Rest(Top', filebuf')
                BY <1>1, <1>5, <1>6, <4>2 DEF Rest
            <4>4. Top.p \in 1 .. Len(Top.text) /\ Top.text[Top.p] = ByteRead
                BY <1>6, <2>2, <2>4, <4>1, <4>2 DEF Rest
            <4>5. OfScript(Top', gbuf')
                BY <1>5, <1>6, <2>7, <4>2, <4>4 DEF OfScript
            <4>6. QED BY <4>3, <4>5
        <3>2. QED BY <3>1 DEF QuietRun
    <2>10. QED BY <1>1, <1>2, <1>3, <1>4, <2>7, <2>8, <2>9 DEF Inv, Types, ProgramIsFile
<1>9. QED BY <1>7, <1>8

(* run_range_lines returns to its caller.                                  *)
LEMMA ScanEndsStep ==
    ASSUME Inv, ScanEnds
    PROVE  Inv'
<1>1. /\ frames # << >> /\ Top.p > Top.end + 1 /\ frames' = Front(frames)
      /\ depth' = IF Top.src = "filebuf" THEN depth - 1 ELSE depth
      /\ UNCHANGED <<files, filebuf, gbuf, prog, loaded, inProgram, faults>>
    BY DEF ScanEnds
<1>2. Types /\ Shape /\ ProgramIsFile /\ gbuf = << >> /\ frames \in Seq(Calls)
    BY <1>1 DEF Inv, LineDone, Types
<1>3. frames' = SubSeq(frames, 1, Len(frames) - 1)
    BY <1>1 DEF Front
<1>4. CASE Len(frames) = 1 /\ depth = IF Runs(frames[1]) THEN 1 ELSE 0
    <2>1. frames' = << >> /\ depth' = 0
        BY <1>1, <1>2, <1>3, <1>4, SubSeqEmpty DEF Top, Runs
    <2>2. QED BY <1>1, <1>2, <2>1, EmptySeq DEF Inv, Types, Shape, LineDone, QuietRun, ProgramIsFile
<1>5. CASE Len(frames) = 2 /\ ~Runs(frames[1]) /\ Runs(frames[2]) /\ depth = 1
    <2>1. frames' \in Seq(Calls) /\ Len(frames') = 1 /\ frames'[1] = frames[1] /\ depth' = 0
        BY <1>1, <1>2, <1>3, <1>5, SubSeqProperties DEF Top, Runs
    <2>2. Top' = frames[1]
        BY <2>1 DEF Top
    <2>3. QED BY <1>1, <1>2, <1>5, <2>1, <2>2
              DEF Inv, Types, Shape, LineDone, QuietRun, Quiet, ProgramIsFile
<1>6. QED BY <1>1, <1>2, <1>4, <1>5 DEF Shape

(* A program that exec entered returns: the scan goes on where it was.     *)
LEMMA ProgramExitsStep ==
    ASSUME Inv, ProgramExits
    PROVE  Inv'
<1>1. /\ inProgram' = FALSE
      /\ UNCHANGED <<files, filebuf, gbuf, frames, depth, prog, loaded, faults>>
    BY DEF ProgramExits
<1>2. Types' /\ Shape'
    BY <1>1 DEF Inv, Types, Shape
<1>3. LineDone' /\ QuietRun' /\ ProgramIsFile'
    BY <1>1 DEF Inv, LineDone, QuietRun, ProgramIsFile, Top
<1>4. QED BY <1>2, <1>3 DEF Inv

(* FILEBUF, the stack of calls and the program region are as they should   *)
(* be at every step: the inductive invariant.                              *)
THEOREM ShellKeepsBuffers == Spec => []Inv
<1>1. Init => Inv
    <2> SUFFICES ASSUME Init
                 PROVE  Inv
        OBVIOUS
    <2>1. << >> \in Stored /\ << >> \in Seq(Tokens \cup {Zero}) /\ Len(<< >>) = 0
        BY SizeAssumption DEF Stored, Contents
    <2>2. Padded(<< >>, BufLen) \in [1 .. BufLen -> Bytes]
        BY <2>1, PaddedType
    <2>3. files \in [Names -> Stored \cup {Absent}]
        BY DiskAssumption DEF Init, Stored
    <2>4. PICK s \in BootScripts : frames = <<Frame("module", s)>>
        BY DEF Init
    <2>5. s \in Contents /\ Len(s) \in Nat
        BY DiskAssumption, LenProperties DEF Contents
    <2>6. Frame("module", s) \in Calls /\ ~Runs(Frame("module", s))
          /\ ~(Frame("module", s).p > Frame("module", s).end + 1)
        BY <2>5 DEF Frame, Calls, Runs
    <2>7. frames \in Seq(Calls) /\ Len(frames) = 1 /\ frames[1] = Frame("module", s)
          /\ Top = Frame("module", s)
        BY <2>4, <2>6 DEF Top
    <2>8. Types
        <3>1. gbuf = << >> /\ loaded = << >> /\ inProgram = FALSE /\ faults = 0
              /\ filebuf = Padded(<< >>, BufLen) /\ prog = Padded(<< >>, BufLen)
            BY DEF Init
        <3>2. Len(gbuf) <= MaxLine /\ faults \in 0 .. MaxFaults
            BY <2>1, <3>1, SizeAssumption
        <3>3. QED BY <2>1, <2>2, <2>3, <2>7, <3>1, <3>2 DEF Types
    <2>9. Shape
        BY <2>6, <2>7 DEF Init, Shape
    <2>10. LineDone /\ QuietRun
        BY <2>6, <2>7 DEF Init, LineDone, QuietRun, Quiet
    <2>11. ProgramIsFile
        BY DEF Init, ProgramIsFile
    <2>12. QED BY <2>8, <2>9, <2>10, <2>11 DEF Inv
<1>2. Inv /\ [Next]_vars => Inv'
    <2> SUFFICES ASSUME Inv, [Next]_vars
                 PROVE  Inv'
        OBVIOUS
    <2>1. CASE UNCHANGED vars
        BY <2>1 DEF vars, Inv, Types, Shape, LineDone, QuietRun, ProgramIsFile, Top
    <2>2. QED BY <2>1, TypeStep, ScanLineStep, ScanByteStep, ScanEndsStep, ProgramExitsStep
              DEF Next, Scan
<1>3. QED BY <1>1, <1>2, PTL DEF Spec

(* Files, buffers, the line, the calls in progress and the nesting depth   *)
(* have their types: a line never outgrows g_buf, calls never nest deeper. *)
THEOREM TypeCorrect == Spec => []TypeOK
<1>1. Inv => TypeOK
    <2> SUFFICES ASSUME Inv
                 PROVE  TypeOK
        OBVIOUS
    <2>1. Types /\ Shape
        BY DEF Inv
    <2>2. \A n \in Names : files[n] = Absent \/ files[n] \in Contents
        BY <2>1 DEF Types, Stored
    <2>3. Len(frames) <= 2 /\ depth \in 0 .. 1
        <3>1. frames = << >> => Len(frames) = 0
            BY EmptySeq
        <3>2. QED BY <2>1, <3>1 DEF Shape
    <2>4. QED BY <2>1, <2>2, <2>3 DEF Types, TypeOK
<1>2. QED BY <1>1, ShellKeepsBuffers, PTL

(* No command of a script that neither cats nor execs disturbs what is     *)
(* left of it in FILEBUF.                                                  *)
THEOREM QuietScriptsRun == Spec => []QuietScriptIntact
<1>1. Inv => QuietScriptIntact
    <2> SUFFICES ASSUME Inv, NEW i \in 1 .. Len(frames), frames[i].src = "filebuf",
                        ~ReadsAFile(frames[i].text)
                 PROVE  \A k \in frames[i].p .. frames[i].end : filebuf[k] = frames[i].text[k]
        BY DEF QuietScriptIntact
    <2>1. Shape /\ QuietRun
        BY DEF Inv
    <2>2. i = Len(frames) /\ frames # << >>
        <3>1. frames = << >> => Len(frames) = 0
            BY EmptySeq
        <3>2. Runs(frames[i])
            BY DEF Runs
        <3>3. CASE frames = << >>
            BY <3>1, <3>3
        <3>4. CASE Len(frames) = 1
            BY <3>1, <3>4
        <3>5. CASE Len(frames) = 2 /\ ~Runs(frames[1])
            BY <3>1, <3>2, <3>5
        <3>6. QED BY <2>1, <3>3, <3>4, <3>5 DEF Shape
    <2>3. Quiet(Top) /\ Top = frames[i]
        BY <2>2 DEF Quiet, Runs, Top
    <2>4. QED BY <2>1, <2>2, <2>3 DEF QuietRun, Rest
<1>2. QED BY <1>1, ShellKeepsBuffers, PTL

(* exec enters the file it was asked for, and no rest of another program.  *)
THEOREM ProgramsAreFiles == Spec => []ProgramIsFile
<1>1. Inv => ProgramIsFile
    BY DEF Inv
<1>2. QED BY <1>1, ShellKeepsBuffers, PTL
=============================================================================

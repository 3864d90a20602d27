------------------------------ MODULE MortFS -------------------------------
(***************************************************************************)
(* The MortFS v1 filesystem of kernel/kmain.mx: a superblock and a file    *)
(* table cached in RAM, a bump allocator of fixed extents, and files that  *)
(* grow by lines.  One step is one transfer of a sector, so that a power   *)
(* cut or a failing drive falls between any two of them.                   *)
(***************************************************************************)
EXTENDS Integers, Sequences, FiniteSets

CONSTANTS
    Names,          \* names a user types
    LongNames,      \* those of more than 23 characters
    Lines,          \* lines (text and its newline) a `write' appends
    Seeds,          \* file lists given to mkfs: sequences of [name, content]
    NoName,         \* the zeroed name field
    Absent,         \* what LineStore calls the content of no file
    Blank,          \* the zero byte
    EntriesPerSector, TableSectors,          \* 8 and 8
    SectorLen, ExtentSectors,                \* 512 and 128
    DataStart, TotalSectors,                 \* 16 and 32768
    U32,                                     \* 2^32, where file_count wraps
    WriteFaults,    \* how a sector write may go wrong, see Outcomes
    ReadFaults,     \* how the read of an append may, see AppendFetchFails
    MaxFaults,      \* bound: drive faults in a behaviour
    MaxBoots        \* bound: power-ons in a behaviour

Slots == EntriesPerSector * TableSectors
SlotIds == 0 .. Slots - 1
NoSlot == Slots                              \* the sentinel 64 of fs_find
ExtentLen == ExtentSectors * SectorLen
DataSectors == DataStart .. TotalSectors - 1
Bytes == {Blank} \cup (UNION {{l[k] : k \in DOMAIN l} : l \in Lines})
             \cup (UNION {UNION {{s[i].content[k] : k \in DOMAIN s[i].content} :
                                i \in DOMAIN s} : s \in Seeds})

ASSUME GeometryAssumption ==
    /\ EntriesPerSector \in Nat \ {0} /\ TableSectors \in Nat \ {0}
    /\ SectorLen \in Nat \ {0} /\ ExtentSectors \in Nat \ {0}
    /\ DataStart \in Nat /\ TotalSectors \in Nat
    /\ DataStart > TableSectors
    /\ U32 \in Nat /\ U32 > Slots
ASSUME LinesAssumption == \A l \in Lines : l \in Seq(Bytes) /\ Len(l) > 0
ASSUME NamesAssumption == LongNames \subseteq Names /\ NoName \notin Names
ASSUME AbsentAssumption == Absent \notin Seq(Bytes)
ASSUME FaultsAssumption ==
    /\ WriteFaults \subseteq {"lost", "late", "silent"}
    /\ ReadFaults \subseteq {"refused", "abandoned"}
    /\ MaxFaults \in Nat /\ MaxBoots \in Nat

(* mkfs.make refuses every other list of seed files. *)
SeedAccepted(s) ==
    /\ Len(s) <= Slots
    /\ DataStart + ExtentSectors * Len(s) <= TotalSectors
    /\ \A i \in 1 .. Len(s) : /\ s[i].name \in Names \ LongNames
                              /\ s[i].content \in Seq(Bytes)
                              /\ Len(s[i].content) <= ExtentLen
    /\ \A i, j \in 1 .. Len(s) : i # j => s[i].name # s[j].name

ASSUME SeedsAssumption ==
    \A s \in Seeds : s \in Seq([name : Names, content : Seq(Bytes)])

VARIABLES
    dSuper, dTable, dData,  \* the medium: sector 0, the table, the data sectors
    cSuper, cTable,         \* TABCACHE, valid while mounted
    ctl,    \* "off" | "nofs" | "idle" | "fetch" | "put" | "sync"
    job,    \* the command in flight and its locals
    reply,  \* "none" | "ok" | "error": what the fs_ function returned
    out,    \* the message the command printed; "" when it printed nothing
    owed,   \* the sector of a read the driver has abandoned, as a set: the
            \* drive may still hand it over, to whichever command comes next
    faults, boots

disk == <<dSuper, dTable, dData>>
cache == <<cSuper, cTable>>
vars == <<disk, cache, ctl, job, reply, out, owed, faults, boots>>

-----------------------------------------------------------------------------
(* Data structures. *)

FreeEntry == [used |-> FALSE, name |-> NoName, size |-> 0, start |-> 0, cap |-> 0]
Entry == [used : BOOLEAN, name : Names \cup {NoName}, size : Nat, start : Nat,
          cap : Nat]
Super == [count : 0 .. U32 - 1, next : Nat, total : Nat]
Sector == [1 .. SectorLen -> Bytes]
BlankSector == [k \in 1 .. SectorLen |-> Blank]

(* file_count is a u32. *)
Counted(c, d) == (c + d) % U32

(* The superblock when a file is created, and when one is removed. *)
(* Mutant: the new extent starts inside the last one.              *)
ClaimedTooLittle(s) == [s EXCEPT !.next = @ + ExtentSectors - 1, !.count = Counted(@, 1)]
Claimed(s) == [s EXCEPT !.next = @ + ExtentSectors, !.count = Counted(@, 1)]
(* Mutant: rm gives the last extent back. *)
ReleasedRewinding(s) == [s EXCEPT !.next = @ - ExtentSectors, !.count = Counted(@, -1)]
Released(s) == [s EXCEPT !.count = Counted(@, -1)]

Used(t) == {i \in SlotIds : t[i].used}
SuperSector == 0
SectorOf(i) == 1 + (i \div EntriesPerSector)   \* table sector of entry i

(* Byte k of entry e, counted from 0, as the extent stores it. *)
ByteAt(e, data, k) == data[e.start + (k \div SectorLen)][1 + (k % SectorLen)]

FileContent(e, data) == [k \in 1 .. e.size |-> ByteAt(e, data, k - 1)]

NoJob == [kind |-> "none", slot |-> NoSlot, line |-> << >>, at |-> 0, off |-> 0,
          rest |-> << >>, buf |-> BlankSector, next |-> 0]

(* fs_find and fs_free_slot: the first entry that fits, or the sentinel. *)
FirstSlot(S) == IF S = {} THEN NoSlot ELSE CHOOSE i \in S : \A j \in S : i <= j
(* Mutant: the scan starts at the second entry. *)
FsFindLate(t, n) == FirstSlot({i \in Used(t) : t[i].name = n /\ i > 0})

FsFind(t, n) == FirstSlot({i \in Used(t) : t[i].name = n})
FsFreeSlot(t) == FirstSlot(SlotIds \ Used(t))

(***************************************************************************)
(* ata_write of one sector, on a drive that raises DRQ or ERR before the   *)
(* wait for it runs out.  "ok": stored and reported.  "lost": refused, or  *)
(* not sent because the drive stayed busy, or dropped before it reached    *)
(* the medium.  "late": stored, but a later wait for BSY timed out and the *)
(* call returns false.  "silent": the drive raised ERR or DF after the     *)
(* data phase, which the driver never looks at: not stored, and the call   *)
(* returns true.  So it does when the drive is still at an abandoned read. *)
(***************************************************************************)
Outcomes ==
    {"ok"} \cup IF faults < MaxFaults
               THEN WriteFaults \cup {o \in {"silent"} : owed # {}}
               ELSE {}
(* Mutant: the caller ignores what ata_write returns. *)
ReportedAlways(o) == o \in {"ok", "lost", "late", "silent"}

Stored(o) == o \in {"ok", "late"}
Reported(o) == o \in {"ok", "silent"}
Count(o) ==         \* a drive that stores the sector has dropped the read before
    /\ faults' = IF o = "ok" THEN faults ELSE faults + 1
    /\ owed' = IF Stored(o) THEN {} ELSE owed

-----------------------------------------------------------------------------
(* mkfs writes the image, the machine is off. *)

MkfsEntry(s, i) ==
    IF i < Len(s)
    THEN [used |-> TRUE, name |-> s[i + 1].name, size |-> Len(s[i + 1].content),
          start |-> DataStart + i * ExtentSectors, cap |-> ExtentSectors]
    ELSE FreeEntry

MkfsByte(s, k) ==       \* k counts bytes from the start of the data region
    LET i == k \div ExtentLen  o == k % ExtentLen
    IN  IF i < Len(s) /\ o < Len(s[i + 1].content)
        THEN s[i + 1].content[o + 1] ELSE Blank

MkfsImage(s) ==
    /\ dSuper = [count |-> Len(s), next |-> DataStart + ExtentSectors * Len(s),
                 total |-> TotalSectors]
    /\ dTable = [i \in SlotIds |-> MkfsEntry(s, i)]
    /\ dData = [b \in DataSectors |-> [k \in 1 .. SectorLen |->
                    MkfsByte(s, (b - DataStart) * SectorLen + k - 1)]]

EmptyCache ==
    /\ cSuper = [count |-> 0, next |-> 0, total |-> 0]
    /\ cTable = [i \in SlotIds |-> FreeEntry]

Init ==
    /\ \E s \in Seeds : SeedAccepted(s) /\ MkfsImage(s)
    /\ EmptyCache
    /\ ctl = "off" /\ job = NoJob
    /\ reply = "none" /\ out = ""
    /\ owed = {} /\ faults = 0 /\ boots = 0

-----------------------------------------------------------------------------
(* Power. *)

(* kmain calls fs_init before interrupts are on: sectors 0..8 are read. *)
Boot ==
    /\ ctl = "off" /\ boots < MaxBoots
    /\ boots' = boots + 1
    /\ cSuper' = dSuper /\ cTable' = dTable
    /\ ctl' = "idle"
    /\ UNCHANGED <<disk, job, reply, out, owed, faults>>

(* No drive, or one of the nine reads fails: g_fs_ok stays false. *)
BootFails ==
    /\ ctl = "off" /\ boots < MaxBoots /\ faults < MaxFaults
    /\ boots' = boots + 1 /\ faults' = faults + 1
    /\ ctl' = "nofs"
    /\ UNCHANGED <<disk, cache, job, reply, out, owed>>

(* fs_guard turns every command away. *)
GuardRefuses ==
    /\ ctl = "nofs"
    /\ reply' = "error" /\ out' = "no filesystem"
    /\ UNCHANGED <<disk, cache, ctl, job, owed, faults, boots>>

(* The machine is switched off, or `reboot' or `crash' is typed. *)
PowerCut ==
    /\ ctl # "off" /\ boots < MaxBoots
    /\ ctl' = "off" /\ job' = NoJob
    /\ cSuper' = [count |-> 0, next |-> 0, total |-> 0]
    /\ cTable' = [i \in SlotIds |-> FreeEntry]
    /\ reply' = "none" /\ out' = "" /\ owed' = {}
    /\ UNCHANGED <<disk, faults, boots>>

-----------------------------------------------------------------------------
(* Ways a command leaves the kernel. *)

Ends(r, msg) ==
    /\ ctl' = "idle" /\ job' = NoJob
    /\ reply' = r /\ out' = msg

StartSync(j) == ctl' = "sync" /\ job' = j     \* sector 0 is next

Running == reply' = "none" /\ out' = ""

-----------------------------------------------------------------------------
(* write <name> <text> *)

CreateRefusal(n) ==
    CASE n \in LongNames -> "name too long"
      [] n \notin LongNames /\ FsFreeSlot(cTable) = NoSlot -> "file table full"
      [] n \notin LongNames /\ FsFreeSlot(cTable) # NoSlot
            /\ cSuper.next + ExtentSectors > cSuper.total -> "disk full"
      [] OTHER -> ""

(* fs_create fails one of its checks; the command prints the error. *)
WriteRefused(n) ==
    /\ ctl = "idle" /\ FsFind(cTable, n) = NoSlot
    /\ CreateRefusal(n) # ""
    /\ Ends("error", CreateRefusal(n))
    /\ UNCHANGED <<disk, cache, owed, faults, boots>>

(* fs_create claims a slot and an extent in the cache, then syncs. *)
WriteCreates(n, l) ==
    /\ ctl = "idle" /\ FsFind(cTable, n) = NoSlot
    /\ CreateRefusal(n) = ""
    /\ LET i == FsFreeSlot(cTable) IN
       /\ cTable' = [cTable EXCEPT ![i] =
                       [used |-> TRUE, name |-> n, size |-> 0,
                        start |-> cSuper.next, cap |-> ExtentSectors]]
       /\ cSuper' = Claimed(cSuper)
       /\ StartSync([NoJob EXCEPT !.kind = "create", !.slot = i, !.line = l])
    /\ Running
    /\ UNCHANGED <<disk, owed, faults, boots>>

(* The file exists: fs_append_line is called at once. *)
WriteFinds(n, l) ==
    /\ ctl = "idle" /\ FsFind(cTable, n) # NoSlot
    /\ ctl' = "fetch"
    /\ job' = [NoJob EXCEPT !.kind = "append", !.slot = FsFind(cTable, n), !.line = l]
    /\ Running
    /\ UNCHANGED <<disk, cache, owed, faults, boots>>

(* fs_append_line up to its byte loop: room check, partial sector to SECBUF. *)
Target == cTable[job.slot]
(* Mutant: the newline is not counted. *)
NoRoomForText == Target.size + Len(job.line) - 1 > Target.cap * SectorLen
NoRoom == Target.size + Len(job.line) > Target.cap * SectorLen

AppendTooLong ==
    /\ ctl = "fetch" /\ NoRoom
    /\ Ends("error", "file full")
    /\ UNCHANGED <<disk, cache, owed, faults, boots>>

(***************************************************************************)
(* ata_read of sector `at' when it returns true: the sector, or, if a read *)
(* has been abandoned and the drive ready since, what that one asked for.  *)
(***************************************************************************)
Fetched(at) == {dData[b] : b \in {at} \cup owed}

AppendFetch ==
    /\ ctl = "fetch" /\ ~NoRoom
    /\ LET at == Target.start + (Target.size \div SectorLen)
           off == Target.size % SectorLen
       IN  /\ \E sector \in IF off # 0 THEN Fetched(at) ELSE {BlankSector} :
                  job' = [job EXCEPT !.kind = "append", !.at = at, !.off = off,
                                     !.rest = job.line, !.buf = sector]
           /\ owed' = IF off # 0 THEN {} ELSE owed
    /\ ctl' = "put"
    /\ UNCHANGED <<disk, cache, reply, out, faults, boots>>

(* "refused": ERR or DF, or the drive stayed busy.  "abandoned": the wait  *)
(* for DRQ ran out, and the drive still has the command.                   *)
AppendFetchFails ==
    /\ ctl = "fetch" /\ ~NoRoom /\ Target.size % SectorLen # 0
    /\ faults < MaxFaults /\ faults' = faults + 1
    /\ \E fault \in ReadFaults :
          owed' = IF fault = "abandoned"
                  THEN {Target.start + (Target.size \div SectorLen)} ELSE owed
    /\ Ends("error", "file full")
    /\ UNCHANGED <<disk, cache, boots>>

(* Mutant: the sector is flushed one byte late. *)
ChunkLate == LET room == SectorLen - job.off + 1
             IN  IF Len(job.rest) <= room THEN job.rest ELSE SubSeq(job.rest, 1, room)

(* The bytes of the line that fit in the sector being filled. *)
Chunk == LET room == SectorLen - job.off
         IN  IF Len(job.rest) <= room THEN job.rest ELSE SubSeq(job.rest, 1, room)

(* Mutant: what the partial sector holds is not kept. *)
FilledFromBlank == [k \in 1 .. SectorLen |->
                       IF k \in job.off + 1 .. job.off + Len(Chunk)
                       THEN Chunk[k - job.off] ELSE Blank]

Filled == [k \in 1 .. SectorLen |->
              IF k \in job.off + 1 .. job.off + Len(Chunk)
              THEN Chunk[k - job.off] ELSE job.buf[k]]

(***************************************************************************)
(* One round of the byte loop: SECBUF is filled and written.  When the     *)
(* line is all on disk its size is entered in the cache and synced.        *)
(***************************************************************************)
AppendPut ==
    /\ ctl = "put"
    /\ \E o \in Outcomes :
       /\ Count(o)
       /\ dData' = IF Stored(o) THEN [dData EXCEPT ![job.at] = Filled] ELSE dData
       /\ \/ /\ ~Reported(o)
             /\ Ends("error", "file full")
             /\ UNCHANGED cTable
          \/ /\ Reported(o) /\ Len(Chunk) < Len(job.rest)
             /\ job' = [job EXCEPT !.at = @ + 1, !.off = 0, !.buf = BlankSector,
                           !.rest = SubSeq(@, Len(Chunk) + 1, Len(@))]
             /\ UNCHANGED <<cTable, ctl, reply, out>>
          \/ /\ Reported(o) /\ Len(Chunk) = Len(job.rest)
             /\ cTable' = [cTable EXCEPT ![job.slot].size = @ + Len(job.line)]
             /\ StartSync([NoJob EXCEPT !.kind = "append", !.slot = job.slot])
             /\ UNCHANGED <<reply, out>>
    /\ UNCHANGED <<dSuper, dTable, cSuper, boots>>

-----------------------------------------------------------------------------
(* rm <name> *)

RemoveMissing(n) ==
    /\ ctl = "idle" /\ FsFind(cTable, n) = NoSlot
    /\ Ends("error", "not found")
    /\ UNCHANGED <<disk, cache, owed, faults, boots>>

RemoveFound(n) ==
    /\ ctl = "idle" /\ FsFind(cTable, n) # NoSlot
    /\ cTable' = [cTable EXCEPT ![FsFind(cTable, n)].used = FALSE]
    /\ cSuper' = Released(cSuper)
    /\ StartSync([NoJob EXCEPT !.kind = "remove"])
    /\ Running
    /\ UNCHANGED <<disk, owed, faults, boots>>

-----------------------------------------------------------------------------
(* fs_sync: sectors 0..8 in order, stopping at the first failed write. *)

(* Mutant: a create syncs until the sync has been seen to succeed twice, and *)
(* forgets that it has.                                                      *)
AfterSyncAgain ==
    IF job.kind = "create"
    THEN job' = [job EXCEPT !.next = 0] /\ UNCHANGED <<ctl, reply, out>>
    ELSE Ends("ok", "")

AfterSync ==        \* fs_sync returned true
    IF job.kind = "create"
    THEN /\ ctl' = "fetch" /\ job' = [job EXCEPT !.next = 0]
         /\ UNCHANGED <<reply, out>>
    ELSE Ends("ok", "")

SyncFailure ==      \* what the shell prints when fs_sync returned false
    CASE job.kind = "create" -> ""
      [] job.kind = "append" -> "file full"
      [] job.kind = "remove" -> "not found"

SyncSector ==
    /\ ctl = "sync"
    /\ \E o \in Outcomes :
       /\ Count(o)
       /\ dSuper' = IF Stored(o) /\ job.next = SuperSector THEN cSuper ELSE dSuper
       /\ dTable' = [i \in SlotIds |->
                        IF Stored(o) /\ SectorOf(i) = job.next
                        THEN cTable[i] ELSE dTable[i]]
       /\ \/ ~Reported(o) /\ Ends("error", SyncFailure)
          \/ /\ Reported(o) /\ job.next < TableSectors
             /\ job' = [job EXCEPT !.next = @ + 1]
             /\ UNCHANGED <<ctl, reply, out>>
          \/ Reported(o) /\ job.next = TableSectors /\ AfterSync
    /\ UNCHANGED <<dData, cache, boots>>

-----------------------------------------------------------------------------

Command == \E n \in Names : \/ WriteRefused(n) \/ RemoveMissing(n) \/ RemoveFound(n)
                            \/ \E l \in Lines : WriteCreates(n, l) \/ WriteFinds(n, l)

(* The steps of a command once it runs: a handler that is never preempted. *)
Handler == AppendTooLong \/ AppendFetch \/ AppendFetchFails \/ AppendPut \/ SyncSector

Next == Boot \/ BootFails \/ GuardRefuses \/ PowerCut \/ Command \/ Handler

Spec == Init /\ [][Next]_vars

(* The processor keeps executing a handler it has entered. *)
FairSpec == Spec /\ WF_vars(Handler)

-----------------------------------------------------------------------------
(* Properties. *)

Mounted == ctl \in {"idle", "fetch", "put", "sync"}

JobType == [kind : {"none", "create", "append", "remove"}, slot : 0 .. Slots,
            line : Lines \cup {<< >>}, at : Nat, off : 0 .. SectorLen - 1,
            rest : Seq(Bytes), buf : Sector, next : 0 .. TableSectors]

(* The shape of the medium, the cache and the command in flight. *)
TypeOK ==
    /\ dSuper \in Super /\ cSuper \in Super
    /\ dTable \in [SlotIds -> Entry] /\ cTable \in [SlotIds -> Entry]
    /\ dData \in [DataSectors -> Sector]
    /\ ctl \in {"off", "nofs", "idle", "fetch", "put", "sync"}
    /\ job \in JobType
    /\ reply \in {"none", "ok", "error"} /\ owed \subseteq DataSectors
    /\ faults \in 0 .. MaxFaults /\ boots \in 0 .. MaxBoots

Apart(e, f) == e.start + e.cap <= f.start \/ f.start + f.cap <= e.start

(***************************************************************************)
(* No two files share a sector: in the table in use, in the table a power  *)
(* cut would leave (sectors of several generations may be mixed in it),    *)
(* and between the two.  fs_create relies on next_free_sector, which       *)
(* fs_sync must save before any entry that was allocated below it.         *)
(***************************************************************************)
ExtentsApart ==
    /\ \A i, j \in Used(dTable) : i # j => Apart(dTable[i], dTable[j])
    /\ Mounted => \A i, j \in Used(cTable) : i # j => Apart(cTable[i], cTable[j])
    /\ Mounted => \A i \in Used(dTable), j \in Used(cTable) :
                      i # j => Apart(dTable[i], cTable[j])

(* A command reported as done has reached the medium in full: what a power *)
(* cut leaves is exactly what the shell shows (fs_sync, ata_write).        *)
AckedIsStored == reply = "ok" => dSuper = cSuper /\ dTable = cTable

(* next_free_sector on the medium never falls, whatever sync a crash cuts: *)
(* no boot hands out an extent below one it knows (fs_create, fs_sync).    *)
AllocatorNeverRewinds == [][dSuper'.next >= dSuper.next]_vars

(* Appending in place never changes a byte of a file the medium records,   *)
(* its own earlier lines included (fs_append_line read-modify-writes the   *)
(* last sector), on a drive that answers before the wait for DRQ runs out: *)
(* with "abandoned" in ReadFaults another sector's bytes may be stored.    *)
SavedBytesStay ==
    [][\A i \in Used(dTable) : \A k \in 0 .. dTable[i].size - 1 :
          ByteAt(dTable[i], dData', k) = ByteAt(dTable[i], dData, k)]_vars

(* MortFS implements LineStore: commands are atomic file by file, acked    *)
(* lines survive a power cut, a removed file stays removed.  On a drive    *)
(* that answers before the wait for DRQ runs out, like SavedBytesStay.     *)
View(t) == [n \in Names |-> IF FsFind(t, n) = NoSlot THEN Absent
                            ELSE FileContent(t[FsFind(t, n)], dData)]

Store == INSTANCE LineStore WITH
             live <- IF Mounted THEN View(cTable) ELSE View(dTable),
             saved <- View(dTable)

ImplementsLineStore == Store!Spec

(* Every wait of the driver is bounded, so a command always comes back to  *)
(* the prompt, unless the power goes.                                      *)
CommandEnds == ctl \in {"fetch", "put", "sync"} ~> ctl \in {"idle", "off"}

(* A name belongs to one file: fs_create is called only for a name that    *)
(* fs_find does not know, but a table mixed from two syncs may hold the    *)
(* entry of a removed file next to the one that replaced it.               *)
NamesUnique ==
    Mounted => \A i, j \in Used(cTable) : i # j => cTable[i].name # cTable[j].name

-----------------------------------------------------------------------------
(* The inductive invariant. *)

(* A table whose files lie apart, below the allocator of its superblock.   *)
Allocated(t, s) ==
    /\ s.total = TotalSectors /\ s.next \in DataStart .. TotalSectors
    /\ \A i \in Used(t) : /\ DataStart <= t[i].start
                          /\ t[i].start + t[i].cap <= s.next
                          /\ t[i].size <= t[i].cap * SectorLen
    /\ \A i, j \in Used(t) : i # j => Apart(t[i], t[j])

DiskInv == Allocated(dTable, dSuper)

CacheInv ==
    Mounted => /\ Allocated(cTable, cSuper)
               /\ dSuper.next <= cSuper.next
               /\ \A i \in Used(dTable), j \in Used(cTable) :
                      i # j => Apart(dTable[i], cTable[j])

(* fs_sync is past sector 0 only once the superblock is saved.             *)
SuperFirst == ctl = "sync" /\ job.next > 0 => dSuper = cSuper

JobInv ==
    /\ ctl \in {"fetch", "put"} \/ (ctl = "sync" /\ job.kind = "create") =>
           job.slot \in Used(cTable) /\ job.line \in Lines
    /\ ctl = "put" => ~NoRoom

(* No read is abandoned on a drive that answers before the wait runs out.  *)
NothingOwed == owed = {}

(* The inductive invariant behind ExtentsApart and AllocatorNeverRewinds:  *)
(* every table, also one mixed from two syncs, lies below the superblock   *)
(* saved with or before it, which is never ahead of the one in the cache.  *)
IInv == TypeOK /\ DiskInv /\ CacheInv /\ SuperFirst /\ JobInv /\ NothingOwed

=============================================================================

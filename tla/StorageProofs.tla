--------------------------- MODULE StorageProofs ---------------------------
(***************************************************************************)
(* Proofs about the kernel's storage: MortFS for every geometry, every set *)
(* of names and lines and every number of faults and power cuts, and below *)
(* it AtaDriver for every bound on the reads of the status port and every  *)
(* number of calls.                                                        *)
(*                                                                         *)
(* The theorems on MortFS are about a drive that answers every command     *)
(* before the driver gives up waiting for its DRQ ("abandoned" \notin      *)
(* ReadFaults; Outcomes has no write abandoned so) and that fails no       *)
(* sector it has taken ("silent" \notin WriteFaults).  The theorems on     *)
(* AtaDriver show that on such a drive what ata_read and ata_write report  *)
(* is true, whichever of their other waits time out.                       *)
(***************************************************************************)
EXTENDS MortFS, AtaDriver, SequenceTheorems, WellFoundedInduction, TLAPS

-----------------------------------------------------------------------------
(* Arithmetic of sectors and extents. *)

(* Multiplication is monotone: later extents start higher.                 *)
LEMMA MulMono ==
    ASSUME NEW i \in Nat, NEW j \in Nat, NEW n \in Nat, i <= j
    PROVE  i * n <= j * n
<1>1. PICK d \in Nat : j = i + d
    <2>1. j - i \in Nat /\ j = i + (j - i)
        OBVIOUS
    <2>2. QED BY <2>1
<1>2. j * n = i * n + d * n /\ d * n \in Nat
    BY <1>1
<1>3. QED BY <1>2

(* The sector of a byte inside an extent of n sectors is one of them.      *)
LEMMA DivBound ==
    ASSUME NEW k \in Nat, NEW n \in Nat, NEW s \in Nat \ {0}, k < n * s
    PROVE  k \div s \in Nat /\ k \div s < n
<1>1. k \div s \in Nat /\ k = s * (k \div s) + (k % s) /\ k % s \in 0 .. s - 1
    OBVIOUS
<1>2. SUFFICES ASSUME n <= k \div s PROVE FALSE
    BY <1>1
<1>3. n * s <= (k \div s) * s
    BY <1>1, <1>2, MulMono
<1>4. QED BY <1>1, <1>3

(* Extents laid out one after the other stay so behind an offset.          *)
LEMMA Follows ==
    ASSUME NEW d \in Nat, NEW a \in Nat, NEW e \in Nat, NEW b \in Nat, a + e <= b
    PROVE  (d + a) + e <= d + b
OBVIOUS

(* A nonempty set of naturals has a least element. *)
LEMMA LeastNatural ==
    ASSUME NEW S, S \subseteq Nat, S # {}
    PROVE  \E i \in S : \A j \in S : i <= j
<1> DEFINE R == OpToRel(<, Nat)
<1>1. IsWellFoundedOn(R, Nat)
    BY NatLessThanWellFounded
<1> HIDE DEF R
<1>2. PICK i \in S : \A j \in S : ~(<<j, i>> \in R)
    BY <1>1, WFMin
<1>3. \A j \in S : ~(j < i)
    BY <1>2 DEF R, OpToRel
<1>4. QED BY <1>3

-----------------------------------------------------------------------------
(* What the constants are. *)

(* The numbers of sectors and slots are what their assumptions make them.  *)
LEMMA Geometry ==
    /\ EntriesPerSector \in Nat \ {0} /\ TableSectors \in Nat \ {0}
    /\ SectorLen \in Nat \ {0} /\ ExtentSectors \in Nat \ {0}
    /\ DataStart \in Nat /\ TotalSectors \in Nat
    /\ Slots \in Nat /\ U32 \in Nat \ {0} /\ Slots < U32
    /\ ExtentLen = ExtentSectors * SectorLen /\ ExtentLen \in Nat \ {0}
    /\ SlotIds \subseteq Nat /\ SlotIds = 0 .. Slots - 1 /\ NoSlot = Slots
    /\ MaxFaults \in Nat /\ MaxBoots \in Nat
BY GeometryAssumption, FaultsAssumption DEF Slots, ExtentLen, SlotIds, NoSlot

(* fs_find and fs_free_slot return a slot that fits, or the sentinel.      *)
LEMMA FirstSlotFits ==
    ASSUME NEW S, S \subseteq SlotIds
    PROVE  /\ FirstSlot(S) = NoSlot <=> S = {}
           /\ S # {} => FirstSlot(S) \in S
<1>1. CASE S = {}
    BY <1>1 DEF FirstSlot
<1>2. CASE S # {}
    <2>1. \E i \in S : \A j \in S : i <= j
        BY <1>2, LeastNatural, Geometry
    <2>2. FirstSlot(S) \in S
        BY <1>2, <2>1 DEF FirstSlot
    <2>3. FirstSlot(S) # NoSlot
        BY <2>2, Geometry
    <2>4. QED BY <1>2, <2>2, <2>3
<1>3. QED BY <1>1, <1>2

(* fs_find returns a used slot or none.                                    *)
LEMMA FindFits ==
    ASSUME NEW t, NEW n, FsFind(t, n) # NoSlot
    PROVE  FsFind(t, n) \in Used(t) /\ FsFind(t, n) \in SlotIds
BY FirstSlotFits DEF FsFind, Used

(* fs_free_slot returns a slot that is not used, or none.                  *)
LEMMA FreeFits ==
    ASSUME NEW t, FsFreeSlot(t) # NoSlot
    PROVE  FsFreeSlot(t) \in SlotIds /\ FsFreeSlot(t) \notin Used(t)
BY FirstSlotFits DEF FsFreeSlot

(* A sector of zeros is a sector.                                          *)
LEMMA BlankIsSector == BlankSector \in Sector
BY DEF BlankSector, Sector, Bytes

(* The empty job is a job.                                                 *)
LEMMA NoJobType == NoJob \in JobType
<1>1. << >> \in Seq(Bytes)
    OBVIOUS
<1>2. QED BY <1>1, BlankIsSector, Geometry DEF NoJob, JobType

-----------------------------------------------------------------------------
(* mkfs makes an image the invariant holds of. *)

(* What mkfs.py accepts fits the table, the disk and the extents.          *)
LEMMA SeedFiles ==
    ASSUME NEW s \in Seeds, SeedAccepted(s)
    PROVE  /\ Len(s) \in 0 .. Slots
           /\ DataStart + ExtentSectors * Len(s) <= TotalSectors
           /\ \A i \in 1 .. Len(s) :
                 /\ s[i].name \in Names
                 /\ s[i].content \in Seq(Bytes)
                 /\ Len(s[i].content) <= ExtentLen
<1>1. Len(s) \in Nat
    BY SeedsAssumption
<1>2. QED BY <1>1, Geometry DEF SeedAccepted

(* The image mkfs.py makes of an accepted seed satisfies the invariant of  *)
(* the disk.                                                               *)
LEMMA ImageInv ==
    ASSUME NEW s \in Seeds, SeedAccepted(s), MkfsImage(s)
    PROVE  /\ dSuper \in Super /\ dTable \in [SlotIds -> Entry]
           /\ dData \in [DataSectors -> Sector]
           /\ DiskInv
<1> DEFINE n == Len(s)
<1>1. n \in 0 .. Slots /\ DataStart + ExtentSectors * n <= TotalSectors
    BY SeedFiles
<1>2. ASSUME NEW i \in SlotIds, i < n
      PROVE  /\ MkfsEntry(s, i) \in Entry /\ MkfsEntry(s, i).used
             /\ MkfsEntry(s, i).start = DataStart + i * ExtentSectors
             /\ MkfsEntry(s, i).cap = ExtentSectors
             /\ MkfsEntry(s, i).size <= ExtentSectors * SectorLen
    <2>1. i + 1 \in 1 .. n /\ i * ExtentSectors \in Nat
        BY <1>1, <1>2, Geometry
    <2>2. /\ s[i + 1].name \in Names
          /\ Len(s[i + 1].content) \in Nat
          /\ Len(s[i + 1].content) <= ExtentLen
        BY <2>1, SeedFiles
    <2>3. QED BY <1>2, <2>1, <2>2, Geometry DEF MkfsEntry, Entry
<1>3. ASSUME NEW i \in SlotIds, ~(i < n)
      PROVE  MkfsEntry(s, i) \in Entry /\ ~MkfsEntry(s, i).used
    BY <1>3 DEF MkfsEntry, Entry, FreeEntry
<1>4. dSuper \in Super
    <2>1. ExtentSectors * n \in Nat
        BY <1>1, Geometry
    <2>2. QED BY <1>1, <2>1, Geometry DEF MkfsImage, Super
<1>5. dTable \in [SlotIds -> Entry]
    BY <1>2, <1>3 DEF MkfsImage
<1>6. dData \in [DataSectors -> Sector]
    <2>1. ASSUME NEW k \in Nat PROVE MkfsByte(s, k) \in Bytes
        <3>1. k \div ExtentLen \in Nat /\ k % ExtentLen \in Nat
            BY Geometry
        <3>2. CASE /\ k \div ExtentLen < Len(s)
                   /\ k % ExtentLen < Len(s[(k \div ExtentLen) + 1].content)
            <4>1. (k \div ExtentLen) + 1 \in 1 .. Len(s)
                BY <1>1, <3>1, <3>2
            <4>2. s[(k \div ExtentLen) + 1].content \in Seq(Bytes)
                BY <4>1, SeedFiles
            <4>3. QED BY <3>1, <3>2, <4>2 DEF MkfsByte
        <3>3. CASE ~(/\ k \div ExtentLen < Len(s)
                     /\ k % ExtentLen < Len(s[(k \div ExtentLen) + 1].content))
            BY <3>3 DEF MkfsByte, Bytes
        <3>4. QED BY <3>2, <3>3
    <2>2. ASSUME NEW b \in DataSectors, NEW k \in 1 .. SectorLen
          PROVE  (b - DataStart) * SectorLen + k - 1 \in Nat
        <3>1. b - DataStart \in Nat /\ (b - DataStart) * SectorLen \in Nat
            BY Geometry DEF DataSectors
        <3>2. QED BY <3>1, Geometry
    <2>3. QED BY <2>1, <2>2 DEF MkfsImage, Sector
<1>7. DiskInv
    <2>1. \A i \in SlotIds : i \in Used(dTable) <=> i < n
        BY <1>2, <1>3 DEF Used, MkfsImage
    <2>2. ASSUME NEW i \in SlotIds, NEW j \in Nat, i < j
          PROVE  i * ExtentSectors + ExtentSectors <= j * ExtentSectors
        <3>1. (i + 1) * ExtentSectors <= j * ExtentSectors
            BY <2>2, MulMono, Geometry
        <3>2. QED BY <3>1, Geometry
    <2>3. dSuper.total = TotalSectors /\ dSuper.next \in DataStart .. TotalSectors
          /\ dSuper.next = DataStart + n * ExtentSectors
        <3>1. ExtentSectors * n \in Nat /\ ExtentSectors * n = n * ExtentSectors
            BY <1>1, Geometry
        <3>2. QED BY <1>1, <3>1, Geometry DEF MkfsImage
    <2>4. ASSUME NEW i \in Used(dTable)
          PROVE  /\ dTable[i].start = DataStart + i * ExtentSectors
                 /\ dTable[i].cap = ExtentSectors
                 /\ dTable[i].size <= dTable[i].cap * SectorLen
                 /\ i \in SlotIds /\ i < n /\ i * ExtentSectors \in Nat
        BY <1>2, <2>1, Geometry DEF Used, MkfsImage
    <2>5. ASSUME NEW i \in Used(dTable)
          PROVE  DataStart <= dTable[i].start /\ dTable[i].start + dTable[i].cap <= dSuper.next
        <3>1. i * ExtentSectors + ExtentSectors <= n * ExtentSectors
            BY <1>1, <2>2, <2>4, <2>5
        <3>2. n * ExtentSectors \in Nat /\ i * ExtentSectors \in Nat
            <4>1. n \in Nat /\ ExtentSectors \in Nat
                BY <1>1, Geometry
            <4>2. n * ExtentSectors \in Nat
                BY <4>1
            <4>3. QED BY <2>4, <2>5, <4>2
        <3>3. DataStart <= dTable[i].start
            <4>1. DataStart \in Nat /\ i * ExtentSectors \in Nat
                  /\ dTable[i].start = DataStart + i * ExtentSectors
                BY <2>4, <2>5, Geometry
            <4> DEFINE o == i * ExtentSectors
            <4> HIDE DEF o
            <4>2. DataStart <= DataStart + o
                BY <4>1 DEF o
            <4>3. QED BY <4>1, <4>2 DEF o
        <3>4. dTable[i].start + dTable[i].cap =
                  DataStart + i * ExtentSectors + ExtentSectors
            BY <2>4, <2>5
        <3>5. QED BY <2>3, <3>1, <3>2, <3>3, <3>4, Geometry
    <2>6. ASSUME NEW i \in Used(dTable), NEW j \in Used(dTable), i < j
          PROVE  dTable[i].start + dTable[i].cap <= dTable[j].start
        <3>1. i \in SlotIds /\ i \in Nat /\ j \in Nat
            BY <2>4, <2>6, Geometry
        <3>2. i * ExtentSectors + ExtentSectors <= j * ExtentSectors
            BY <2>2, <2>6, <3>1
        <3>3. i * ExtentSectors \in Nat /\ j * ExtentSectors \in Nat
            BY <2>4, <2>6
        <3>4. (DataStart + i * ExtentSectors) + ExtentSectors
                  <= DataStart + j * ExtentSectors
            BY <3>2, <3>3, Follows, Geometry
        <3>5. /\ dTable[i].start = DataStart + i * ExtentSectors
              /\ dTable[i].cap = ExtentSectors
              /\ dTable[j].start = DataStart + j * ExtentSectors
            BY <2>4, <2>6
        <3>6. QED BY <3>4, <3>5
    <2>7. ASSUME NEW i \in Used(dTable), NEW j \in Used(dTable), i # j
          PROVE  Apart(dTable[i], dTable[j])
        <3>1. i < j \/ j < i
            BY <2>4, <2>7, Geometry
        <3>2. QED BY <2>6, <2>7, <3>1 DEF Apart
    <2>8. QED BY <2>3, <2>4, <2>5, <2>7 DEF DiskInv, Allocated
<1>8. QED BY <1>4, <1>5, <1>6, <1>7

(* The cache before the boot is a cache.                                   *)
LEMMA EmptyCacheType ==
    /\ [count |-> 0, next |-> 0, total |-> 0] \in Super
    /\ [i \in SlotIds |-> FreeEntry] \in [SlotIds -> Entry]
BY Geometry DEF Super, Entry, FreeEntry

(* mkfs makes an image the inductive invariant holds of, and the kernel has *)
(* nothing in memory before it boots.                                     *)
THEOREM InitInv == Init => IInv
<1> SUFFICES ASSUME Init PROVE IInv
    OBVIOUS
<1>1. PICK s \in Seeds : SeedAccepted(s) /\ MkfsImage(s)
    BY DEF Init
<1>2. /\ dSuper \in Super /\ dTable \in [SlotIds -> Entry]
      /\ dData \in [DataSectors -> Sector] /\ DiskInv
    BY <1>1, ImageInv
<1>3. TypeOK
    <2>1. cSuper \in Super /\ cTable \in [SlotIds -> Entry]
        BY EmptyCacheType DEF Init, EmptyCache
    <2>2. job \in JobType
        BY NoJobType DEF Init
    <2>3. faults \in 0 .. MaxFaults /\ boots \in 0 .. MaxBoots
        <3>1. faults = 0 /\ boots = 0
            BY DEF Init
        <3>2. QED BY <3>1, Geometry
    <2>4. ctl = "off" /\ reply = "none" /\ owed = {}
        BY DEF Init
    <2>5. QED BY <1>2, <2>1, <2>2, <2>3, <2>4 DEF TypeOK
<1>4. CacheInv /\ SuperFirst /\ JobInv /\ NothingOwed
    BY DEF Init, CacheInv, SuperFirst, JobInv, Mounted, NothingOwed
<1>5. QED BY <1>2, <1>3, <1>4 DEF IInv

-----------------------------------------------------------------------------
(* Every step preserves the invariant: power.                              *)

(* A step that leaves disk and cache alone keeps what is said of them.     *)
LEMMA TablesKept ==
    ASSUME IInv, UNCHANGED <<disk, cache>>
    PROVE  /\ DiskInv' /\ (Mounted => CacheInv')
           /\ dSuper' \in Super /\ cSuper' \in Super
           /\ dTable' \in [SlotIds -> Entry] /\ cTable' \in [SlotIds -> Entry]
           /\ dData' \in [DataSectors -> Sector]
<1>1. dSuper' = dSuper /\ dTable' = dTable /\ dData' = dData
      /\ cSuper' = cSuper /\ cTable' = cTable
    BY DEF disk, cache
<1>2. DiskInv'
    BY <1>1 DEF IInv, DiskInv, Allocated, Used
<1>3. Mounted => CacheInv'
    BY <1>1 DEF IInv, CacheInv, Allocated, Used
<1>4. QED BY <1>1, <1>2, <1>3 DEF IInv, TypeOK

(* A stuttering step keeps the invariant.                                  *)
LEMMA StutterInv == IInv /\ UNCHANGED vars => IInv'
<1> SUFFICES ASSUME IInv, UNCHANGED vars PROVE IInv'
    OBVIOUS
<1>1. /\ UNCHANGED <<disk, cache>> /\ dTable' = dTable /\ cTable' = cTable
      /\ dSuper' = dSuper /\ cSuper' = cSuper
      /\ ctl' = ctl /\ job' = job /\ reply' = reply /\ out' = out
      /\ owed' = owed /\ faults' = faults /\ boots' = boots
    BY DEF vars, disk, cache
<1>2. TypeOK' /\ DiskInv'
    BY <1>1, TablesKept DEF IInv, TypeOK
<1>3. CacheInv'
    BY <1>1, TablesKept DEF CacheInv, Mounted
<1>4. SuperFirst' /\ JobInv' /\ NothingOwed'
    BY <1>1 DEF IInv, NothingOwed, SuperFirst, JobInv, NoRoom, Target, Used
<1>5. QED BY <1>2, <1>3, <1>4 DEF IInv

(* fs_init, when it reads everything, keeps it.                            *)
LEMMA BootInv == IInv /\ Boot => IInv'
<1> SUFFICES ASSUME IInv, Boot PROVE IInv'
    OBVIOUS
<1>1. /\ dSuper' = dSuper /\ dTable' = dTable /\ dData' = dData
      /\ cSuper' = dSuper /\ cTable' = dTable
      /\ ctl' = "idle" /\ job' = job /\ reply' = reply /\ faults' = faults
      /\ owed' = owed /\ boots' = boots + 1 /\ boots < MaxBoots
    BY DEF Boot, disk
<1>2. boots' \in 0 .. MaxBoots
    BY <1>1, Geometry DEF IInv, TypeOK
<1>3. TypeOK'
    BY <1>1, <1>2 DEF IInv, TypeOK
<1>4. DiskInv'
    BY <1>1 DEF IInv, DiskInv, Allocated, Used
<1>5. CacheInv'
    <2>1. dSuper'.next <= cSuper'.next
        BY <1>1 DEF IInv, TypeOK, Super
    <2>2. QED BY <1>1, <2>1 DEF IInv, DiskInv, CacheInv, Allocated, Used
<1>6. SuperFirst' /\ JobInv' /\ NothingOwed'
    BY <1>1 DEF IInv, SuperFirst, JobInv, NothingOwed
<1>7. QED BY <1>3, <1>4, <1>5, <1>6 DEF IInv

(* fs_init, when a read fails or the magic number is wrong, keeps it.      *)
LEMMA BootFailsInv == IInv /\ BootFails => IInv'
<1> SUFFICES ASSUME IInv, BootFails PROVE IInv'
    OBVIOUS
<1>1. /\ UNCHANGED <<disk, cache>>
      /\ ctl' = "nofs" /\ job' = job /\ reply' = reply
      /\ owed' = owed /\ boots' = boots + 1 /\ boots < MaxBoots
      /\ faults' = faults + 1 /\ faults < MaxFaults
    BY DEF BootFails
<1>2. boots' \in 0 .. MaxBoots /\ faults' \in 0 .. MaxFaults
    BY <1>1, Geometry DEF IInv, TypeOK
<1>3. TypeOK' /\ DiskInv'
    BY <1>1, <1>2, TablesKept DEF IInv, TypeOK
<1>4. CacheInv' /\ SuperFirst' /\ JobInv' /\ NothingOwed'
    BY <1>1 DEF IInv, CacheInv, Mounted, SuperFirst, JobInv, NothingOwed
<1>5. QED BY <1>3, <1>4 DEF IInv

(* A command refused because the file system is not ready keeps it.        *)
LEMMA GuardRefusesInv == IInv /\ GuardRefuses => IInv'
<1> SUFFICES ASSUME IInv, GuardRefuses PROVE IInv'
    OBVIOUS
<1>1. /\ UNCHANGED <<disk, cache>>
      /\ ctl' = ctl /\ ctl = "nofs" /\ job' = job /\ reply' = "error"
      /\ owed' = owed /\ boots' = boots /\ faults' = faults
    BY DEF GuardRefuses
<1>2. TypeOK' /\ DiskInv'
    BY <1>1, TablesKept DEF IInv, TypeOK
<1>3. CacheInv' /\ SuperFirst' /\ JobInv' /\ NothingOwed'
    BY <1>1 DEF IInv, CacheInv, Mounted, SuperFirst, JobInv, NothingOwed
<1>4. QED BY <1>2, <1>3 DEF IInv

(* A power cut keeps it.                                                   *)
LEMMA PowerCutInv == IInv /\ PowerCut => IInv'
<1> SUFFICES ASSUME IInv, PowerCut PROVE IInv'
    OBVIOUS
<1>1. /\ dSuper' = dSuper /\ dTable' = dTable /\ dData' = dData
      /\ cSuper' = [count |-> 0, next |-> 0, total |-> 0]
      /\ cTable' = [i \in SlotIds |-> FreeEntry]
      /\ ctl' = "off" /\ job' = NoJob /\ reply' = "none"
      /\ owed' = {} /\ boots' = boots /\ faults' = faults
    BY DEF PowerCut, disk
<1>2. TypeOK'
    BY <1>1, EmptyCacheType, NoJobType DEF IInv, TypeOK
<1>3. DiskInv'
    BY <1>1 DEF IInv, DiskInv, Allocated, Used
<1>4. CacheInv' /\ SuperFirst' /\ JobInv' /\ NothingOwed'
    BY <1>1 DEF CacheInv, Mounted, SuperFirst, JobInv, NothingOwed
<1>5. QED BY <1>2, <1>3, <1>4 DEF IInv

-----------------------------------------------------------------------------
(* Every step preserves the invariant: commands and their ends.            *)

(* A step that only ends the command preserves the invariant.              *)
LEMMA EndsInv ==
    ASSUME IInv, NEW r \in {"ok", "error"}, NEW msg, Mounted,
           Ends(r, msg), UNCHANGED <<disk, cache>>,
           faults' \in 0 .. MaxFaults, boots' = boots, owed' = owed
    PROVE  IInv'
<1>1. ctl' = "idle" /\ job' = NoJob /\ reply' = r
    BY DEF Ends
<1>2. TypeOK' /\ DiskInv' /\ CacheInv'
    BY <1>1, TablesKept, NoJobType DEF IInv, TypeOK
<1>3. SuperFirst' /\ JobInv' /\ NothingOwed'
    BY <1>1 DEF IInv, SuperFirst, JobInv, NothingOwed
<1>4. QED BY <1>2, <1>3 DEF IInv

(* A `write` that finds no slot or no room keeps it.                       *)
LEMMA WriteRefusedInv ==
    ASSUME IInv, NEW n \in Names, WriteRefused(n) PROVE IInv'
<1>1. Mounted /\ faults' \in 0 .. MaxFaults /\ boots' = boots /\ owed' = owed
    BY DEF WriteRefused, Mounted, IInv, TypeOK
<1>2. QED BY <1>1, EndsInv DEF WriteRefused

(* A `rm` of a name that is not there keeps it.                            *)
LEMMA RemoveMissingInv ==
    ASSUME IInv, NEW n \in Names, RemoveMissing(n) PROVE IInv'
<1>1. Mounted /\ faults' \in 0 .. MaxFaults /\ boots' = boots /\ owed' = owed
    BY DEF RemoveMissing, Mounted, IInv, TypeOK
<1>2. QED BY <1>1, EndsInv DEF RemoveMissing

(* A line that does not fit the extent keeps it.                           *)
LEMMA AppendTooLongInv == IInv /\ AppendTooLong => IInv'
<1> SUFFICES ASSUME IInv, AppendTooLong PROVE IInv'
    OBVIOUS
<1>1. Mounted /\ faults' \in 0 .. MaxFaults /\ boots' = boots /\ owed' = owed
    BY DEF AppendTooLong, Mounted, IInv, TypeOK
<1>2. QED BY <1>1, EndsInv DEF AppendTooLong

(* A sector that cannot be read for an append keeps it, if no read is      *)
(* abandoned.                                                              *)
LEMMA AppendFetchFailsInv ==
    ASSUME "abandoned" \notin ReadFaults, IInv, AppendFetchFails PROVE IInv'
<1>1. Mounted /\ boots' = boots /\ UNCHANGED <<disk, cache>>
      /\ owed' = owed /\ Ends("error", "file full")
    BY DEF AppendFetchFails, Mounted
<1>2. faults' \in 0 .. MaxFaults
    <2>1. faults' = faults + 1 /\ faults < MaxFaults
        BY DEF AppendFetchFails
    <2>2. faults \in 0 .. MaxFaults
        BY DEF IInv, TypeOK
    <2>3. QED BY <2>1, <2>2, Geometry
<1>3. QED BY <1>1, <1>2, EndsInv

(* A `write` to a file that exists keeps it.                               *)
LEMMA WriteFindsInv ==
    ASSUME IInv, NEW n \in Names, NEW l \in Lines, WriteFinds(n, l)
    PROVE  IInv'
<1> DEFINE i == FsFind(cTable, n)
<1>1. i \in Used(cTable) /\ i \in SlotIds
    BY FindFits DEF WriteFinds
<1>2. /\ UNCHANGED <<disk, cache>> /\ Mounted
      /\ ctl' = "fetch" /\ reply' = "none"
      /\ job' = [NoJob EXCEPT !.kind = "append", !.slot = i, !.line = l]
      /\ owed' = owed /\ faults' = faults /\ boots' = boots /\ cTable' = cTable
    BY DEF WriteFinds, Running, Mounted, cache
<1>3. job' \in JobType
    <2>1. i \in 0 .. Slots
        BY <1>1, Geometry
    <2>2. QED BY <1>2, <2>1, NoJobType DEF JobType
<1>4. TypeOK' /\ DiskInv' /\ CacheInv'
    BY <1>2, <1>3, TablesKept DEF IInv, TypeOK
<1>5. job'.slot = i /\ job'.line = l
    BY <1>2 DEF NoJob
<1>6. SuperFirst' /\ JobInv' /\ NothingOwed'
    BY <1>1, <1>2, <1>5 DEF IInv, NothingOwed, SuperFirst, JobInv, Used
<1>7. QED BY <1>4, <1>6 DEF IInv

(* What a create claims: a free slot and an extent inside the medium.      *)
LEMMA Claim ==
    ASSUME IInv, NEW n \in Names, NEW l \in Lines, WriteCreates(n, l)
    PROVE  /\ FsFreeSlot(cTable) \in SlotIds
           /\ FsFreeSlot(cTable) \notin Used(cTable)
           /\ cSuper.next + ExtentSectors <= cSuper.total
<1>1. n \notin LongNames /\ FsFreeSlot(cTable) # NoSlot
      /\ ~(cSuper.next + ExtentSectors > cSuper.total)
    BY DEF WriteCreates, CreateRefusal
<1>2. cSuper.next \in Nat /\ cSuper.total \in Nat
    BY DEF IInv, TypeOK, Super
<1>3. QED BY <1>1, <1>2, FreeFits, Geometry

(* A `write` that creates its file keeps it: the fresh extent lies above   *)
(* all others.                                                             *)
LEMMA WriteCreatesInv ==
    ASSUME IInv, NEW n \in Names, NEW l \in Lines, WriteCreates(n, l)
    PROVE  IInv'
<1> DEFINE i == FsFreeSlot(cTable)
           e == [used |-> TRUE, name |-> n, size |-> 0,
                 start |-> cSuper.next, cap |-> ExtentSectors]
<1>1. /\ dSuper' = dSuper /\ dTable' = dTable /\ dData' = dData
      /\ cTable' = [cTable EXCEPT ![i] = e]
      /\ cSuper' = Claimed(cSuper)
      /\ ctl = "idle" /\ ctl' = "sync" /\ reply' = "none"
      /\ owed' = owed /\ faults' = faults /\ boots' = boots
    BY DEF WriteCreates, StartSync, Running, disk
<1>2. /\ i \in SlotIds /\ i \notin Used(cTable)
      /\ cSuper.next + ExtentSectors <= cSuper.total
    BY Claim
<1>3. job' = [NoJob EXCEPT !.kind = "create", !.slot = i, !.line = l]
    BY DEF WriteCreates, StartSync
<1>4. /\ job' \in JobType /\ job'.slot = i /\ job'.line = l /\ job'.next = 0
    <2>1. i \in 0 .. Slots
        BY <1>2, Geometry
    <2>2. job'.slot = i /\ job'.line = l /\ job'.next = 0
        BY <1>3 DEF NoJob
    <2>3. job' \in JobType
        BY <1>3, <2>1, NoJobType DEF JobType
    <2>4. QED BY <2>2, <2>3
<1>5. /\ cSuper \in Super /\ cTable \in [SlotIds -> Entry]
      /\ dSuper \in Super /\ dTable \in [SlotIds -> Entry]
      /\ DiskInv /\ CacheInv /\ Mounted
    BY <1>1 DEF IInv, TypeOK, Mounted
<1>6. /\ cSuper'.next = cSuper.next + ExtentSectors
      /\ cSuper'.total = cSuper.total
      /\ cSuper' \in Super
    <2>1. /\ cSuper.count \in Nat /\ cSuper.next \in Nat /\ cSuper.total \in Nat
        BY <1>5 DEF Super
    <2>2. ((cSuper.count + 1) % U32) \in 0 .. U32 - 1
        BY <2>1, Geometry
    <2>3. cSuper' = [count |-> (cSuper.count + 1) % U32,
                     next |-> cSuper.next + ExtentSectors, total |-> cSuper.total]
        BY <1>1, <1>5 DEF Super, Claimed, Counted
    <2>4. QED BY <2>1, <2>2, <2>3, Geometry DEF Super
<1>7. e \in Entry /\ cTable' \in [SlotIds -> Entry]
    <2>1. e \in Entry
        BY <1>5, Geometry DEF Entry, Super
    <2>2. QED BY <1>1, <1>5, <2>1
<1>8. Used(cTable') = Used(cTable) \cup {i} /\ cTable'[i] = e
      /\ \A j \in Used(cTable) : cTable'[j] = cTable[j]
    BY <1>1, <1>2, <1>5 DEF Used
<1>9. TypeOK'
    BY <1>1, <1>4, <1>6, <1>7 DEF IInv, TypeOK
<1>10. DiskInv'
    BY <1>1 DEF IInv, DiskInv, Allocated, Used
<1>11. CacheInv'
    <2>1. /\ cSuper.total = TotalSectors /\ cSuper.next \in DataStart .. TotalSectors
          /\ dSuper.next <= cSuper.next
        BY <1>5 DEF CacheInv, Allocated
    <2>2. ASSUME NEW j \in Used(cTable)
          PROVE  /\ DataStart <= cTable[j].start
                 /\ cTable[j].start + cTable[j].cap <= cSuper.next
                 /\ cTable[j].size <= cTable[j].cap * SectorLen
                 /\ cTable[j].start \in Nat /\ cTable[j].cap \in Nat
        BY <1>5, <2>2 DEF CacheInv, Allocated, Used, Entry
    <2>3. ASSUME NEW j \in Used(dTable)
          PROVE  /\ dTable[j].start + dTable[j].cap <= cSuper.next
                 /\ dTable[j].start \in Nat /\ dTable[j].cap \in Nat
        <3>1. /\ dTable[j].start + dTable[j].cap <= dSuper.next
              /\ dTable[j].start \in Nat /\ dTable[j].cap \in Nat
            BY <1>5, <2>3 DEF DiskInv, Allocated, Used, Entry
        <3>2. dSuper.next \in Nat /\ cSuper.next \in Nat
            BY <1>5 DEF Super
        <3>3. QED BY <2>1, <3>1, <3>2
    <2>4. e.start = cSuper.next /\ e.cap = ExtentSectors /\ e.size = 0
        OBVIOUS
    <2>5. \A j \in Used(cTable) : Apart(cTable[j], e) /\ Apart(e, cTable[j])
        BY <2>2, <2>4 DEF Apart
    <2>6. \A j \in Used(dTable) : Apart(dTable[j], e)
        BY <2>3, <2>4 DEF Apart
    <2>7. cSuper'.total = TotalSectors /\ cSuper'.next \in DataStart .. TotalSectors
        BY <1>2, <1>6, <2>1, Geometry
    <2>8. ASSUME NEW j \in Used(cTable')
          PROVE  /\ DataStart <= cTable'[j].start
                 /\ cTable'[j].start + cTable'[j].cap <= cSuper'.next
                 /\ cTable'[j].size <= cTable'[j].cap * SectorLen
        <3>1. CASE j = i
            <4>1. ExtentSectors * SectorLen \in Nat
                BY Geometry
            <4>2. QED BY <1>6, <1>8, <2>1, <2>4, <3>1, <4>1, Geometry
        <3>2. CASE j \in Used(cTable)
            <4>1. cTable'[j] = cTable[j]
                BY <1>8, <3>2
            <4>2. /\ DataStart <= cTable[j].start
                  /\ cTable[j].start + cTable[j].cap <= cSuper.next
                  /\ cTable[j].size <= cTable[j].cap * SectorLen
                  /\ cTable[j].start \in Nat /\ cTable[j].cap \in Nat
                BY <2>2, <3>2
            <4>3. cSuper.next \in Nat /\ cSuper'.next = cSuper.next + ExtentSectors
                BY <1>6, <2>1, Geometry
            <4>4. QED BY <4>1, <4>2, <4>3, Geometry
        <3>3. QED BY <1>8, <2>8, <3>1, <3>2
    <2>9. \A j, k \in Used(cTable') : j # k => Apart(cTable'[j], cTable'[k])
        <3>1. \A j, k \in Used(cTable) : j # k => Apart(cTable[j], cTable[k])
            BY <1>5 DEF CacheInv, Allocated
        <3>2. QED BY <1>8, <2>5, <3>1
    <2>10. \A j \in Used(dTable), k \in Used(cTable') :
              j # k => Apart(dTable[j], cTable'[k])
        <3>1. \A j \in Used(dTable), k \in Used(cTable) :
                  j # k => Apart(dTable[j], cTable[k])
            BY <1>5 DEF CacheInv
        <3>2. QED BY <1>8, <2>6, <3>1
    <2>11. dSuper'.next <= cSuper'.next
        <3>1. dSuper.next \in Nat /\ cSuper.next \in Nat /\ dSuper.next <= cSuper.next
            BY <1>5, <2>1, Geometry DEF Super
        <3>2. dSuper'.next = dSuper.next /\ cSuper'.next = cSuper.next + ExtentSectors
            BY <1>1, <1>6
        <3>3. QED BY <3>1, <3>2, Geometry
    <2>12. Allocated(cTable', cSuper')
        BY <2>7, <2>8, <2>9 DEF Allocated
    <2>13. QED BY <1>1, <2>10, <2>11, <2>12 DEF CacheInv, Allocated, Used
<1>12. SuperFirst' /\ NothingOwed'
    BY <1>1, <1>4, Geometry DEF IInv, SuperFirst, NothingOwed
<1>13. JobInv'
    BY <1>1, <1>4, <1>8 DEF JobInv, Used
<1>14. QED BY <1>9, <1>10, <1>11, <1>12, <1>13 DEF IInv

-----------------------------------------------------------------------------
(* Every step preserves the invariant: appending.                          *)

(* The entry a running append works on, and the room it has.               *)
LEMMA TargetFits ==
    ASSUME IInv, ctl \in {"fetch", "put"}
    PROVE  /\ job.slot \in Used(cTable) /\ job.slot \in SlotIds
           /\ job.line \in Lines /\ job.line \in Seq(Bytes) /\ Len(job.line) \in Nat
           /\ Len(job.line) > 0
           /\ Target \in Entry
           /\ DataStart <= Target.start
           /\ Target.start + Target.cap <= TotalSectors
<1>1. job.slot \in Used(cTable) /\ job.line \in Lines
    BY DEF IInv, JobInv
<1>2. job.slot \in SlotIds
    BY <1>1 DEF Used
<1>3. job.line \in Seq(Bytes) /\ Len(job.line) > 0 /\ Len(job.line) \in Nat
    BY <1>1, LinesAssumption
<1>4. Target \in Entry
    BY <1>2 DEF IInv, TypeOK, Target
<1>5. Allocated(cTable, cSuper)
    BY DEF IInv, CacheInv, Mounted
<1>6. /\ DataStart <= Target.start
      /\ Target.start + Target.cap <= cSuper.next
      /\ cSuper.next \in DataStart .. TotalSectors
    BY <1>1, <1>5 DEF Allocated, Target
<1>7. Target.start + Target.cap <= TotalSectors
    BY <1>4, <1>6, Geometry DEF Entry
<1>8. QED BY <1>1, <1>2, <1>3, <1>4, <1>6, <1>7

(* The first sector an append writes is a data sector of its extent.       *)
LEMMA FirstSector ==
    ASSUME IInv, ctl = "fetch", ~NoRoom
    PROVE  Target.start + (Target.size \div SectorLen) \in DataSectors
<1>1. /\ Target.start \in Nat /\ Target.size \in Nat /\ Target.cap \in Nat
      /\ Len(job.line) \in Nat /\ Len(job.line) > 0
      /\ DataStart <= Target.start /\ Target.start + Target.cap <= TotalSectors
    BY TargetFits DEF Entry
<1>2. Target.cap * SectorLen \in Nat
    BY <1>1, Geometry
<1>3. Target.size < Target.cap * SectorLen
    BY <1>1, <1>2 DEF NoRoom
<1>4. /\ Target.size \div SectorLen \in Nat
      /\ Target.size \div SectorLen < Target.cap
    BY <1>1, <1>3, DivBound, Geometry
<1>5. DataStart \in Nat /\ TotalSectors \in Nat
    BY Geometry
<1>6. QED BY <1>1, <1>4, <1>5 DEF DataSectors

(* No read is abandoned, so a read that returns true has the sector asked  *)
(* for.                                                                    *)
LEMMA FetchedIsAsked ==
    ASSUME IInv, AppendFetch
    PROVE  /\ owed' = {}
           /\ LET at == Target.start + (Target.size \div SectorLen)
                  off == Target.size % SectorLen
              IN  job' = [job EXCEPT !.kind = "append", !.at = at, !.off = off,
                              !.rest = job.line,
                              !.buf = IF off # 0 THEN dData[at] ELSE BlankSector]
<1>1. owed = {}
    BY DEF IInv, NothingOwed
<1>2. \A at : Fetched(at) = {dData[at]}
    BY <1>1 DEF Fetched
<1>3. QED BY <1>1, <1>2 DEF AppendFetch

(* Fetching the sector an append goes on in keeps it.                      *)
LEMMA AppendFetchInv == IInv /\ AppendFetch => IInv'
<1> SUFFICES ASSUME IInv, AppendFetch PROVE IInv'
    OBVIOUS
<1> DEFINE at == Target.start + (Target.size \div SectorLen)
           off == Target.size % SectorLen
           filler == IF off # 0 THEN dData[at] ELSE BlankSector
<1>1. /\ UNCHANGED <<disk, cache>> /\ cTable' = cTable
      /\ ctl = "fetch" /\ ~NoRoom /\ ctl' = "put"
      /\ reply' = reply /\ owed' = {} /\ faults' = faults /\ boots' = boots
    BY FetchedIsAsked DEF AppendFetch, cache
<1>2. job' = [job EXCEPT !.kind = "append", !.at = at, !.off = off,
                         !.rest = job.line, !.buf = filler]
    BY FetchedIsAsked
<1>3. at \in DataSectors
    BY <1>1, FirstSector
<1>4. at \in Nat
    BY <1>3, Geometry DEF DataSectors
<1>5. off \in 0 .. SectorLen - 1
    <2>1. Target.size \in Nat
        BY <1>1, TargetFits DEF Entry
    <2>2. QED BY <2>1, Geometry
<1>6. filler \in Sector
    BY <1>3, BlankIsSector DEF IInv, TypeOK
<1>7. job.line \in Seq(Bytes)
    BY <1>1, TargetFits
<1>8. job' \in JobType /\ job'.slot = job.slot /\ job'.line = job.line
    <2>1. job \in JobType
        BY DEF IInv, TypeOK
    <2> HIDE DEF at, off, filler
    <2>2. QED BY <1>2, <1>4, <1>5, <1>6, <1>7, <2>1 DEF JobType
<1>9. TypeOK' /\ DiskInv' /\ CacheInv'
    BY <1>1, <1>8, TablesKept DEF IInv, TypeOK, Mounted
<1>10. SuperFirst' /\ NothingOwed'
    BY <1>1 DEF SuperFirst, NothingOwed
<1>11. JobInv'
    <2>1. job.slot \in Used(cTable) /\ job.line \in Lines
        BY <1>1, TargetFits
    <2>2. QED BY <1>1, <1>8, <2>1 DEF JobInv, NoRoom, Target, Used
<1>12. QED BY <1>9, <1>10, <1>11 DEF IInv

(* What is written is a sector, what is left a sequence of bytes.          *)
LEMMA ChunkFits ==
    ASSUME IInv, ctl = "put"
    PROVE  /\ Chunk \in Seq(Bytes) /\ Len(Chunk) \in Nat
           /\ Filled \in Sector
           /\ Len(Chunk) < Len(job.rest) =>
                  SubSeq(job.rest, Len(Chunk) + 1, Len(job.rest)) \in Seq(Bytes)
<1>1. /\ job.rest \in Seq(Bytes) /\ job.off \in 0 .. SectorLen - 1
      /\ job.buf \in Sector
    BY DEF IInv, TypeOK, JobType
<1>2. SectorLen - job.off \in Nat /\ Len(job.rest) \in Nat
    BY <1>1, Geometry
<1>3. Chunk \in Seq(Bytes)
    <2>1. CASE Len(job.rest) <= SectorLen - job.off
        BY <1>1, <2>1 DEF Chunk
    <2>2. CASE ~(Len(job.rest) <= SectorLen - job.off)
        <3>1. SubSeq(job.rest, 1, SectorLen - job.off) \in Seq(Bytes)
            BY <1>1, <1>2, <2>2, SubSeqProperties
        <3>2. QED BY <2>2, <3>1 DEF Chunk
    <2>3. QED BY <2>1, <2>2
<1>4. Len(Chunk) \in Nat
    BY <1>3
<1>5. Filled \in Sector
    <2>1. ASSUME NEW k \in 1 .. SectorLen
          PROVE  (IF k \in job.off + 1 .. job.off + Len(Chunk)
                  THEN Chunk[k - job.off] ELSE job.buf[k]) \in Bytes
        <3>1. CASE k \in job.off + 1 .. job.off + Len(Chunk)
            <4>1. k - job.off \in 1 .. Len(Chunk)
                BY <1>1, <1>4, <3>1, Geometry
            <4>2. Chunk[k - job.off] \in Bytes
                BY <1>3, <4>1
            <4>3. QED BY <3>1, <4>2
        <3>2. CASE ~(k \in job.off + 1 .. job.off + Len(Chunk))
            BY <1>1, <3>2 DEF Sector
        <3>3. QED BY <3>1, <3>2
    <2>2. QED BY <2>1 DEF Filled, Sector
<1>6. Len(Chunk) < Len(job.rest) =>
          SubSeq(job.rest, Len(Chunk) + 1, Len(job.rest)) \in Seq(Bytes)
    BY <1>1, <1>2, <1>4, SubSeqProperties
<1>7. QED BY <1>3, <1>4, <1>5, <1>6

(* The count of faults stays within its bound, and nothing is owed.        *)
LEMMA CountFits ==
    ASSUME IInv, NEW o \in Outcomes, Count(o)
    PROVE  faults' \in 0 .. MaxFaults /\ owed' = {}
BY Geometry DEF IInv, TypeOK, NothingOwed, Outcomes, Count

(* A file that grows by k bytes keeps its extent and its name.             *)
LEMMA GrownEntry ==
    ASSUME NEW e \in Entry, NEW k \in Nat
    PROVE  /\ [e EXCEPT !.size = @ + k] \in Entry
           /\ [e EXCEPT !.size = @ + k].start = e.start
           /\ [e EXCEPT !.size = @ + k].cap = e.cap
           /\ [e EXCEPT !.size = @ + k].used = e.used
           /\ [e EXCEPT !.size = @ + k].size = e.size + k
BY DEF Entry

(* fs_append_line puts one sector: the line fits, so the extent holds it.  *)
LEMMA AppendPutInv == IInv /\ AppendPut => IInv'
<1> SUFFICES ASSUME IInv, AppendPut PROVE IInv'
    OBVIOUS
<1>1. ctl = "put" /\ dSuper' = dSuper /\ dTable' = dTable /\ cSuper' = cSuper
      /\ boots' = boots
    BY DEF AppendPut
<1>2. PICK o \in Outcomes :
          /\ Count(o)
          /\ dData' = IF Stored(o) THEN [dData EXCEPT ![job.at] = Filled] ELSE dData
          /\ \/ /\ Ends("error", "file full")
                /\ cTable' = cTable
             \/ /\ Len(Chunk) < Len(job.rest)
                /\ job' = [job EXCEPT !.at = @ + 1, !.off = 0, !.buf = BlankSector,
                              !.rest = SubSeq(@, Len(Chunk) + 1, Len(@))]
                /\ cTable' = cTable /\ ctl' = ctl /\ reply' = reply
             \/ /\ cTable' = [cTable EXCEPT ![job.slot].size = @ + Len(job.line)]
                /\ StartSync([NoJob EXCEPT !.kind = "append", !.slot = job.slot])
                /\ reply' = reply
    BY DEF AppendPut
<1>3. /\ TypeOK /\ DiskInv /\ CacheInv /\ Mounted
    BY <1>1 DEF IInv, Mounted
<1>4. dData' \in [DataSectors -> Sector]
    BY <1>1, <1>2, <1>3, ChunkFits DEF TypeOK
<1>5. faults' \in 0 .. MaxFaults /\ boots' \in 0 .. MaxBoots /\ owed' = {}
    BY <1>1, <1>2, <1>3, CountFits DEF TypeOK
<1>6. DiskInv' /\ NothingOwed'
    BY <1>1, <1>3, <1>5 DEF NothingOwed, DiskInv, Allocated, Used
<1>7. job.slot \in Used(cTable) /\ job.slot \in SlotIds /\ job.line \in Lines
      /\ Target \in Entry /\ Len(job.line) \in Nat
    BY <1>1, TargetFits
<1>8. CASE Ends("error", "file full") /\ cTable' = cTable
    <2>1. ctl' = "idle" /\ job' = NoJob /\ reply' = "error"
        BY <1>8 DEF Ends
    <2>2. TypeOK'
        BY <1>1, <1>3, <1>4, <1>5, <1>8, <2>1, NoJobType DEF TypeOK
    <2>3. CacheInv'
        BY <1>1, <1>3, <1>8 DEF CacheInv, Allocated, Used
    <2>4. SuperFirst' /\ JobInv'
        BY <2>1 DEF SuperFirst, JobInv
    <2>5. QED BY <1>6, <2>2, <2>3, <2>4 DEF IInv
<1>9. CASE /\ Len(Chunk) < Len(job.rest)
           /\ job' = [job EXCEPT !.at = @ + 1, !.off = 0, !.buf = BlankSector,
                         !.rest = SubSeq(@, Len(Chunk) + 1, Len(@))]
           /\ cTable' = cTable /\ ctl' = ctl /\ reply' = reply
    <2> DEFINE rest == SubSeq(job.rest, Len(Chunk) + 1, Len(job.rest))
    <2>1. rest \in Seq(Bytes)
        BY <1>1, <1>9, ChunkFits
    <2>2. job \in JobType
        BY <1>3 DEF TypeOK
    <2>3. job' = [job EXCEPT !.at = @ + 1, !.off = 0, !.buf = BlankSector,
                             !.rest = rest]
        BY <1>9, <2>2 DEF JobType
    <2> HIDE DEF rest
    <2>4. job' \in JobType /\ job'.slot = job.slot /\ job'.line = job.line
        <3>1. job.at + 1 \in Nat /\ 0 \in 0 .. SectorLen - 1
            BY <2>2, Geometry DEF JobType
        <3>2. job' = [job EXCEPT !.at = job.at + 1, !.off = 0, !.buf = BlankSector,
                                 !.rest = rest]
            BY <2>2, <2>3 DEF JobType
        <3>3. job' \in JobType
            BY <2>1, <2>2, <3>1, <3>2, BlankIsSector DEF JobType
        <3>4. QED BY <2>2, <3>2, <3>3 DEF JobType
    <2>5. TypeOK'
        BY <1>1, <1>3, <1>4, <1>5, <1>9, <2>4 DEF TypeOK
    <2>6. CacheInv'
        BY <1>1, <1>3, <1>9 DEF CacheInv, Allocated, Used
    <2>7. SuperFirst'
        BY <1>1, <1>9 DEF SuperFirst
    <2>8. JobInv'
        <3>1. ~NoRoom
            BY <1>1 DEF IInv, JobInv
        <3>2. QED BY <1>1, <1>7, <1>9, <2>4, <3>1 DEF JobInv, NoRoom, Target, Used
    <2>9. QED BY <1>6, <2>5, <2>6, <2>7, <2>8 DEF IInv
<1>10. CASE /\ cTable' = [cTable EXCEPT ![job.slot].size = @ + Len(job.line)]
            /\ StartSync([NoJob EXCEPT !.kind = "append", !.slot = job.slot])
            /\ reply' = reply
    <2> DEFINE i == job.slot
    <2>1. /\ ctl' = "sync"
          /\ job' = [NoJob EXCEPT !.kind = "append", !.slot = i]
        BY <1>10 DEF StartSync
    <2>2. job' \in JobType /\ job'.next = 0 /\ job'.kind = "append"
        <3>1. i \in 0 .. Slots
            BY <1>7, Geometry
        <3>2. job' \in JobType
            BY <2>1, <3>1, NoJobType DEF JobType
        <3>3. job'.next = 0 /\ job'.kind = "append"
            BY <2>1 DEF NoJob
        <3>4. QED BY <3>2, <3>3
    <2>3. cTable \in [SlotIds -> Entry] /\ cTable[i] \in Entry /\ i \in Used(cTable)
        BY <1>3, <1>7 DEF TypeOK, Target
    <2>4. /\ cTable' \in [SlotIds -> Entry]
          /\ Used(cTable') = Used(cTable)
          /\ \A j \in SlotIds : /\ cTable'[j].start = cTable[j].start
                               /\ cTable'[j].cap = cTable[j].cap
          /\ \A j \in SlotIds : j # i => cTable'[j] = cTable[j]
          /\ cTable'[i].size = cTable[i].size + Len(job.line)
        <3>1. cTable' = [cTable EXCEPT ![i] = [cTable[i] EXCEPT !.size = @ + Len(job.line)]]
            BY <1>10, <2>3
        <3>2. [cTable[i] EXCEPT !.size = @ + Len(job.line)] \in Entry
            BY <1>7, <2>3, GrownEntry
        <3>3. /\ [cTable[i] EXCEPT !.size = @ + Len(job.line)].start = cTable[i].start
              /\ [cTable[i] EXCEPT !.size = @ + Len(job.line)].cap = cTable[i].cap
              /\ [cTable[i] EXCEPT !.size = @ + Len(job.line)].used = cTable[i].used
              /\ [cTable[i] EXCEPT !.size = @ + Len(job.line)].size
                     = cTable[i].size + Len(job.line)
            BY <1>7, <2>3, GrownEntry
        <3>4. i \in SlotIds
            BY <2>3 DEF Used
        <3>5. /\ cTable'[i] = [cTable[i] EXCEPT !.size = @ + Len(job.line)]
              /\ \A j \in SlotIds : j # i => cTable'[j] = cTable[j]
            BY <2>3, <3>1, <3>4
        <3>6. cTable' \in [SlotIds -> Entry]
            BY <2>3, <3>1, <3>2, <3>4
        <3>7. \A j \in SlotIds : /\ cTable'[j].start = cTable[j].start
                                 /\ cTable'[j].cap = cTable[j].cap
                                 /\ cTable'[j].used = cTable[j].used
            BY <3>3, <3>5
        <3>8. QED BY <3>3, <3>5, <3>6, <3>7 DEF Used
    <2>5. cTable'[i].size <= cTable'[i].cap * SectorLen
        <3>1. ~NoRoom
            BY <1>1 DEF IInv, JobInv
        <3>2. cTable[i].cap \in Nat /\ cTable[i].size \in Nat
            BY <2>3 DEF Entry
        <3>3. cTable[i].cap * SectorLen \in Nat
            BY <3>2, Geometry
        <3>4. cTable[i].size + Len(job.line) <= cTable[i].cap * SectorLen
            BY <1>7, <3>1, <3>2, <3>3 DEF NoRoom, Target
        <3>5. cTable'[i].cap = cTable[i].cap
            BY <1>7, <2>4
        <3>6. QED BY <2>4, <3>4, <3>5
    <2>6. TypeOK'
        BY <1>1, <1>3, <1>4, <1>5, <1>10, <2>1, <2>2, <2>4 DEF TypeOK
    <2>7. CacheInv'
        <3>1. Allocated(cTable, cSuper) /\ dSuper.next <= cSuper.next
              /\ \A j \in Used(dTable), k \in Used(cTable) :
                     j # k => Apart(dTable[j], cTable[k])
            BY <1>3 DEF CacheInv
        <3>2. Used(cTable) \subseteq SlotIds /\ Used(dTable) \subseteq SlotIds
            BY DEF Used
        <3>3. Allocated(cTable', cSuper')
            BY <1>1, <2>4, <2>5, <3>1, <3>2 DEF Allocated, Apart
        <3>4. \A j \in Used(dTable), k \in Used(cTable') :
                  j # k => Apart(dTable[j], cTable'[k])
            BY <2>4, <3>1, <3>2 DEF Apart
        <3>5. QED BY <1>1, <3>1, <3>3, <3>4 DEF CacheInv, Allocated, Used
    <2>8. SuperFirst' /\ JobInv'
        BY <2>1, <2>2, Geometry DEF SuperFirst, JobInv
    <2>9. QED BY <1>6, <2>6, <2>7, <2>8 DEF IInv
<1>11. QED BY <1>2, <1>8, <1>9, <1>10

-----------------------------------------------------------------------------
(* Every step preserves the invariant: removing and syncing.               *)

(* A `rm` of a file keeps it: the entry is freed in the cache.             *)
LEMMA RemoveFoundInv ==
    ASSUME IInv, NEW n \in Names, RemoveFound(n) PROVE IInv'
<1> DEFINE i == FsFind(cTable, n)
<1>1. i \in Used(cTable) /\ i \in SlotIds
    BY FindFits DEF RemoveFound
<1>2. /\ dSuper' = dSuper /\ dTable' = dTable /\ dData' = dData
      /\ cTable' = [cTable EXCEPT ![i].used = FALSE]
      /\ cSuper' = Released(cSuper)
      /\ ctl = "idle" /\ ctl' = "sync" /\ reply' = "none"
      /\ job' = [NoJob EXCEPT !.kind = "remove"]
      /\ owed' = owed /\ faults' = faults /\ boots' = boots
    BY DEF RemoveFound, StartSync, Running, disk
<1>3. /\ cSuper \in Super /\ cTable \in [SlotIds -> Entry]
      /\ DiskInv /\ CacheInv /\ Mounted
    BY <1>2 DEF IInv, TypeOK, Mounted
<1> HIDE DEF i
<1>4. job' \in JobType /\ job'.next = 0 /\ job'.kind = "remove"
    <2>1. job' \in JobType
        BY <1>2, NoJobType DEF JobType
    <2>2. QED BY <1>2, <2>1 DEF NoJob
<1>5. cSuper' \in Super /\ cSuper'.next = cSuper.next /\ cSuper'.total = cSuper.total
    <2>1. cSuper.count \in Int
        BY <1>3, Geometry DEF Super
    <2>2. ((cSuper.count + (-1)) % U32) \in 0 .. U32 - 1
        BY <2>1, Geometry
    <2>3. cSuper' = [cSuper EXCEPT !.count = (cSuper.count + (-1)) % U32]
        BY <1>2, <1>3 DEF Super, Released, Counted
    <2>4. QED BY <1>3, <2>2, <2>3 DEF Super
<1>6. /\ cTable' \in [SlotIds -> Entry]
      /\ Used(cTable') \subseteq Used(cTable)
      /\ \A j \in Used(cTable') : cTable'[j] = cTable[j]
    <2>1. cTable' = [cTable EXCEPT ![i] = [cTable[i] EXCEPT !.used = FALSE]]
        BY <1>1, <1>2, <1>3
    <2>2. [cTable[i] EXCEPT !.used = FALSE] \in Entry
          /\ ~[cTable[i] EXCEPT !.used = FALSE].used
        BY <1>1, <1>3 DEF Entry
    <2>3. QED BY <1>1, <1>3, <2>1, <2>2 DEF Used
<1>7. TypeOK'
    BY <1>2, <1>4, <1>5, <1>6 DEF IInv, TypeOK
<1>8. DiskInv'
    BY <1>2, <1>3 DEF DiskInv, Allocated, Used
<1>9. CacheInv'
    <2>1. Allocated(cTable, cSuper) /\ dSuper.next <= cSuper.next
          /\ \A j \in Used(dTable), k \in Used(cTable) :
                 j # k => Apart(dTable[j], cTable[k])
        BY <1>3 DEF CacheInv
    <2>2. Allocated(cTable', cSuper')
        BY <1>5, <1>6, <2>1 DEF Allocated
    <2>3. \A j \in Used(dTable), k \in Used(cTable') :
              j # k => Apart(dTable[j], cTable'[k])
        BY <1>6, <2>1
    <2>4. QED BY <1>2, <1>5, <2>1, <2>2, <2>3 DEF CacheInv, Allocated, Used
<1>10. SuperFirst' /\ JobInv' /\ NothingOwed'
    BY <1>2, <1>4, Geometry DEF IInv, SuperFirst, JobInv, NothingOwed
<1>11. QED BY <1>7, <1>8, <1>9, <1>10 DEF IInv

(* Only the sector counter of the command moves. *)
LEMMA CounterMoves ==
    ASSUME NEW j \in JobType, NEW v \in 0 .. TableSectors
    PROVE  LET u == [j EXCEPT !.next = v]
           IN  u \in JobType /\ u.kind = j.kind /\ u.slot = j.slot /\ u.line = j.line
BY DEF JobType

(***************************************************************************)
(* One sector of fs_sync.  Sector 0 raises the allocator on the medium     *)
(* under an unchanged table; a later sector brings entries of the cached   *)
(* table, all below the allocator that sector 0 has already saved.  A      *)
(* drive that loses sector 0 and claims success breaks the argument, hence *)
(* the hypothesis on WriteFaults.                                          *)
(***************************************************************************)
LEMMA SyncSectorInv ==
    ASSUME "silent" \notin WriteFaults, IInv, SyncSector PROVE IInv'
<1>1. ctl = "sync" /\ dData' = dData /\ cSuper' = cSuper /\ cTable' = cTable
      /\ boots' = boots
    BY DEF SyncSector, cache
<1>2. PICK o \in Outcomes :
          /\ Count(o)
          /\ dSuper' = IF Stored(o) /\ job.next = 0 THEN cSuper ELSE dSuper
          /\ dTable' = [i \in SlotIds |->
                           IF Stored(o) /\ SectorOf(i) = job.next
                           THEN cTable[i] ELSE dTable[i]]
          /\ \/ ~Reported(o) /\ Ends("error", SyncFailure)
             \/ /\ Reported(o) /\ job.next < TableSectors
                /\ job' = [job EXCEPT !.next = @ + 1]
                /\ UNCHANGED <<ctl, reply, out>>
             \/ Reported(o) /\ job.next = TableSectors /\ AfterSync
    BY DEF SyncSector, SuperSector
<1>3. TypeOK /\ DiskInv /\ CacheInv /\ SuperFirst /\ JobInv /\ Mounted
      /\ job \in JobType /\ job.next \in 0 .. TableSectors
    BY <1>1 DEF IInv, Mounted, TypeOK, JobType
<1>4. faults' \in 0 .. MaxFaults /\ boots' \in 0 .. MaxBoots /\ owed' = {}
    BY <1>1, <1>2, <1>3, CountFits DEF TypeOK
<1>5. dSuper \in Super /\ cSuper \in Super /\ dTable \in [SlotIds -> Entry]
      /\ cTable \in [SlotIds -> Entry]
    BY <1>3 DEF TypeOK
<1>6. /\ Allocated(dTable, dSuper) /\ Allocated(cTable, cSuper)
      /\ dSuper.next <= cSuper.next
      /\ \A i \in Used(dTable), j \in Used(cTable) :
             i # j => Apart(dTable[i], cTable[j])
    BY <1>3 DEF DiskInv, CacheInv
<1>7. Reported(o) => Stored(o)
    BY <1>2 DEF Outcomes, Reported, Stored, Count, IInv, NothingOwed
<1>8. dSuper' \in Super /\ dTable' \in [SlotIds -> Entry]
    BY <1>2, <1>5
<1>9. dSuper.next <= dSuper'.next /\ dSuper'.next <= cSuper.next
      /\ dSuper'.total = TotalSectors
      /\ dSuper'.next \in DataStart .. TotalSectors
    <2>1. /\ dSuper.total = TotalSectors /\ dSuper.next \in DataStart .. TotalSectors
          /\ cSuper.total = TotalSectors /\ cSuper.next \in DataStart .. TotalSectors
        BY <1>6 DEF Allocated
    <2>2. dSuper' = dSuper \/ dSuper' = cSuper
        BY <1>2
    <2>3. dSuper.next \in Nat /\ cSuper.next \in Nat
        BY <1>5 DEF Super
    <2>4. QED BY <1>6, <2>1, <2>2, <2>3
<1>10. ASSUME NEW i \in Used(dTable')
       PROVE  \/ i \in Used(dTable) /\ dTable'[i] = dTable[i]
              \/ i \in Used(cTable) /\ dTable'[i] = cTable[i] /\ dSuper'.next = cSuper.next
    <2>1. i \in SlotIds /\ dTable'[i].used
        BY DEF Used
    <2>2. CASE Stored(o) /\ SectorOf(i) = job.next
        <3>1. dTable'[i] = cTable[i]
            BY <1>2, <2>1, <2>2
        <3>2. job.next > 0
            <4>1. i \div EntriesPerSector \in Nat
                BY <2>1, Geometry
            <4>2. QED BY <2>2, <4>1 DEF SectorOf
        <3>3. dSuper = cSuper
            BY <1>1, <1>3, <3>2 DEF SuperFirst
        <3>4. QED BY <1>2, <2>1, <3>1, <3>3 DEF Used
    <2>3. CASE ~(Stored(o) /\ SectorOf(i) = job.next)
        <3>1. dTable'[i] = dTable[i]
            BY <1>2, <2>1, <2>3
        <3>2. QED BY <2>1, <3>1 DEF Used
    <2>4. QED BY <2>2, <2>3
<1>11. DiskInv' /\ NothingOwed'
    <2>1. ASSUME NEW i \in Used(dTable')
          PROVE  /\ DataStart <= dTable'[i].start
                 /\ dTable'[i].start + dTable'[i].cap <= dSuper'.next
                 /\ dTable'[i].size <= dTable'[i].cap * SectorLen
        <3>1. CASE i \in Used(dTable) /\ dTable'[i] = dTable[i]
            <4>1. /\ DataStart <= dTable[i].start
                  /\ dTable[i].start + dTable[i].cap <= dSuper.next
                  /\ dTable[i].size <= dTable[i].cap * SectorLen
                BY <1>6, <3>1 DEF Allocated
            <4>2. dTable[i].start + dTable[i].cap \in Nat
                  /\ dSuper.next \in Nat /\ dSuper'.next \in Nat
                BY <1>5, <1>8, <3>1 DEF Entry, Super, Used
            <4>3. QED BY <1>9, <3>1, <4>1, <4>2
        <3>2. CASE i \in Used(cTable) /\ dTable'[i] = cTable[i]
                   /\ dSuper'.next = cSuper.next
            BY <1>6, <3>2 DEF Allocated
        <3>3. QED BY <1>10, <2>1, <3>1, <3>2
    <2>2. ASSUME NEW i \in Used(dTable'), NEW j \in Used(dTable'), i # j
          PROVE  Apart(dTable'[i], dTable'[j])
        <3>1. /\ i \in Used(dTable) /\ j \in Used(dTable) => Apart(dTable[i], dTable[j])
              /\ i \in Used(cTable) /\ j \in Used(cTable) => Apart(cTable[i], cTable[j])
              /\ i \in Used(dTable) /\ j \in Used(cTable) => Apart(dTable[i], cTable[j])
              /\ i \in Used(cTable) /\ j \in Used(dTable) => Apart(cTable[i], dTable[j])
            BY <1>6, <2>2 DEF Allocated, Apart
        <3>2. QED BY <1>10, <2>2, <3>1
    <2>3. Allocated(dTable', dSuper')
        BY <1>9, <2>1, <2>2 DEF Allocated
    <2>4. QED BY <1>4, <2>3 DEF DiskInv, Allocated, Used, NothingOwed
<1>12. CacheInv'
    <2>1. \A i \in Used(dTable'), j \in Used(cTable) :
              i # j => Apart(dTable'[i], cTable[j])
        <3>1. \A i, j \in Used(cTable) : i # j => Apart(cTable[i], cTable[j])
            BY <1>6 DEF Allocated
        <3>2. QED BY <1>6, <1>10, <3>1
    <2>2. QED BY <1>1, <1>6, <1>9, <2>1 DEF CacheInv, Allocated, Used
<1>13. CASE ~Reported(o) /\ Ends("error", SyncFailure)
    <2>1. ctl' = "idle" /\ job' = NoJob /\ reply' = "error"
        BY <1>13 DEF Ends
    <2>2. TypeOK'
        BY <1>1, <1>3, <1>4, <1>8, <2>1, NoJobType DEF TypeOK
    <2>3. SuperFirst' /\ JobInv'
        BY <2>1 DEF SuperFirst, JobInv
    <2>4. QED BY <1>11, <1>12, <2>2, <2>3 DEF IInv
<1>14. CASE /\ Reported(o) /\ job.next < TableSectors
            /\ job' = [job EXCEPT !.next = @ + 1]
            /\ UNCHANGED <<ctl, reply, out>>
    <2>1. job' = [job EXCEPT !.next = job.next + 1] /\ job.next + 1 \in 0 .. TableSectors
        <3>1. job' = [job EXCEPT !.next = @ + 1] /\ job.next < TableSectors
              /\ job \in JobType /\ job.next \in 0 .. TableSectors
            BY <1>3, <1>14
        <3>2. job' = [job EXCEPT !.next = job.next + 1]
            BY <3>1 DEF JobType
        <3>3. job.next \in 0 .. TableSectors /\ job.next < TableSectors
            BY <3>1
        <3>4. job.next + 1 \in 0 .. TableSectors
            BY <3>3, Geometry
        <3>5. QED BY <3>2, <3>4
    <2>2. job' \in JobType /\ job'.kind = job.kind /\ job'.slot = job.slot
          /\ job'.line = job.line
        BY <1>3, <2>1, CounterMoves
    <2>3. TypeOK'
        BY <1>1, <1>3, <1>4, <1>8, <1>14, <2>2 DEF TypeOK
    <2>4. dSuper' = cSuper'
        <3>1. CASE job.next = 0
            BY <1>1, <1>2, <1>7, <1>14, <3>1
        <3>2. CASE job.next # 0
            <4>1. job.next > 0
                BY <1>3, <3>2, Geometry
            <4>2. QED BY <1>1, <1>2, <1>3, <3>2, <4>1 DEF SuperFirst
        <3>3. QED BY <3>1, <3>2
    <2>5. SuperFirst'
        BY <2>4 DEF SuperFirst
    <2>6. JobInv'
        BY <1>1, <1>3, <1>14, <2>2 DEF JobInv, Used
    <2>7. QED BY <1>11, <1>12, <2>3, <2>5, <2>6 DEF IInv
<1>15. CASE Reported(o) /\ job.next = TableSectors /\ AfterSync
    <2>1. CASE job.kind = "create"
        <3>1. ctl' = "fetch" /\ job' = [job EXCEPT !.next = 0] /\ reply' = reply
            BY <1>15, <2>1 DEF AfterSync
        <3>2. job' \in JobType /\ job'.slot = job.slot /\ job'.line = job.line
            <4>1. 0 \in 0 .. TableSectors
                BY Geometry
            <4>2. QED BY <1>3, <3>1, <4>1, CounterMoves
        <3>3. TypeOK'
            BY <1>1, <1>3, <1>4, <1>8, <3>1, <3>2 DEF TypeOK
        <3>4. SuperFirst' /\ JobInv'
            BY <1>1, <1>3, <2>1, <3>1, <3>2 DEF SuperFirst, JobInv, Used
        <3>5. QED BY <1>11, <1>12, <3>3, <3>4 DEF IInv
    <2>2. CASE job.kind # "create"
        <3>1. ctl' = "idle" /\ job' = NoJob /\ reply' = "ok"
            BY <1>15, <2>2 DEF AfterSync, Ends
        <3>2. TypeOK'
            BY <1>1, <1>3, <1>4, <1>8, <3>1, NoJobType DEF TypeOK
        <3>3. SuperFirst' /\ JobInv'
            BY <3>1 DEF SuperFirst, JobInv
        <3>4. QED BY <1>11, <1>12, <3>2, <3>3 DEF IInv
    <2>3. QED BY <2>1, <2>2
<1>16. QED BY <1>2, <1>13, <1>14, <1>15

-----------------------------------------------------------------------------
(* The theorems. *)

(* Every step of MortFS, whatever the drive and the power do, preserves    *)
(* the inductive invariant.                                                *)
THEOREM NextInv ==
    ASSUME "silent" \notin WriteFaults, "abandoned" \notin ReadFaults
    PROVE  IInv /\ [Next]_vars => IInv'
<1> SUFFICES ASSUME IInv, [Next]_vars PROVE IInv'
    OBVIOUS
<1>1. CASE Boot
    BY <1>1, BootInv
<1>2. CASE BootFails
    BY <1>2, BootFailsInv
<1>3. CASE GuardRefuses
    BY <1>3, GuardRefusesInv
<1>4. CASE PowerCut
    BY <1>4, PowerCutInv
<1>5. CASE Command
    <2>1. PICK n \in Names : \/ WriteRefused(n) \/ RemoveMissing(n) \/ RemoveFound(n)
                             \/ \E l \in Lines : WriteCreates(n, l) \/ WriteFinds(n, l)
        BY <1>5 DEF Command
    <2>2. QED BY <2>1, WriteRefusedInv, RemoveMissingInv, RemoveFoundInv,
                 WriteCreatesInv, WriteFindsInv
<1>6. CASE Handler
    BY <1>6, AppendTooLongInv, AppendFetchInv, AppendFetchFailsInv, AppendPutInv,
       SyncSectorInv DEF Handler
<1>7. CASE UNCHANGED vars
    BY <1>7, StutterInv
<1>8. QED BY <1>1, <1>2, <1>3, <1>4, <1>5, <1>6, <1>7 DEF Next

(* The inductive invariant holds of every MortFS, unless the drive loses a *)
(* sector that ata_write reports as written, or a read is abandoned.       *)
THEOREM Invariant ==
    ASSUME "silent" \notin WriteFaults, "abandoned" \notin ReadFaults
    PROVE  Spec => []IInv
<1>1. Init => IInv
    BY InitInv
<1>2. IInv /\ [Next]_vars => IInv'
    BY NextInv
<1>3. QED BY <1>1, <1>2, PTL DEF Spec

(* Every variable keeps its type.                                          *)
THEOREM TypeCorrect ==
    ASSUME "silent" \notin WriteFaults, "abandoned" \notin ReadFaults
    PROVE  Spec => []TypeOK
<1>1. Spec => []IInv
    BY Invariant
<1>2. IInv => TypeOK
    BY DEF IInv
<1>3. QED BY <1>1, <1>2, PTL

(* No two files ever share a sector, in the cache, on the medium or        *)
(* between the two, whichever sector writes are refused or late, wherever  *)
(* the power is cut (fs_create, fs_sync), on a drive that abandons nothing *)
(* and fails no sector it has taken.                                       *)
THEOREM ExtentsStayApart ==
    ASSUME "silent" \notin WriteFaults, "abandoned" \notin ReadFaults
    PROVE  Spec => []ExtentsApart
<1>1. Spec => []IInv
    BY Invariant
<1>2. IInv => ExtentsApart
    BY DEF IInv, DiskInv, CacheInv, Allocated, ExtentsApart
<1>3. QED BY <1>1, <1>2, PTL

(* next_free_sector on the medium never falls, so no boot hands out an     *)
(* extent below it (fs_sync saves sector 0 first).  An extent whose sync   *)
(* lost sector 0 lies above it, and may be handed out again.               *)
THEOREM AllocatorIsMonotone ==
    ASSUME "silent" \notin WriteFaults, "abandoned" \notin ReadFaults
    PROVE  Spec => AllocatorNeverRewinds
<1>1. ASSUME IInv, [Next]_vars
      PROVE  dSuper'.next >= dSuper.next
    <2>1. dSuper.next \in Nat
        BY <1>1 DEF IInv, TypeOK, Super
    <2>2. CASE dSuper' = dSuper
        BY <2>1, <2>2
    <2>3. CASE SyncSector
        <3>1. dSuper' = cSuper \/ dSuper' = dSuper
            BY <2>3 DEF SyncSector
        <3>2. dSuper.next <= cSuper.next /\ cSuper.next \in Nat
            BY <1>1, <2>3 DEF IInv, CacheInv, Mounted, SyncSector, TypeOK, Super
        <3>3. QED BY <2>1, <3>1, <3>2
    <2>4. SyncSector \/ dSuper' = dSuper
        <3>1. CASE Handler
            BY <3>1 DEF Handler, AppendTooLong, AppendFetch, AppendFetchFails,
                        AppendPut, disk
        <3>2. CASE Command
            BY <3>2 DEF Command, WriteRefused, RemoveMissing, RemoveFound,
                        WriteCreates, WriteFinds, disk
        <3>3. CASE Boot \/ BootFails \/ GuardRefuses \/ PowerCut \/ UNCHANGED vars
            BY <3>3 DEF Boot, BootFails, GuardRefuses, PowerCut, vars, disk
        <3>4. QED BY <1>1, <3>1, <3>2, <3>3 DEF Next
    <2>5. QED BY <2>2, <2>3, <2>4
<1>2. Spec => []IInv
    BY Invariant
<1>3. QED BY <1>1, <1>2, PTL DEF Spec, AllocatorNeverRewinds

-----------------------------------------------------------------------------
(* Acknowledged commands. *)

(* A command in flight is not acknowledged, and what fs_sync has been over *)
(* is on the medium.                                                       *)
AckInv ==
    /\ ctl \in {"fetch", "put", "sync"} => reply = "none"
    /\ ctl = "sync" =>
           \A i \in SlotIds : SectorOf(i) < job.next => dTable[i] = cTable[i]
    /\ AckedIsStored

(* The table sectors are 1 .. TableSectors. *)
LEMMA SectorRange ==
    ASSUME NEW i \in SlotIds PROVE SectorOf(i) \in 1 .. TableSectors
<1>1. i \in Nat /\ i < TableSectors * EntriesPerSector
    BY Geometry DEF Slots
<1>2. i \div EntriesPerSector \in Nat /\ i \div EntriesPerSector < TableSectors
    BY <1>1, Geometry, DivBound
<1>3. QED BY <1>2, Geometry DEF SectorOf

(* fs_sync, one sector on. *)
LEMMA SyncSectorAck ==
    ASSUME "silent" \notin WriteFaults, IInv, AckInv, SyncSector PROVE AckInv'
<1>1. ctl = "sync" /\ cSuper' = cSuper /\ cTable' = cTable /\ reply = "none"
    BY DEF SyncSector, cache, AckInv
<1>2. PICK o \in Outcomes :
          /\ Count(o)
          /\ dSuper' = IF Stored(o) /\ job.next = 0 THEN cSuper ELSE dSuper
          /\ dTable' = [i \in SlotIds |->
                           IF Stored(o) /\ SectorOf(i) = job.next
                           THEN cTable[i] ELSE dTable[i]]
          /\ \/ ~Reported(o) /\ Ends("error", SyncFailure)
             \/ /\ Reported(o) /\ job.next < TableSectors
                /\ job' = [job EXCEPT !.next = @ + 1]
                /\ UNCHANGED <<ctl, reply, out>>
             \/ Reported(o) /\ job.next = TableSectors /\ AfterSync
    BY DEF SyncSector, SuperSector
<1>3. Reported(o) => Stored(o)
    BY <1>2 DEF Outcomes, Reported, Stored, Count, IInv, NothingOwed
<1>4. job \in JobType /\ job.next \in 0 .. TableSectors
      /\ dTable \in [SlotIds -> Entry] /\ cTable \in [SlotIds -> Entry]
    BY DEF IInv, TypeOK, JobType
<1>5. ASSUME Reported(o), NEW i \in SlotIds, SectorOf(i) <= job.next
      PROVE  dTable'[i] = cTable[i]
    <2>1. CASE SectorOf(i) = job.next
        BY <1>2, <1>3, <1>5, <2>1
    <2>2. CASE SectorOf(i) # job.next
        <3>1. SectorOf(i) < job.next
            BY <1>4, <1>5, <2>2, SectorRange, Geometry
        <3>2. QED BY <1>1, <1>2, <2>2, <3>1 DEF AckInv
    <2>3. QED BY <2>1, <2>2
<1>6. CASE ~Reported(o) /\ Ends("error", SyncFailure)
    BY <1>6 DEF Ends, AckInv, AckedIsStored
<1>7. CASE /\ Reported(o) /\ job.next < TableSectors
           /\ job' = [job EXCEPT !.next = @ + 1]
           /\ UNCHANGED <<ctl, reply, out>>
    <2>1. job'.next = job.next + 1
        BY <1>4, <1>7 DEF JobType
    <2>2. ASSUME NEW i \in SlotIds, SectorOf(i) < job'.next
          PROVE  dTable'[i] = cTable'[i]
        <3>1. SectorOf(i) <= job.next
            BY <1>4, <2>1, <2>2, SectorRange, Geometry
        <3>2. QED BY <1>1, <1>5, <1>7, <3>1
    <2>3. QED BY <1>1, <1>7, <2>2 DEF AckInv, AckedIsStored, SectorOf
<1>8. CASE Reported(o) /\ job.next = TableSectors /\ AfterSync
    <2>1. CASE job.kind = "create"
        BY <1>1, <1>8, <2>1 DEF AfterSync, AckInv, AckedIsStored
    <2>2. CASE job.kind # "create"
        <3>1. ctl' = "idle" /\ reply' = "ok"
            BY <1>8, <2>2 DEF AfterSync, Ends
        <3>2. dSuper' = cSuper
            <4>1. job.next > 0
                BY <1>8, Geometry
            <4>2. dSuper = cSuper
                BY <1>1, <4>1 DEF IInv, SuperFirst
            <4>3. QED BY <1>2, <4>2
        <3>3. \A i \in SlotIds : dTable'[i] = cTable[i]
            BY <1>5, <1>8, SectorRange, Geometry
        <3>4. dTable' = cTable
            BY <1>2, <1>4, <3>3
        <3>5. QED BY <1>1, <3>1, <3>2, <3>4 DEF AckInv, AckedIsStored
    <2>3. QED BY <2>1, <2>2
<1>9. QED BY <1>2, <1>6, <1>7, <1>8

(* Every other step of a command: the cache changes only while nothing is  *)
(* acknowledged.                                                           *)
LEMMA CommandAck ==
    ASSUME IInv, AckInv, Command PROVE AckInv'
<1>1. PICK n \in Names : \/ WriteRefused(n) \/ RemoveMissing(n) \/ RemoveFound(n)
                         \/ \E l \in Lines : WriteCreates(n, l) \/ WriteFinds(n, l)
    BY DEF Command
<1>2. CASE WriteRefused(n) \/ RemoveMissing(n)
    BY <1>2 DEF WriteRefused, RemoveMissing, Ends, AckInv, AckedIsStored
<1>3. ASSUME NEW j, j.next = 0, StartSync(j), Running
      PROVE  AckInv'
    <2>1. ctl' = "sync" /\ reply' = "none" /\ job'.next = 0
        BY <1>3 DEF StartSync, Running
    <2>2. \A i \in SlotIds : ~(SectorOf(i) < job'.next)
        BY <2>1, SectorRange, Geometry
    <2>3. QED BY <2>1, <2>2 DEF AckInv, AckedIsStored, SectorOf
<1>4. CASE RemoveFound(n)
    <2>1. [NoJob EXCEPT !.kind = "remove"].next = 0
        BY DEF NoJob
    <2>2. QED BY <1>3, <1>4, <2>1 DEF RemoveFound
<1>5. ASSUME NEW l \in Lines, WriteCreates(n, l) PROVE AckInv'
    <2>1. [NoJob EXCEPT !.kind = "create", !.slot = FsFreeSlot(cTable),
                        !.line = l].next = 0
        BY DEF NoJob
    <2>2. QED BY <1>3, <1>5, <2>1 DEF WriteCreates
<1>6. ASSUME NEW l \in Lines, WriteFinds(n, l) PROVE AckInv'
    BY <1>6 DEF WriteFinds, Running, AckInv, AckedIsStored
<1>7. QED BY <1>1, <1>2, <1>4, <1>5, <1>6

(* fs_append_line, until it reaches fs_sync. *)
LEMMA AppendAck ==
    ASSUME IInv, AckInv, AppendTooLong \/ AppendFetch \/ AppendFetchFails \/ AppendPut
    PROVE  AckInv'
<1>1. CASE AppendTooLong \/ AppendFetchFails
    BY <1>1 DEF AppendTooLong, AppendFetchFails, Ends, AckInv, AckedIsStored
<1>2. CASE AppendFetch
    BY <1>2 DEF AppendFetch, AckInv, AckedIsStored
<1>3. CASE AppendPut
    <2>1. ctl = "put" /\ reply = "none"
        BY <1>3 DEF AppendPut, AckInv
    <2>2. \/ ctl' = "idle" /\ reply' = "error"
          \/ ctl' = "put" /\ reply' = "none"
          \/ ctl' = "sync" /\ reply' = "none" /\ job'.next = 0
        BY <1>3, <2>1 DEF AppendPut, Ends, StartSync, NoJob
    <2>3. ctl' = "sync" => \A i \in SlotIds : ~(SectorOf(i) < job'.next)
        BY <2>2, SectorRange, Geometry
    <2>4. QED BY <2>2, <2>3 DEF AckInv, AckedIsStored, SectorOf
<1>4. QED BY <1>1, <1>2, <1>3

(* What is known while a command runs holds in every reachable state.      *)
THEOREM AcknowledgedInStep ==
    ASSUME "silent" \notin WriteFaults, "abandoned" \notin ReadFaults
    PROVE  Spec => []AckInv
<1>1. Init => AckInv
    BY DEF Init, AckInv, AckedIsStored
<1>2. ASSUME IInv, AckInv, [Next]_vars PROVE AckInv'
    <2>1. CASE Boot \/ BootFails \/ GuardRefuses \/ PowerCut
        BY <1>2, <2>1 DEF Boot, BootFails, GuardRefuses, PowerCut, AckInv, AckedIsStored,
                          cache, disk
    <2>2. CASE Command
        BY <1>2, <2>2, CommandAck
    <2>3. CASE Handler
        BY <1>2, <2>3, AppendAck, SyncSectorAck DEF Handler
    <2>4. CASE UNCHANGED vars
        BY <1>2, <2>4 DEF vars, disk, cache, AckInv, AckedIsStored, SectorOf
    <2>5. QED BY <1>2, <2>1, <2>2, <2>3, <2>4 DEF Next
<1>3. Spec => []IInv
    BY Invariant
<1>4. QED BY <1>1, <1>2, <1>3, PTL DEF Spec

(* What the shell is told is stored is stored: an acknowledged command and *)
(* all before it survive a power cut (fs_sync, fs_create, fs_append_line). *)
THEOREM AcknowledgedIsStored ==
    ASSUME "silent" \notin WriteFaults, "abandoned" \notin ReadFaults
    PROVE  Spec => []AckedIsStored
<1>1. AckInv => AckedIsStored
    BY DEF AckInv
<1>2. Spec => []AckInv
    BY AcknowledgedInStep
<1>3. QED BY <1>1, <1>2, PTL

-----------------------------------------------------------------------------
(* What is saved stays as it is. *)

(* The file in a slot of the medium and the file in that slot of the       *)
(* cache: the same, which may have grown, or one in a later extent.        *)
SameFile(e, f) ==
    e.name = f.name /\ e.start = f.start /\ e.cap = f.cap /\ e.size <= f.size

SlotInv ==
    Mounted => \A i \in Used(dTable) \cap Used(cTable) :
                   Apart(dTable[i], cTable[i]) \/ SameFile(dTable[i], cTable[i])

(* How far fs_append_line has filled its extent, in bytes.                 *)
Position == (job.at - Target.start) * SectorLen + job.off

(* In the byte loop of fs_append_line: what is left of the line starts at  *)
(* the position, the sector being filled agrees with the medium up to it,  *)
(* and behind the file's old end the medium holds the line.                *)
PutInv ==
    ctl = "put" =>
        /\ job.at >= Target.start
        /\ Len(job.rest) \in 1 .. Len(job.line)
        /\ Position + Len(job.rest) = Target.size + Len(job.line)
        /\ \A k \in 1 .. job.off : job.buf[k] = dData[job.at][k]
        /\ \A k \in 1 .. Len(job.rest) :
               job.rest[k] = job.line[Len(job.line) - Len(job.rest) + k]
        /\ \A k \in Target.size .. Position - 1 :
               ByteAt(Target, dData, k) = job.line[k - Target.size + 1]

(* The sector and the offset of a byte determine it.                       *)
LEMMA Split ==
    ASSUME NEW k \in Nat
    PROVE  /\ k \div SectorLen \in Nat /\ k % SectorLen \in 0 .. SectorLen - 1
           /\ k = (k \div SectorLen) * SectorLen + (k % SectorLen)
<1>1. ASSUME NEW s \in Nat \ {0}
      PROVE  k \div s \in Nat /\ k % s \in 0 .. s - 1 /\ k = (k \div s) * s + (k % s)
    <2> DEFINE q == k \div s
               r == k % s
    <2>1. q \in Nat /\ r \in 0 .. s - 1 /\ k = s * q + r
        OBVIOUS
    <2> HIDE DEF q, r
    <2>2. s * q = q * s
        BY <2>1
    <2>3. q \in Nat /\ r \in 0 .. s - 1 /\ k = q * s + r
        BY <2>1, <2>2
    <2>4. QED BY <2>3 DEF q, r
<1>2. QED BY <1>1, Geometry

(* The byte at offset o of sector a of an extent.                          *)
LEMMA Joined ==
    ASSUME NEW a \in Nat, NEW o \in 0 .. SectorLen - 1
    PROVE  /\ a * SectorLen + o \in Nat
           /\ (a * SectorLen + o) \div SectorLen = a
           /\ (a * SectorLen + o) % SectorLen = o
<1> DEFINE k == a * SectorLen + o
           q == k \div SectorLen
           r == k % SectorLen
<1>1. a * SectorLen \in Nat
    BY Geometry
<1>2. k \in Nat
    BY <1>1, Geometry
<1> HIDE DEF k
<1>3. q \in Nat /\ r \in 0 .. SectorLen - 1 /\ k = q * SectorLen + r
    BY <1>2, Split
<1> HIDE DEF q, r
<1>4. ASSUME q < a PROVE FALSE
    <2>1. q + 1 <= a /\ q + 1 \in Nat
        BY <1>3, <1>4
    <2>2. (q + 1) * SectorLen <= a * SectorLen
        BY <2>1, Geometry, MulMono
    <2>3. (q + 1) * SectorLen = q * SectorLen + SectorLen /\ q * SectorLen \in Nat
        BY <1>3, Geometry
    <2>4. QED BY <1>1, <1>3, <2>2, <2>3, Geometry DEF k
<1>5. ASSUME a < q PROVE FALSE
    <2>1. a + 1 <= q /\ a + 1 \in Nat
        BY <1>3, <1>5
    <2>2. (a + 1) * SectorLen <= q * SectorLen
        BY <1>3, <2>1, Geometry, MulMono
    <2>3. (a + 1) * SectorLen = a * SectorLen + SectorLen /\ q * SectorLen \in Nat
        BY <1>3, Geometry
    <2>4. QED BY <1>1, <1>3, <2>2, <2>3, Geometry DEF k
<1>6. q = a
    BY <1>3, <1>4, <1>5
<1>7. r = o
    BY <1>1, <1>3, <1>6, Geometry DEF k
<1>8. QED BY <1>2, <1>6, <1>7 DEF k, q, r

(* The sectors of an extent of the data area are data sectors.             *)
LEMMA InExtent ==
    ASSUME NEW first \in Nat, NEW cap \in Nat, NEW q \in Nat, q < cap,
           DataStart <= first, first + cap <= TotalSectors
    PROVE  first + q \in DataSectors
<1>1. DataStart \in Nat /\ TotalSectors \in Nat
    BY Geometry
<1>2. first + q \in Nat /\ DataStart <= first + q /\ first + q <= TotalSectors - 1
    BY <1>1
<1>3. QED BY <1>1, <1>2 DEF DataSectors

(* Where fs_append_line is in its extent.                                  *)
LEMMA PositionFits ==
    ASSUME IInv, PutInv, ctl = "put"
    PROVE  /\ job.at \in Nat /\ job.off \in 0 .. SectorLen - 1
           /\ Target.start \in Nat /\ Target.cap \in Nat /\ Target.size \in Nat
           /\ job.at - Target.start \in Nat /\ job.at - Target.start < Target.cap
           /\ (job.at - Target.start) * SectorLen \in Nat
           /\ Position \in Nat /\ Target.size <= Position
           /\ Len(job.rest) \in Nat /\ Len(job.rest) > 0 /\ job.rest \in Seq(Bytes)
           /\ Len(job.line) \in Nat /\ Len(job.rest) <= Len(job.line)
           /\ Position = (job.at - Target.start) * SectorLen + job.off
           /\ Position + Len(job.rest) = Target.size + Len(job.line)
           /\ job.at \in DataSectors
<1>1. /\ job.at \in Nat /\ job.off \in 0 .. SectorLen - 1 /\ job.rest \in Seq(Bytes)
      /\ job.off \in Nat
    BY Geometry DEF IInv, TypeOK, JobType
<1>2. /\ Target.start \in Nat /\ Target.cap \in Nat /\ Target.size \in Nat
      /\ Len(job.line) \in Nat
      /\ DataStart <= Target.start /\ Target.start + Target.cap <= TotalSectors
    BY TargetFits DEF Entry
<1>3. job.at >= Target.start /\ Len(job.rest) \in 1 .. Len(job.line)
      /\ Position + Len(job.rest) = Target.size + Len(job.line)
    BY DEF PutInv
<1> DEFINE a == job.at - Target.start
<1>4. a \in Nat
    BY <1>1, <1>2, <1>3
<1>5. a * SectorLen \in Nat /\ Position = a * SectorLen + job.off
    BY <1>4, Geometry DEF Position
<1> HIDE DEF a
<1>6. Target.cap * SectorLen \in Nat
      /\ Target.size + Len(job.line) <= Target.cap * SectorLen
    <2>1. Target.cap * SectorLen \in Nat
        BY <1>2, Geometry
    <2>2. ~NoRoom
        BY DEF IInv, JobInv
    <2>3. QED BY <1>2, <2>1, <2>2 DEF NoRoom
<1>7. /\ a * SectorLen < Target.cap * SectorLen
      /\ Position \in Nat /\ Target.size <= Position
    <2> DEFINE x == a * SectorLen
               c == Target.cap * SectorLen
               s == Target.size
               l == Len(job.line)
               r == Len(job.rest)
               off == job.off
    <2>1. x \in Nat /\ c \in Nat /\ s \in Nat /\ l \in Nat /\ off \in Nat /\ r \in 1 .. l
        BY <1>1, <1>2, <1>3, <1>5, <1>6
    <2>2. Position = x + off /\ Position + r = s + l /\ s + l <= c
        BY <1>3, <1>5, <1>6
    <2> HIDE DEF x, c, s, l, r, off
    <2>3. Position \in Nat /\ r \in Nat /\ r > 0 /\ r <= l
        BY <2>1, <2>2
    <2>4. x <= Position /\ Position < c /\ s <= Position
        BY <2>1, <2>2, <2>3
    <2>5. x < c
        BY <2>1, <2>3, <2>4
    <2>6. QED BY <2>3, <2>4, <2>5 DEF x, c, s
<1>8. a < Target.cap
    <2>1. SUFFICES ASSUME Target.cap <= a PROVE FALSE
        BY <1>2, <1>4
    <2>2. Target.cap * SectorLen <= a * SectorLen
        BY <1>2, <1>4, <2>1, MulMono, Geometry
    <2>3. QED BY <1>5, <1>6, <1>7, <2>2
<1>9. Position \in Nat /\ Target.size <= Position
    BY <1>7
<1>10. job.at \in DataSectors
    <2>1. Target.start + a \in DataSectors
        BY <1>2, <1>4, <1>8, InExtent
    <2>2. Target.start + a = job.at
        BY <1>1, <1>2 DEF a
    <2>3. QED BY <2>1, <2>2
<1>11. Len(job.rest) \in Nat /\ Len(job.rest) > 0 /\ Len(job.rest) <= Len(job.line)
    BY <1>2, <1>3
<1>12. /\ job.at - Target.start \in Nat /\ job.at - Target.start < Target.cap
       /\ (job.at - Target.start) * SectorLen \in Nat
       /\ Position = (job.at - Target.start) * SectorLen + job.off
    BY <1>4, <1>5, <1>8 DEF a
<1>13. QED BY <1>1, <1>2, <1>3, <1>9, <1>10, <1>11, <1>12

(* The offset lies in the sector.                                          *)
LEMMA OffFits ==
    ASSUME IInv, ctl = "put"
    PROVE  /\ SectorLen \in Nat /\ SectorLen > 0 /\ job.off \in Nat /\ job.off < SectorLen
           /\ SectorLen - job.off \in Nat /\ SectorLen - job.off > 0
<1>1. SectorLen \in Nat /\ SectorLen > 0
    BY Geometry
<1>2. job.off \in 0 .. SectorLen - 1
    BY DEF IInv, TypeOK, JobType
<1>3. QED BY <1>1, <1>2

(* A chunk is the beginning of what is left of the line, as far as the     *)
(* sector reaches.                                                         *)
LEMMA ChunkBegins ==
    ASSUME IInv, PutInv, ctl = "put"
    PROVE  /\ Len(Chunk) \in Nat /\ Len(Chunk) > 0
           /\ Len(Chunk) <= SectorLen - job.off /\ Len(Chunk) <= Len(job.rest)
           /\ Len(Chunk) < Len(job.rest) => Len(Chunk) = SectorLen - job.off
           /\ \A k \in 1 .. Len(Chunk) : Chunk[k] = job.rest[k]
<1> DEFINE room == SectorLen - job.off
<1>1. /\ job.rest \in Seq(Bytes) /\ Len(job.rest) \in Nat /\ Len(job.rest) > 0
      /\ room \in Nat /\ room > 0
    BY OffFits, PositionFits
<1> HIDE DEF room
<1>2. CASE Len(job.rest) <= room
    <2>1. Chunk = job.rest
        BY <1>2 DEF Chunk, room
    <2>2. QED BY <1>1, <1>2, <2>1 DEF room
<1>3. CASE ~(Len(job.rest) <= room)
    <2>1. Chunk = SubSeq(job.rest, 1, room)
        BY <1>3 DEF Chunk, room
    <2>2. 1 \in 1 .. Len(job.rest) + 1 /\ room \in 1 .. Len(job.rest)
        BY <1>1, <1>3
    <2>3. Len(Chunk) = room /\ \A k \in 1 .. room : Chunk[k] = job.rest[k]
        <3>1. /\ Len(SubSeq(job.rest, 1, room)) = room - 1 + 1
              /\ \A k \in 1 .. room - 1 + 1 : SubSeq(job.rest, 1, room)[k] = job.rest[1 + k - 1]
            BY <1>1, <2>2, SubSeqProperties
        <3>2. room - 1 + 1 = room /\ \A k \in 1 .. room : 1 + k - 1 = k
            BY <1>1
        <3>3. QED BY <2>1, <3>1, <3>2
    <2>4. QED BY <1>1, <1>3, <2>3 DEF room
<1>4. QED BY <1>2, <1>3

(* The sector of a byte of the target that lies below the position, ...    *)
LEMMA BelowPosition ==
    ASSUME IInv, PutInv, ctl = "put", NEW k \in Nat, k < Position,
           Target.start + (k \div SectorLen) = job.at
    PROVE  1 + (k % SectorLen) \in 1 .. job.off
<1>1. /\ k \div SectorLen \in Nat /\ k % SectorLen \in 0 .. SectorLen - 1
      /\ k = (k \div SectorLen) * SectorLen + (k % SectorLen)
    BY Split
<1> DEFINE q == k \div SectorLen
           r == k % SectorLen
<1> HIDE DEF q, r
<1>2. q \in Nat /\ r \in 0 .. SectorLen - 1 /\ k = q * SectorLen + r
    BY <1>1 DEF q, r
<1>3. q = job.at - Target.start
    <2>1. Target.start \in Nat /\ job.at \in Nat
        BY PositionFits
    <2>2. Target.start + q = job.at
        BY DEF q
    <2>3. QED BY <1>2, <2>1, <2>2
<1>4. (job.at - Target.start) * SectorLen + r < (job.at - Target.start) * SectorLen + job.off
    BY <1>2, <1>3, PositionFits
<1>5. (job.at - Target.start) * SectorLen \in Nat /\ job.off \in Nat /\ r \in Nat
    BY <1>2, PositionFits, Geometry
<1>6. r < job.off
    BY <1>4, <1>5
<1>7. 1 + r \in 1 .. job.off
    BY <1>5, <1>6
<1>8. QED BY <1>7 DEF r

(* ... and that byte stays when the sector is written.                     *)
LEMMA TargetBytesStay ==
    ASSUME IInv, PutInv, ctl = "put", NEW k \in Nat, k < Position,
           NEW d, d = dData \/ d = [dData EXCEPT ![job.at] = Filled]
    PROVE  ByteAt(Target, d, k) = ByteAt(Target, dData, k)
<1> DEFINE b == Target.start + (k \div SectorLen)
           o == 1 + (k % SectorLen)
<1> HIDE DEF b, o
<1>1. ByteAt(Target, d, k) = d[b][o] /\ ByteAt(Target, dData, k) = dData[b][o]
    BY DEF ByteAt, b, o
<1>2. dData \in [DataSectors -> Sector]
    BY DEF IInv, TypeOK
<1>3. CASE d = dData
    BY <1>3
<1>4. CASE d = [dData EXCEPT ![job.at] = Filled] /\ b # job.at
    <2>1. d[b] = dData[b]
        BY <1>2, <1>4
    <2>2. QED BY <1>1, <2>1
<1>5. CASE d = [dData EXCEPT ![job.at] = Filled] /\ b = job.at
    <2>1. o \in 1 .. job.off
        BY <1>5, BelowPosition DEF b, o
    <2>2. d[b] = Filled
        BY <1>2, <1>5, PositionFits
    <2>3. o \in 1 .. SectorLen /\ o \notin job.off + 1 .. job.off + Len(Chunk)
        BY <2>1, OffFits
    <2>4. Filled[o] = job.buf[o]
        BY <2>3 DEF Filled
    <2>5. job.buf[o] = dData[job.at][o]
        BY <2>1 DEF PutInv
    <2>6. QED BY <1>1, <1>5, <2>2, <2>4, <2>5
<1>6. QED BY <1>3, <1>4, <1>5

(* The bytes of the chunk are behind the position when it is written.      *)
LEMMA ChunkIsPut ==
    ASSUME IInv, PutInv, ctl = "put", NEW k \in 1 .. Len(Chunk),
           NEW d, d = [dData EXCEPT ![job.at] = Filled]
    PROVE  ByteAt(Target, d, Position + k - 1) = Chunk[k]
<1> DEFINE a == job.at - Target.start
           o == job.off + k - 1
<1>1. /\ Len(Chunk) \in Nat /\ Len(Chunk) <= SectorLen - job.off /\ k \in Nat
      /\ 1 <= k /\ k <= Len(Chunk)
    BY ChunkBegins
<1>2. a \in Nat /\ o \in 0 .. SectorLen - 1
    <2>1. a \in Nat
        BY PositionFits
    <2>2. QED BY <1>1, <2>1, OffFits
<1>3. Position + k - 1 = a * SectorLen + o
    <2>1. Position = a * SectorLen + job.off /\ a * SectorLen \in Nat
        BY PositionFits
    <2>2. QED BY <1>1, <2>1, OffFits
<1>4. Target.start + a = job.at /\ 1 + o = job.off + k /\ (1 + o) - job.off = k
    <2>1. Target.start \in Nat /\ job.at \in Nat
        BY PositionFits
    <2>2. QED BY <1>1, <2>1, OffFits
<1>5. 1 + o \in job.off + 1 .. job.off + Len(Chunk) /\ 1 + o \in 1 .. SectorLen
    <2>1. job.off \in Nat /\ SectorLen \in Nat
        BY OffFits
    <2> DEFINE off == job.off
               n == Len(Chunk)
    <2>2. off \in Nat /\ n \in Nat /\ k \in Nat /\ 1 <= k /\ k <= n /\ 1 + o = off + k
        BY <1>1, <1>4, <2>1
    <2>3. o \in 0 .. SectorLen - 1
        BY <1>2
    <2> HIDE DEF off, n, o
    <2>4. 1 + o \in off + 1 .. off + n
        BY <2>2
    <2>5. 1 + o \in 1 .. SectorLen
        BY <2>1, <2>3
    <2>6. QED BY <2>4, <2>5 DEF off, n
<1> HIDE DEF a, o
<1>6. /\ (Position + k - 1) \div SectorLen = a /\ (Position + k - 1) % SectorLen = o
    BY <1>2, <1>3, Joined
<1>7. d[job.at] = Filled
    <2>1. dData \in [DataSectors -> Sector] /\ job.at \in DataSectors
        BY PositionFits DEF IInv, TypeOK
    <2>2. QED BY <2>1
<1>8. Filled[1 + o] = Chunk[k]
    BY <1>4, <1>5 DEF Filled
<1>9. QED BY <1>4, <1>6, <1>7, <1>8 DEF ByteAt

(* The bytes of a file that lies elsewhere, or of an earlier size of the   *)
(* target, stay.                                                           *)
LEMMA BytesStay ==
    ASSUME IInv, PutInv, ctl = "put", NEW e \in Entry, e.size <= e.cap * SectorLen,
           DataStart <= e.start, e.start + e.cap <= TotalSectors,
           Apart(e, Target) \/ (e.start = Target.start /\ e.size <= Target.size),
           NEW d, d = dData \/ d = [dData EXCEPT ![job.at] = Filled],
           NEW k \in 0 .. e.size - 1
    PROVE  ByteAt(e, d, k) = ByteAt(e, dData, k)
<1>1. e.start \in Nat /\ e.cap \in Nat /\ e.size \in Nat /\ k \in Nat /\ k < e.size
    BY DEF Entry
<1>2. CASE e.start = Target.start /\ e.size <= Target.size
    <2>1. k < Position
        <3>1. Position \in Nat /\ Target.size \in Nat /\ Target.size <= Position
            BY PositionFits
        <3>2. k < Target.size
            BY <1>1, <1>2, <3>1
        <3>3. QED BY <1>1, <3>1, <3>2
    <2>2. ByteAt(Target, d, k) = ByteAt(Target, dData, k)
        BY <1>1, <2>1, TargetBytesStay
    <2>3. ByteAt(e, d, k) = ByteAt(Target, d, k) /\ ByteAt(e, dData, k) = ByteAt(Target, dData, k)
        BY <1>2 DEF ByteAt
    <2>4. QED BY <2>2, <2>3
<1>3. CASE Apart(e, Target)
    <2>1. e.cap * SectorLen \in Nat /\ k < e.cap * SectorLen
        <3>1. SectorLen \in Nat
            BY Geometry
        <3>2. e.cap * SectorLen \in Nat
            BY <1>1, <3>1
        <3>3. QED BY <1>1, <3>2
    <2>2. k \div SectorLen \in Nat /\ k \div SectorLen < e.cap
        BY <1>1, <2>1, DivBound, Geometry
    <2> DEFINE q == k \div SectorLen
    <2> HIDE DEF q
    <2>3. q \in Nat /\ q < e.cap
        BY <2>2 DEF q
    <2>4. /\ Target.start \in Nat /\ Target.cap \in Nat /\ job.at \in Nat
          /\ Target.start <= job.at /\ job.at < Target.start + Target.cap
        <3> DEFINE t == Target.start
                   c == Target.cap
                   j == job.at
        <3>1. t \in Nat /\ c \in Nat /\ j \in Nat /\ j - t \in Nat /\ j - t < c
            BY PositionFits
        <3> HIDE DEF t, c, j
        <3>2. t <= j /\ j < t + c
            BY <3>1
        <3>3. QED BY <3>1, <3>2 DEF t, c, j
    <2>5. e.start + q # job.at
        BY <1>1, <1>3, <2>3, <2>4 DEF Apart
    <2>6. e.start + q \in DataSectors
        BY <1>1, <2>3, InExtent
    <2>7. d[e.start + q] = dData[e.start + q]
        <3>1. dData \in [DataSectors -> Sector]
            BY DEF IInv, TypeOK
        <3>2. QED BY <2>5, <2>6, <3>1
    <2>8. QED BY <2>7 DEF ByteAt, q
<1>4. QED BY <1>2, <1>3

(* Tables that do not change keep what is said of their slots.             *)
LEMMA SlotsKept ==
    ASSUME SlotInv, dTable' = dTable, cTable' = cTable, Mounted \/ ~Mounted'
    PROVE  SlotInv'
BY DEF SlotInv, Used, Apart, SameFile

(* A create takes an extent above all that the medium records.             *)
LEMMA WriteCreatesSlot ==
    ASSUME IInv, SlotInv, NEW n \in Names, NEW l \in Lines, WriteCreates(n, l)
    PROVE  SlotInv'
<1> DEFINE i == FsFreeSlot(cTable)
           e == [used |-> TRUE, name |-> n, size |-> 0,
                 start |-> cSuper.next, cap |-> ExtentSectors]
<1>1. /\ dTable' = dTable /\ cTable' = [cTable EXCEPT ![i] = e] /\ Mounted
    BY DEF WriteCreates, disk, Mounted
<1>2. i \in SlotIds /\ i \notin Used(cTable)
    BY Claim
<1>3. cTable \in [SlotIds -> Entry] /\ dTable \in [SlotIds -> Entry] /\ cSuper.next \in Nat
      /\ dSuper.next \in Nat
    BY DEF IInv, TypeOK, Super
<1>4. e.start = cSuper.next /\ e.cap = ExtentSectors
    OBVIOUS
<1> HIDE DEF i, e
<1>5. ASSUME NEW j \in Used(dTable) PROVE Apart(dTable[j], e)
    <2>1. dTable[j].start + dTable[j].cap <= dSuper.next /\ dSuper.next <= cSuper.next
        BY <1>1, <1>5 DEF IInv, DiskInv, CacheInv, Allocated
    <2>2. dTable[j].start \in Nat /\ dTable[j].cap \in Nat
        BY <1>3, <1>5 DEF Used, Entry
    <2>3. dTable[j].start + dTable[j].cap <= e.start
        BY <1>3, <1>4, <2>1, <2>2
    <2>4. QED BY <2>3 DEF Apart
<1>6. cTable'[i] = e /\ \A j \in SlotIds \ {i} : cTable'[j] = cTable[j]
    BY <1>1, <1>2, <1>3
<1>7. ASSUME NEW j \in Used(dTable) \cap Used(cTable')
      PROVE  Apart(dTable[j], cTable'[j]) \/ SameFile(dTable[j], cTable'[j])
    <2>1. CASE j = i
        BY <1>5, <1>6, <1>7, <2>1
    <2>2. CASE j # i
        <3>1. cTable'[j] = cTable[j] /\ j \in Used(cTable)
            BY <1>6, <1>7, <2>2 DEF Used
        <3>2. QED BY <1>1, <1>7, <3>1 DEF SlotInv
    <2>3. QED BY <2>1, <2>2
<1>8. QED BY <1>1, <1>7 DEF SlotInv, Used, Apart, SameFile

(* A file that grows stays the one in its slot.                            *)
LEMMA AppendPutSlot == IInv /\ SlotInv /\ AppendPut => SlotInv'
<1> SUFFICES ASSUME IInv, SlotInv, AppendPut PROVE SlotInv'
    OBVIOUS
<1>1. /\ ctl = "put" /\ Mounted /\ dTable' = dTable
      /\ cTable' = cTable \/ cTable' = [cTable EXCEPT ![job.slot].size = @ + Len(job.line)]
    BY DEF AppendPut, Mounted
<1>2. CASE cTable' = cTable
    BY <1>1, <1>2, SlotsKept
<1>3. CASE cTable' = [cTable EXCEPT ![job.slot].size = @ + Len(job.line)]
    <2>1. job.slot \in SlotIds /\ Target \in Entry /\ Len(job.line) \in Nat
        BY <1>1, TargetFits
    <2>2. cTable \in [SlotIds -> Entry] /\ dTable \in [SlotIds -> Entry]
        BY DEF IInv, TypeOK
    <2>3. cTable' = [cTable EXCEPT ![job.slot] = [Target EXCEPT !.size = @ + Len(job.line)]]
        BY <1>3, <2>1, <2>2 DEF Target
    <2> DEFINE grown == [Target EXCEPT !.size = @ + Len(job.line)]
    <2>4. /\ grown.start = Target.start /\ grown.cap = Target.cap /\ grown.name = Target.name
          /\ grown.used = Target.used
          /\ grown.size = Target.size + Len(job.line)
        BY <2>1 DEF Entry
    <2>5. cTable'[job.slot] = grown /\ \A j \in SlotIds \ {job.slot} : cTable'[j] = cTable[j]
        BY <2>1, <2>2, <2>3
    <2> HIDE DEF grown
    <2>6. ASSUME NEW j \in Used(dTable) \cap Used(cTable')
          PROVE  Apart(dTable[j], cTable'[j]) \/ SameFile(dTable[j], cTable'[j])
        <3>1. j \in Used(cTable) /\ j \in SlotIds
            BY <2>4, <2>5, <2>6 DEF Used, Target
        <3>2. Apart(dTable[j], cTable[j]) \/ SameFile(dTable[j], cTable[j])
            BY <1>1, <2>6, <3>1 DEF SlotInv
        <3>3. CASE j = job.slot
            <4>1. cTable[j] = Target /\ cTable'[j] = grown
                BY <2>5, <3>3 DEF Target
            <4>2. dTable[j].size \in Nat /\ Target.size \in Nat
                BY <2>1, <2>2, <3>1 DEF Entry
            <4>3. SameFile(dTable[j], Target) => SameFile(dTable[j], grown)
                BY <2>1, <2>4, <4>2 DEF SameFile
            <4>4. Apart(dTable[j], Target) => Apart(dTable[j], grown)
                BY <2>4 DEF Apart
            <4>5. QED BY <3>2, <4>1, <4>3, <4>4
        <3>4. CASE j # job.slot
            BY <2>5, <3>1, <3>2, <3>4
        <3>5. QED BY <3>3, <3>4
    <2>7. QED BY <1>1, <2>6 DEF SlotInv, Used, Apart, SameFile
<1>4. QED BY <1>1, <1>2, <1>3

(* Every step keeps the files of a slot the same, or apart.                *)
LEMMA SlotStep ==
    ASSUME IInv, SlotInv, [Next]_vars PROVE SlotInv'
<1>1. CASE Boot
    <2>1. cTable' = dTable /\ dTable' = dTable /\ dTable \in [SlotIds -> Entry]
        BY <1>1 DEF Boot, disk, IInv, TypeOK
    <2>2. \A i \in SlotIds : dTable[i].size <= dTable[i].size
        BY <2>1 DEF Entry
    <2>3. QED BY <2>1, <2>2 DEF SlotInv, SameFile, Used
<1>2. CASE BootFails \/ GuardRefuses \/ PowerCut
    BY <1>2 DEF BootFails, GuardRefuses, PowerCut, SlotInv, Mounted
<1>3. CASE UNCHANGED vars
    BY <1>3, SlotsKept DEF vars, disk, cache, Mounted
<1>4. CASE Command
    <2>1. PICK n \in Names : \/ WriteRefused(n) \/ RemoveMissing(n) \/ RemoveFound(n)
                             \/ \E l \in Lines : WriteCreates(n, l) \/ WriteFinds(n, l)
        BY <1>4 DEF Command
    <2>2. CASE \E l \in Lines : WriteCreates(n, l)
        BY <2>2, WriteCreatesSlot
    <2>3. CASE WriteRefused(n) \/ RemoveMissing(n) \/ \E l \in Lines : WriteFinds(n, l)
        BY <2>3, SlotsKept DEF WriteRefused, RemoveMissing, WriteFinds, disk, cache, Mounted
    <2>4. CASE RemoveFound(n)
        <3>1. /\ Mounted /\ dTable' = dTable
              /\ cTable' = [cTable EXCEPT ![FsFind(cTable, n)].used = FALSE]
              /\ FsFind(cTable, n) \in SlotIds
            BY <2>4, FindFits DEF RemoveFound, disk, Mounted
        <3>2. cTable \in [SlotIds -> Entry]
            BY DEF IInv, TypeOK
        <3>3. cTable' = [cTable EXCEPT ![FsFind(cTable, n)] =
                            [cTable[FsFind(cTable, n)] EXCEPT !.used = FALSE]]
            BY <3>1, <3>2
        <3>4. ~[cTable[FsFind(cTable, n)] EXCEPT !.used = FALSE].used
            BY <3>1, <3>2 DEF Entry
        <3>5. \A j \in Used(cTable') : j \in Used(cTable) /\ cTable'[j] = cTable[j]
            BY <3>1, <3>2, <3>3, <3>4 DEF Used
        <3>6. \A j \in Used(dTable) \cap Used(cTable') :
                  Apart(dTable[j], cTable'[j]) \/ SameFile(dTable[j], cTable'[j])
            BY <3>1, <3>5 DEF SlotInv
        <3>7. QED BY <3>1, <3>6 DEF SlotInv, Used, Apart, SameFile
    <2>5. QED BY <2>1, <2>2, <2>3, <2>4
<1>5. CASE AppendTooLong \/ AppendFetch \/ AppendFetchFails
    BY <1>5, SlotsKept DEF AppendTooLong, AppendFetch, AppendFetchFails, disk, cache, Mounted
<1>6. CASE AppendPut
    BY <1>6, AppendPutSlot
<1>7. CASE SyncSector
    <2>1. cTable' = cTable /\ Mounted /\ dTable \in [SlotIds -> Entry]
          /\ cTable \in [SlotIds -> Entry]
        BY <1>7 DEF SyncSector, cache, Mounted, IInv, TypeOK
    <2>2. \A i \in SlotIds : dTable'[i] \in {dTable[i], cTable[i]}
        BY <1>7, <2>1 DEF SyncSector
    <2>3. \A i \in SlotIds : SameFile(cTable[i], cTable[i])
        BY <2>1 DEF Entry, SameFile
    <2>4. \A i \in Used(dTable') \cap Used(cTable) :
              Apart(dTable'[i], cTable[i]) \/ SameFile(dTable'[i], cTable[i])
        BY <2>1, <2>2, <2>3 DEF SlotInv, Used
    <2>5. QED BY <2>1, <2>4 DEF SlotInv, Used, Apart, SameFile
<1>8. QED BY <1>1, <1>2, <1>3, <1>4, <1>5, <1>6, <1>7 DEF Next, Handler

(* Fetching the last sector of a file starts the byte loop at its end.     *)
LEMMA AppendFetchPut ==
    ASSUME IInv, AppendFetch PROVE PutInv'
<1> DEFINE at == Target.start + (Target.size \div SectorLen)
           off == Target.size % SectorLen
           filler == IF off # 0 THEN dData[at] ELSE BlankSector
<1>1. /\ cTable' = cTable /\ dData' = dData /\ ctl = "fetch" /\ ~NoRoom
      /\ job' = [job EXCEPT !.kind = "append", !.at = at, !.off = off,
                            !.rest = job.line, !.buf = filler]
      /\ job \in JobType
    BY FetchedIsAsked DEF AppendFetch, cache, disk, IInv, TypeOK
<1>2. /\ Target.start \in Nat /\ Target.size \in Nat
      /\ job.line \in Seq(Bytes) /\ Len(job.line) \in Nat /\ Len(job.line) > 0
    BY <1>1, TargetFits DEF Entry
<1>3. /\ Target.size \div SectorLen \in Nat /\ off \in 0 .. SectorLen - 1
      /\ Target.size = (Target.size \div SectorLen) * SectorLen + off
    BY <1>2, Split
<1>4. at - Target.start = Target.size \div SectorLen /\ at >= Target.start
    BY <1>2, <1>3
<1>5. off # 0 => filler = dData[at]
    OBVIOUS
<1> HIDE DEF at, off, filler
<1>6. /\ job'.at = at /\ job'.off = off /\ job'.rest = job.line /\ job'.buf = filler
      /\ job'.slot = job.slot /\ job'.line = job.line
    BY <1>1 DEF JobType
<1>7. Target' = Target
    BY <1>1, <1>6 DEF Target
<1>8. Position' = Target.size
    BY <1>3, <1>4, <1>6, <1>7 DEF Position
<1>9. \A k \in 1 .. job'.off : job'.buf[k] = dData'[job'.at][k]
    <2>1. CASE off = 0
        BY <1>6, <2>1
    <2>2. CASE off # 0
        BY <1>1, <1>5, <1>6, <2>2
    <2>3. QED BY <2>1, <2>2
<1>10. /\ Len(job'.rest) \in 1 .. Len(job'.line)
       /\ Position' + Len(job'.rest) = Target'.size + Len(job'.line)
       /\ \A k \in 1 .. Len(job'.rest) :
              job'.rest[k] = job'.line[Len(job'.line) - Len(job'.rest) + k]
    BY <1>2, <1>6, <1>7, <1>8
<1>11. \A k \in Target'.size .. Position' - 1 :
           ByteAt(Target', dData', k) = job'.line[k - Target'.size + 1]
    BY <1>2, <1>7, <1>8
<1>12. QED BY <1>4, <1>6, <1>7, <1>9, <1>10, <1>11 DEF PutInv, ByteAt

(* A sector on: the line is on the medium as far as the new position.      *)
LEMMA AppendPutGoesOn ==
    ASSUME "silent" \notin WriteFaults, IInv, PutInv, AppendPut, ctl' = "put"
    PROVE  PutInv'
<1>1. ctl = "put" /\ job \in JobType
    BY DEF AppendPut, IInv, TypeOK
<1>2. /\ cTable' = cTable
      /\ dData' = [dData EXCEPT ![job.at] = Filled]
      /\ Len(Chunk) < Len(job.rest)
      /\ job' = [job EXCEPT !.at = @ + 1, !.off = 0, !.buf = BlankSector,
                    !.rest = SubSeq(@, Len(Chunk) + 1, Len(@))]
    <2>1. PICK o \in Outcomes :
              /\ Count(o)
              /\ dData' = IF Stored(o) THEN [dData EXCEPT ![job.at] = Filled] ELSE dData
              /\ Reported(o) /\ Len(Chunk) < Len(job.rest)
              /\ job' = [job EXCEPT !.at = @ + 1, !.off = 0, !.buf = BlankSector,
                            !.rest = SubSeq(@, Len(Chunk) + 1, Len(@))]
              /\ cTable' = cTable
        BY DEF AppendPut, Ends, StartSync
    <2>2. Stored(o)
        BY <2>1 DEF Outcomes, Reported, Stored, IInv, NothingOwed
    <2>3. QED BY <2>1, <2>2
<1> DEFINE c == Len(Chunk)
           n == Len(job.rest)
           m == Len(job.line)
           rest == SubSeq(job.rest, c + 1, n)
<1>3. /\ job.at - Target.start \in Nat /\ (job.at - Target.start) * SectorLen \in Nat
      /\ Position = (job.at - Target.start) * SectorLen + job.off
      /\ c = SectorLen - job.off
    BY <1>1, <1>2, ChunkBegins, PositionFits
<1>4. c \in Nat /\ c > 0 /\ c < n
    BY <1>1, <1>2, ChunkBegins
<1>5. /\ n \in Nat /\ m \in Nat /\ n <= m
      /\ job.at \in Nat /\ Target.start \in Nat /\ Target.size \in Nat /\ Position \in Nat
      /\ Position + n = Target.size + m /\ Target.size <= Position
    BY <1>1, PositionFits
<1>6. /\ job'.at = job.at + 1 /\ job'.off = 0 /\ job'.rest = rest
      /\ job'.slot = job.slot /\ job'.line = job.line
    BY <1>1, <1>2 DEF JobType
<1>7. /\ Len(rest) = n - c
      /\ \A k \in 1 .. n - c : rest[k] = job.rest[c + k]
    <2>1. job.rest \in Seq(Bytes)
        BY <1>1, PositionFits
    <2> HIDE DEF c
    <2>2. c + 1 \in 1 .. n + 1 /\ n \in c + 1 - 1 .. n /\ n - (c + 1) + 1 = n - c
        <3> HIDE DEF n
        <3>1. QED BY <1>4, <1>5
    <2>3. /\ Len(rest) = n - (c + 1) + 1
          /\ \A k \in 1 .. n - (c + 1) + 1 : rest[k] = job.rest[c + 1 + k - 1]
        BY <2>1, <2>2, SubSeqProperties
    <2>4. ASSUME NEW k \in 1 .. n - c PROVE rest[k] = job.rest[c + k]
        <3>1. c + 1 + k - 1 = c + k
            BY <1>4, <1>5
        <3>2. QED BY <2>2, <2>3, <3>1
    <2>5. QED BY <2>2, <2>3, <2>4
<1> HIDE DEF rest, c, n, m
<1>8. Target' = Target
    BY <1>2, <1>6 DEF Target
<1>9. Position' = Position + c
    <2> DEFINE a == job.at - Target.start
    <2>1. (job.at + 1) - Target.start = a + 1 /\ a \in Nat
        BY <1>3, <1>5
    <2>2. Position' = (a + 1) * SectorLen
        <3>1. Position' = ((job.at + 1) - Target.start) * SectorLen + 0
            BY <1>6, <1>8 DEF Position
        <3> HIDE DEF a
        <3>2. (a + 1) * SectorLen \in Nat
            BY <1>1, <2>1, OffFits
        <3>3. QED BY <2>1, <3>1, <3>2
    <2>3. Position = a * SectorLen + job.off /\ a * SectorLen \in Nat
        BY <1>3
    <2> HIDE DEF a
    <2>4. (a + 1) * SectorLen = a * SectorLen + SectorLen
        BY <1>1, <2>1, OffFits
    <2>5. QED BY <1>3, <1>1, <1>4, <2>2, <2>3, <2>4, OffFits
<1>10. Position' + Len(job'.rest) = Target'.size + Len(job'.line)
    BY <1>4, <1>5, <1>6, <1>7, <1>8, <1>9 DEF m
<1>11. Len(job'.rest) \in 1 .. Len(job'.line)
    BY <1>4, <1>5, <1>6, <1>7 DEF m
<1>12. ASSUME NEW k \in 1 .. Len(job'.rest)
       PROVE  job'.rest[k] = job'.line[Len(job'.line) - Len(job'.rest) + k]
    <2>1. k \in 1 .. n - c /\ c + k \in 1 .. n
        BY <1>4, <1>5, <1>6, <1>7, <1>12
    <2>2. rest[k] = job.rest[c + k]
        BY <1>7, <2>1
    <2>3. job.rest[c + k] = job.line[m - n + (c + k)]
        BY <1>1, <2>1 DEF PutInv, m, n
    <2>4. m - n + (c + k) = m - (n - c) + k
        BY <1>4, <1>5, <2>1
    <2>5. QED BY <1>6, <1>7, <2>2, <2>3, <2>4 DEF m
<1>13. ASSUME NEW k \in Target'.size .. Position' - 1
       PROVE  ByteAt(Target', dData', k) = job'.line[k - Target'.size + 1]
    <2>1. k \in Nat /\ Target.size <= k /\ k < Position + c
        BY <1>4, <1>5, <1>8, <1>9, <1>13
    <2>2. CASE k < Position
        <3>1. ByteAt(Target, dData', k) = ByteAt(Target, dData, k)
            BY <1>1, <1>2, <2>1, <2>2, TargetBytesStay
        <3>2. k \in Target.size .. Position - 1
            BY <1>5, <2>1, <2>2
        <3>3. ByteAt(Target, dData, k) = job.line[k - Target.size + 1]
            BY <1>1, <3>2 DEF PutInv
        <3>4. QED BY <1>6, <1>8, <3>1, <3>3
    <2>3. CASE ~(k < Position)
        <3> DEFINE q == k - Position + 1
        <3>1. q \in 1 .. c /\ Position + q - 1 = k
            BY <1>4, <1>5, <2>1, <2>3
        <3> HIDE DEF q
        <3>2. ByteAt(Target, dData', k) = Chunk[q]
            BY <1>1, <1>2, <3>1, ChunkIsPut DEF c
        <3>3. Chunk[q] = job.rest[q] /\ q \in 1 .. n
            <4>1. q \in 1 .. n
                BY <1>4, <1>5, <3>1
            <4>2. QED BY <1>1, <3>1, <4>1, ChunkBegins DEF c
        <3>4. job.rest[q] = job.line[m - n + q]
            BY <1>1, <3>3 DEF PutInv, m, n
        <3>5. m - n + q = k - Target.size + 1
            BY <1>4, <1>5, <3>1
        <3>6. QED BY <1>6, <1>8, <3>2, <3>3, <3>4, <3>5
    <2>4. QED BY <2>2, <2>3
<1>14. job'.at >= Target'.start
    BY <1>3, <1>5, <1>6, <1>8
<1>15. \A k \in 1 .. job'.off : job'.buf[k] = dData'[job'.at][k]
    BY <1>6
<1>16. QED BY <1>10, <1>11, <1>12, <1>13, <1>14, <1>15 DEF PutInv, ByteAt

(* Every step keeps the byte loop in step with the medium.                 *)
LEMMA PutStep ==
    ASSUME "silent" \notin WriteFaults, IInv, PutInv, [Next]_vars PROVE PutInv'
<1>1. CASE UNCHANGED vars
    BY <1>1 DEF vars, disk, cache, PutInv, Position, Target, ByteAt
<1>2. CASE AppendFetch
    BY <1>2, AppendFetchPut
<1>3. CASE AppendPut
    BY <1>3, AppendPutGoesOn DEF PutInv
<1>4. CASE Boot \/ BootFails \/ GuardRefuses \/ PowerCut
    BY <1>4 DEF Boot, BootFails, GuardRefuses, PowerCut, PutInv
<1>5. CASE Command
    BY <1>5 DEF Command, WriteRefused, RemoveMissing, RemoveFound, WriteCreates, WriteFinds,
                Ends, StartSync, PutInv
<1>6. CASE AppendTooLong \/ AppendFetchFails
    BY <1>6 DEF AppendTooLong, AppendFetchFails, Ends, PutInv
<1>7. CASE SyncSector
    BY <1>7 DEF SyncSector, AfterSync, Ends, PutInv
<1>8. QED BY <1>1, <1>2, <1>3, <1>4, <1>5, <1>6, <1>7 DEF Next, Handler

SavedInv == SlotInv /\ PutInv

(* The bytes the medium records hold through every step.                   *)
LEMMA SavedStep ==
    ASSUME IInv, SavedInv, [Next]_vars, NEW i \in Used(dTable),
           NEW k \in 0 .. dTable[i].size - 1
    PROVE  ByteAt(dTable[i], dData', k) = ByteAt(dTable[i], dData, k)
<1>1. CASE dData' = dData
    BY <1>1 DEF ByteAt
<1>2. CASE AppendPut
    <2>1. /\ ctl = "put" /\ (dData' = dData \/ dData' = [dData EXCEPT ![job.at] = Filled])
        BY <1>2 DEF AppendPut
    <2>2. /\ i \in SlotIds /\ dTable[i] \in Entry
          /\ DataStart <= dTable[i].start
          /\ dTable[i].start + dTable[i].cap <= dSuper.next
          /\ dTable[i].size <= dTable[i].cap * SectorLen
          /\ dSuper.next \in DataStart .. TotalSectors
        BY DEF IInv, TypeOK, DiskInv, Allocated, Used
    <2>3. dTable[i].start + dTable[i].cap <= TotalSectors
        <3> DEFINE x == dTable[i].start + dTable[i].cap
                   y == dSuper.next
        <3>1. x \in Nat
            BY <2>2 DEF Entry
        <3>2. y \in Nat /\ TotalSectors \in Nat /\ y <= TotalSectors /\ x <= y
            BY <2>2, Geometry
        <3> HIDE DEF x, y
        <3>3. x <= TotalSectors
            BY <3>1, <3>2
        <3>4. QED BY <3>3 DEF x
    <2>4. job.slot \in Used(cTable)
        BY <2>1, TargetFits
    <2>5. \/ Apart(dTable[i], Target)
          \/ dTable[i].start = Target.start /\ dTable[i].size <= Target.size
        <3>1. CASE i = job.slot
            BY <2>1, <2>4, <3>1 DEF SavedInv, SlotInv, Mounted, SameFile, Target
        <3>2. CASE i # job.slot
            BY <2>1, <2>4, <3>2 DEF IInv, CacheInv, Mounted, Target
        <3>3. QED BY <3>1, <3>2
    <2>6. QED BY <2>1, <2>2, <2>3, <2>5, BytesStay DEF SavedInv
<1>3. AppendPut \/ dData' = dData
    <2>1. CASE Handler
        BY <2>1 DEF Handler, AppendTooLong, AppendFetch, AppendFetchFails, SyncSector, disk
    <2>2. CASE Command
        BY <2>2 DEF Command, WriteRefused, RemoveMissing, RemoveFound,
                    WriteCreates, WriteFinds, disk
    <2>3. CASE Boot \/ BootFails \/ GuardRefuses \/ PowerCut \/ UNCHANGED vars
        BY <2>3 DEF Boot, BootFails, GuardRefuses, PowerCut, vars, disk
    <2>4. QED BY <2>1, <2>2, <2>3 DEF Next
<1>4. QED BY <1>1, <1>2, <1>3

(* The files of a slot, and the byte loop, in every reachable state of a   *)
(* drive whose reads return the sector asked for or fail: the byte loop of *)
(* fs_append_line starts from what the medium holds.                       *)
THEOREM AppendsInStep ==
    ASSUME "silent" \notin WriteFaults, "abandoned" \notin ReadFaults
    PROVE  Spec => []SavedInv
<1>1. Init => SavedInv
    BY DEF Init, SavedInv, SlotInv, PutInv, Mounted
<1>2. IInv /\ SavedInv /\ [Next]_vars => SavedInv'
    BY SlotStep, PutStep DEF SavedInv
<1>3. Spec => []IInv
    BY Invariant
<1>4. QED BY <1>1, <1>2, <1>3, PTL DEF Spec

(* No step of an append, a removal, a sync or a power cut changes a byte   *)
(* of a file the medium records, whichever sector writes are refused or    *)
(* late and whichever reads are refused: appending in place and re-using   *)
(* slots are safe (fs_append_line, fs_create) on a drive that answers      *)
(* every command in time.  After a read abandoned in its wait for DRQ they *)
(* are not (MortFS_late.cfg): hence the hypothesis on ReadFaults.          *)
THEOREM SavedBytesAreKept ==
    ASSUME "silent" \notin WriteFaults, "abandoned" \notin ReadFaults
    PROVE  Spec => SavedBytesStay
<1>1. IInv /\ SavedInv /\ [Next]_vars =>
          \A i \in Used(dTable) : \A k \in 0 .. dTable[i].size - 1 :
              ByteAt(dTable[i], dData', k) = ByteAt(dTable[i], dData, k)
    BY SavedStep
<1>2. Spec => []IInv /\ []SavedInv
    BY Invariant, AppendsInStep
<1>3. QED BY <1>1, <1>2, PTL DEF Spec, SavedBytesStay

-----------------------------------------------------------------------------
(* A name belongs to one file, and the medium is at most one entry behind, *)
(* where no sector write is refused or the table is a single sector.       *)

Whole == TableSectors = 1 \/ WriteFaults = {}

OwnNames(t) ==
    \A i \in Used(t) : /\ t[i].name \in Names
                       /\ \A j \in Used(t) : i # j => t[i].name # t[j].name

(* Where writes are never refused a command finds the medium up to date    *)
(* and changes one entry.                                                  *)
OneBehind ==
    WriteFaults = {} /\ Mounted =>
        /\ \E s \in SlotIds : \A i \in SlotIds \ {s} : dTable[i] = cTable[i]
        /\ ctl # "sync" => dTable = cTable

NamesInv == OwnNames(dTable) /\ (Mounted => OwnNames(cTable)) /\ OneBehind

(* fs_find finds a name that is there, ...                                 *)
LEMMA FindAll ==
    ASSUME NEW t, NEW n, NEW i \in Used(t), t[i].name = n
    PROVE  FsFind(t, n) \in Used(t) /\ t[FsFind(t, n)].name = n /\ FsFind(t, n) # NoSlot
<1> DEFINE S == {j \in Used(t) : t[j].name = n}
<1>1. S \subseteq SlotIds /\ S # {} /\ S \subseteq Nat
    BY Geometry DEF Used
<1>2. \E m \in S : \A k \in S : m <= k
    BY <1>1, LeastNatural
<1>3. (CHOOSE j \in S : \A k \in S : j <= k) \in S
    BY <1>2
<1>4. FsFind(t, n) \in S
    BY <1>1, <1>3 DEF FsFind, FirstSlot
<1>5. FsFind(t, n) # NoSlot
    BY <1>1, <1>4, Geometry
<1>6. QED BY <1>4, <1>5

(* ... and where names are unique it finds the file of that name.          *)
LEMMA FindOwn ==
    ASSUME NEW t, OwnNames(t), NEW i \in Used(t)
    PROVE  FsFind(t, t[i].name) = i /\ FsFind(t, t[i].name) # NoSlot
BY FindAll DEF OwnNames

(* It returns the sentinel exactly when the name is not there.             *)
LEMMA FindNone ==
    ASSUME NEW t, NEW n, FsFind(t, n) = NoSlot
    PROVE  \A i \in Used(t) : t[i].name # n
BY FindAll

(* The file it returns has the name that was asked for.                    *)
LEMMA FindNamed ==
    ASSUME NEW t, NEW n, FsFind(t, n) # NoSlot
    PROVE  FsFind(t, n) \in Used(t) /\ FsFind(t, n) \in SlotIds /\ t[FsFind(t, n)].name = n
<1>1. FsFind(t, n) \in {j \in Used(t) : t[j].name = n}
    BY FirstSlotFits DEF FsFind, Used
<1>2. QED BY <1>1 DEF Used

(* The tables have entries.                                                *)
LEMMA SomeSlot == 0 \in SlotIds
<1>1. ASSUME NEW e \in Nat \ {0}, NEW t \in Nat \ {0} PROVE e * t > 0
    OBVIOUS
<1>2. QED BY <1>1, Geometry DEF Slots

(* A table sector saved brings the medium's table to the cached one, or    *)
(* not at all.                                                             *)
LEMMA SyncWhole ==
    ASSUME Whole, IInv, NamesInv, SyncSector
    PROVE  dTable' = dTable \/ dTable' = cTable
<1>1. PICK o : dTable' = [i \in SlotIds |-> IF Stored(o) /\ SectorOf(i) = job.next
                                            THEN cTable[i] ELSE dTable[i]]
    BY DEF SyncSector
<1>2. dTable \in [SlotIds -> Entry] /\ cTable \in [SlotIds -> Entry] /\ Mounted
    BY DEF IInv, TypeOK, SyncSector, Mounted
<1>3. CASE TableSectors = 1
    <2>1. \A i \in SlotIds : SectorOf(i) = 1
        BY <1>3, SectorRange
    <2>2. CASE Stored(o) /\ job.next = 1
        <3>1. dTable' = [i \in SlotIds |-> cTable[i]]
            BY <1>1, <2>1, <2>2
        <3>2. QED BY <1>2, <3>1
    <2>3. CASE ~(Stored(o) /\ job.next = 1)
        <3>1. dTable' = [i \in SlotIds |-> dTable[i]]
            BY <1>1, <2>1, <2>3
        <3>2. QED BY <1>2, <3>1
    <2>4. QED BY <2>2, <2>3
<1>4. CASE WriteFaults = {}
    <2>1. PICK s \in SlotIds : \A i \in SlotIds \ {s} : dTable[i] = cTable[i]
        BY <1>2, <1>4 DEF NamesInv, OneBehind
    <2>2. CASE Stored(o) /\ SectorOf(s) = job.next
        <3>1. \A i \in SlotIds : dTable'[i] = cTable[i]
            BY <1>1, <2>1, <2>2
        <3>2. QED BY <1>1, <1>2, <3>1
    <2>3. CASE ~(Stored(o) /\ SectorOf(s) = job.next)
        <3>1. \A i \in SlotIds : dTable'[i] = dTable[i]
            BY <1>1, <2>1, <2>3
        <3>2. QED BY <1>1, <1>2, <3>1
    <2>4. QED BY <2>2, <2>3
<1>5. QED BY <1>3, <1>4 DEF Whole

(* When fs_sync returns on a drive that refuses nothing, the medium is up  *)
(* to date.                                                                *)
LEMMA SyncEnds ==
    ASSUME WriteFaults = {}, IInv, AckInv, SyncSector, ctl' # "sync"
    PROVE  dTable' = cTable
<1>1. PICK o \in Outcomes :
          /\ dTable' = [i \in SlotIds |-> IF Stored(o) /\ SectorOf(i) = job.next
                                          THEN cTable[i] ELSE dTable[i]]
          /\ ~Reported(o) \/ job.next = TableSectors
    BY DEF SyncSector
<1>2. o = "ok"
    BY DEF Outcomes, IInv, NothingOwed
<1>3. Stored(o) /\ Reported(o) /\ job.next = TableSectors
    BY <1>1, <1>2 DEF Stored, Reported
<1>4. dTable \in [SlotIds -> Entry] /\ cTable \in [SlotIds -> Entry] /\ ctl = "sync"
    BY DEF IInv, TypeOK, SyncSector
<1>5. ASSUME NEW i \in SlotIds PROVE dTable'[i] = cTable[i]
    <2>1. CASE SectorOf(i) = job.next
        BY <1>1, <1>3, <2>1
    <2>2. CASE SectorOf(i) # job.next
        <3>1. SectorOf(i) < job.next
            BY <1>3, <2>2, SectorRange, Geometry
        <3>2. QED BY <1>1, <1>4, <2>2, <3>1 DEF AckInv
    <2>3. QED BY <2>1, <2>2
<1>6. QED BY <1>1, <1>4, <1>5

(* mkfs.py refuses two files of one name.                                  *)
LEMMA ImageNames ==
    ASSUME NEW s \in Seeds, SeedAccepted(s), MkfsImage(s) PROVE OwnNames(dTable)
<1>1. Len(s) \in Nat
    BY SeedFiles, Geometry
<1>2. ASSUME NEW i \in Used(dTable)
      PROVE  i + 1 \in 1 .. Len(s) /\ dTable[i].name = s[i + 1].name /\ i \in Nat
    <2>1. i \in SlotIds /\ i \in Nat /\ dTable[i] = MkfsEntry(s, i) /\ dTable[i].used
        BY <1>2, Geometry DEF Used, MkfsImage
    <2>2. CASE i < Len(s)
        BY <1>1, <2>1, <2>2 DEF MkfsEntry
    <2>3. CASE ~(i < Len(s))
        BY <2>1, <2>3 DEF MkfsEntry, FreeEntry
    <2>4. QED BY <2>2, <2>3
<1>3. ASSUME NEW i \in Used(dTable), NEW j \in Used(dTable), i # j
      PROVE  dTable[i].name # dTable[j].name
    <2>1. i + 1 # j + 1 /\ i + 1 \in 1 .. Len(s) /\ j + 1 \in 1 .. Len(s)
        BY <1>2, <1>3
    <2>2. s[i + 1].name # s[j + 1].name
        BY <2>1 DEF SeedAccepted
    <2>3. QED BY <1>2, <2>2
<1>4. ASSUME NEW i \in Used(dTable) PROVE dTable[i].name \in Names
    BY <1>2, <1>4, SeedFiles
<1>5. QED BY <1>3, <1>4 DEF OwnNames

(* Steps that leave the tables alone.                                      *)
LEMMA NamesKept ==
    ASSUME NamesInv, dTable' = dTable, cTable' = cTable, Mounted' => Mounted,
           ctl' # "sync" => ctl # "sync"
    PROVE  NamesInv'
BY DEF NamesInv, OneBehind, OwnNames, Used

(* A command changes one entry of a table that the medium agrees with.     *)
LEMMA OneChanges ==
    ASSUME NamesInv, Mounted, ctl # "sync", ctl' = "sync", dTable' = dTable,
           NEW s \in SlotIds, \A i \in SlotIds \ {s} : cTable'[i] = cTable[i],
           s \in Used(cTable') =>
               /\ cTable'[s].name \in Names
               /\ \A j \in Used(cTable) \ {s} : cTable[j].name # cTable'[s].name
    PROVE  NamesInv'
<1>1. \A i \in Used(cTable') : i # s => i \in Used(cTable) /\ cTable'[i] = cTable[i]
    BY DEF Used
<1>2. ASSUME NEW i \in Used(cTable'), NEW j \in Used(cTable'), i # j
      PROVE  cTable'[i].name # cTable'[j].name
    <2>1. CASE i = s
        BY <1>1, <1>2, <2>1
    <2>2. CASE j = s
        BY <1>1, <1>2, <2>2
    <2>3. CASE i # s /\ j # s
        BY <1>1, <1>2, <2>3 DEF NamesInv, OwnNames
    <2>4. QED BY <2>1, <2>2, <2>3
<1>3. ASSUME NEW i \in Used(cTable') PROVE cTable'[i].name \in Names
    BY <1>1, <1>3 DEF NamesInv, OwnNames
<1>4. OwnNames(cTable') /\ OwnNames(dTable')
    BY <1>2, <1>3 DEF NamesInv, OwnNames
<1>5. OneBehind'
    BY DEF NamesInv, OneBehind
<1>6. QED BY <1>4, <1>5 DEF NamesInv, OwnNames, Used

(* The entry a command changes: created, grown or removed.                 *)
LEMMA NamesOfCommand ==
    ASSUME IInv, NamesInv, Command \/ AppendPut PROVE NamesInv'
<1>1. cTable \in [SlotIds -> Entry]
    BY DEF IInv, TypeOK
<1>2. CASE Command
    <2>1. PICK n \in Names : \/ WriteRefused(n) \/ RemoveMissing(n) \/ RemoveFound(n)
                             \/ \E l \in Lines : WriteCreates(n, l) \/ WriteFinds(n, l)
        BY <1>2 DEF Command
    <2>2. CASE WriteRefused(n) \/ RemoveMissing(n) \/ \E l \in Lines : WriteFinds(n, l)
        BY <2>2, NamesKept DEF WriteRefused, RemoveMissing, WriteFinds, Ends, disk, cache,
                               Mounted
    <2>3. ASSUME NEW l \in Lines, WriteCreates(n, l) PROVE NamesInv'
        <3> DEFINE i == FsFreeSlot(cTable)
        <3>1. i \in SlotIds /\ i \notin Used(cTable)
            BY <2>3, Claim
        <3>2. /\ ctl = "idle" /\ Mounted /\ ctl' = "sync" /\ dTable' = dTable
              /\ FsFind(cTable, n) = NoSlot
              /\ cTable' = [cTable EXCEPT ![i] =
                               [used |-> TRUE, name |-> n, size |-> 0,
                                start |-> cSuper.next, cap |-> ExtentSectors]]
            BY <2>3 DEF WriteCreates, StartSync, disk, Mounted
        <3> HIDE DEF i
        <3>3. cTable'[i].name = n /\ \A j \in SlotIds \ {i} : cTable'[j] = cTable[j]
            BY <1>1, <3>1, <3>2
        <3>4. \A j \in Used(cTable) : cTable[j].name # n
            BY <3>2, FindNone
        <3>5. QED BY <2>1, <3>1, <3>2, <3>3, <3>4, OneChanges
    <2>4. CASE RemoveFound(n)
        <3> DEFINE i == FsFind(cTable, n)
        <3>1. /\ ctl = "idle" /\ Mounted /\ ctl' = "sync" /\ dTable' = dTable
              /\ i \in SlotIds
              /\ cTable' = [cTable EXCEPT ![i].used = FALSE]
            BY <2>4, FindFits DEF RemoveFound, StartSync, disk, Mounted
        <3> HIDE DEF i
        <3>2. \A j \in SlotIds \ {i} : cTable'[j] = cTable[j]
            BY <1>1, <3>1
        <3>3. cTable'[i] = [cTable[i] EXCEPT !.used = FALSE] /\ cTable[i] \in Entry
            BY <1>1, <3>1
        <3>4. ~cTable'[i].used
            BY <3>3 DEF Entry
        <3>5. QED BY <3>1, <3>2, <3>4, OneChanges DEF Used
    <2>5. QED BY <2>1, <2>2, <2>3, <2>4
<1>3. CASE AppendPut
    <2>1. /\ ctl = "put" /\ Mounted /\ dTable' = dTable /\ job.slot \in Used(cTable)
          /\ \/ cTable' = cTable /\ ctl' # "sync"
             \/ ctl' = "sync" /\ cTable' = [cTable EXCEPT ![job.slot].size = @ + Len(job.line)]
        BY <1>3, TargetFits DEF AppendPut, Ends, StartSync, Mounted
    <2>2. CASE cTable' = cTable /\ ctl' # "sync"
        BY <2>1, <2>2, NamesKept
    <2>3. CASE /\ ctl' = "sync"
               /\ cTable' = [cTable EXCEPT ![job.slot].size = @ + Len(job.line)]
        <3>1. job.slot \in SlotIds /\ \A j \in SlotIds \ {job.slot} : cTable'[j] = cTable[j]
            BY <1>1, <2>1, <2>3 DEF Used
        <3>2. cTable[job.slot] \in Entry
            BY <1>1, <3>1
        <3>3. cTable'[job.slot].name = cTable[job.slot].name
            BY <1>1, <2>3, <3>1, <3>2 DEF Entry
        <3>4. \A j \in Used(cTable) \ {job.slot} : cTable[j].name # cTable'[job.slot].name
            BY <2>1, <3>3 DEF NamesInv, OwnNames
        <3>5. cTable'[job.slot].name \in Names
            BY <2>1, <3>3 DEF NamesInv, OwnNames
        <3>6. QED BY <2>1, <2>3, <3>1, <3>4, <3>5, OneChanges
    <2>4. QED BY <2>1, <2>2, <2>3
<1>4. QED BY <1>2, <1>3

(* A sync saves the entry that is behind.                                  *)
LEMMA NamesOfSync ==
    ASSUME Whole, IInv, AckInv, NamesInv, SyncSector PROVE NamesInv'
<1>1. /\ cTable' = cTable /\ Mounted /\ ctl = "sync"
      /\ \A i \in SlotIds : dTable'[i] \in {dTable[i], cTable[i]}
    BY DEF SyncSector, cache, Mounted
<1>2. OwnNames(dTable') /\ OwnNames(cTable')
    <2>1. dTable' = dTable \/ dTable' = cTable
        BY SyncWhole
    <2>2. QED BY <1>1, <2>1 DEF NamesInv
<1>3. ASSUME WriteFaults = {} PROVE OneBehind'
    <2>1. PICK s \in SlotIds : \A i \in SlotIds \ {s} : dTable[i] = cTable[i]
        BY <1>1, <1>3 DEF NamesInv, OneBehind
    <2>2. \A i \in SlotIds \ {s} : dTable'[i] = cTable'[i]
        BY <1>1, <2>1
    <2>3. ctl' # "sync" => dTable' = cTable'
        BY <1>1, <1>3, SyncEnds
    <2>4. QED BY <2>2, <2>3 DEF OneBehind
<1>4. OneBehind'
    BY <1>3 DEF OneBehind
<1>5. QED BY <1>2, <1>4 DEF NamesInv, OwnNames, Used

(* Every step leaves a name to one file.                                   *)
LEMMA NamesStep ==
    ASSUME Whole, IInv, AckInv, NamesInv, [Next]_vars PROVE NamesInv'
<1>1. CASE Boot
    <2>1. cTable' = dTable /\ dTable' = dTable /\ ctl' = "idle"
        BY <1>1 DEF Boot, disk
    <2>2. OneBehind'
        BY <2>1, SomeSlot DEF OneBehind
    <2>3. QED BY <2>1, <2>2 DEF NamesInv, OwnNames, Used
<1>2. CASE PowerCut
    <2>1. dTable' = dTable /\ ~Mounted'
        BY <1>2 DEF PowerCut, disk, Mounted
    <2>2. QED BY <2>1 DEF NamesInv, OneBehind, OwnNames, Used
<1>3. CASE BootFails \/ GuardRefuses \/ AppendTooLong \/ AppendFetch \/ AppendFetchFails
           \/ UNCHANGED vars
    BY <1>3, NamesKept DEF BootFails, GuardRefuses, AppendTooLong, AppendFetch,
                           AppendFetchFails, Ends, vars, disk, cache, Mounted
<1>4. CASE Command \/ AppendPut
    BY <1>4, NamesOfCommand
<1>5. CASE SyncSector
    BY <1>5, NamesOfSync
<1>6. QED BY <1>1, <1>2, <1>3, <1>4, <1>5 DEF Next, Handler

(* The names on the medium and in the cache, in every reachable state.     *)
THEOREM NamesInStep ==
    ASSUME "silent" \notin WriteFaults, "abandoned" \notin ReadFaults, Whole
    PROVE  Spec => []NamesInv
<1>1. Init => NamesInv
    BY ImageNames DEF Init, NamesInv, OneBehind, Mounted
<1>2. IInv /\ AckInv /\ NamesInv /\ [Next]_vars => NamesInv'
    BY NamesStep
<1>3. Spec => []IInv /\ []AckInv
    BY Invariant, AcknowledgedInStep
<1>4. QED BY <1>1, <1>2, <1>3, PTL DEF Spec

(* fs_create never gives a name that the table holds a second time, and no *)
(* power cut makes the next boot find it twice, whatever the sync it cut:  *)
(* on a drive that refuses no write, or with a table of one sector.        *)
THEOREM NamesStayUnique ==
    ASSUME "silent" \notin WriteFaults, "abandoned" \notin ReadFaults, Whole
    PROVE  Spec => []NamesUnique
<1>1. NamesInv => NamesUnique
    BY DEF NamesInv, OwnNames, NamesUnique
<1>2. Spec => []NamesInv
    BY NamesInStep
<1>3. QED BY <1>1, <1>2, PTL

-----------------------------------------------------------------------------
(* MortFS implements LineStore. *)

(* What a table shows of a medium, and what the shell sees.                *)
Seen(t, d) == [n \in Names |-> IF FsFind(t, n) = NoSlot THEN Absent
                               ELSE FileContent(t[FsFind(t, n)], d)]
Live == IF Mounted THEN Seen(cTable, dData) ELSE Seen(dTable, dData)
Saved == Seen(dTable, dData)

(* What the shell sees, and what the medium shows, after a step.           *)
LEMMA SeenNext ==
    /\ Live' = IF Mounted' THEN Seen(cTable', dData') ELSE Seen(dTable', dData')
    /\ Saved' = Seen(dTable', dData')
BY DEF Live, Saved, Seen, FsFind, FirstSlot, Used, FileContent, ByteAt

(* Nothing seen changes: a stuttering step of LineStore.                   *)
LEMMA StoreQuiet ==
    ASSUME Live' = Live, Saved' = Saved, reply' = reply
    PROVE  UNCHANGED Store!vars
BY DEF Store!vars, Live, Saved, View, Seen

(* LineStore starts with whole files, all of them saved.                   *)
LEMMA StoreInit ==
    ASSUME Live = Saved, reply = "none",
           \A n \in Names : Saved[n] = Absent \/ Saved[n] \in Seq(Bytes)
    PROVE  Store!Init
BY DEF Store!Init, Store!Content, Live, Saved, View, Seen

(* Nothing is saved, or everything; nothing is acknowledged.               *)
LEMMA StorePersists ==
    ASSUME Live' = Live, Saved' = Saved \/ Saved' = Live, reply' \in {"none", "error"}
    PROVE  Store!Persist
<1>1. Live = [n \in Names |-> Live[n]] /\ Saved = [n \in Names |-> Saved[n]]
    BY DEF Live, Saved, Seen
<1>2. \E S \in SUBSET Names : Saved' = [n \in Names |-> IF n \in S THEN Live[n] ELSE Saved[n]]
    <2>1. CASE Saved' = Saved
        <3>1. Saved' = [n \in Names |-> IF n \in {} THEN Live[n] ELSE Saved[n]]
            BY <1>1, <2>1
        <3>2. {} \in SUBSET Names
            OBVIOUS
        <3>3. QED BY <3>1, <3>2
    <2>2. CASE Saved' = Live
        <3>1. Saved' = [n \in Names |-> IF n \in Names THEN Live[n] ELSE Saved[n]]
            BY <1>1, <2>2
        <3>2. Names \in SUBSET Names
            OBVIOUS
        <3>3. QED BY <3>1, <3>2
    <2>3. QED BY <2>1, <2>2
<1>3. QED BY <1>2 DEF Store!Persist, Live, Saved, View, Seen

(* A command succeeds when all that the shell sees is saved.               *)
LEMMA StoreAcknowledges ==
    ASSUME Live' = Live, Saved' = Live, reply' = "ok" PROVE Store!Acknowledge
BY DEF Store!Acknowledge, Live, Saved, View, Seen

(* The shell sees what was saved.                                          *)
LEMMA StorePowerCut ==
    ASSUME Live' = Saved, Saved' = Saved, reply' = "none" PROVE Store!PowerCut
BY DEF Store!PowerCut, Live, Saved, View, Seen

(* One file appears, is gone, or grows by a line.                          *)
LEMMA StoreUpdates ==
    ASSUME NEW n \in Names, Saved' = Saved, reply' = "none",
           \/ Live[n] = Absent /\ Live' = [Live EXCEPT ![n] = << >>]
           \/ Live[n] # Absent /\ Live' = [Live EXCEPT ![n] = Absent]
           \/ Live[n] # Absent /\ \E l \in Lines : Live' = [Live EXCEPT ![n] = @ \o l]
    PROVE  Store!Update
<1>1. CASE Live[n] = Absent /\ Live' = [Live EXCEPT ![n] = << >>]
    BY <1>1 DEF Store!Update, Store!Create, Live, Saved, View, Seen
<1>2. CASE Live[n] # Absent /\ Live' = [Live EXCEPT ![n] = Absent]
    BY <1>2 DEF Store!Update, Store!Remove, Live, Saved, View, Seen
<1>3. CASE Live[n] # Absent /\ \E l \in Lines : Live' = [Live EXCEPT ![n] = @ \o l]
    BY <1>3 DEF Store!Update, Store!AppendLine, Live, Saved, View, Seen
<1>4. QED BY <1>1, <1>2, <1>3

(* A file of a table lies on the data sectors, inside its extent.          *)
LEMMA Recorded ==
    ASSUME IInv, NEW t, t = dTable \/ (Mounted /\ t = cTable), NEW i \in Used(t)
    PROVE  /\ i \in SlotIds /\ t[i] \in Entry
           /\ DataStart <= t[i].start /\ t[i].start + t[i].cap <= TotalSectors
           /\ t[i].size <= t[i].cap * SectorLen
<1>1. PICK s \in {dSuper, cSuper} : Allocated(t, s)
    BY DEF IInv, DiskInv, CacheInv
<1>2. i \in SlotIds /\ t[i] \in Entry
    BY DEF Used, IInv, TypeOK
<1>3. /\ s.next \in DataStart .. TotalSectors /\ DataStart <= t[i].start
      /\ t[i].start + t[i].cap <= s.next /\ t[i].size <= t[i].cap * SectorLen
    BY <1>1 DEF Allocated
<1>4. t[i].start \in Nat /\ t[i].cap \in Nat
    BY <1>2 DEF Entry
<1>5. t[i].start + t[i].cap <= TotalSectors
    BY <1>3, <1>4, Geometry
<1>6. QED BY <1>2, <1>3, <1>5

(* What is read of such a file is a sequence of bytes of its size.         *)
LEMMA FileBytes ==
    ASSUME IInv, NEW e \in Entry, DataStart <= e.start, e.start + e.cap <= TotalSectors,
           e.size <= e.cap * SectorLen
    PROVE  /\ FileContent(e, dData) \in Seq(Bytes) /\ FileContent(e, dData) # Absent
           /\ Len(FileContent(e, dData)) = e.size
<1>1. e.start \in Nat /\ e.cap \in Nat /\ e.size \in Nat /\ e.cap * SectorLen \in Nat
    BY Geometry DEF Entry
<1>2. ASSUME NEW k \in 1 .. e.size PROVE ByteAt(e, dData, k - 1) \in Bytes
    <2> DEFINE p == k - 1
               q == p \div SectorLen
               r == p % SectorLen
    <2>1. p \in Nat /\ p < e.cap * SectorLen
        BY <1>1
    <2> HIDE DEF p
    <2>2. q \in Nat /\ q < e.cap
        BY <1>1, <2>1, DivBound, Geometry
    <2>3. r \in 0 .. SectorLen - 1
        BY <2>1, Split
    <2> HIDE DEF q, r
    <2>4. e.start + q \in DataSectors
        BY <1>1, <2>2, InExtent
    <2>5. 1 + r \in 1 .. SectorLen
        BY <2>3, Geometry
    <2>6. dData[e.start + q] \in Sector
        BY <2>4 DEF IInv, TypeOK
    <2>7. dData[e.start + q][1 + r] \in Bytes
        BY <2>5, <2>6 DEF Sector
    <2>8. QED BY <2>7 DEF ByteAt, p, q, r
<1>3. FileContent(e, dData) \in [1 .. e.size -> Bytes]
    BY <1>2 DEF FileContent
<1>4. FileContent(e, dData) \in Seq(Bytes) /\ Len(FileContent(e, dData)) = e.size
    BY <1>1, <1>3
<1>5. QED BY <1>4, AbsentAssumption

(* What is seen of a file that keeps its entry and its bytes.              *)
LEMMA SameContent ==
    ASSUME NEW e, NEW f, NEW d, f.size = e.size, f.start = e.start,
           \A k \in 0 .. e.size - 1 : ByteAt(e, d, k) = ByteAt(e, dData, k), e.size \in Nat
    PROVE  FileContent(f, d) = FileContent(e, dData)
<1>1. \A k \in 1 .. e.size : k - 1 \in 0 .. e.size - 1
    OBVIOUS
<1>2. \A k \in 1 .. e.size : ByteAt(f, d, k - 1) = ByteAt(e, dData, k - 1)
    BY <1>1 DEF ByteAt
<1>3. QED BY <1>2 DEF FileContent

(* A table is seen the same through a step that changes no byte of it.     *)
LEMMA SeenSame ==
    ASSUME NEW t, t \in [SlotIds -> Entry], NEW d,
           \A i \in Used(t) : \A k \in 0 .. t[i].size - 1 :
               ByteAt(t[i], d, k) = ByteAt(t[i], dData, k)
    PROVE  Seen(t, d) = Seen(t, dData)
<1>1. ASSUME NEW i \in Used(t) PROVE FileContent(t[i], d) = FileContent(t[i], dData)
    <2>1. t[i].size \in Nat
        BY DEF Used, Entry
    <2>2. QED BY <2>1, SameContent
<1>2. \A n \in Names : FsFind(t, n) # NoSlot => FsFind(t, n) \in Used(t)
    BY FindNamed
<1>3. QED BY <1>1, <1>2 DEF Seen

(* What the medium shows changes only when its table does.                 *)
LEMMA SavedSame ==
    ASSUME IInv, SavedInv, [Next]_vars, dTable' = dTable PROVE Saved' = Saved
<1>1. dTable \in [SlotIds -> Entry]
    BY DEF IInv, TypeOK
<1>2. \A i \in Used(dTable) : \A k \in 0 .. dTable[i].size - 1 :
          ByteAt(dTable[i], dData', k) = ByteAt(dTable[i], dData, k)
    BY SavedStep
<1>3. Seen(dTable, dData') = Seen(dTable, dData)
    BY <1>1, <1>2, SeenSame
<1>4. QED BY <1>3 DEF Saved, Seen

(* An append writes behind the end of every file the shell sees.           *)
LEMMA CachedStay ==
    ASSUME IInv, SavedInv, AppendPut, NEW i \in Used(cTable),
           NEW k \in 0 .. cTable[i].size - 1
    PROVE  ByteAt(cTable[i], dData', k) = ByteAt(cTable[i], dData, k)
<1>1. /\ ctl = "put" /\ Mounted
      /\ dData' = dData \/ dData' = [dData EXCEPT ![job.at] = Filled]
    BY DEF AppendPut, Mounted
<1>2. /\ i \in SlotIds /\ cTable[i] \in Entry
      /\ DataStart <= cTable[i].start /\ cTable[i].start + cTable[i].cap <= TotalSectors
      /\ cTable[i].size <= cTable[i].cap * SectorLen
    BY <1>1, Recorded
<1>3. job.slot \in Used(cTable)
    BY <1>1, TargetFits
<1>4. Apart(cTable[i], Target) \/ (cTable[i].start = Target.start
                                   /\ cTable[i].size <= Target.size)
    <2>1. CASE i = job.slot
        BY <1>2, <2>1 DEF Target, Entry
    <2>2. CASE i # job.slot
        BY <1>1, <1>3, <2>2 DEF IInv, CacheInv, Allocated, Target
    <2>3. QED BY <2>1, <2>2
<1>5. PutInv
    BY DEF SavedInv
<1>6. QED BY <1>1, <1>2, <1>4, <1>5, BytesStay

(* With its last sector the line stands behind what the file held.         *)
LEMMA LineIsPut ==
    ASSUME IInv, PutInv, ctl = "put", Len(Chunk) = Len(job.rest),
           NEW d, d = [dData EXCEPT ![job.at] = Filled],
           NEW e, e.start = Target.start, e.size = Target.size + Len(job.line)
    PROVE  FileContent(e, d) = FileContent(Target, dData) \o job.line
<1> DEFINE old == FileContent(Target, dData)
           s == Target.size
           n == Len(job.rest)
           m == Len(job.line)
           all == old \o job.line
<1>1. /\ s \in Nat /\ n \in Nat /\ m \in Nat /\ Position \in Nat /\ s <= Position
      /\ Position + n = s + m /\ n <= m /\ job.line \in Seq(Bytes)
    BY PositionFits, TargetFits
<1>2. old \in Seq(Bytes) /\ Len(old) = s
    <2>1. job.slot \in Used(cTable) /\ Mounted /\ Target = cTable[job.slot]
        BY TargetFits DEF Mounted, Target
    <2>2. QED BY <2>1, Recorded, FileBytes
<1> HIDE DEF old
<1>3. /\ all \in Seq(Bytes) /\ Len(all) = s + m
      /\ \A k \in 1 .. s + m : all[k] = IF k <= s THEN old[k] ELSE job.line[k - s]
    <2> HIDE DEF s, m
    <2>1. job.line \in Seq(Bytes) /\ Len(job.line) = m
        BY <1>1 DEF m
    <2>2. /\ all \in Seq(Bytes) /\ Len(all) = Len(old) + Len(job.line)
          /\ \A k \in 1 .. Len(old) + Len(job.line) :
                 all[k] = IF k <= Len(old) THEN old[k] ELSE job.line[k - Len(old)]
        BY <1>2, <2>1, ConcatProperties
    <2> HIDE DEF all
    <2>3. QED BY <1>2, <2>1, <2>2
<1> HIDE DEF all, n, s, m
<1>4. ASSUME NEW k \in 1 .. s + m PROVE ByteAt(e, d, k - 1) = all[k]
    <2> DEFINE p == k - 1
    <2>1. p \in Nat /\ p + 1 = k /\ p < s + m
        BY <1>1
    <2> HIDE DEF p
    <2>2. ByteAt(e, d, p) = ByteAt(Target, d, p)
        BY DEF ByteAt
    <2>3. CASE p < s
        <3>1. ByteAt(Target, d, p) = ByteAt(Target, dData, p)
            <4>1. p < Position
                BY <1>1, <2>1, <2>3
            <4>2. QED BY <2>1, <4>1, TargetBytesStay
        <3>2. k \in 1 .. Target.size /\ k - 1 = p /\ k <= s
            BY <1>1, <2>1, <2>3 DEF s
        <3>3. old[k] = ByteAt(Target, dData, p)
            BY <3>2 DEF old, FileContent
        <3>4. QED BY <1>3, <2>2, <3>1, <3>2, <3>3
    <2>4. CASE s <= p /\ p < Position
        <3>1. ByteAt(Target, d, p) = ByteAt(Target, dData, p)
            BY <2>1, <2>4, TargetBytesStay
        <3>2. p \in Target.size .. Position - 1
            BY <1>1, <2>1, <2>4 DEF s
        <3>3. ByteAt(Target, dData, p) = job.line[p - Target.size + 1]
            BY <3>2 DEF PutInv
        <3>4. p - s + 1 = k - s /\ ~(k <= s) /\ k - 1 = p
            BY <1>1, <2>1, <2>4
        <3>5. QED BY <1>3, <2>2, <3>1, <3>3, <3>4 DEF s
    <2>5. CASE Position <= p
        <3> DEFINE q == p - Position + 1
        <3>1. /\ q \in 1 .. n /\ Position + q - 1 = p /\ m - n + q = k - s
              /\ ~(k <= s) /\ k - 1 = p
            <4>1. /\ s \in Nat /\ n \in Nat /\ m \in Nat /\ Position \in Nat /\ s <= Position
                  /\ Position + n = s + m /\ k \in Int
                BY <1>1
            <4>2. q \in 1 .. n /\ Position + q - 1 = p
                BY <2>1, <2>5, <4>1
            <4>3. k - 1 = p /\ ~(k <= s)
                BY <2>1, <2>5, <4>1
            <4>4. m - n + q = k - s
                BY <2>1, <4>1, <4>2
            <4>5. QED BY <4>2, <4>3, <4>4
        <3> HIDE DEF q
        <3>2. ByteAt(Target, d, p) = Chunk[q]
            BY <3>1, ChunkIsPut DEF n
        <3>3. Chunk[q] = job.rest[q]
            BY <3>1, ChunkBegins DEF n
        <3>4. job.rest[q] = job.line[m - n + q]
            BY <3>1 DEF PutInv, n, m
        <3>5. QED BY <1>3, <2>2, <3>1, <3>2, <3>3, <3>4
    <2>6. p < s \/ (s <= p /\ p < Position) \/ Position <= p
        BY <1>1, <2>1
    <2>7. QED BY <2>1, <2>3, <2>4, <2>5, <2>6, <1>1 DEF p
<1>5. all = [k \in 1 .. s + m |-> all[k]]
    BY <1>3
<1>6. FileContent(e, d) = [k \in 1 .. s + m |-> ByteAt(e, d, k - 1)]
    BY DEF FileContent, s, m
<1>7. FileContent(e, d) = all
    BY <1>4, <1>5, <1>6
<1>8. QED BY <1>7 DEF all, old

(* A command that changes one entry leaves every other name as it was.     *)
LEMMA OtherNames ==
    ASSUME NEW t, NEW u, NEW s \in SlotIds, \A i \in SlotIds \ {s} : u[i] = t[i],
           NEW m, s \in Used(t) => t[s].name # m, s \in Used(u) => u[s].name # m
    PROVE  /\ FsFind(u, m) = FsFind(t, m)
           /\ FsFind(t, m) # NoSlot => /\ FsFind(t, m) \in Used(t)
                                       /\ u[FsFind(t, m)] = t[FsFind(t, m)]
<1>1. {i \in Used(u) : u[i].name = m} = {i \in Used(t) : t[i].name = m}
    BY DEF Used
<1>2. FsFind(u, m) = FsFind(t, m)
    BY <1>1 DEF FsFind
<1>3. ASSUME FsFind(t, m) # NoSlot PROVE u[FsFind(t, m)] = t[FsFind(t, m)]
    BY <1>3, FindNamed
<1>4. QED BY <1>2, <1>3, FindNamed

(* write of a name that is not there: an empty file appears.               *)
LEMMA CreateImplements ==
    ASSUME IInv, SavedInv, NamesInv, NamesInv', NEW n \in Names, NEW l \in Lines,
           WriteCreates(n, l), [Next]_vars
    PROVE  Store!Next
<1> DEFINE i == FsFreeSlot(cTable)
<1>1. i \in SlotIds /\ i \notin Used(cTable)
    BY Claim
<1>2. /\ Mounted /\ Mounted' /\ dTable' = dTable /\ dData' = dData /\ reply' = "none"
      /\ FsFind(cTable, n) = NoSlot
      /\ cTable' = [cTable EXCEPT ![i] =
                       [used |-> TRUE, name |-> n, size |-> 0,
                        start |-> cSuper.next, cap |-> ExtentSectors]]
    BY DEF WriteCreates, StartSync, Running, disk, Mounted
<1> HIDE DEF i
<1>3. cTable \in [SlotIds -> Entry]
    BY DEF IInv, TypeOK
<1>4. /\ cTable'[i].name = n /\ cTable'[i].used /\ cTable'[i].size = 0
      /\ \A j \in SlotIds \ {i} : cTable'[j] = cTable[j]
    BY <1>1, <1>2, <1>3
<1>5. i \in Used(cTable')
    BY <1>1, <1>4 DEF Used
<1>6. FsFind(cTable', n) = i /\ FsFind(cTable', n) # NoSlot
    <2>1. OwnNames(cTable')
        BY <1>2 DEF NamesInv, OwnNames, Used
    <2>2. QED BY <1>4, <1>5, <2>1, FindOwn
<1>7. FileContent(cTable'[i], dData') = << >>
    BY <1>4 DEF FileContent
<1>8. Live = Seen(cTable, dData) /\ Live' = Seen(cTable', dData')
    BY <1>2, SeenNext DEF Live
<1>9. ASSUME NEW m \in Names, m # n PROVE Live'[m] = Live[m]
    <2>1. /\ FsFind(cTable', m) = FsFind(cTable, m)
          /\ FsFind(cTable, m) # NoSlot =>
                 cTable'[FsFind(cTable, m)] = cTable[FsFind(cTable, m)]
        BY <1>1, <1>4, <1>9, OtherNames
    <2>2. QED BY <1>2, <1>8, <2>1 DEF Seen
<1>10. Live[n] = Absent
    BY <1>2, <1>8 DEF Seen
<1>11. Live'[n] = << >>
    BY <1>6, <1>7, <1>8 DEF Seen
<1>12. Live' = [Live EXCEPT ![n] = << >>]
    BY <1>8, <1>9, <1>11 DEF Seen
<1>13. Saved' = Saved
    BY <1>2, SavedSame
<1>14. Store!Update
    BY <1>2, <1>10, <1>12, <1>13, StoreUpdates
<1>15. QED BY <1>14 DEF Store!Next

(* rm of a name that is there: the file is gone.                           *)
LEMMA RemoveImplements ==
    ASSUME IInv, SavedInv, NamesInv, NEW n \in Names, RemoveFound(n), [Next]_vars
    PROVE  Store!Next
<1> DEFINE i == FsFind(cTable, n)
<1>1. i \in SlotIds /\ i \in Used(cTable) /\ cTable[i].name = n /\ i # NoSlot
    BY FindNamed DEF RemoveFound
<1>2. /\ Mounted /\ Mounted' /\ dTable' = dTable /\ dData' = dData /\ reply' = "none"
      /\ cTable' = [cTable EXCEPT ![i].used = FALSE]
    BY DEF RemoveFound, StartSync, Running, disk, Mounted
<1>3. cTable \in [SlotIds -> Entry]
    BY DEF IInv, TypeOK
<1>4. Live = Seen(cTable, dData) /\ Live' = Seen(cTable', dData')
    BY <1>2, SeenNext DEF Live
<1>5. Live[n] = FileContent(cTable[i], dData)
    BY <1>1, <1>4 DEF Seen
<1>6. Live[n] # Absent
    BY <1>1, <1>2, <1>5, Recorded, FileBytes
<1> HIDE DEF i
<1>7. i \notin Used(cTable') /\ \A j \in SlotIds \ {i} : cTable'[j] = cTable[j]
    <2>1. /\ cTable'[i] = [cTable[i] EXCEPT !.used = FALSE] /\ cTable[i] \in Entry
          /\ \A j \in SlotIds \ {i} : cTable'[j] = cTable[j]
        BY <1>1, <1>2, <1>3
    <2>2. ~cTable'[i].used
        BY <2>1 DEF Entry
    <2>3. QED BY <2>1, <2>2 DEF Used
<1>8. ASSUME NEW m \in Names, m # n PROVE Live'[m] = Live[m]
    <2>1. /\ FsFind(cTable', m) = FsFind(cTable, m)
          /\ FsFind(cTable, m) # NoSlot =>
                 cTable'[FsFind(cTable, m)] = cTable[FsFind(cTable, m)]
        BY <1>1, <1>7, <1>8, OtherNames
    <2>2. QED BY <1>2, <1>4, <2>1 DEF Seen
<1>9. FsFind(cTable', n) = NoSlot
    <2>1. ASSUME NEW j \in Used(cTable'), cTable'[j].name = n PROVE FALSE
        <3>1. j # i /\ j \in Used(cTable) /\ cTable[j].name = n
            BY <1>7, <2>1 DEF Used
        <3>2. QED BY <1>1, <1>2, <3>1 DEF NamesInv, OwnNames
    <2>2. {j \in Used(cTable') : cTable'[j].name = n} = {}
        BY <2>1
    <2>3. QED BY <2>2 DEF FsFind, FirstSlot
<1>10. Live'[n] = Absent
    BY <1>4, <1>9 DEF Seen
<1>11. Live' = [Live EXCEPT ![n] = Absent]
    BY <1>4, <1>8, <1>10 DEF Seen
<1>12. Saved' = Saved
    BY <1>2, SavedSame
<1>13. Store!Update
    BY <1>2, <1>6, <1>11, <1>12, StoreUpdates
<1>14. QED BY <1>13 DEF Store!Next

(* The last sector of an append: the file grows by the line.               *)
LEMMA GrowImplements ==
    ASSUME "silent" \notin WriteFaults, IInv, AckInv, SavedInv, NamesInv, NamesInv',
           AppendPut, ctl' = "sync", [Next]_vars
    PROVE  Store!Next
<1>1. /\ ctl = "put" /\ Mounted /\ Mounted' /\ dTable' = dTable /\ PutInv
      /\ reply = "none"
    BY DEF AppendPut, Mounted, SavedInv, AckInv
<1>2. PICK o \in Outcomes :
          /\ dData' = IF Stored(o) THEN [dData EXCEPT ![job.at] = Filled] ELSE dData
          /\ Reported(o) /\ Len(Chunk) = Len(job.rest) /\ reply' = reply
          /\ cTable' = [cTable EXCEPT ![job.slot].size = @ + Len(job.line)]
    BY <1>1 DEF AppendPut, Ends
<1>3. Stored(o)
    BY <1>2 DEF Outcomes, Reported, Stored, IInv, NothingOwed
<1>4. dData' = [dData EXCEPT ![job.at] = Filled]
    BY <1>2, <1>3
<1> DEFINE i == job.slot
           n == Target.name
<1>5. i \in SlotIds /\ i \in Used(cTable) /\ Target = cTable[i] /\ Target \in Entry
      /\ job.line \in Lines /\ Len(job.line) \in Nat
    BY <1>1, TargetFits DEF Target
<1>6. cTable \in [SlotIds -> Entry]
    BY DEF IInv, TypeOK
<1>7. /\ cTable'[i].name = n /\ cTable'[i].used /\ cTable'[i].start = Target.start
      /\ cTable'[i].size = Target.size + Len(job.line)
      /\ \A j \in SlotIds \ {i} : cTable'[j] = cTable[j]
    <2>1. /\ cTable'[i] = [cTable[i] EXCEPT !.size = @ + Len(job.line)]
          /\ \A j \in SlotIds \ {i} : cTable'[j] = cTable[j]
        BY <1>2, <1>5, <1>6
    <2>2. Target.used
        BY <1>5 DEF Used
    <2>3. QED BY <1>5, <2>1, <2>2 DEF Entry
<1> HIDE DEF i, n
<1>8. n \in Names /\ FsFind(cTable, n) = i /\ FsFind(cTable, n) # NoSlot
    <2>1. OwnNames(cTable)
        BY <1>1 DEF NamesInv
    <2>2. QED BY <1>5, <2>1, FindOwn DEF OwnNames, n
<1>9. FsFind(cTable', n) = i /\ FsFind(cTable', n) # NoSlot
    <2>1. OwnNames(cTable')
        BY <1>1 DEF NamesInv, OwnNames, Used
    <2>2. i \in Used(cTable')
        BY <1>5, <1>7 DEF Used
    <2>3. QED BY <1>7, <2>1, <2>2, FindOwn
<1>10. Live = Seen(cTable, dData) /\ Live' = Seen(cTable', dData')
    BY <1>1, SeenNext DEF Live
<1>11. Live[n] = FileContent(Target, dData)
    BY <1>5, <1>8, <1>10 DEF Seen
<1>12. Live[n] # Absent
    BY <1>1, <1>5, <1>11, Recorded, FileBytes
<1>13. FileContent(cTable'[i], dData') = FileContent(Target, dData) \o job.line
    BY <1>1, <1>2, <1>4, <1>7, LineIsPut
<1>14. Live'[n] = Live[n] \o job.line
    BY <1>8, <1>9, <1>10, <1>11, <1>13 DEF Seen
<1>15. ASSUME NEW m \in Names, m # n PROVE Live'[m] = Live[m]
    <2>1. /\ FsFind(cTable', m) = FsFind(cTable, m)
          /\ FsFind(cTable, m) # NoSlot =>
                 /\ FsFind(cTable, m) \in Used(cTable)
                 /\ cTable'[FsFind(cTable, m)] = cTable[FsFind(cTable, m)]
        <3>1. cTable[i].name # m /\ cTable'[i].name # m
            BY <1>5, <1>7, <1>15 DEF n
        <3>2. i \in SlotIds /\ \A j \in SlotIds \ {i} : cTable'[j] = cTable[j]
            BY <1>5, <1>7
        <3>3. QED BY <3>1, <3>2, OtherNames
    <2>2. ASSUME NEW j \in Used(cTable)
          PROVE  FileContent(cTable[j], dData') = FileContent(cTable[j], dData)
        <3>1. cTable[j].size \in Nat
            BY <1>6 DEF Used, Entry
        <3>2. QED BY <3>1, CachedStay, SameContent
    <2>3. QED BY <1>10, <2>1, <2>2 DEF Seen
<1>16. Live' = [Live EXCEPT ![n] = @ \o job.line]
    BY <1>8, <1>10, <1>14, <1>15 DEF Seen
<1>17. Saved' = Saved
    BY <1>1, SavedSame
<1>18. Store!Update
    BY <1>1, <1>2, <1>5, <1>8, <1>12, <1>16, <1>17, StoreUpdates
<1>19. QED BY <1>18 DEF Store!Next

(* A step that shows the shell nothing new and acknowledges nothing.       *)
LEMMA NothingNew ==
    ASSUME dTable' = dTable, cTable' = cTable, dData' = dData,
           (Mounted /\ Mounted') \/ (~Mounted /\ ~Mounted'), reply' \in {"none", "error"}
    PROVE  Store!Next
<1>1. /\ Live = IF Mounted THEN Seen(cTable, dData) ELSE Seen(dTable, dData)
      /\ Live' = IF Mounted' THEN Seen(cTable', dData') ELSE Seen(dTable', dData')
      /\ Saved = Seen(dTable, dData) /\ Saved' = Seen(dTable', dData')
    BY SeenNext DEF Live, Saved
<1>2. Live' = Live /\ Saved' = Saved
    BY <1>1
<1>3. QED BY <1>2, StorePersists DEF Store!Next

(* A command, from the prompt.                                             *)
LEMMA CommandImplements ==
    ASSUME IInv, SavedInv, NamesInv, NamesInv', Command PROVE Store!Next
<1>1. [Next]_vars
    BY DEF Next
<1>2. PICK n \in Names : \/ WriteRefused(n) \/ RemoveMissing(n) \/ RemoveFound(n)
                         \/ \E l \in Lines : WriteCreates(n, l) \/ WriteFinds(n, l)
    BY DEF Command
<1>3. CASE WriteRefused(n) \/ RemoveMissing(n) \/ \E l \in Lines : WriteFinds(n, l)
    BY <1>3, NothingNew DEF WriteRefused, RemoveMissing, WriteFinds, Ends, Running,
                             disk, cache, Mounted
<1>4. CASE RemoveFound(n)
    BY <1>1, <1>2, <1>4, RemoveImplements
<1>5. CASE \E l \in Lines : WriteCreates(n, l)
    BY <1>1, <1>2, <1>5, CreateImplements
<1>6. QED BY <1>2, <1>3, <1>4, <1>5

(* A sector of an append that is not its last, or that fails.              *)
LEMMA PutImplements ==
    ASSUME "silent" \notin WriteFaults, IInv, AckInv, SavedInv, NamesInv, NamesInv', AppendPut
    PROVE  Store!Next
<1>1. [Next]_vars
    BY DEF Next, Handler
<1>2. CASE ctl' = "sync"
    BY <1>1, <1>2, GrowImplements
<1>3. CASE ctl' # "sync"
    <2>1. /\ Mounted /\ Mounted' /\ dTable' = dTable /\ cTable' = cTable
          /\ reply' \in {"none", "error"}
        BY <1>3 DEF AppendPut, Ends, StartSync, Mounted, AckInv
    <2>2. cTable \in [SlotIds -> Entry]
        BY DEF IInv, TypeOK
    <2>3. Seen(cTable, dData') = Seen(cTable, dData)
        <3>1. \A i \in Used(cTable) : \A k \in 0 .. cTable[i].size - 1 :
                  ByteAt(cTable[i], dData', k) = ByteAt(cTable[i], dData, k)
            BY CachedStay
        <3>2. QED BY <2>2, <3>1, SeenSame
    <2>4. Live' = Seen(cTable, dData') /\ Live = Seen(cTable, dData)
        BY <2>1, SeenNext DEF Live
    <2>5. Saved' = Saved
        BY <1>1, <2>1, SavedSame
    <2>6. QED BY <2>1, <2>3, <2>4, <2>5, StorePersists DEF Store!Next
<1>4. QED BY <1>2, <1>3

(* A sector of a sync: nothing is saved, or all that was behind, and a     *)
(* success is reported when nothing is behind.                             *)
LEMMA SyncImplements ==
    ASSUME "silent" \notin WriteFaults, Whole, IInv, AckInv, AckInv', NamesInv, SyncSector
    PROVE  Store!Next
<1>1. /\ Mounted /\ Mounted' /\ dData' = dData /\ cTable' = cTable /\ reply = "none"
      /\ reply' \in {"none", "error", "ok"}
    BY DEF SyncSector, AfterSync, Ends, cache, Mounted, AckInv
<1>2. Live = Seen(cTable, dData) /\ Live' = Live
    BY <1>1, SeenNext DEF Live
<1>3. Saved' = Seen(dTable', dData)
    BY <1>1, SeenNext
<1>4. CASE reply' \in {"none", "error"}
    <2>1. dTable' = dTable \/ dTable' = cTable
        BY SyncWhole
    <2>2. Saved' = Saved \/ Saved' = Live
        BY <1>2, <1>3, <2>1 DEF Saved
    <2>3. QED BY <1>2, <1>4, <2>2, StorePersists DEF Store!Next
<1>5. CASE reply' = "ok"
    <2>1. dTable' = cTable
        BY <1>1, <1>5 DEF AckInv, AckedIsStored
    <2>2. Saved' = Live
        BY <1>2, <1>3, <2>1
    <2>3. QED BY <1>2, <1>5, <2>2, StoreAcknowledges DEF Store!Next
<1>6. QED BY <1>1, <1>4, <1>5

(* The power goes, and comes back.                                         *)
LEMMA PowerImplements ==
    ASSUME Boot \/ BootFails \/ GuardRefuses \/ PowerCut
    PROVE  Store!Next \/ UNCHANGED Store!vars
<1>1. CASE Boot
    <2>1. /\ ~Mounted /\ Mounted' /\ cTable' = dTable /\ dTable' = dTable /\ dData' = dData
          /\ reply' = reply
        BY <1>1 DEF Boot, disk, Mounted
    <2>2. Live' = Live /\ Saved' = Saved
        BY <2>1, SeenNext DEF Live, Saved
    <2>3. QED BY <2>1, <2>2, StoreQuiet
<1>2. CASE BootFails
    <2>1. ~Mounted /\ ~Mounted' /\ dTable' = dTable /\ dData' = dData /\ reply' = reply
        BY <1>2 DEF BootFails, disk, Mounted
    <2>2. Live' = Live /\ Saved' = Saved
        BY <2>1, SeenNext DEF Live, Saved
    <2>3. QED BY <2>1, <2>2, StoreQuiet
<1>3. CASE GuardRefuses
    <2>1. /\ dTable' = dTable /\ cTable' = cTable /\ dData' = dData
          /\ ~Mounted /\ ~Mounted' /\ reply' = "error"
        BY <1>3 DEF GuardRefuses, disk, cache, Mounted
    <2>2. QED BY <2>1, NothingNew
<1>4. CASE PowerCut
    <2>1. ~Mounted' /\ dTable' = dTable /\ dData' = dData /\ reply' = "none"
        BY <1>4 DEF PowerCut, disk, Mounted
    <2>2. Live' = Saved /\ Saved' = Saved
        BY <2>1, SeenNext DEF Live, Saved
    <2>3. QED BY <2>1, <2>2, StorePowerCut DEF Store!Next
<1>5. QED BY <1>1, <1>2, <1>3, <1>4

(* Every step of MortFS is a step of LineStore, or none.                   *)
LEMMA StepImplements ==
    ASSUME "silent" \notin WriteFaults, Whole, IInv, AckInv, AckInv', SavedInv,
           NamesInv, NamesInv', [Next]_vars
    PROVE  [Store!Next]_(Store!vars)
<1>1. CASE Boot \/ BootFails \/ GuardRefuses \/ PowerCut
    BY <1>1, PowerImplements
<1>2. CASE Command
    BY <1>2, CommandImplements
<1>3. CASE AppendPut
    BY <1>3, PutImplements
<1>4. CASE SyncSector
    BY <1>4, SyncImplements
<1>5. CASE AppendTooLong \/ AppendFetch \/ AppendFetchFails
    <2>1. reply' \in {"none", "error"}
        BY <1>5 DEF AppendTooLong, AppendFetch, AppendFetchFails, Ends, AckInv
    <2>2. /\ dTable' = dTable /\ cTable' = cTable /\ dData' = dData /\ Mounted /\ Mounted'
        BY <1>5 DEF AppendTooLong, AppendFetch, AppendFetchFails, Ends, disk, cache, Mounted
    <2>3. QED BY <2>1, <2>2, NothingNew
<1>6. CASE UNCHANGED vars
    <2>1. Live' = Live /\ Saved' = Saved /\ reply' = reply
        BY <1>6, SeenNext DEF vars, disk, cache, Live, Saved, Mounted
    <2>2. QED BY <2>1, StoreQuiet
<1>7. QED BY <1>1, <1>2, <1>3, <1>4, <1>5, <1>6 DEF Next, Handler

(* What mkfs.py writes is a store of whole files.                          *)
LEMMA InitImplements == Init => Store!Init
<1> SUFFICES ASSUME Init PROVE Store!Init
    OBVIOUS
<1>1. IInv /\ ~Mounted /\ reply = "none"
    BY InitInv DEF Init, Mounted
<1>2. Live = Saved
    BY <1>1 DEF Live, Saved
<1>3. ASSUME NEW n \in Names PROVE Saved[n] = Absent \/ Saved[n] \in Seq(Bytes)
    <2>1. CASE FsFind(dTable, n) = NoSlot
        BY <2>1 DEF Saved, Seen
    <2>2. CASE FsFind(dTable, n) # NoSlot
        <3>1. FsFind(dTable, n) \in Used(dTable)
            BY <2>2, FindNamed
        <3>2. FileContent(dTable[FsFind(dTable, n)], dData) \in Seq(Bytes)
            BY <1>1, <3>1, Recorded, FileBytes
        <3>3. QED BY <2>2, <3>2 DEF Saved, Seen
    <2>3. QED BY <2>1, <2>2
<1>4. QED BY <1>1, <1>2, <1>3, StoreInit

(* MortFS is a LineStore: commands are atomic file by file, what is        *)
(* acknowledged survives a power cut and a removed file stays removed, for *)
(* every geometry, on a drive that refuses no write, or with a table of    *)
(* one sector on a drive that may, where no read is abandoned.             *)
THEOREM IsLineStore ==
    ASSUME "silent" \notin WriteFaults, "abandoned" \notin ReadFaults, Whole
    PROVE  Spec => ImplementsLineStore
<1>1. Init => Store!Init
    BY InitImplements
<1>2. /\ IInv /\ AckInv /\ SavedInv /\ NamesInv /\ AckInv' /\ NamesInv' /\ [Next]_vars
      => [Store!Next]_(Store!vars)
    BY StepImplements
<1>3. Spec => []IInv /\ []AckInv /\ []SavedInv /\ []NamesInv
    BY Invariant, AcknowledgedInStep, AppendsInStep, NamesInStep
<1>4. QED BY <1>1, <1>2, <1>3, PTL DEF Spec, ImplementsLineStore, Store!Spec

-----------------------------------------------------------------------------
(* The ATA driver: until it gives up waiting for DRQ, the driver and the   *)
(* drive agree on which phase of which command they are in.                *)

(* The inductive invariant, by where the driver is.                        *)

Attached == pc \notin {"detect", "idle"} \/ diskOk => attached

(* Before and between calls the drive wants nothing of the driver; it may  *)
(* still store or flush for a call that has timed out.                     *)
Between ==
    /\ pc \in {"detect", "spinup", "rdy", "idle", "free"} =>
           ~status.drq /\ (cmd = "none" \/ (cmd \in {"store", "flush"} /\ status.bsy))
    /\ pc = "command" => cmd = "none" /\ ~status.bsy /\ ~status.drq

(* Which call is under way.                                                *)
Called == /\ pc \in {"detect", "spinup", "rdy"} => op = "none"
          /\ pc \in {"free", "command", "drq", "transfer"} => op \in {"read", "write"}

(* The command is running, asks for its data, or has been refused.         *)
Asking ==
    pc = "drq" => \/ cmd = op /\ status.bsy /\ ~status.drq
                  \/ cmd = op /\ ~status.bsy /\ status.drq /\ ~status.err
                  \/ cmd = "none" /\ ~status.bsy /\ ~status.drq /\ status.err

Transferring == pc = "transfer" => cmd = op /\ ~status.bsy /\ status.drq

Settled == medium = calls \/ faulted
Taken == Latest = calls \/ faulted

(* The sector of the call is in the drive, and then on the medium.         *)
Writing ==
    /\ pc \in {"taken", "flush", "flushed"} => op = "write" /\ ~status.drq /\ Taken
    /\ pc = "taken" => \/ cmd = "store" /\ status.bsy
                       \/ cmd = "none" /\ ~status.bsy
    /\ pc = "flush" => cmd = "none" /\ ~status.bsy
    /\ pc = "flushed" => \/ cmd = "flush" /\ status.bsy
                         \/ cmd = "none" /\ ~status.bsy /\ Settled

Answered ==
    pc = "idle" /\ ret = "true" =>
        /\ op = "read" => cmd = "none" /\ buf = Latest
        /\ op = "write" => cmd = "none" /\ Settled

InStep ==
    ~abandoned => /\ Attached /\ Between /\ Called
                  /\ Asking /\ Transferring /\ Writing /\ Answered

Inv == AtaTypeOK /\ InStep

-----------------------------------------------------------------------------
(* Type correctness. *)

(* The numbers of the calls, and the two marks, are distinct values.       *)
LEMMA Marks ==
    /\ MaxPolls \in Nat \ {0} /\ MaxCalls \in Nat
    /\ Values \subseteq Nat /\ Garbage \notin Values /\ Empty \notin Values
BY PollsAssumption DEF Values, Garbage, Empty

(* What the data port holds is a value a poll may return.                  *)
LEMMA LatestType ==
    ASSUME AtaTypeOK
    PROVE  Latest \in Values
BY DEF AtaTypeOK, Latest

(* A change of the drive, whenever it comes, keeps the types.              *)
LEMMA DriveType ==
    ASSUME AtaTypeOK, Drive
    PROVE  AtaTypeOK'
<1>1. /\ status' \in [bsy : BOOLEAN, drq : BOOLEAN, err : BOOLEAN, rdy : BOOLEAN]
      /\ UNCHANGED <<attached, abandoned, driver>>
    BY DEF Drive, SpinUp, AskTransfer, RefuseTransfer, TakeData, FlushDone, Answer, AtaTypeOK
<1>2. /\ cmd' \in {"none", "read", "write", "store", "flush"}
      /\ held' \in Values \cup {Empty} /\ medium' \in Values /\ faulted' \in BOOLEAN
    BY LatestType DEF Drive, SpinUp, AskTransfer, RefuseTransfer, TakeData, FlushDone, AtaTypeOK
<1>3. QED BY <1>1, <1>2 DEF AtaTypeOK, driver

(* Issuing a command changes the status and the command in flight, and     *)
(* nothing else of the drive.                                              *)
LEMMA IssueType ==
    ASSUME AtaTypeOK, NEW c \in {"none", "read", "write", "store", "flush"}, Issue(c)
    PROVE  /\ status' \in [bsy : BOOLEAN, drq : BOOLEAN, err : BOOLEAN, rdy : BOOLEAN]
           /\ cmd' \in {"none", "read", "write", "store", "flush"}
           /\ UNCHANGED <<attached, held, medium, faulted>>
BY DEF Issue, AtaTypeOK, drive

(* A step or a call of ata_read and ata_write keeps the types.             *)
LEMMA DriverType ==
    ASSUME AtaTypeOK, Driver \/ \E o \in {"read", "write"} : Call(o)
    PROVE  AtaTypeOK'
<1> USE Marks
<1>1. CASE Detect
    BY <1>1 DEF AtaTypeOK, Detect, Goto, drive
<1>2. CASE DetectReady
    BY <1>2 DEF AtaTypeOK, DetectReady, Goto, drive
<1>3. CASE WaitBsy
    BY <1>3 DEF AtaTypeOK, WaitBsy, MorePolls, Polled, Return, Goto, drive
<1>4. CASE WaitTimesOut
    BY <1>4 DEF AtaTypeOK, WaitTimesOut, Return, drive
<1>5. CASE SendCommand
    <2>1. Issue(op) /\ op \in {"read", "write", "none"}
        BY <1>5 DEF AtaTypeOK, SendCommand
    <2>2. QED BY <1>5, <2>1, IssueType DEF AtaTypeOK, SendCommand, Goto
<1>6. CASE WaitDrq
    BY <1>6 DEF AtaTypeOK, WaitDrq, MorePolls, Polled, Return, Goto, drive
<1>7. CASE TransferIn
    <2>1. status' \in [bsy : BOOLEAN, drq : BOOLEAN, err : BOOLEAN, rdy : BOOLEAN]
        BY <1>7 DEF AtaTypeOK, TransferIn
    <2>2. cmd' \in {"none", "read", "write", "store", "flush"}
        BY <1>7 DEF AtaTypeOK, TransferIn
    <2>3. buf' \in Values \cup {Garbage}
        BY <1>7, LatestType DEF TransferIn
    <2>4. QED BY <1>7, <2>1, <2>2, <2>3 DEF AtaTypeOK, TransferIn, Return
<1>8. CASE TransferOut
    <2>1. status' \in [bsy : BOOLEAN, drq : BOOLEAN, err : BOOLEAN, rdy : BOOLEAN]
        BY <1>8 DEF AtaTypeOK, TransferOut
    <2>2. held' \in Values \cup {Empty}
        BY <1>8 DEF AtaTypeOK, TransferOut, Values
    <2>3. QED BY <1>8, <2>1, <2>2 DEF AtaTypeOK, TransferOut, Goto
<1>9. CASE SendFlush
    BY <1>9, IssueType DEF AtaTypeOK, SendFlush, Goto
<1>10. CASE \E o \in {"read", "write"} : Call(o)
    BY <1>10 DEF AtaTypeOK, Call, Goto, drive
<1>11. QED
    BY <1>1, <1>2, <1>3, <1>4, <1>5, <1>6, <1>7, <1>8, <1>9, <1>10 DEF Driver

(* Every variable keeps its type: the status port its four bits, the       *)
(* drive's buffer and the medium a call's sector, the counts their bounds. *)
THEOREM AtaTypeCorrect == AtaSpec => []AtaTypeOK
<1>1. AtaInit => AtaTypeOK
    <2> SUFFICES ASSUME AtaInit
                 PROVE  AtaTypeOK
        OBVIOUS
    <2>1. status \in [bsy : BOOLEAN, drq : BOOLEAN, err : BOOLEAN, rdy : BOOLEAN]
        BY DEF AtaInit
    <2>2. medium \in Values /\ polls \in 0 .. MaxPolls /\ calls \in 0 .. MaxCalls
          /\ buf \in Values \cup {Garbage}
        BY Marks DEF AtaInit, Values
    <2>3. QED BY <2>1, <2>2, Zenon DEF AtaInit, AtaTypeOK
<1>2. AtaTypeOK /\ [AtaNext]_ataVars => AtaTypeOK'
    <2> SUFFICES ASSUME AtaTypeOK, [AtaNext]_ataVars
                 PROVE  AtaTypeOK'
        OBVIOUS
    <2>1. CASE AtaNext
        BY <2>1, DriveType, DriverType DEF AtaNext
    <2>2. CASE UNCHANGED ataVars
        BY <2>2 DEF AtaTypeOK, ataVars, drive, driver
    <2>3. QED BY <2>1, <2>2
<1>3. QED BY <1>1, <1>2, PTL DEF AtaSpec

-----------------------------------------------------------------------------
(* The driver and the drive keep in step. *)

(* The drive answers at its own pace: what it does is what the place of    *)
(* the driver expects of the command it sent.                              *)
LEMMA DriveInStep ==
    ASSUME Inv, Drive, ~abandoned
    PROVE  InStep'
<1>1. /\ attached /\ status.bsy /\ UNCHANGED <<attached, abandoned, driver>>
      /\ status \in [bsy : BOOLEAN, drq : BOOLEAN, err : BOOLEAN, rdy : BOOLEAN]
      /\ held \in Values \cup {Empty} /\ calls \in Values
    BY DEF Drive, SpinUp, AskTransfer, RefuseTransfer, TakeData, FlushDone, Answer,
           Inv, AtaTypeOK, Values
<1>2. UNCHANGED <<abandoned, pc, polls, diskOk, op, calls, buf, ret, attached>>
    BY <1>1 DEF driver
<1>3. /\ Attached /\ Between /\ Called /\ Asking /\ Transferring /\ Writing /\ Answered
    BY DEF Inv, InStep
<1>4. CASE SpinUp
    BY <1>1, <1>2, <1>3, <1>4
    DEF SpinUp, Answer, InStep, Attached, Between, Called, Asking, Transferring, Writing,
        Answered, Taken, Settled, Latest
<1>5. CASE AskTransfer
    BY <1>1, <1>2, <1>3, <1>5
    DEF AskTransfer, Answer, InStep, Attached, Between, Called, Asking, Transferring,
        Writing, Answered, Taken, Settled, Latest
<1>6. CASE RefuseTransfer
    BY <1>1, <1>2, <1>3, <1>6
    DEF RefuseTransfer, Answer, InStep, Attached, Between, Called, Asking, Transferring,
        Writing, Answered, Taken, Settled, Latest
<1>7. CASE TakeData
    <2>1. pc \in {"detect", "spinup", "rdy", "idle", "free", "taken"} /\ cmd = "store"
        BY <1>1, <1>3, <1>7 DEF TakeData, Between, Called, Asking, Transferring, Writing,
           Inv, AtaTypeOK
    <2>2. ~status'.bsy /\ ~status'.drq /\ cmd' = "none"
        BY <1>1, <1>3, <1>7 DEF TakeData, Answer
    <2>3. pc = "taken" => Taken'
        BY <1>2, <1>3, <1>7 DEF TakeData, Taken, Latest, Writing
    <2>4. QED BY <1>2, <1>3, <2>1, <2>2, <2>3
        DEF InStep, Attached, Between, Called, Asking, Transferring, Writing, Answered
<1>8. CASE FlushDone
    BY <1>1, <1>2, <1>3, <1>8
    DEF FlushDone, Answer, InStep, Attached, Between, Called, Asking, Transferring, Writing,
        Answered, Taken, Settled, Latest
<1>9. QED BY <1>4, <1>5, <1>6, <1>7, <1>8 DEF Drive

(* The driver's own steps. *)
LEMMA DriverInStep ==
    ASSUME Inv, Driver, ~abandoned'
    PROVE  InStep'
<1>1. ~abandoned /\ Attached /\ Between /\ Called /\ Asking /\ Transferring /\ Writing /\ Answered
    <2>1. CASE WaitTimesOut
        <3>1. ~abandoned
            BY <2>1, Zenon DEF WaitTimesOut
        <3>2. QED BY <3>1 DEF Inv, InStep
    <2>2. CASE ~WaitTimesOut
        BY <2>2 DEF Inv, InStep, Driver, Detect, DetectReady, WaitBsy, SendCommand, WaitDrq,
               TransferIn, TransferOut, SendFlush
    <2>3. QED BY <2>1, <2>2
<1>2. AtaTypeOK /\ calls \in Values /\ held \in Values \cup {Empty}
    BY DEF Inv, AtaTypeOK, Values
<1> USE DEF Attached, Between, Called, Asking, Transferring, Writing, Answered, Taken, Settled,
            Latest
<1>3. CASE Detect
    BY <1>1, <1>2, <1>3 DEF InStep, Detect, Goto, drive
<1>4. CASE DetectReady
    BY <1>1, <1>2, <1>4 DEF InStep, DetectReady, Goto, drive
<1>5. CASE WaitBsy
    BY <1>1, <1>2, <1>5 DEF InStep, WaitBsy, Polled, Return, Goto, drive, AtaTypeOK
<1>6. CASE WaitTimesOut
    <2>1. pc # "drq"
        BY <1>6, Zenon DEF WaitTimesOut
    <2>2. QED BY <1>1, <1>2, <1>6, <2>1 DEF InStep, WaitTimesOut, Return, drive
<1>7. CASE SendCommand
    <2>1. attached /\ ~status.bsy /\ ~status.drq /\ cmd = "none" /\ pc = "command"
          /\ op \in {"read", "write"}
        BY <1>1, <1>7 DEF SendCommand
    <2>2. cmd' = op /\ status'.bsy /\ ~status'.drq /\ UNCHANGED <<attached, held, medium, faulted>>
        BY <1>2, <1>7, <2>1 DEF SendCommand, Issue, Accepts, AtaTypeOK
    <2>3. QED BY <1>1, <1>7, <2>1, <2>2 DEF InStep, SendCommand, Goto
<1>8. CASE WaitDrq
    BY <1>1, <1>2, <1>8 DEF InStep, WaitDrq, Refused, DataReady, Polled, Return, Goto, drive
<1>9. CASE TransferIn
    <2>1. cmd = "read" /\ ~status.bsy /\ op = "read" /\ pc = "transfer"
        BY <1>1, <1>9 DEF TransferIn
    <2>2. ~status'.bsy /\ ~status'.drq /\ cmd' = "none" /\ buf' = Latest'
        BY <1>2, <1>9, <2>1 DEF TransferIn, AtaTypeOK
    <2>3. QED BY <1>1, <1>9, <2>1, <2>2 DEF InStep, TransferIn, Return
<1>10. CASE TransferOut
    <2>1. cmd = "write" /\ op = "write" /\ pc = "transfer"
        BY <1>1, <1>10 DEF TransferOut
    <2>2. held' = calls /\ cmd' = "store" /\ status'.bsy /\ ~status'.drq
        BY <1>2, <1>10, <2>1 DEF TransferOut, AtaTypeOK
    <2>3. Latest' = calls'
        BY <1>2, <1>10, <2>2, Marks DEF TransferOut
    <2>4. QED BY <1>1, <1>10, <2>1, <2>2, <2>3 DEF InStep, TransferOut, Goto
<1>11. CASE SendFlush
    <2>1. attached /\ ~status.bsy /\ ~status.drq /\ op = "write" /\ pc = "flush" /\ Taken
        BY <1>1, <1>11 DEF SendFlush
    <2>2. cmd' = "flush" /\ status'.bsy /\ ~status'.drq
          /\ UNCHANGED <<attached, held, medium, faulted>>
        BY <1>2, <1>11, <2>1 DEF SendFlush, Issue, Accepts, AtaTypeOK
    <2>3. QED BY <1>1, <1>11, <2>1, <2>2 DEF InStep, SendFlush, Goto
<1>12. QED
    BY <1>3, <1>4, <1>5, <1>6, <1>7, <1>8, <1>9, <1>10, <1>11 DEF Driver

(* A new call finds nothing under way. *)
LEMMA CallInStep ==
    ASSUME Inv, ~abandoned, NEW o \in {"read", "write"}, Call(o)
    PROVE  InStep'
BY DEF Inv, Call, Goto, drive, InStep, Attached, Between, Called, Asking, Transferring,
       Writing, Answered, Taken, Settled, Latest

(* Until the driver gives up waiting for DRQ, the driver and the drive     *)
(* agree on the phase of the command: ata_wait_bsy and ata_wait_drq are    *)
(* enough to keep the driver from sending or taking words the drive did    *)
(* not ask for, also after a write whose data the drive took too slowly.   *)
THEOREM StepByStep == AtaSpec => []InStep
<1>1. AtaInit => InStep
    BY DEF AtaInit, InStep, Attached, Between, Called, Asking, Transferring, Writing, Answered
<1>2. AtaTypeOK /\ InStep /\ [AtaNext]_ataVars => InStep'
    <2> SUFFICES ASSUME AtaTypeOK, InStep, [AtaNext]_ataVars, ~abandoned'
                 PROVE  InStep'
        BY DEF InStep
    <2>1. CASE Drive
        <3>1. ~abandoned
            BY <2>1 DEF Drive, SpinUp, AskTransfer, RefuseTransfer, TakeData, FlushDone, Answer
        <3>2. QED BY <2>1, <3>1, DriveInStep DEF Inv
    <2>2. CASE Driver
        BY <2>2, DriverInStep DEF Inv
    <2>3. CASE \E o \in {"read", "write"} : Call(o)
        BY <2>3, CallInStep DEF Inv, Call
    <2>4. CASE UNCHANGED ataVars
        BY <2>4 DEF ataVars, drive, driver, InStep, Attached, Between, Called, Asking,
           Transferring, Writing, Answered, Taken, Settled, Latest
    <2>5. QED BY <2>1, <2>2, <2>3, <2>4 DEF AtaNext
<1>3. QED BY <1>1, <1>2, AtaTypeCorrect, PTL DEF AtaSpec

(* ata_read returns true only with the sector in the caller's buffer,      *)
(* whatever timed out before, unless a command was given up in its wait    *)
(* for DRQ.                                                                *)
THEOREM ReadIsTrue == AtaSpec => []ReadTrueUntilAbandoned
<1>1. InStep => ReadTrueUntilAbandoned
    BY DEF InStep, Answered, ReadTrueUntilAbandoned, ReadTrueMeansRead
<1>2. QED BY <1>1, StepByStep, PTL

(* ata_write returns true only when the medium holds the sector, unless a  *)
(* command was given up in its wait for DRQ or the drive has failed a      *)
(* sector it had taken.                                                    *)
THEOREM WriteIsTrue == AtaSpec => []WriteTrueUntilFault
<1>1. InStep => WriteTrueUntilFault
    BY DEF InStep, Answered, Settled, WriteTrueUntilFault
<1>2. QED BY <1>1, StepByStep, PTL
=============================================================================

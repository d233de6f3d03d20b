---------------------------- MODULE EkeFs_proofs ----------------------------
(***************************************************************************)
(* Proofs about EkeFs: the free-block counter is exact, bitmap and table   *)
(* agree on every drive no recorded event has damaged, nothing leaks, a    *)
(* file is created whole or not at all, and the filesystem implements      *)
(* FileStore, for any number of drives of any size, any block and table    *)
(* sizes, files and names.                                                 *)
(***************************************************************************)
EXTENDS EkeFs, FiniteSetTheorems, WellFoundedInduction, TLAPS

-----------------------------------------------------------------------------
(* The bitmap operations of the block allocator that the filesystem calls. *)

\* Every non-empty set of block numbers has a least element, and Least is it.
LEMMA LeastInSet ==
  ASSUME NEW S \in SUBSET Nat, S # {}
  PROVE  Least(S) \in S /\ \A t \in S : Least(S) <= t
<1> DEFINE R == {ss \in Nat \X Nat : ss[1] < ss[2]}
<1>1. IsWellFoundedOn(R, Nat)
  BY NatLessThanWellFounded, Zenon DEF OpToRel
<1> HIDE DEF R
<1>3. PICK x \in S : \A y \in S : ~ (<<y, x>> \in R)
  BY <1>1, WFMin
<1>4. \A a, b \in Nat : ~ (<<a, b>> \in R) => b <= a
  BY DEF R
<1>2. \A y \in S : x <= y
  BY <1>3, <1>4
<1> QED
  BY <1>2 DEF Least

\* A contiguous allocation returns the start of a free run, or 0.
LEMMA ContiguousStartSpec ==
  ASSUME NEW bm, NEW total \in Nat, NEW free, NEW count \in Nat,
         ContiguousStart(bm, total, free, count) # 0
  PROVE  /\ ContiguousStart(bm, total, free, count) \in FreeRuns(bm, total, count)
         /\ count > 0
<1>1. FreeRuns(bm, total, count) # {} /\ count # 0
  BY DEF ContiguousStart
<1>2. FreeRuns(bm, total, count) \in SUBSET Nat
  BY DEF FreeRuns
<1>3. ContiguousStart(bm, total, free, count) = Least(FreeRuns(bm, total, count))
  BY <1>1 DEF ContiguousStart
<1>4. Least(FreeRuns(bm, total, count)) \in FreeRuns(bm, total, count)
  BY <1>1, <1>2, LeastInSet
<1> QED
  BY <1>1, <1>3, <1>4

\* Taking free blocks lowers the count of clear bits by their number.
LEMMA CountAfterTaking ==
  ASSUME NEW bm, NEW total \in Nat, NEW T \in SUBSET (Blocks(total) \ bm)
  PROVE  /\ CountFree(bm \cup T, total) = CountFree(bm, total) - Cardinality(T)
         /\ CountFree(bm, total) \in Nat /\ CountFree(bm \cup T, total) \in Nat
         /\ Cardinality(T) \in Nat
<1> DEFINE S == Blocks(total) \ bm
<1>1. IsFiniteSet(Blocks(total))
  BY FS_Interval DEF Blocks
<1>2. IsFiniteSet(S)
  BY <1>1, FS_Subset
<1>3. Blocks(total) \ (bm \cup T) = S \ T /\ S \cap T = T
  OBVIOUS
<1>4. Cardinality(S \ T) = Cardinality(S) - Cardinality(S \cap T) /\ IsFiniteSet(S \ T)
  BY <1>2, FS_Difference
<1>5. IsFiniteSet(T)
  BY <1>2, FS_Subset
<1>6. Cardinality(S) \in Nat /\ Cardinality(T) \in Nat /\ Cardinality(S \ T) \in Nat
  BY <1>2, <1>4, <1>5, FS_CardinalityType
<1> QED
  BY <1>3, <1>4, <1>6 DEF CountFree

\* Releasing used blocks raises the count of clear bits by their number.
LEMMA CountAfterReleasing ==
  ASSUME NEW bm, NEW total \in Nat, NEW T \in SUBSET (Blocks(total) \cap bm)
  PROVE  /\ CountFree(bm \ T, total) = CountFree(bm, total) + Cardinality(T)
         /\ CountFree(bm, total) \in Nat /\ Cardinality(T) \in Nat
<1> DEFINE B == bm \ T
<1>1. T \in SUBSET (Blocks(total) \ B) /\ B \cup T = bm
  OBVIOUS
<1> HIDE DEF B
<1>2. CountFree(B \cup T, total) = CountFree(B, total) - Cardinality(T)
      /\ CountFree(B, total) \in Nat /\ CountFree(B \cup T, total) \in Nat /\ Cardinality(T) \in Nat
  <2>1. T \in SUBSET (Blocks(total) \ B)
    BY <1>1
  <2> QED
    BY <2>1, CountAfterTaking, ZenonT(30)
<1> QED
  BY <1>1, <1>2 DEF B

-----------------------------------------------------------------------------
\* The blocks whose bits lie in the sectors of the bitmap of drive d.
Covered(d) == {b \in Nat : b \div BitsPerSector < BitmapSectors(d)}

\* The bitmap of every drive has a bit for each block: so it is when the number
\* of sectors is a multiple of 8.
BitmapsCover == \A d \in Drives : DriveBlocks(d) \subseteq Covered(d)

\* Nothing interrupts a write or takes its page away.
Undisturbed == ~PowerFailures /\ ~PageFailures

MountOps == [kind : {"mount"}, drive : Drives, again : BOOLEAN, formatted : BOOLEAN]
WriteOps == [kind : {"create", "overwrite"}, name : Names, val : Vals, bytes : ByteSizes,
             start : Nat, slot : Slots]
DeleteOps == [kind : {"delete"}, name : Names]

FilePoints == {"data", "flush_bm", "flush_ft"}

\* The locals of the running operation, and what a loaded table comes with.
Shape ==
  /\ pc \in {"mount", "load"} \cup FormatPoints => op \in MountOps
  /\ pc = "data" => op \in WriteOps
  /\ pc \in {"flush_bm", "flush_ft"} => op \in WriteOps \cup DeleteOps
  /\ pc \in FilePoints =>
       active_dev \in Drives /\ file_table \in Tables /\ bitmap_buf \in SUBSET Nat
  /\ file_table # NotLoaded => bitmap_buf \in SUBSET Nat
  /\ sb_ok => active_dev \in Drives /\ file_table \in Tables /\ bitmap_buf \in SUBSET Nat
  /\ active_dev # NoDrive => sb_ok \/ ram_bad
  /\ pc = "off" => active_dev = NoDrive
  /\ pc = "data" => sb_ok /\ op.start + BlocksFor(op.bytes) <= Total

\* The bitmap of d belongs to files and metadata only.
Owned(table, bm, d) ==
  bm \cap DriveBlocks(d) \subseteq MetaBlocks(d) \cup UNION {Claims(table[s]) : s \in Slots}

Formatting(d) == pc \in {"fmt_bm", "fmt_ft"} /\ op.drive = d

\* The bitmap of d has been flushed and its table not yet.
HalfFlushed(d) == pc = "flush_ft" /\ active_dev = d

\* What is on a drive that no event has spoiled, at every step.
DriveGood(d) ==
  /\ disk[d].bm \subseteq DriveBlocks(d)
  /\ ~disk[d].magic \/ Formatting(d) => disk[d].bm = {}
  /\ disk[d].magic /\ ~Formatting(d) /\ ~(HalfFlushed(d) /\ op.kind # "create")
       => Consistent(disk[d].ft, disk[d].bm, d)
  /\ Undisturbed /\ disk[d].magic /\ ~Formatting(d) /\ ~HalfFlushed(d)
       => Owned(disk[d].ft, disk[d].bm, d)

DrivesGood ==
  /\ \A d \in Drives \ spoiled : DriveGood(d)
  /\ pc = "fmt_sb" => ~disk[op.drive].magic
  /\ pc = "flush_ft" \/ (pc = "flush_bm" /\ op.kind # "delete")
       => (ram_bad => active_dev \in spoiled)

\* The bitmap in RAM, with a table it is going to belong to.
BitmapGood(table, bm, d) ==
  /\ bm \cap Covered(d) \subseteq DriveBlocks(d)
  /\ MetaBlocks(d) \subseteq bm
  /\ Consistent(table, bm, d)
  /\ Undisturbed => Owned(table, bm, d)

Trustworthy == active_dev \notin spoiled \cup {NoDrive} /\ ~ram_bad

\* What is in RAM is good when the next command may use it: between commands, and
\* when a mount may still fail and leave it.
RamGood ==
  Trustworthy /\ (pc = "idle" \/ (pc = "mount" /\ op.drive \in Faulty)) =>
    /\ disk[active_dev].magic
    /\ file_table = disk[active_dev].ft
    /\ BitmapGood(file_table, bitmap_buf, active_dev)

WriteGood ==
  Trustworthy =>
    /\ pc \in FilePoints => disk[active_dev].magic
    /\ pc = "data" =>
         /\ file_table = disk[active_dev].ft
         /\ op.kind = "create" => file_table[op.slot] = Unused
         /\ BitmapGood([file_table EXCEPT ![op.slot] = NewEntry], bitmap_buf, active_dev)
    /\ pc \in {"flush_bm", "flush_ft"} =>
         /\ BitmapGood(file_table, bitmap_buf, active_dev)
         /\ op.kind = "create" =>
              \A s \in Slots : disk[active_dev].ft[s] \in {file_table[s], Unused}
    /\ pc = "flush_ft" => disk[active_dev].bm = bitmap_buf \cap Covered(active_dev)

\* The file that a create is writing: in RAM it is in no table, then in the one of
\* its slot, and on the drive in none before its data are there.
UnderCreation ==
  /\ pc = "data" => Matches(file_table, op.name) = {} /\ file_table[op.slot] = Unused
  /\ pc \in {"flush_bm", "flush_ft"} =>
       /\ file_table[op.slot] = NewEntry
       /\ \A s \in Slots \ {op.slot} :
            disk[active_dev].ft[s] = file_table[s] /\ s \notin Matches(file_table, op.name)
       /\ disk[active_dev].ft[op.slot] = Unused
       /\ \A b \in BlockRun(op.start, BlocksFor(op.bytes)) :
            b \in DriveBlocks(active_dev) /\ disk[active_dev].data[b] = op.val

\* Where no transfer fails, RAM and drive hold the same table between operations,
\* RAM disks excepted, whose driver may fail to start again.
CreateInv ==
  /\ pc \in {"load", "fmt_bm", "fmt_ft"} => disk[op.drive].magic
  /\ active_dev # NoDrive => sb_ok
  /\ pc \in {"idle", "off"} => op = NoOp
  /\ active_dev \notin Volatile \cup {NoDrive} /\ pc \in {"idle", "data"} =>
       file_table = disk[active_dev].ft
  /\ op.kind = "create" /\ active_dev \notin Volatile => UnderCreation

-----------------------------------------------------------------------------
(* The layout and the transfers.                                           *)

\* The sizes that eke_fs_format computes are natural numbers, and the metadata
\* lie on the drive.
LEMMA Layout ==
  ASSUME NEW d \in Drives
  PROVE  /\ TotalSectors[d] \in Nat /\ BitmapSectors(d) \in Nat
         /\ DataStart(d) \in Nat \ {0} /\ DataStart(d) <= TotalSectors[d]
         /\ MetaBlocks(d) \subseteq DriveBlocks(d) /\ 0 \in MetaBlocks(d)
<1>1. TotalSectors[d] \in Nat /\ SectorSize \in Nat \ {0} /\ BitsPerByte \in Nat \ {0}
      /\ TableSectors \in Nat
  BY EkeFsAssumption
<1>2. TotalSectors[d] \div BitsPerByte \in Nat
  BY <1>1
<1>3. BitmapSectors(d) \in Nat
  <2>1. \A n \in Nat : (n + SectorSize - 1) \div SectorSize \in Nat
    BY <1>1
  <2> QED
    BY <1>2, <2>1 DEF BitmapSectors
<1>4. DataStart(d) \in Nat \ {0} /\ DataStart(d) <= TotalSectors[d]
  BY <1>1, <1>3, LayoutFits DEF DataStart
<1> QED
  BY <1>1, <1>3, <1>4 DEF MetaBlocks, DriveBlocks, Blocks

\* The number of blocks of a file is a natural number.
LEMMA BlocksForNat ==
  ASSUME NEW z \in Nat
  PROVE  BlocksFor(z) \in Nat
BY EkeFsAssumption DEF BlocksFor

\* A transfer of m sectors moves at most m, and all of them on a sound drive.
LEMMA MovedSpec ==
  ASSUME NEW d, NEW m \in Nat, NEW k \in Moved(d, m)
  PROVE  k \in Nat /\ k <= m /\ (d \notin Faulty => k = m)
BY DEF Moved

LEMMA WriteLengthNat ==
  ASSUME Types, Shape, pc \in WritePoints
  PROVE  WriteLength \in Nat
<1>1. pc = "fmt_bm" => op.drive \in Drives
  BY DEF Shape, FormatPoints, MountOps
<1>2. pc = "data" => op.bytes \in Nat
  BY EkeFsAssumption DEF Shape, WriteOps
<1>3. sb_ok => active_dev \in Drives
  BY DEF Shape
<1> QED
  BY <1>1, <1>2, <1>3, Layout, BlocksForNat, EkeFsAssumption DEF WriteLength

\* Block numbers of a drive have their bits in sectors with a number.
LEMMA SectorOfBlock ==
  ASSUME NEW b \in Nat
  PROVE  b \div BitsPerSector \in Nat
<1>1. BitsPerSector \in Nat \ {0}
  BY EkeFsAssumption DEF BitsPerSector
<1> QED
  BY <1>1

\* A position before the end of c groups of e lies in one of them.
LEMMA DivBelow ==
  ASSUME NEW a \in Nat, NEW c \in Nat, NEW e \in Nat \ {0}, a < c * e
  PROVE  a \div e \in Nat /\ a \div e < c
OBVIOUS

\* Every entry lies in a sector of the table.
LEMMA SectorOfSlot ==
  ASSUME NEW s \in Slots
  PROVE  /\ (s - 1) \div EntriesPerSector \in Nat
         /\ (s - 1) \div EntriesPerSector < TableSectors
<1>1. EntriesPerSector \in Nat \ {0} /\ TableSectors \in Nat
  BY EkeFsAssumption
<1>2. s - 1 \in Nat /\ s - 1 < TableSectors * EntriesPerSector
  BY <1>1 DEF Slots
<1> QED
  BY <1>1, <1>2, DivBelow

\* A drive whose number of sectors is a multiple of the bits of a byte has a bit
\* for every block in its bitmap.
LEMMA WholeBytesCover ==
  ASSUME NEW d \in Drives, TotalSectors[d] % BitsPerByte = 0
  PROVE  DriveBlocks(d) \subseteq Covered(d)
<1> DEFINE n == TotalSectors[d] \div BitsPerByte
           m == (n + SectorSize - 1) \div SectorSize
<1>1. TotalSectors[d] \in Nat /\ SectorSize \in Nat \ {0} /\ BitsPerByte \in Nat \ {0}
  BY EkeFsAssumption
<1>2. n \in Nat /\ TotalSectors[d] = n * BitsPerByte
  <2>1. \A a \in Nat, e \in Nat \ {0} : a \div e \in Nat /\ a = (a \div e) * e + (a % e)
    OBVIOUS
  <2> QED
    BY <1>1, <2>1, SMTT(30)
<1>3. m \in Nat /\ n <= m * SectorSize
  <2>1. \A a \in Nat, e \in Nat \ {0} :
          (a + e - 1) \div e \in Nat /\ a <= ((a + e - 1) \div e) * e
    OBVIOUS
  <2> QED
    BY <1>1, <1>2, <2>1
<1>4. BitmapSectors(d) = m
  BY DEF BitmapSectors
<1> HIDE DEF n, m
<1>5. n * BitsPerByte <= m * BitsPerSector
  <2>1. \A a, c, e, z \in Nat : a <= c * z => a * e <= c * (e * z)
    OBVIOUS
  <2> QED
    BY <1>1, <1>2, <1>3, <2>1 DEF BitsPerSector
<1>6. BitsPerSector \in Nat \ {0}
  BY <1>1 DEF BitsPerSector
<1>7. SUFFICES ASSUME NEW b \in DriveBlocks(d) PROVE b \in Covered(d)
  OBVIOUS
<1>8. b \in Nat /\ b < n * BitsPerByte
  BY <1>1, <1>2 DEF DriveBlocks, Blocks
<1>9. b < m * BitsPerSector
  BY <1>1, <1>2, <1>3, <1>5, <1>6, <1>8
<1> QED
  BY <1>3, <1>4, <1>6, <1>8, <1>9, DivBelow DEF Covered

-----------------------------------------------------------------------------
(* What a drive holds after a transfer.                                    *)

\* The table after k sectors: each entry is the old or the new one.
LEMMA TablePartSpec ==
  ASSUME NEW old \in Tables, NEW new \in Tables, NEW k
  PROVE  /\ TablePart(old, new, k) \in Tables
         /\ \A s \in Slots : TablePart(old, new, k)[s] \in {old[s], new[s]}
         /\ k = TableSectors => TablePart(old, new, k) = new
<1>1. TablePart(old, new, k) \in Tables
  BY DEF TablePart, Tables
<1>2. \A s \in Slots : TablePart(old, new, k)[s] \in {old[s], new[s]}
  BY DEF TablePart
<1>3. ASSUME k = TableSectors PROVE TablePart(old, new, k) = new
  <2>1. \A s \in Slots : TablePart(old, new, k)[s] = new[s]
    BY <1>3, SectorOfSlot DEF TablePart
  <2> QED
    BY <1>1, <2>1 DEF Tables
<1> QED
  BY <1>1, <1>2, <1>3

\* The bitmap after k sectors.
LEMMA BitmapPartSpec ==
  ASSUME NEW old \in SUBSET Nat, NEW new \in SUBSET Nat, NEW k \in Nat
  PROVE  /\ BitmapPart(old, new, k) \in SUBSET Nat
         /\ BitmapPart(old, new, k) \subseteq old \cup new
         /\ old \cap new \subseteq BitmapPart(old, new, k)
         /\ k = 0 => BitmapPart(old, new, k) = old
<1>1. \A b \in Nat : b \div BitsPerSector \in Nat
  BY SectorOfBlock
<1>2. \A b \in Nat : b \div BitsPerSector < k \/ b \div BitsPerSector >= k
  BY <1>1
<1>3. ~ \E b \in Nat : b \div BitsPerSector < 0
  BY <1>1
<1>4. \A b \in Nat : b \div BitsPerSector >= 0
  BY <1>1
<1> QED
  BY <1>2, <1>3, <1>4 DEF BitmapPart

\* A bitmap written whole replaces the bits of its sectors.
LEMMA BitmapPartWhole ==
  ASSUME NEW d \in Drives, NEW old \in SUBSET Nat, NEW new \in SUBSET Nat,
         NEW k \in Nat, k <= BitmapSectors(d)
  PROVE  /\ BitmapPart(old, new, k) \subseteq old \cup (new \cap Covered(d))
         /\ k = BitmapSectors(d) =>
              /\ BitmapPart(old, new, k) \cap Covered(d) = new \cap Covered(d)
              /\ old \subseteq Covered(d) => BitmapPart(old, new, k) = new \cap Covered(d)
<1>1. BitmapSectors(d) \in Nat
  BY Layout
<1>2. \A b \in Nat : b \div BitsPerSector \in Nat
  BY SectorOfBlock
<1>3. \A b \in Nat : b \div BitsPerSector < k => b \in Covered(d)
  BY <1>1, <1>2 DEF Covered
<1>4. BitmapPart(old, new, k) \subseteq old \cup (new \cap Covered(d))
  BY <1>3 DEF BitmapPart
<1>5. ASSUME k = BitmapSectors(d)
      PROVE  \A b \in Nat : /\ b \div BitsPerSector < k <=> b \in Covered(d)
                            /\ b \div BitsPerSector >= k <=> b \notin Covered(d)
  BY <1>1, <1>2, <1>5 DEF Covered
<1> QED
  BY <1>4, <1>5 DEF BitmapPart

LEMMA WrittenSpec ==
  ASSUME Types, Shape, pc \in WritePoints, NEW d \in Drives, NEW k \in Nat
  PROVE  /\ Written(disk[d], k) \in DriveContents(d)
         /\ Written(disk[d], k).magic =
              IF pc = "fmt_sb" THEN disk[d].magic \/ k = 1 ELSE disk[d].magic
         /\ Written(disk[d], k).bm =
              IF pc = "fmt_bm" THEN BitmapPart(disk[d].bm, {}, k)
              ELSE IF pc = "flush_bm" THEN BitmapPart(disk[d].bm, bitmap_buf, k)
              ELSE disk[d].bm
         /\ Written(disk[d], k).ft =
              IF pc = "fmt_ft" THEN TablePart(disk[d].ft, EmptyTable, k)
              ELSE IF pc = "flush_ft" THEN TablePart(disk[d].ft, file_table, k)
              ELSE disk[d].ft
         /\ Written(disk[d], k).data =
              IF pc = "data" THEN DataPart(disk[d].data, op.start, op.val, k)
              ELSE disk[d].data
<1> DEFINE x == disk[d]
<1>0. x \in DriveContents(d)
  BY DEF Types
<1>t. EmptyTable \in Tables
  BY EkeFsAssumption
<1>1. CASE pc = "fmt_sb"
  BY <1>0, <1>1 DEF Written, DriveContents
<1>2. CASE pc = "fmt_bm"
  <2>1. BitmapPart(x.bm, {}, k) \in SUBSET Nat
    BY <1>0, BitmapPartSpec DEF DriveContents
  <2> QED
    BY <1>0, <1>2, <2>1 DEF Written, DriveContents
<1>3. CASE pc = "fmt_ft"
  <2>1. TablePart(x.ft, EmptyTable, k) \in Tables
    BY <1>0, <1>t, TablePartSpec DEF DriveContents
  <2> QED
    BY <1>0, <1>3, <2>1 DEF Written, DriveContents
<1>4. CASE pc = "data"
  <2>1. op.val \in Vals
    BY <1>4 DEF Shape, WriteOps
  <2>2. DataPart(x.data, op.start, op.val, k) \in [DriveBlocks(d) -> Vals \cup {Blank}]
    BY <1>0, <2>1 DEF DataPart, DriveContents
  <2> QED
    BY <1>0, <1>4, <2>2 DEF Written, DriveContents
<1>5. CASE pc = "flush_bm"
  <2>1. bitmap_buf \in SUBSET Nat
    BY <1>5 DEF Shape, FilePoints
  <2>2. BitmapPart(x.bm, bitmap_buf, k) \in SUBSET Nat
    BY <1>0, <2>1, BitmapPartSpec DEF DriveContents
  <2> QED
    BY <1>0, <1>5, <2>2 DEF Written, DriveContents
<1>6. CASE pc = "flush_ft"
  <2>1. file_table \in Tables
    BY <1>6 DEF Shape, FilePoints
  <2>2. TablePart(x.ft, file_table, k) \in Tables
    BY <1>0, <2>1, TablePartSpec DEF DriveContents
  <2> QED
    BY <1>0, <1>6, <2>2 DEF Written, DriveContents
<1> QED
  BY <1>1, <1>2, <1>3, <1>4, <1>5, <1>6 DEF WritePoints, FormatPoints
-----------------------------------------------------------------------------
(* The blocks a write or a delete frees, and the ones it takes.            *)

\* Only marked blocks of the mounted drive are freed, and only those of the
\* old version.
LEMMA OldBlocksSpec ==
  ASSUME Types, Shape, NEW n
  PROVE  /\ OldBlocks(n) \in SUBSET (Blocks(Total) \cap bitmap_buf)
         /\ Total \in Nat /\ Cardinality(OldBlocks(n)) \in Nat
         /\ ~sb_ok => OldBlocks(n) = {} /\ Cardinality(OldBlocks(n)) = 0
<1>1. Total \in Nat /\ (~sb_ok => Total = 0)
  BY EkeFsAssumption DEF Total, Shape
<1>2. \A a, c : FreedBy(bitmap_buf, Total, a, c) \in SUBSET (Blocks(Total) \cap bitmap_buf)
  BY <1>1 DEF FreedBy, Blocks
<1>3. OldBlocks(n) \in SUBSET (Blocks(Total) \cap bitmap_buf)
  BY <1>2 DEF OldBlocks
<1>4. IsFiniteSet(Blocks(Total))
  BY <1>1, FS_Interval DEF Blocks
<1>5. Cardinality(OldBlocks(n)) \in Nat
  BY <1>3, <1>4, FS_Subset, FS_CardinalityType
<1>6. ~sb_ok => OldBlocks(n) = {}
  BY <1>1, <1>3 DEF Blocks
<1> QED
  BY <1>1, <1>3, <1>5, <1>6, FS_EmptySet

\* The run a write takes lies on the mounted drive, behind block 0, and all its
\* blocks are free once the old version's are.
LEMMA NewRunSpec ==
  ASSUME Types, Shape, NEW n, NEW z \in ByteSizes, NewStart(n, z) # 0
  PROVE  /\ sb_ok
         /\ NewStart(n, z) \in Nat \ {0} /\ BlocksFor(z) \in Nat
         /\ NewStart(n, z) + BlocksFor(z) <= Total
         /\ BlockRun(NewStart(n, z), BlocksFor(z)) \in SUBSET Blocks(Total)
         /\ BlockRun(NewStart(n, z), BlocksFor(z)) \cap (bitmap_buf \ OldBlocks(n)) = {}
         /\ Cardinality(BlockRun(NewStart(n, z), BlocksFor(z))) = BlocksFor(z)
<1> DEFINE old == OldBlocks(n)
           free == free_blocks + Cardinality(old)
           a == NewStart(n, z)
           c == BlocksFor(z)
<1>1. Total \in Nat
  BY OldBlocksSpec
<1>2. c \in Nat
  BY BlocksForNat, EkeFsAssumption
<1>3. a = ContiguousStart(bitmap_buf \ old, Total, free, c)
  BY DEF NewStart
<1>4. a \in FreeRuns(bitmap_buf \ old, Total, c)
  BY <1>1, <1>2, <1>3, ContiguousStartSpec
<1>5. a \in 1..(Total - 1) /\ a + c <= Total /\ BlockRun(a, c) \cap (bitmap_buf \ old) = {}
  BY <1>4 DEF FreeRuns
<1> HIDE DEF a, c, old
<1>6. sb_ok
  BY <1>1, <1>5 DEF Total
<1>7. a \in Nat \ {0} /\ BlockRun(a, c) \in SUBSET Blocks(Total)
  BY <1>1, <1>2, <1>5 DEF BlockRun, Blocks
<1>8. Cardinality(BlockRun(a, c)) = c
  <2>1. Cardinality(a..(a + c - 1)) = IF a > a + c - 1 THEN 0 ELSE (a + c - 1) - a + 1
    BY <1>2, <1>7, FS_Interval
  <2> QED
    BY <1>2, <1>7, <2>1 DEF BlockRun
<1> QED
  BY <1>2, <1>5, <1>6, <1>7, <1>8 DEF a, c, old

\* The counter stays that of the bitmap when the old version's blocks are freed.
LEMMA CountFreed ==
  ASSUME Types, Shape, FreeCountExact, NEW n
  PROVE  /\ free_blocks + Cardinality(OldBlocks(n)) \in Nat
         /\ sb_ok => free_blocks + Cardinality(OldBlocks(n))
                       = CountFree(bitmap_buf \ OldBlocks(n), Total)
<1>1. OldBlocks(n) \in SUBSET (Blocks(Total) \cap bitmap_buf) /\ Total \in Nat
      /\ Cardinality(OldBlocks(n)) \in Nat
  BY OldBlocksSpec
<1>2. free_blocks \in Nat
  BY DEF Types
<1>3. CountFree(bitmap_buf \ OldBlocks(n), Total)
        = CountFree(bitmap_buf, Total) + Cardinality(OldBlocks(n))
  BY <1>1, CountAfterReleasing
<1> QED
  BY <1>1, <1>2, <1>3 DEF FreeCountExact

\* And when the new version's are taken.
LEMMA CountPlaced ==
  ASSUME Types, Shape, FreeCountExact, NEW n, NEW z \in ByteSizes, NewStart(n, z) # 0
  PROVE  /\ (free_blocks + Cardinality(OldBlocks(n))) - BlocksFor(z) \in Nat
         /\ (free_blocks + Cardinality(OldBlocks(n))) - BlocksFor(z)
              = CountFree(Placed(n, z), Total)
<1> DEFINE old == OldBlocks(n)
           c == BlocksFor(z)
           run == BlockRun(NewStart(n, z), c)
           left == bitmap_buf \ old
<1>1. sb_ok /\ run \in SUBSET Blocks(Total) /\ run \cap left = {} /\ Cardinality(run) = c
  BY NewRunSpec
<1>2. Total \in Nat
  BY OldBlocksSpec
<1>3. free_blocks + Cardinality(old) = CountFree(left, Total)
  BY <1>1, CountFreed
<1>4. Placed(n, z) = left \cup run
  BY DEF Placed
<1> HIDE DEF old, c, run, left
<1>5. run \in SUBSET (Blocks(Total) \ left)
  BY <1>1
<1>6. CountFree(left \cup run, Total) = CountFree(left, Total) - Cardinality(run)
      /\ CountFree(left \cup run, Total) \in Nat
  BY <1>2, <1>5, CountAfterTaking
<1>7. (free_blocks + Cardinality(old)) - c = CountFree(left \cup run, Total)
  BY <1>1, <1>3, <1>6
<1>8. (free_blocks + Cardinality(old)) - c = CountFree(Placed(n, z), Total)
      /\ (free_blocks + Cardinality(old)) - c \in Nat
  BY <1>4, <1>6, <1>7
<1> QED
  BY <1>8 DEF old, c

\* The slot written to is one of the candidates.
LEMMA LeastSlot ==
  ASSUME NEW S \in SUBSET Slots, S # {}
  PROVE  Least(S) \in S
BY LeastInSet DEF Slots

-----------------------------------------------------------------------------
(* Types, locals and the free-block counter.                               *)

\* The drives after a transfer to one of them.
LEMMA Transfer ==
  ASSUME Types, Shape, pc \in WritePoints, NEW t \in Drives, NEW k \in Nat,
         disk' = [disk EXCEPT ![t] = Written(@, k)]
  PROVE  /\ disk' = [d \in Drives |-> disk'[d]]
         /\ \A d \in Drives : disk'[d] \in DriveContents(d)
         /\ disk'[t] = Written(disk[t], k)
         /\ \A d \in Drives : d # t => disk'[d] = disk[d]
<1>1. disk = [d \in Drives |-> disk[d]] /\ \A d \in Drives : disk[d] \in DriveContents(d)
  BY DEF Types
<1>2. Written(disk[t], k) \in DriveContents(t)
  BY WrittenSpec
<1>3. /\ disk' = [d \in Drives |-> disk'[d]]
      /\ disk'[t] = Written(disk[t], k)
      /\ \A d \in Drives : d # t => disk'[d] = disk[d]
  BY <1>1
<1> QED
  BY <1>1, <1>2, <1>3

\* The drive and the sectors of the write under way.
LEMMA TargetSpec ==
  ASSUME Types, Shape, pc \in WritePoints
  PROVE  /\ WriteTarget \in Drives /\ WriteLength \in Nat
         /\ \A k \in Moved(WriteTarget, WriteLength) : k \in Nat /\ k <= WriteLength
         /\ pc \in FormatPoints => WriteTarget = op.drive
         /\ pc \notin FormatPoints => WriteTarget = active_dev /\ pc \in FilePoints
<1>1. WriteTarget \in Drives
  BY DEF Shape, WriteTarget, WritePoints, FilePoints, MountOps
<1> QED
  BY <1>1, WriteLengthNat, MovedSpec DEF WriteTarget, WritePoints, FilePoints

LEMMA BlankType ==
  ASSUME NEW d \in Drives, NEW t \in Tables
  PROVE  BlankDrive(d, t) \in DriveContents(d)
BY DEF BlankDrive, DriveContents

Base == Types /\ Shape /\ FreeCountExact

LEMMA InitBase == Init => Base
<1> SUFFICES ASSUME Init PROVE Base
  OBVIOUS
<1>1. PICK t \in [Drives -> OldTables] :
        disk = [d \in Drives |-> BlankDrive(d, IF d \in Volatile THEN EmptyTable ELSE t[d])]
  BY DEF Init
<1>2. disk = [d \in Drives |-> disk[d]] /\ \A d \in Drives : disk[d] \in DriveContents(d)
  BY <1>1, BlankType, EkeFsAssumption
<1>3. Types
  <2>1. /\ current_disk \in Drives /\ active_dev \in Drives \cup {NoDrive}
        /\ bitmap_buf \in (SUBSET Nat) \cup {NotLoaded} /\ file_table \in Tables \cup {NotLoaded}
        /\ free_blocks \in Nat /\ bitmap_room \in Nat /\ spoiled \subseteq Drives
        /\ pc \in {"off", "mount", "load", "idle"} \cup WritePoints
    BY EkeFsAssumption DEF Init
  <2>2. sb_ok \in BOOLEAN /\ ram_bad \in BOOLEAN
    BY DEF Init
  <2> QED
    BY <1>2, <2>1, <2>2 DEF Types
<1>4. Shape /\ FreeCountExact
  BY EkeFsAssumption DEF Init, Shape, FreeCountExact, FormatPoints, FilePoints
<1> QED
  BY <1>3, <1>4 DEF Base

\* A step that leaves RAM alone keeps the counter.
LEMMA CountKept ==
  ASSUME FreeCountExact, UNCHANGED <<active_dev, sb_ok, bitmap_buf, free_blocks>>
  PROVE  FreeCountExact'
BY DEF FreeCountExact, Total, CountFree, Blocks

\* What StartMount and EndMount leave in pc and op.
LEMMA MountTargets ==
  ASSUME NEW d \in Drives, NEW again \in BOOLEAN, StartMount(d, again)
  PROVE  pc' = "mount" /\ op' \in MountOps /\ op'.drive = d
BY DEF StartMount, MountOps

LEMMA EndMountSpec ==
  ASSUME op \in MountOps, EndMount
  PROVE  \/ pc' = "idle" /\ op' = NoOp
         \/ pc' = "mount" /\ op' \in MountOps /\ op'.drive = op.drive
<1>1. op.drive \in Drives
  BY DEF MountOps
<1> QED
  BY <1>1, MountTargets DEF EndMount

LEMMA MountingBase ==
  ASSUME Base,
         Boot \/ MountReadFails \/ MountUnformatted \/ MountFormatted \/ LoadFsModule
           \/ \E d \in Drives : DriveCommand(d)
  PROVE  Base'
<1> USE DEF Base
<1>0. UNCHANGED <<disk, ram, ram_bad, spoiled>> /\ current_disk' \in Drives
  BY DEF Types, Boot, MountReadFails, MountUnformatted, MountFormatted, LoadFsModule, DriveCommand,
         ChangeDrive
<1>1. \/ pc' = "idle"
      \/ pc' \in {"mount", "load", "fmt_sb"} /\ op' \in MountOps
  <2>1. CASE Boot
    BY <2>1, MountTargets, EkeFsAssumption DEF Boot
  <2>2. CASE MountReadFails
    BY <2>2, EndMountSpec DEF MountReadFails, Shape
  <2>3. CASE MountUnformatted
    BY <2>3 DEF MountUnformatted, Shape, MountOps
  <2>4. CASE MountFormatted
    BY <2>4 DEF MountFormatted, Shape
  <2>5. CASE LoadFsModule
    BY <2>5, MountTargets DEF LoadFsModule, Types
  <2>6. CASE \E d \in Drives : DriveCommand(d)
    BY <2>6, MountTargets DEF DriveCommand
  <2> QED
    BY <2>1, <2>2, <2>3, <2>4, <2>5, <2>6
<1>2. Types'
  BY <1>0, <1>1 DEF Types, ram, WritePoints, FormatPoints
<1>3. Shape'
  BY <1>0, <1>1 DEF Shape, ram, FilePoints, FormatPoints, Types
<1>4. FreeCountExact'
  BY <1>0, CountKept DEF ram
<1> QED
  BY <1>2, <1>3, <1>4

\* A format's write arrives whole, or in part on a drive that counts as spoiled;
\* files' data stay as they are.
LEMMA FormatSpec ==
  ASSUME Types, Shape, Format
  PROVE  LET t == op.drive IN
         /\ pc \in FormatPoints /\ pc \in WritePoints /\ t \in Drives /\ op \in MountOps
         /\ disk' = [d \in Drives |-> disk'[d]]
         /\ \A d \in Drives : disk'[d] \in DriveContents(d)
         /\ \A d \in Drives : d # t => disk'[d] = disk[d]
         /\ \/ /\ disk'[t] = Written(disk[t], WriteLength) /\ WriteLength \in Nat
               /\ spoiled' = spoiled
            \/ t \in Faulty /\ spoiled' = spoiled \cup {t}
<1> DEFINE t == op.drive
           x == disk[t]
<1>1. pc \in FormatPoints /\ pc \in WritePoints /\ t \in Drives /\ op \in MountOps
      /\ WriteLength \in Nat
  BY TargetSpec DEF Format, Shape, WritePoints, MountOps
<1>2. disk = [d \in Drives |-> disk[d]] /\ x \in DriveContents(t) /\ EmptyTable \in Tables
  BY <1>1, EkeFsAssumption DEF Types
<1>3. CASE disk' = [disk EXCEPT ![t] = Written(@, WriteLength)] /\ UNCHANGED spoiled
  BY <1>1, <1>3, Transfer
<1>4. CASE /\ t \in Faulty
           /\ \E S \in SUBSET (0..(WriteLength - 1)) : disk' = [disk EXCEPT ![t] = PartlyCleared(@, S)]
           /\ spoiled' = spoiled \cup {t}
  <2>1. PICK S \in SUBSET (0..(WriteLength - 1)) : disk' = [disk EXCEPT ![t] = PartlyCleared(@, S)]
    BY <1>4
  <2>2. PartlyCleared(x, S) \in DriveContents(t)
    <3>1. CASE pc = "fmt_sb"
      BY <1>2, <3>1 DEF PartlyCleared
    <3>2. CASE pc = "fmt_bm"
      BY <1>2, <3>2 DEF PartlyCleared, DriveContents
    <3>3. CASE pc = "fmt_ft"
      <4>1. [s \in Slots |-> IF (s - 1) \div EntriesPerSector \in S
                              THEN EmptyTable[s] ELSE x.ft[s]] \in Tables
        BY <1>2 DEF DriveContents, Tables
      <4> QED
        BY <1>2, <3>3, <4>1 DEF PartlyCleared, DriveContents
    <3> QED
      BY <1>1, <3>1, <3>2, <3>3 DEF FormatPoints
  <2>3. /\ disk' = [d \in Drives |-> disk'[d]]
        /\ disk'[t] = PartlyCleared(x, S)
        /\ \A d \in Drives : d # t => disk'[d] = disk[d]
    BY <1>1, <1>2, <2>1
  <2>4. \A d \in Drives : disk'[d] \in DriveContents(d)
    BY <2>2, <2>3 DEF Types
  <2> QED
    BY <1>1, <1>4, <2>3, <2>4
<1> QED
  BY <1>1, <1>3, <1>4 DEF Format

LEMMA FormatBase ==
  ASSUME Base, Format
  PROVE  Base'
<1> USE DEF Base
<1>1. op.drive \in Drives /\ op \in MountOps
  BY FormatSpec
<1>4. /\ disk' = [d \in Drives |-> disk'[d]] /\ \A d \in Drives : disk'[d] \in DriveContents(d)
      /\ spoiled' \subseteq spoiled \cup {op.drive}
  BY FormatSpec
<1>5. UNCHANGED <<current_disk, ram, op, ram_bad>> /\ pc' \in {"fmt_bm", "fmt_ft", "load"}
  BY DEF Format
<1>6. Types'
  BY <1>1, <1>4, <1>5 DEF Types, ram, WritePoints, FormatPoints
<1>7. Shape'
  BY <1>1, <1>5 DEF Shape, ram, FilePoints, FormatPoints
<1>8. FreeCountExact'
  BY <1>5, CountKept DEF ram
<1> QED
  BY <1>6, <1>7, <1>8

LEMMA LoadZeroBase ==
  ASSUME Base, LoadZero
  PROVE  Base'
<1> USE DEF Base
<1>1. op \in MountOps /\ op.drive \in Drives
  BY DEF LoadZero, Shape, MountOps
<1>2. \/ pc' = "idle"
      \/ pc' = "mount" /\ op' \in MountOps
  BY <1>1, EndMountSpec DEF LoadZero
<1>3. Types'
  BY <1>1, <1>2 DEF LoadZero, Types, WritePoints
<1>4. Shape'
  BY <1>1, <1>2 DEF LoadZero, Shape, FilePoints, FormatPoints
<1>5. FreeCountExact'
  BY DEF LoadZero, FreeCountExact
<1> QED
  BY <1>3, <1>4, <1>5

\* The rest of a mount: the bits that Load marks are counted.
LEMMA LoadSpec ==
  ASSUME Base, Load
  PROVE  LET d == op.drive IN
         \E kb \in Moved(d, BitmapSectors(d)), kt \in Moved(d, TableSectors),
            sb \in SUBSET Nat, st \in Tables :
           /\ bitmap_buf' = BitmapPart(sb, disk[d].bm, kb) \cup MetaBlocks(d)
           /\ free_blocks' = CountFree(bitmap_buf', TotalSectors[d]) /\ free_blocks' \in Nat
           /\ file_table' = TablePart(st, disk[d].ft, kt)
           /\ ram_bad' = (kb < BitmapSectors(d) \/ kt < TableSectors)
<1> USE DEF Base
<1> DEFINE d == op.drive
<1>1. op \in MountOps /\ d \in Drives
  BY DEF Load, Shape, MountOps
<1>2. PICK kb \in Moved(d, BitmapSectors(d)), kt \in Moved(d, TableSectors),
           sb \in StaleBitmap(d), st \in StaleTable :
        LET bm   == BitmapPart(sb, disk[d].bm, kb)
            mark == MarkedBy(bm, TotalSectors[d], MetaBlocks(d))
        IN  /\ bitmap_buf' = bm \cup mark
            /\ free_blocks' = CountFree(bm, TotalSectors[d]) - Cardinality(mark)
            /\ file_table' = TablePart(st, disk[d].ft, kt)
            /\ ram_bad' = (kb < BitmapSectors(d) \/ kt < TableSectors)
  BY DEF Load
<1>3. st \in Tables
  BY EkeFsAssumption DEF StaleTable, Types
<1>4. sb \in SUBSET Nat
  <2>1. DriveBlocks(d) \in SUBSET Nat
    BY <1>1, Layout DEF DriveBlocks, Blocks
  <2> QED
    BY <2>1 DEF StaleBitmap, Types
<1> DEFINE bm == BitmapPart(sb, disk[d].bm, kb)
           mark == MarkedBy(bm, TotalSectors[d], MetaBlocks(d))
<1>5. MetaBlocks(d) \subseteq Blocks(TotalSectors[d]) /\ TotalSectors[d] \in Nat
  BY <1>1, Layout DEF DriveBlocks
<1>6. bm \cup mark = bm \cup MetaBlocks(d) /\ mark \in SUBSET (Blocks(TotalSectors[d]) \ bm)
  BY <1>5 DEF MarkedBy
<1>7. bitmap_buf' = bm \cup mark /\ free_blocks' = CountFree(bm, TotalSectors[d]) - Cardinality(mark)
  BY <1>2
<1> HIDE DEF d, bm, mark
<1>8. CountFree(bm \cup mark, TotalSectors[d]) = CountFree(bm, TotalSectors[d]) - Cardinality(mark)
      /\ CountFree(bm \cup mark, TotalSectors[d]) \in Nat
  BY <1>5, <1>6, CountAfterTaking, ZenonT(30)
<1>9. free_blocks' = CountFree(bitmap_buf', TotalSectors[d]) /\ free_blocks' \in Nat
      /\ bitmap_buf' = bm \cup MetaBlocks(d)
  BY <1>6, <1>7, <1>8
<1>10. bitmap_buf' = BitmapPart(sb, disk[d].bm, kb) \cup MetaBlocks(d)
  BY <1>9 DEF bm
<1> QED
  BY <1>2, <1>3, <1>4, <1>9, <1>10 DEF d

LEMMA LoadBase ==
  ASSUME Base, Load
  PROVE  Base'
<1> USE DEF Base
<1> DEFINE d == op.drive
<1>1. op \in MountOps /\ d \in Drives
  BY DEF Load, Shape, MountOps
<1>2. PICK kb \in Moved(d, BitmapSectors(d)), kt \in Moved(d, TableSectors),
           sb \in SUBSET Nat, st \in Tables :
           /\ bitmap_buf' = BitmapPart(sb, disk[d].bm, kb) \cup MetaBlocks(d)
           /\ free_blocks' = CountFree(bitmap_buf', TotalSectors[d]) /\ free_blocks' \in Nat
           /\ file_table' = TablePart(st, disk[d].ft, kt)
           /\ ram_bad' = (kb < BitmapSectors(d) \/ kt < TableSectors)
  BY LoadSpec
<1>3. disk[d] \in DriveContents(d) /\ UNCHANGED <<disk, current_disk, spoiled>>
  BY <1>1 DEF Types, Load
<1>4. disk[d].bm \in SUBSET Nat /\ disk[d].ft \in Tables
  BY <1>3 DEF DriveContents
<1>5. kb \in Nat /\ MetaBlocks(d) \subseteq Nat
  BY <1>1, Layout, MovedSpec DEF MetaBlocks
<1>6. bitmap_buf' \in SUBSET Nat
  BY <1>2, <1>4, <1>5, BitmapPartSpec
<1>7. file_table' \in Tables
  BY <1>2, <1>4, TablePartSpec
<1>8. bitmap_room' \in Nat
  <2>1. BitmapRoom(d) \in Nat
    <3>1. \A a \in Nat, e \in Nat \ {0} : ((a + e - 1) \div e) * e \in Nat
      OBVIOUS
    <3>2. BitmapSectors(d) \in Nat /\ SectorsPerPage \in Nat \ {0}
      BY <1>1, Layout, EkeFsAssumption
    <3> QED
      BY <3>1, <3>2 DEF BitmapRoom
  <2> QED
    BY <2>1 DEF Load, Types
<1>9. sb_ok' = TRUE /\ active_dev' = d
  BY DEF Load
<1>10. \/ pc' = "idle"
       \/ pc' = "mount" /\ op' \in MountOps
  BY <1>1, EndMountSpec DEF Load
<1>11. ram_bad' \in BOOLEAN /\ sb_ok' \in BOOLEAN
  BY <1>2, <1>9
<1>12. /\ disk' = [e \in Drives |-> disk'[e]] /\ \A e \in Drives : disk'[e] \in DriveContents(e)
       /\ current_disk' \in Drives /\ spoiled' \subseteq Drives
  BY <1>3 DEF Types
<1>13. pc' \in {"off", "mount", "load", "idle"} \cup WritePoints
  BY <1>10
<1>14. Types'
  BY <1>1, <1>2, <1>6, <1>7, <1>8, <1>9, <1>11, <1>12, <1>13 DEF Types
<1>15. Shape'
  BY <1>1, <1>6, <1>7, <1>9, <1>10 DEF Shape, FilePoints, FormatPoints
<1>16. FreeCountExact'
  BY <1>2, <1>9 DEF FreeCountExact, Total, CountFree, Blocks
<1> QED
  BY <1>14, <1>15, <1>16

LEMMA LoadDiskBase ==
  ASSUME Base, NEW d \in Drives, LoadDiskModule(d)
  PROVE  Base'
<1> USE DEF Base
<1>1. pc' = "mount" /\ op' \in MountOps
  BY MountTargets DEF LoadDiskModule
<1>2. BlankDrive(d, EmptyTable) \in DriveContents(d)
  BY BlankType, EkeFsAssumption
<1>3. disk' = [e \in Drives |-> disk'[e]] /\ \A e \in Drives : disk'[e] \in DriveContents(e)
  <2>1. disk = [e \in Drives |-> disk[e]] /\ \A e \in Drives : disk[e] \in DriveContents(e)
    BY DEF Types
  <2>2. disk' = disk \/ disk' = [disk EXCEPT ![d] = BlankDrive(d, EmptyTable)]
    BY DEF LoadDiskModule
  <2> QED
    BY <1>2, <2>1, <2>2
<1>4. UNCHANGED <<ram, ram_bad>> /\ current_disk' = d /\ spoiled' \subseteq spoiled
  BY DEF LoadDiskModule
<1>5. Types'
  BY <1>1, <1>3, <1>4 DEF Types, ram
<1>6. Shape'
  BY <1>1, <1>4 DEF Shape, ram, FilePoints, FormatPoints
<1>7. FreeCountExact'
  BY <1>4, CountKept DEF ram
<1> QED
  BY <1>5, <1>6, <1>7

\* A driver that fails to start changes at most a RAM disk, which then counts as
\* spoiled.
LEMMA LoadDiskFailsSpec ==
  ASSUME Types, NEW d \in Drives, LoadDiskFails(d)
  PROVE  /\ pc = "idle" /\ UNCHANGED <<current_disk, ram, pc, op, ram_bad>>
         /\ disk' = [e \in Drives |-> disk'[e]]
         /\ \A e \in Drives : disk'[e] \in DriveContents(e)
         /\ \A e \in Drives : e # d \/ e \notin Volatile => disk'[e] = disk[e]
         /\ spoiled' = IF d \in Volatile THEN spoiled \cup {d} ELSE spoiled
<1>1. disk = [e \in Drives |-> disk[e]] /\ \A e \in Drives : disk[e] \in DriveContents(e)
  BY DEF Types
<1>2. CASE d \in Volatile
  <2>1. PICK t \in OldTables, m \in BOOLEAN :
          disk' = [disk EXCEPT ![d] = [BlankDrive(d, t) EXCEPT !.magic = m]]
    BY <1>2 DEF LoadDiskFails
  <2>2. [BlankDrive(d, t) EXCEPT !.magic = m] \in DriveContents(d)
    BY BlankType, EkeFsAssumption DEF DriveContents
  <2> QED
    BY <1>1, <1>2, <2>1, <2>2 DEF LoadDiskFails
<1>3. CASE d \notin Volatile
  BY <1>1, <1>3 DEF LoadDiskFails
<1> QED
  BY <1>2, <1>3

LEMMA LoadDiskFailsBase ==
  ASSUME Base, NEW d \in Drives, LoadDiskFails(d)
  PROVE  Base'
<1> USE DEF Base
<1>1. Types'
  BY LoadDiskFailsSpec DEF Types, ram
<1>2. Shape'
  BY LoadDiskFailsSpec DEF Shape, ram, FilePoints, FormatPoints
<1>3. FreeCountExact'
  BY LoadDiskFailsSpec, CountKept DEF ram
<1> QED
  BY <1>1, <1>2, <1>3

\* What a command finds when it may start.
LEMMA ReadySpec ==
  ASSUME Base, Ready
  PROVE  /\ pc = "idle" /\ active_dev \in Drives /\ file_table \in Tables
         /\ bitmap_buf \in SUBSET Nat
BY DEF Base, Ready, Types, Shape

\* Freeing the old version's blocks, and taking the new one's, keep types and
\* counter; whatever the bitmap becomes, the drives are not touched.
LEMMA FreedBase ==
  ASSUME Base, NEW n, Ready,
         bitmap_buf' = bitmap_buf \ OldBlocks(n),
         free_blocks' = free_blocks + Cardinality(OldBlocks(n)),
         UNCHANGED <<active_dev, sb_ok>>
  PROVE  bitmap_buf' \in SUBSET Nat /\ free_blocks' \in Nat /\ FreeCountExact'
<1>1. bitmap_buf \in SUBSET Nat
  BY ReadySpec
<1>2. free_blocks + Cardinality(OldBlocks(n)) \in Nat
  BY CountFreed DEF Base
<1>3. sb_ok => free_blocks' = CountFree(bitmap_buf', Total)
  BY CountFreed DEF Base
<1>4. Total' = Total
  BY DEF Total
<1>5. FreeCountExact'
  BY <1>3, <1>4 DEF FreeCountExact, CountFree, Blocks
<1> QED
  BY <1>1, <1>2, <1>5

LEMMA PlacedBase ==
  ASSUME Base, NEW n, NEW z \in ByteSizes, Place(n, z), UNCHANGED <<active_dev, sb_ok>>
  PROVE  bitmap_buf' \in SUBSET Nat /\ free_blocks' \in Nat /\ FreeCountExact'
<1>0. NewStart(n, z) # 0 /\ Ready
  BY DEF Place
<1>1. bitmap_buf \in SUBSET Nat
  BY <1>0, ReadySpec
<1>2. BlockRun(NewStart(n, z), BlocksFor(z)) \in SUBSET Blocks(Total) /\ Total \in Nat
  BY <1>0, NewRunSpec, OldBlocksSpec DEF Base
<1>3. Placed(n, z) \in SUBSET Nat
  <2>1. Blocks(Total) \in SUBSET Nat
    BY <1>2 DEF Blocks
  <2> QED
    BY <1>1, <1>2, <2>1 DEF Placed
<1>4. free_blocks' \in Nat /\ free_blocks' = CountFree(bitmap_buf', Total)
  BY <1>0, CountPlaced DEF Base, Place
<1>5. Total' = Total
  BY DEF Total
<1>6. FreeCountExact'
  BY <1>4, <1>5 DEF FreeCountExact, CountFree, Blocks
<1> QED
  BY <1>3, <1>4, <1>6 DEF Place

LEMMA FailedWriteBase ==
  ASSUME Base, NEW n, NEW z \in ByteSizes, WriteDiskFull(n, z) \/ WriteNoPage(n, z)
  PROVE  Base'
<1> USE DEF Base
<1>0. Ready
  BY DEF WriteDiskFull, WriteNoPage, Place
<1>1. UNCHANGED <<disk, current_disk, active_dev, sb_ok, bitmap_room, file_table, pc, op, spoiled>>
      /\ ram_bad' \in BOOLEAN /\ (ram_bad => ram_bad')
  BY DEF WriteDiskFull, WriteNoPage, Types
<1>2. bitmap_buf' \in SUBSET Nat /\ free_blocks' \in Nat /\ FreeCountExact'
  BY <1>0, <1>1, FreedBase, PlacedBase DEF WriteDiskFull, WriteNoPage
<1>3. pc = "idle" /\ active_dev \in Drives /\ file_table \in Tables
  BY <1>0, ReadySpec
<1>4. Types'
  BY <1>1, <1>2 DEF Types
<1>5. Shape'
  BY <1>1, <1>2, <1>3 DEF Shape, FormatPoints, FilePoints
<1> QED
  BY <1>2, <1>4, <1>5

\* The slot and the blocks of the file about to be written.
LEMMA BeginSpec ==
  ASSUME Base, NEW n \in Names, NEW v \in Vals, NEW z \in ByteSizes, WriteBegin(n, v, z)
  PROVE  /\ op' \in WriteOps /\ op'.name = n /\ op'.val = v /\ op'.bytes = z
         /\ op'.start = NewStart(n, z) /\ op'.slot = Least(TargetSlots(n))
         /\ op'.slot \in TargetSlots(n)
         /\ op'.kind = IF Matches(file_table, n) = {} THEN "create" ELSE "overwrite"
<1>1. Least(TargetSlots(n)) \in TargetSlots(n) /\ Least(TargetSlots(n)) \in Slots
  <2>1. TargetSlots(n) # {}
    BY DEF WriteBegin, Place
  <2>2. TargetSlots(n) \in SUBSET Slots
    BY DEF TargetSlots, Matches
  <2> QED
    BY <2>1, <2>2, LeastSlot
<1>2. NewStart(n, z) \in Nat
  BY NewRunSpec DEF Base, WriteBegin, Place
<1> QED
  BY <1>1, <1>2 DEF WriteBegin, WriteOps

LEMMA WriteBeginBase ==
  ASSUME Base, NEW n \in Names, NEW v \in Vals, NEW z \in ByteSizes, WriteBegin(n, v, z)
  PROVE  Base'
<1> USE DEF Base
<1>1. UNCHANGED <<disk, current_disk, active_dev, sb_ok, bitmap_room, file_table, ram_bad, spoiled>>
      /\ pc' = "data" /\ Place(n, z) /\ Ready /\ NewStart(n, z) # 0
  BY DEF WriteBegin, Place
<1>2. bitmap_buf' \in SUBSET Nat /\ free_blocks' \in Nat /\ FreeCountExact'
  BY <1>1, PlacedBase
<1>3. active_dev \in Drives /\ file_table \in Tables
  BY <1>1, ReadySpec
<1>4. Types'
  BY <1>1, <1>2 DEF Types, WritePoints
<1>5. op' \in WriteOps /\ op'.start = NewStart(n, z) /\ op'.bytes = z
  BY BeginSpec
<1>6. sb_ok' /\ op'.start + BlocksFor(op'.bytes) <= Total'
  <2>1. sb_ok /\ NewStart(n, z) + BlocksFor(z) <= Total
    BY <1>1, NewRunSpec
  <2>2. Total' = Total
    BY <1>1 DEF Total
  <2> QED
    BY <1>1, <1>5, <2>1, <2>2
<1>7. (op.start + BlocksFor(op.bytes) <= Total)' <=> op'.start + BlocksFor(op'.bytes) <= Total'
  BY DEF BlocksFor
<1>8. Shape'
  BY <1>1, <1>2, <1>3, <1>5, <1>6, <1>7 DEF Shape, FormatPoints, FilePoints
<1> QED
  BY <1>2, <1>4, <1>8

LEMMA DeleteBase ==
  ASSUME Base, NEW n \in Names, DeleteFile(n)
  PROVE  Base'
<1> USE DEF Base
<1>1. UNCHANGED <<disk, current_disk, active_dev, sb_ok, bitmap_room, ram_bad, spoiled>>
      /\ pc' = "flush_bm" /\ op' \in DeleteOps /\ Ready
  BY DEF DeleteFile, DeleteOps
<1>2. bitmap_buf' \in SUBSET Nat /\ free_blocks' \in Nat /\ FreeCountExact'
  BY <1>1, FreedBase DEF DeleteFile
<1>3. active_dev \in Drives /\ file_table \in Tables
  BY <1>1, ReadySpec
<1>4. file_table' \in Tables
  BY <1>3 DEF DeleteFile, Tables, Entries
<1>5. Types'
  BY <1>1, <1>2, <1>4 DEF Types, WritePoints
<1>6. Shape'
  BY <1>1, <1>2, <1>3, <1>4 DEF Shape, FormatPoints, FilePoints
<1> QED
  BY <1>2, <1>5, <1>6

\* The steps of a write or a delete that reach the drive.
LEMMA WritingBase ==
  ASSUME Base, Writing
  PROVE  Base'
<1> USE DEF Base
<1>1. pc \in FilePoints /\ pc \in WritePoints /\ active_dev \in Drives /\ active_dev = WriteTarget
  BY DEF Writing, WriteData, FlushBitmap, FlushTable, FilePoints, WritePoints, FormatPoints, Shape, WriteTarget
<1>2. PICK k \in Moved(active_dev, WriteLength) :
        /\ disk' = [disk EXCEPT ![active_dev] = Written(@, k)]
        /\ spoiled' = SpoiledBy(active_dev, k)
  BY DEF Writing, WriteData, FlushBitmap, FlushTable
<1>3. k \in Nat
  BY <1>1, TargetSpec
<1>4. disk' = [d \in Drives |-> disk'[d]] /\ \A d \in Drives : disk'[d] \in DriveContents(d)
  BY <1>1, <1>2, <1>3, Transfer
<1>5. UNCHANGED <<current_disk, active_dev, sb_ok, bitmap_room, bitmap_buf, free_blocks, ram_bad>>
  BY DEF Writing, WriteData, FlushBitmap, FlushTable, ram
<1>6. /\ file_table' \in Tables
      /\ \/ pc' \in {"flush_bm", "flush_ft"} /\ op' \in WriteOps \cup DeleteOps
         \/ pc' = "idle"
  <2>1. file_table \in Tables
    BY <1>1 DEF Shape
  <2>2. CASE WriteData
    <3>1. op \in WriteOps
      BY <2>2 DEF WriteData, Shape
    <3>2. op.name \in Names /\ op.bytes \in Nat /\ op.start \in Nat /\ op.slot \in Slots
      BY <3>1, EkeFsAssumption DEF WriteOps
    <3>3. NewEntry \in Entries
      BY <3>2, BlocksForNat DEF NewEntry, Entries
    <3> QED
      BY <2>1, <2>2, <3>1, <3>2, <3>3 DEF WriteData, Tables
  <2>3. CASE FlushBitmap
    BY <2>1, <2>3 DEF FlushBitmap, Shape, ram
  <2>4. CASE FlushTable
    BY <2>1, <2>4 DEF FlushTable, ram
  <2> QED
    BY <2>2, <2>3, <2>4 DEF Writing
<1>7. spoiled' \subseteq Drives
  BY <1>1, <1>2 DEF SpoiledBy, Types
<1>8. Types'
  BY <1>4, <1>5, <1>6, <1>7 DEF Types, WritePoints
<1>9. Shape'
  BY <1>1, <1>5, <1>6 DEF Shape, FilePoints, FormatPoints
<1>10. FreeCountExact'
  BY <1>5, CountKept
<1> QED
  BY <1>8, <1>9, <1>10

LEMMA PowerLossBase ==
  ASSUME Base, PowerLoss
  PROVE  Base'
<1> USE DEF Base
<1>1. PICK k \in 0..(IF pc \in WritePoints THEN WriteLength ELSE 0) :
        /\ disk' = AfterPowerLoss(k)
        /\ spoiled' = (IF pc \in WritePoints /\ LeavesInconsistent(k)
                       THEN spoiled \cup {WriteTarget} ELSE spoiled) \ Volatile
  BY DEF PowerLoss
<1>2. k \in Nat
  BY WriteLengthNat
<1>3. disk' = [d \in Drives |-> disk'[d]] /\ \A d \in Drives : disk'[d] \in DriveContents(d)
  <2>1. \A d \in Drives : disk[d] \in DriveContents(d)
    BY DEF Types
  <2>2. \A d \in Drives : pc \in WritePoints => Written(disk[d], k) \in DriveContents(d)
    BY <1>2, WrittenSpec
  <2>3. \A d \in Drives : BlankDrive(d, EmptyTable) \in DriveContents(d)
    BY BlankType, EkeFsAssumption
  <2> QED
    BY <1>1, <2>1, <2>2, <2>3 DEF AfterPowerLoss
<1>4. pc' = "off" /\ ResetRam
  BY DEF PowerLoss
<1>5. spoiled' \subseteq Drives
  BY <1>1, TargetSpec DEF Types
<1>6. Types'
  <2>1. sb_ok' \in BOOLEAN /\ ram_bad' \in BOOLEAN
    BY <1>4 DEF ResetRam
  <2> QED
    BY <1>3, <1>4, <1>5, <2>1, EkeFsAssumption DEF Types, ResetRam
<1>7. Shape' /\ FreeCountExact'
  BY <1>4 DEF Shape, FreeCountExact, ResetRam, FilePoints, FormatPoints
<1> QED
  BY <1>6, <1>7

LEMMA NextBase == Base /\ [Next]_vars => Base'
<1> SUFFICES ASSUME Base, [Next]_vars PROVE Base'
  OBVIOUS
<1>1. CASE UNCHANGED vars
  <2>1. Types' /\ FreeCountExact'
    BY <1>1, CountKept DEF Base, Types, vars, ram
  <2>2. Shape'
    BY <1>1 DEF Base, Shape, vars, ram, Total, BlocksFor
  <2> QED
    BY <2>1, <2>2 DEF Base
<1>2. CASE Next
  BY <1>2, MountingBase, FormatBase, LoadZeroBase, LoadBase, LoadDiskBase, LoadDiskFailsBase, DeleteBase,
     FailedWriteBase, WriteBeginBase, WritingBase, PowerLossBase
  DEF Next, Mounting
<1> QED
  BY <1>1, <1>2

\* The drives' contents and the globals keep their types and data go to blocks of
\* the drive only, whatever fails.
THEOREM Typing == Spec => []TypeOK
<1>1. Spec => []Base
  BY InitBase, NextBase, PTL DEF Spec
<1>2. Base => TypeOK
  BY DEF Base, Shape, TypeOK
<1> QED
  BY <1>1, <1>2, PTL

\* free_blocks of the mounted drive is the number of clear bits of its bitmap,
\* through mounts, drive switches, failed transfers and failed writes.
THEOREM CounterExact == Spec => []FreeCountExact
<1>1. Spec => []Base
  BY InitBase, NextBase, PTL DEF Spec
<1>2. Base => FreeCountExact
  BY DEF Base
<1> QED
  BY <1>1, <1>2, PTL

-----------------------------------------------------------------------------
(* Bitmaps and tables.                                                     *)

LEMMA UnusedClaims == Claims(Unused) = {}
BY DEF Claims, Unused

LEMMA EmptyConsistent ==
  ASSUME NEW d, NEW bm
  PROVE  Consistent(EmptyTable, bm, d)
BY UnusedClaims DEF Consistent, EmptyTable

\* A table with fewer claims, all of them marked, agrees with the bitmap too.
LEMMA FewerClaims ==
  ASSUME NEW d, NEW t, NEW bm, NEW u, NEW cm, Consistent(t, bm, d),
         \A s \in Slots : Claims(u[s]) \subseteq Claims(t[s]) /\ Claims(u[s]) \subseteq cm
  PROVE  Consistent(u, cm, d)
BY DEF Consistent

\* The whole bitmap of RAM, on the drive.
LEMMA FlushedGood ==
  ASSUME NEW d \in Drives, BitmapsCover, NEW t, NEW buf, BitmapGood(t, buf, d)
  PROVE  LET bm == buf \cap Covered(d) IN
         /\ bm \subseteq DriveBlocks(d)
         /\ Consistent(t, bm, d)
         /\ Undisturbed => Owned(t, bm, d)
<1>1. DriveBlocks(d) \subseteq Covered(d)
  BY DEF BitmapsCover
<1>2. buf \cap Covered(d) \subseteq DriveBlocks(d)
  BY DEF BitmapGood
<1>3. Consistent(t, buf \cap Covered(d), d)
  BY <1>1 DEF BitmapGood, Consistent
<1>4. Undisturbed => Owned(t, buf \cap Covered(d), d)
  BY DEF BitmapGood, Owned
<1> QED
  BY <1>2, <1>3, <1>4

\* The whole bitmap of the drive, in RAM, with the metadata marked.
LEMMA LoadedGood ==
  ASSUME NEW d \in Drives, BitmapsCover, NEW t, NEW bm, NEW buf,
         bm \subseteq DriveBlocks(d), Consistent(t, bm, d), Undisturbed => Owned(t, bm, d),
         buf \cap Covered(d) = bm \cap Covered(d)
  PROVE  BitmapGood(t, buf \cup MetaBlocks(d), d)
<1> DEFINE b == buf \cup MetaBlocks(d)
<1>1. DriveBlocks(d) \subseteq Covered(d) /\ MetaBlocks(d) \subseteq DriveBlocks(d)
  BY Layout DEF BitmapsCover
<1>2. b \cap Covered(d) \subseteq DriveBlocks(d)
  BY <1>1
<1>3. bm \subseteq b
  BY <1>1
<1>4. Consistent(t, b, d)
  BY <1>3 DEF Consistent
<1>5. b \cap DriveBlocks(d) \subseteq bm \cup MetaBlocks(d)
  BY <1>1
<1>6. Undisturbed => Owned(t, b, d)
  BY <1>5 DEF Owned
<1> QED
  BY <1>2, <1>4, <1>6 DEF BitmapGood

\* spmm_free_contiguous clears all the bits of a file.
LEMMA FreedWhole ==
  ASSUME NEW d \in Drives, NEW t \in Tables, NEW buf, NEW s \in Slots,
         BitmapGood(t, buf, d), t[s].used
  PROVE  FreedBy(buf, TotalSectors[d], t[s].start, t[s].count) = Claims(t[s])
<1> DEFINE a == t[s].start
           c == t[s].count
           run == BlockRun(a, c)
<1>1. a \in Nat /\ c \in Nat
  <2>1. t[s] \in Entries /\ t[s] # Unused
    BY DEF Tables, Unused
  <2> QED
    BY <2>1 DEF Entries
<1>2. Claims(t[s]) = run
  BY DEF Claims
<1>3. run \subseteq buf \cap DriveBlocks(d) /\ 0 \notin run
  BY <1>2, Layout DEF BitmapGood, Consistent
<1>4. TotalSectors[d] \in Nat
  BY Layout
<1> HIDE DEF a, c
<1>5. CASE a = 0
  <2>1. c = 0
    BY <1>1, <1>3, <1>5 DEF BlockRun
  <2>2. run = {}
    BY <1>1, <1>5, <2>1 DEF BlockRun
  <2> QED
    BY <1>2, <1>5, <2>2 DEF FreedBy, a, c
<1>6. CASE a # 0
  <2>1. run \subseteq 1..(TotalSectors[d] - 1)
    BY <1>3, <1>4 DEF DriveBlocks, Blocks
  <2>2. FreedBy(buf, TotalSectors[d], a, c) = run
    BY <1>3, <1>6, <2>1 DEF FreedBy
  <2> QED
    BY <1>2, <2>2 DEF a, c
<1> QED
  BY <1>5, <1>6

\* A file and its blocks removed.
LEMMA WithoutFile ==
  ASSUME NEW d \in Drives, NEW t \in Tables, NEW buf, NEW s \in Slots, BitmapGood(t, buf, d)
  PROVE  BitmapGood([t EXCEPT ![s] = Unused], buf \ Claims(t[s]), d)
<1> DEFINE u == [t EXCEPT ![s] = Unused]
           b == buf \ Claims(t[s])
<1>1. \A r \in Slots : u[r] = IF r = s THEN Unused ELSE t[r]
  BY DEF Tables
<1>2. \A r \in Slots : Claims(u[r]) = IF r = s THEN {} ELSE Claims(t[r])
  BY <1>1, UnusedClaims
<1> HIDE DEF u
<1>3. Claims(t[s]) \cap MetaBlocks(d) = {}
  BY DEF BitmapGood, Consistent
<1>4. b \cap Covered(d) \subseteq DriveBlocks(d) /\ MetaBlocks(d) \subseteq b
  BY <1>3 DEF BitmapGood
<1>5. Consistent(u, b, d)
  <2>1. \A r \in Slots : Claims(u[r]) \subseteq Claims(t[r])
    BY <1>2
  <2>2. \A r \in Slots : Claims(u[r]) \subseteq b
    BY <1>2 DEF BitmapGood, Consistent
  <2> QED
    BY <2>1, <2>2, FewerClaims DEF BitmapGood
<1>6. Undisturbed => Owned(u, b, d)
  <2> SUFFICES ASSUME Undisturbed, NEW x \in b \cap DriveBlocks(d), x \notin MetaBlocks(d)
               PROVE  \E r \in Slots : x \in Claims(u[r])
    BY DEF Owned
  <2>1. PICK r \in Slots : x \in Claims(t[r])
    BY DEF BitmapGood, Owned
  <2>2. r # s
    BY <2>1
  <2> QED
    BY <1>2, <2>1, <2>2
<1> QED
  BY <1>4, <1>5, <1>6 DEF BitmapGood, u

\* A file entered in an empty slot, with free blocks of the drive.
LEMMA WithFile ==
  ASSUME NEW d \in Drives, NEW t \in Tables, NEW buf, NEW s \in Slots, BitmapGood(t, buf, d),
         t[s] = Unused, NEW e, Claims(e) \subseteq DriveBlocks(d), Claims(e) \cap buf = {}
  PROVE  BitmapGood([t EXCEPT ![s] = e], buf \cup Claims(e), d)
<1> DEFINE u == [t EXCEPT ![s] = e]
           b == buf \cup Claims(e)
<1>1. \A r \in Slots : u[r] = IF r = s THEN e ELSE t[r]
  BY DEF Tables
<1>2. \A r \in Slots : Claims(u[r]) = IF r = s THEN Claims(e) ELSE Claims(t[r])
  BY <1>1
<1> HIDE DEF u
<1>3. b \cap Covered(d) \subseteq DriveBlocks(d) /\ MetaBlocks(d) \subseteq b
  BY DEF BitmapGood
<1>4. Claims(e) \cap MetaBlocks(d) = {}
  BY DEF BitmapGood
<1>5. \A r \in Slots : Claims(t[r]) \subseteq buf
  BY DEF BitmapGood, Consistent
<1>6. Consistent(u, b, d)
  <2>1. \A r \in Slots : Claims(u[r]) \subseteq (b \cap DriveBlocks(d)) \ MetaBlocks(d)
    BY <1>2, <1>4 DEF BitmapGood, Consistent
  <2>2. \A r, q \in Slots : r # q => Claims(u[r]) \cap Claims(u[q]) = {}
    BY <1>2, <1>5 DEF BitmapGood, Consistent
  <2> QED
    BY <2>1, <2>2 DEF Consistent
<1>7. Undisturbed => Owned(u, b, d)
  <2> SUFFICES ASSUME Undisturbed, NEW x \in b \cap DriveBlocks(d), x \notin MetaBlocks(d)
               PROVE  \E r \in Slots : x \in Claims(u[r])
    BY DEF Owned
  <2>1. CASE x \in Claims(e)
    BY <1>2, <2>1
  <2>2. CASE x \in buf
    <3>1. PICK r \in Slots : x \in Claims(t[r])
      BY <2>2 DEF BitmapGood, Owned
    <3>2. r # s
      BY <3>1, UnusedClaims
    <3> QED
      BY <1>2, <3>1, <3>2
  <2> QED
    BY <2>1, <2>2
<1> QED
  BY <1>3, <1>6, <1>7 DEF BitmapGood, u

\* Blocks of the drive marked for no file.
LEMMA WithLostBlocks ==
  ASSUME NEW d \in Drives, NEW t, NEW buf, NEW run, BitmapGood(t, buf, d), ~Undisturbed,
         run \subseteq DriveBlocks(d)
  PROVE  BitmapGood(t, buf \cup run, d)
BY DEF BitmapGood, Consistent

-----------------------------------------------------------------------------
(* Bitmap and table agree.                                                 *)

Good == DrivesGood /\ RamGood /\ WriteGood

LEMMA DriveSame ==
  ASSUME NEW d \in Drives, DriveGood(d), disk'[d].magic = disk[d].magic,
         disk'[d].bm = disk[d].bm, disk'[d].ft = disk[d].ft,
         ~Formatting(d), ~Formatting(d)', ~HalfFlushed(d), ~HalfFlushed(d)'
  PROVE  DriveGood(d)'
BY DEF DriveGood

\* A blank drive, as ramdisk_init leaves one.
LEMMA DriveBlank ==
  ASSUME NEW d, NEW t, disk'[d] = BlankDrive(d, t), ~Formatting(d)'
  PROVE  DriveGood(d)'
<1>1. disk'[d].bm = {} /\ ~disk'[d].magic
  BY DEF BlankDrive
<1> QED
  BY <1>1 DEF DriveGood

LEMMA InitGood == Init => Good
<1> SUFFICES ASSUME Init PROVE Good
  OBVIOUS
<1>1. PICK t \in [Drives -> OldTables] :
        disk = [d \in Drives |-> BlankDrive(d, IF d \in Volatile THEN EmptyTable ELSE t[d])]
  BY DEF Init
<1>2. \A d \in Drives : disk[d].bm = {} /\ ~disk[d].magic
  BY <1>1 DEF BlankDrive
<1>3. DrivesGood
  BY <1>2 DEF Init, DrivesGood, DriveGood
<1>4. RamGood /\ WriteGood
  BY DEF Init, RamGood, WriteGood, Trustworthy
<1> QED
  BY <1>3, <1>4 DEF Good

LEMMA MountingGood ==
  ASSUME Base, Good,
         Boot \/ MountReadFails \/ MountUnformatted \/ MountFormatted \/ LoadFsModule
           \/ \E d \in Drives : DriveCommand(d)
  PROVE  Good'
<1> USE DEF Base, Good
<1>0. UNCHANGED <<disk, ram, ram_bad, spoiled>> /\ pc \in {"off", "mount", "idle"}
  BY DEF Boot, MountReadFails, MountUnformatted, MountFormatted, LoadFsModule, DriveCommand
<1>1. /\ pc' \in {"idle", "mount", "load", "fmt_sb"}
      /\ pc' \in {"idle", "mount"} /\ pc # "off" =>
           pc = "idle" \/ (pc = "mount" /\ op.drive \in Faulty)
      /\ pc' = "fmt_sb" => op'.drive = op.drive /\ ~disk[op.drive].magic
  <2>1. CASE Boot
    BY <2>1 DEF Boot, StartMount
  <2>2. CASE MountReadFails
    BY <2>2, EndMountSpec DEF MountReadFails, Shape
  <2>3. CASE MountUnformatted
    BY <2>3 DEF MountUnformatted, Shape, MountOps
  <2>4. CASE MountFormatted
    BY <2>4 DEF MountFormatted
  <2>5. CASE LoadFsModule
    BY <2>5 DEF LoadFsModule, StartMount
  <2>6. CASE \E d \in Drives : DriveCommand(d)
    BY <2>6 DEF DriveCommand, StartMount
  <2> QED
    BY <2>1, <2>2, <2>3, <2>4, <2>5, <2>6
<1>2. DrivesGood'
  <2>1. ASSUME NEW d \in Drives \ spoiled PROVE DriveGood(d)'
    BY <1>0, <1>1, DriveSame DEF DrivesGood, Formatting, HalfFlushed
  <2> QED
    BY <1>0, <1>1, <2>1 DEF DrivesGood
<1>3. RamGood'
  <2>1. pc = "off" => ~Trustworthy'
    BY <1>0 DEF Shape, Trustworthy, ram
  <2>2. Trustworthy' => Trustworthy
    BY <1>0 DEF Trustworthy, ram
  <2> QED
    BY <1>0, <1>1, <2>1, <2>2 DEF RamGood, ram
<1>4. WriteGood'
  BY <1>1 DEF WriteGood, FilePoints
<1> QED
  BY <1>2, <1>3, <1>4

LEMMA FormatGood ==
  ASSUME Base, Good, Format
  PROVE  Good'
<1> USE DEF Base, Good
<1> DEFINE t == op.drive
<1> DEFINE k == WriteLength
<1>1. pc \in WritePoints /\ t \in Drives /\ op \in MountOps /\ pc \in FormatPoints
  BY FormatSpec
<1>2. /\ spoiled \subseteq spoiled'
      /\ t \notin spoiled' => disk'[t] = Written(disk[t], k) /\ k \in Nat
  BY FormatSpec
<1>4. \A d \in Drives : d # t => disk'[d] = disk[d]
  BY FormatSpec
<1>5. op' = op /\ pc' = (IF pc = "fmt_sb" THEN "fmt_bm" ELSE IF pc = "fmt_bm" THEN "fmt_ft" ELSE "load")
  BY DEF Format
<1>6. ASSUME NEW d \in Drives, d \notin spoiled'
      PROVE  DriveGood(d)'
  <2>0. d \notin spoiled /\ DriveGood(d)
    BY <1>2, <1>6 DEF DrivesGood
  <2>1. CASE d # t
    <3>1. ~Formatting(d) /\ ~Formatting(d)' /\ ~HalfFlushed(d) /\ ~HalfFlushed(d)'
      BY <1>1, <1>5, <2>1 DEF Formatting, HalfFlushed, FormatPoints
    <3> QED
      BY <1>4, <2>0, <2>1, <3>1, DriveSame
  <2>2. CASE d = t
    <3>1. disk'[t] = Written(disk[t], k) /\ k \in Nat
      BY <1>2, <1>6, <2>2
    <3>2. disk[d].bm = {}
      BY <1>1, <2>0, <2>2 DEF DriveGood, DrivesGood, Formatting, FormatPoints
    <3>3. disk'[d].bm = {}
      <4>1. BitmapPart({}, {}, k) = {}
        BY DEF BitmapPart
      <4>2. Written(disk[t], k).bm =
              IF pc = "fmt_bm" THEN BitmapPart(disk[t].bm, {}, k)
              ELSE IF pc = "flush_bm" THEN BitmapPart(disk[t].bm, bitmap_buf, k)
              ELSE disk[t].bm
        BY <1>1, <3>1, WrittenSpec
      <4>3. pc # "flush_bm"
        BY <1>1 DEF FormatPoints
      <4> QED
        BY <2>2, <3>1, <3>2, <4>1, <4>2, <4>3
    <3>4. CASE pc # "fmt_ft"
      <4>1. Formatting(d)'
        BY <1>1, <1>5, <2>2, <3>4 DEF Formatting, FormatPoints
      <4> QED
        BY <3>3, <4>1 DEF DriveGood
    <3>5. CASE pc = "fmt_ft"
      <4>1. k = TableSectors
        BY <3>5 DEF WriteLength
      <4>2. disk[d].ft \in Tables /\ EmptyTable \in Tables
        BY EkeFsAssumption DEF Types, DriveContents
      <4>3. disk'[d].ft = EmptyTable
        BY <1>1, <2>2, <3>1, <3>5, <4>1, <4>2, WrittenSpec, TablePartSpec
      <4> QED
        BY <3>3, <4>3, EmptyConsistent DEF DriveGood, Owned
    <3> QED
      BY <3>4, <3>5
  <2> QED
    BY <2>1, <2>2
<1>7. DrivesGood'
  BY <1>1, <1>5, <1>6 DEF DrivesGood, FormatPoints
<1>8. RamGood' /\ WriteGood'
  BY <1>5 DEF RamGood, WriteGood, FilePoints
<1> QED
  BY <1>7, <1>8

LEMMA LoadZeroGood ==
  ASSUME Base, Good, LoadZero
  PROVE  Good'
<1> USE DEF Base, Good
<1>1. UNCHANGED <<disk, spoiled>> /\ ram_bad' /\ pc = "load" /\ pc' \in {"idle", "mount"}
  BY EndMountSpec DEF LoadZero, Shape
<1>2. ASSUME NEW d \in Drives \ spoiled PROVE DriveGood(d)'
  BY <1>1, DriveSame DEF DrivesGood, Formatting, HalfFlushed
<1>3. DrivesGood'
  BY <1>1, <1>2 DEF DrivesGood
<1>4. RamGood' /\ WriteGood'
  BY <1>1 DEF RamGood, WriteGood, Trustworthy
<1> QED
  BY <1>3, <1>4

LEMMA LoadGood ==
  ASSUME Base, Good, BitmapsCover, Load
  PROVE  Good'
<1> USE DEF Base, Good
<1> DEFINE d == op.drive
<1>1. op \in MountOps /\ d \in Drives
  BY DEF Load, Shape, MountOps
<1>2. UNCHANGED <<disk, spoiled>> /\ pc = "load" /\ pc' \in {"idle", "mount"}
      /\ active_dev' = d
  BY <1>1, EndMountSpec DEF Load
<1>3. ASSUME NEW e \in Drives \ spoiled PROVE DriveGood(e)'
  BY <1>2, DriveSame DEF DrivesGood, Formatting, HalfFlushed
<1>4. DrivesGood'
  BY <1>2, <1>3 DEF DrivesGood
<1>5. PICK kb \in Moved(d, BitmapSectors(d)), kt \in Moved(d, TableSectors),
           sb \in SUBSET Nat, st \in Tables :
           /\ bitmap_buf' = BitmapPart(sb, disk[d].bm, kb) \cup MetaBlocks(d)
           /\ free_blocks' = CountFree(bitmap_buf', TotalSectors[d]) /\ free_blocks' \in Nat
           /\ file_table' = TablePart(st, disk[d].ft, kt)
           /\ ram_bad' = (kb < BitmapSectors(d) \/ kt < TableSectors)
  BY LoadSpec
<1>6. disk[d].magic \in BOOLEAN /\ disk[d].bm \in SUBSET Nat /\ disk[d].ft \in Tables
  BY <1>1 DEF Types, DriveContents
<1>7. disk[d].magic
  BY <1>6 DEF Load, AdoptedSb
<1>8. ASSUME Trustworthy' PROVE
        file_table' = disk[d].ft /\ BitmapGood(disk[d].ft, bitmap_buf', d)
  <2>1. d \notin spoiled /\ ~ram_bad'
    BY <1>2, <1>8 DEF Trustworthy
  <2>2. BitmapSectors(d) \in Nat /\ TableSectors \in Nat
    BY <1>1, Layout, EkeFsAssumption
  <2>3. kb \in Nat /\ kb <= BitmapSectors(d) /\ kt \in Nat /\ kt <= TableSectors
    BY <2>2, MovedSpec
  <2>4. kb = BitmapSectors(d) /\ kt = TableSectors
    <3>1. ~(kb < BitmapSectors(d)) /\ ~(kt < TableSectors)
      BY <1>5, <2>1, Zenon
    <3> QED
      BY <2>2, <2>3, <3>1
  <2>5. file_table' = disk[d].ft
    BY <1>5, <1>6, <2>4, TablePartSpec
  <2>6. DriveGood(d) /\ ~Formatting(d) /\ ~HalfFlushed(d)
    BY <1>1, <1>2, <2>1 DEF DrivesGood, Formatting, HalfFlushed
  <2>7. /\ disk[d].bm \subseteq DriveBlocks(d)
        /\ Consistent(disk[d].ft, disk[d].bm, d)
        /\ Undisturbed => Owned(disk[d].ft, disk[d].bm, d)
    BY <1>7, <2>6 DEF DriveGood
  <2>8. BitmapPart(sb, disk[d].bm, kb) \cap Covered(d) = disk[d].bm \cap Covered(d)
    BY <1>1, <1>6, <2>3, <2>4, BitmapPartWhole
  <2>9. BitmapGood(disk[d].ft, BitmapPart(sb, disk[d].bm, kb) \cup MetaBlocks(d), d)
    BY <1>1, <2>7, <2>8, LoadedGood
  <2> QED
    BY <1>5, <2>5, <2>9
<1>9. RamGood'
  BY <1>2, <1>7, <1>8 DEF RamGood
<1>10. WriteGood'
  BY <1>2 DEF WriteGood, FilePoints
<1> QED
  BY <1>4, <1>9, <1>10

LEMMA LoadDiskGood ==
  ASSUME Base, Good, NEW d \in Drives, LoadDiskModule(d)
  PROVE  Good'
<1> USE DEF Base, Good
<1>1. pc = "idle" /\ pc' = "mount" /\ op'.drive = d /\ UNCHANGED <<ram, ram_bad>>
  BY MountTargets DEF LoadDiskModule
<1>2. /\ d \in Volatile => disk'[d] = BlankDrive(d, EmptyTable) /\ spoiled' = spoiled \ {d}
      /\ d \notin Volatile => disk' = disk /\ spoiled' = spoiled
      /\ \A e \in Drives : e # d => disk'[e] = disk[e]
  BY DEF LoadDiskModule, Types
<1>3. ASSUME NEW e \in Drives, e \notin spoiled' PROVE DriveGood(e)'
  <2>1. ~Formatting(e)' /\ ~Formatting(e) /\ ~HalfFlushed(e) /\ ~HalfFlushed(e)'
    BY <1>1 DEF Formatting, HalfFlushed
  <2>2. CASE e = d /\ d \in Volatile
    BY <1>2, <2>1, <2>2, DriveBlank
  <2>3. CASE ~(e = d /\ d \in Volatile)
    <3>1. disk'[e] = disk[e] /\ e \notin spoiled
      BY <1>2, <1>3, <2>3
    <3> QED
      BY <2>1, <3>1, DriveSame DEF DrivesGood
  <2> QED
    BY <2>2, <2>3
<1>4. DrivesGood'
  BY <1>1, <1>3 DEF DrivesGood
<1>5. RamGood'
  <2>1. CASE d \in Volatile
    <3>1. op'.drive \notin Faulty
      BY <1>1, <2>1, EkeFsAssumption
    <3> QED
      BY <1>1, <3>1 DEF RamGood
  <2>2. CASE d \notin Volatile
    BY <1>1, <1>2, <2>2 DEF RamGood, Trustworthy, ram
  <2> QED
    BY <2>1, <2>2
<1>6. WriteGood'
  BY <1>1 DEF WriteGood, FilePoints
<1> QED
  BY <1>4, <1>5, <1>6

LEMMA LoadDiskFailsGood ==
  ASSUME Base, Good, NEW d \in Drives, LoadDiskFails(d)
  PROVE  Good'
<1> USE DEF Base, Good
<1>1. /\ pc = "idle" /\ UNCHANGED <<ram, pc, op, ram_bad>> /\ spoiled \subseteq spoiled'
      /\ \A e \in Drives \ spoiled' : disk'[e] = disk[e]
  BY LoadDiskFailsSpec
<1>2. ASSUME NEW e \in Drives, e \notin spoiled' PROVE DriveGood(e)'
  BY <1>1, <1>2, DriveSame DEF DrivesGood, Formatting, HalfFlushed
<1>3. DrivesGood'
  BY <1>1, <1>2 DEF DrivesGood
<1>4. RamGood'
  <2>1. Trustworthy' => active_dev \in Drives \ spoiled' /\ Trustworthy
    BY <1>1 DEF Trustworthy, ram, Types
  <2> QED
    BY <1>1, <2>1 DEF RamGood, ram
<1>5. WriteGood'
  BY <1>1 DEF WriteGood, FilePoints
<1> QED
  BY <1>3, <1>4, <1>5

\* A trusted table in RAM: what OldBlocks frees is what the file claims.
LEMMA OldBlocksWhole ==
  ASSUME Base, Good, Ready, Trustworthy, NEW n, Matches(file_table, n) # {}
  PROVE  LET s == Least(Matches(file_table, n)) IN
         s \in Slots /\ file_table[s].used /\ OldBlocks(n) = Claims(file_table[s])
<1> USE DEF Base, Good
<1> DEFINE s == Least(Matches(file_table, n))
<1>1. pc = "idle" /\ active_dev \in Drives /\ file_table \in Tables
  BY ReadySpec
<1>2. s \in Slots /\ file_table[s].used
  <2>1. Matches(file_table, n) \in SUBSET Slots
    BY DEF Matches
  <2>2. s \in Matches(file_table, n)
    BY <2>1, LeastSlot
  <2> QED
    BY <2>2 DEF Matches
<1>3. BitmapGood(file_table, bitmap_buf, active_dev)
  BY <1>1 DEF RamGood
<1>4. Total = TotalSectors[active_dev]
  BY DEF Shape, Trustworthy, Total
<1>5. OldBlocks(n) = FreedBy(bitmap_buf, TotalSectors[active_dev],
                             file_table[s].start, file_table[s].count)
  BY <1>4 DEF OldBlocks
<1>6. OldBlocks(n) = Claims(file_table[s])
  BY <1>1, <1>2, <1>3, <1>5, FreedWhole
<1> QED
  BY <1>2, <1>6

LEMMA DeleteGood ==
  ASSUME Base, Good, NEW n \in Names, DeleteFile(n)
  PROVE  Good'
<1> USE DEF Base, Good
<1> DEFINE s == Least(Matches(file_table, n))
<1>1. UNCHANGED <<disk, active_dev, ram_bad, spoiled>> /\ Ready /\ Matches(file_table, n) # {}
      /\ pc' = "flush_bm" /\ op'.kind = "delete"
      /\ bitmap_buf' = bitmap_buf \ OldBlocks(n) /\ file_table' = [file_table EXCEPT ![s] = Unused]
  BY DEF DeleteFile
<1>2. pc = "idle" /\ active_dev \in Drives /\ file_table \in Tables
  BY <1>1, ReadySpec
<1>3. ASSUME NEW d \in Drives \ spoiled PROVE DriveGood(d)'
  BY <1>1, <1>2, DriveSame DEF DrivesGood, Formatting, HalfFlushed
<1>4. DrivesGood'
  BY <1>1, <1>3 DEF DrivesGood
<1>5. RamGood'
  BY <1>1 DEF RamGood
<1>6. ASSUME Trustworthy
      PROVE  disk[active_dev].magic /\ BitmapGood(file_table', bitmap_buf', active_dev)
  <2>1. disk[active_dev].magic /\ BitmapGood(file_table, bitmap_buf, active_dev)
    BY <1>2, <1>6 DEF RamGood
  <2>2. s \in Slots /\ OldBlocks(n) = Claims(file_table[s])
    BY <1>1, <1>6, OldBlocksWhole
  <2>3. BitmapGood([file_table EXCEPT ![s] = Unused], bitmap_buf \ Claims(file_table[s]), active_dev)
    BY <1>2, <2>1, <2>2, WithoutFile
  <2> QED
    BY <1>1, <2>1, <2>2, <2>3
<1>7. WriteGood'
  BY <1>1, <1>6 DEF WriteGood, Trustworthy
<1> QED
  BY <1>4, <1>5, <1>7

LEMMA FailedWriteGood ==
  ASSUME Base, Good, NEW n, NEW z \in ByteSizes, WriteDiskFull(n, z) \/ WriteNoPage(n, z)
  PROVE  Good'
<1> USE DEF Base, Good
<1>1. UNCHANGED <<disk, active_dev, file_table, pc, op, spoiled>> /\ Ready
      /\ ram_bad' = (ram_bad \/ OldBlocks(n) # {})
  BY DEF WriteDiskFull, WriteNoPage, Place
<1>2. pc = "idle" /\ active_dev \in Drives
  BY <1>1, ReadySpec
<1>3. ASSUME NEW d \in Drives \ spoiled PROVE DriveGood(d)'
  BY <1>1, <1>2, DriveSame DEF DrivesGood, Formatting, HalfFlushed
<1>4. DrivesGood'
  BY <1>1, <1>2, <1>3 DEF DrivesGood
<1>5. ASSUME Trustworthy'
      PROVE  Trustworthy /\ BitmapGood(file_table, bitmap_buf', active_dev)
  <2>1. Trustworthy /\ OldBlocks(n) = {}
    BY <1>1, <1>5 DEF Trustworthy
  <2>2. BitmapGood(file_table, bitmap_buf, active_dev)
    BY <1>2, <2>1 DEF RamGood
  <2>3. CASE WriteDiskFull(n, z)
    <3>1. bitmap_buf' = bitmap_buf
      BY <2>1, <2>3 DEF WriteDiskFull
    <3> QED
      BY <2>1, <2>2, <3>1
  <2>4. CASE WriteNoPage(n, z)
    <3> DEFINE run == BlockRun(NewStart(n, z), BlocksFor(z))
    <3>1. bitmap_buf' = bitmap_buf \cup run /\ PageFailures /\ NewStart(n, z) # 0
      BY <2>1, <2>4 DEF WriteNoPage, Place, Placed
    <3>2. run \subseteq DriveBlocks(active_dev)
      BY <3>1, NewRunSpec DEF Total, DriveBlocks
    <3>3. ~Undisturbed
      BY <3>1 DEF Undisturbed
    <3> QED
      BY <1>2, <2>1, <2>2, <3>1, <3>2, <3>3, WithLostBlocks
  <2> QED
    BY <2>3, <2>4
<1>6. RamGood'
  BY <1>1, <1>2, <1>5 DEF RamGood
<1>7. WriteGood'
  BY <1>1, <1>2 DEF WriteGood, FilePoints
<1> QED
  BY <1>4, <1>6, <1>7

LEMMA WriteBeginGood ==
  ASSUME Base, Good, NEW n \in Names, NEW v \in Vals, NEW z \in ByteSizes, WriteBegin(n, v, z)
  PROVE  Good'
<1> USE DEF Base, Good
<1>1. UNCHANGED <<disk, active_dev, file_table, ram_bad, spoiled>> /\ Ready /\ TargetSlots(n) # {}
      /\ pc' = "data" /\ NewStart(n, z) # 0 /\ bitmap_buf' = Placed(n, z)
  BY DEF WriteBegin, Place
<1>2. pc = "idle" /\ active_dev \in Drives /\ file_table \in Tables
  BY <1>1, ReadySpec
<1>3. ASSUME NEW d \in Drives \ spoiled PROVE DriveGood(d)'
  BY <1>1, <1>2, DriveSame DEF DrivesGood, Formatting, HalfFlushed
<1>4. DrivesGood'
  BY <1>1, <1>3 DEF DrivesGood
<1>5. RamGood'
  BY <1>1 DEF RamGood
<1> DEFINE s == Least(TargetSlots(n))
           run == BlockRun(NewStart(n, z), BlocksFor(z))
           old == OldBlocks(n)
           t == IF Matches(file_table, n) = {} THEN file_table
                ELSE [file_table EXCEPT ![s] = Unused]
<1>6. /\ op' \in WriteOps /\ op'.slot = s /\ s \in Slots /\ s \in TargetSlots(n)
      /\ NewEntry'.used /\ NewEntry'.start = NewStart(n, z) /\ NewEntry'.count = BlocksFor(z)
      /\ op'.kind = "create" <=> Matches(file_table, n) = {}
  BY BeginSpec DEF NewEntry, WriteOps
<1>7. Claims(NewEntry') = run
  BY <1>6 DEF Claims
<1>8. ASSUME Trustworthy
      PROVE  /\ disk[active_dev].magic /\ file_table = disk[active_dev].ft
             /\ Matches(file_table, n) = {} => file_table[s] = Unused
             /\ BitmapGood([file_table EXCEPT ![s] = NewEntry'], bitmap_buf', active_dev)
  <2>1. /\ disk[active_dev].magic /\ file_table = disk[active_dev].ft
        /\ BitmapGood(file_table, bitmap_buf, active_dev)
    BY <1>2, <1>8 DEF RamGood
  <2>2. Matches(file_table, n) = {} => file_table[s] = Unused /\ old = {}
    <3>1. SUFFICES ASSUME Matches(file_table, n) = {} PROVE file_table[s] = Unused /\ old = {}
      OBVIOUS
    <3>2. file_table[s] \in Entries /\ ~file_table[s].used
      BY <1>2, <1>6, <3>1 DEF TargetSlots, Tables
    <3>3. file_table[s] = Unused
      BY <3>2 DEF Entries
    <3> QED
      BY <3>1, <3>3 DEF OldBlocks
  <2>3. t \in Tables /\ t[s] = Unused /\ BitmapGood(t, bitmap_buf \ old, active_dev)
    <3>1. CASE Matches(file_table, n) = {}
      <4>1. bitmap_buf \ old = bitmap_buf
        BY <2>2, <3>1
      <4> QED
        BY <1>2, <2>1, <2>2, <3>1, <4>1
    <3>2. CASE Matches(file_table, n) # {}
      <4>1. s = Least(Matches(file_table, n))
        BY <3>2 DEF TargetSlots
      <4>2. old = Claims(file_table[s])
        BY <1>1, <1>8, <3>2, <4>1, OldBlocksWhole
      <4>3. BitmapGood([file_table EXCEPT ![s] = Unused], bitmap_buf \ Claims(file_table[s]), active_dev)
        BY <1>2, <1>6, <2>1, WithoutFile
      <4>4. t = [file_table EXCEPT ![s] = Unused]
        BY <3>2
      <4>5. t \in Tables /\ t[s] = Unused
        BY <1>2, <1>6, <4>4 DEF Tables, Entries
      <4> QED
        BY <4>2, <4>3, <4>4, <4>5
    <3> QED
      BY <3>1, <3>2
  <2>4. run \subseteq DriveBlocks(active_dev) /\ run \cap (bitmap_buf \ old) = {}
    BY <1>1, NewRunSpec DEF Total, DriveBlocks
  <2>5. [t EXCEPT ![s] = NewEntry'] = [file_table EXCEPT ![s] = NewEntry']
    BY <1>2, <1>6 DEF Tables
  <2> HIDE DEF t, run, old, s
  <2>6. BitmapGood([t EXCEPT ![s] = NewEntry'], (bitmap_buf \ old) \cup Claims(NewEntry'), active_dev)
    BY <1>2, <1>6, <1>7, <2>3, <2>4, WithFile
  <2>7. bitmap_buf' = (bitmap_buf \ old) \cup run
    BY <1>1 DEF Placed, old, run
  <2> QED
    BY <1>7, <2>1, <2>2, <2>5, <2>6, <2>7
<1>9. WriteGood'
  BY <1>1, <1>6, <1>8 DEF WriteGood, Trustworthy, FilePoints
<1> QED
  BY <1>4, <1>5, <1>9

\* The transfer of a step of a write or a delete.
LEMMA WritingSpec ==
  ASSUME Base, Writing
  PROVE  /\ pc \in FilePoints /\ pc \in WritePoints /\ active_dev \in Drives
         /\ UNCHANGED <<active_dev, sb_ok, bitmap_buf, ram_bad>>
         /\ WriteLength \in Nat
         /\ \E k \in Nat :
              /\ k <= WriteLength /\ (active_dev \notin Faulty => k = WriteLength)
              /\ disk'[active_dev] = Written(disk[active_dev], k)
              /\ \A d \in Drives : d # active_dev => disk'[d] = disk[d]
              /\ spoiled' = SpoiledBy(active_dev, k)
<1> USE DEF Base
<1>1. pc \in FilePoints /\ pc \in WritePoints /\ active_dev \in Drives /\ active_dev = WriteTarget
  BY DEF Writing, WriteData, FlushBitmap, FlushTable, FilePoints, WritePoints, FormatPoints, Shape, WriteTarget
<1>2. PICK k \in Moved(active_dev, WriteLength) :
        /\ disk' = [disk EXCEPT ![active_dev] = Written(@, k)]
        /\ spoiled' = SpoiledBy(active_dev, k)
  BY DEF Writing, WriteData, FlushBitmap, FlushTable
<1>3. WriteLength \in Nat /\ k \in Nat /\ k <= WriteLength
      /\ (active_dev \notin Faulty => k = WriteLength)
  BY <1>1, <1>2, WriteLengthNat, MovedSpec
<1>4. disk'[active_dev] = Written(disk[active_dev], k)
      /\ \A d \in Drives : d # active_dev => disk'[d] = disk[d]
  BY <1>1, <1>2, <1>3, Transfer
<1>5. UNCHANGED <<active_dev, sb_ok, bitmap_buf, ram_bad>>
  BY DEF Writing, WriteData, FlushBitmap, FlushTable, ram
<1> QED
  BY <1>1, <1>2, <1>3, <1>4, <1>5

\* A drive that a step of a write does not spoil was written whole, from a good
\* bitmap and a good table.
LEMMA UnspoiledSpec ==
  ASSUME Base, pc \in FilePoints, WriteLength \in Nat, NEW k \in Nat, k <= WriteLength,
         active_dev \notin SpoiledBy(active_dev, k)
  PROVE  Trustworthy /\ sb_ok /\ k = WriteLength
<1>1. ~(k < WriteLength) /\ ~ram_bad /\ active_dev \notin spoiled
  BY DEF SpoiledBy
<1>2. active_dev \in Drives /\ active_dev # NoDrive
  BY EkeFsAssumption DEF Base, Shape
<1>3. sb_ok
  BY <1>1, <1>2 DEF Base, Shape
<1> QED
  BY <1>1, <1>2, <1>3 DEF Trustworthy

LEMMA WriteDataGood ==
  ASSUME Base, Good, WriteData
  PROVE  Good'
<1> USE DEF Base, Good
<1>1. pc = "data" /\ pc' = "flush_bm" /\ op' = op /\ op \in WriteOps
      /\ file_table' = [file_table EXCEPT ![op.slot] = NewEntry]
  BY DEF WriteData, Shape
<1>2. Writing
  BY DEF Writing
<1>3. /\ pc \in FilePoints /\ pc \in WritePoints /\ active_dev \in Drives
      /\ UNCHANGED <<active_dev, sb_ok, bitmap_buf, ram_bad>> /\ WriteLength \in Nat
  BY <1>2, WritingSpec
<1>4. PICK k \in Nat :
              /\ k <= WriteLength
              /\ disk'[active_dev] = Written(disk[active_dev], k)
              /\ \A d \in Drives : d # active_dev => disk'[d] = disk[d]
              /\ spoiled' = SpoiledBy(active_dev, k)
  BY <1>2, WritingSpec
<1>5. \A d \in Drives : disk'[d].magic = disk[d].magic /\ disk'[d].bm = disk[d].bm
                        /\ disk'[d].ft = disk[d].ft
  BY <1>1, <1>3, <1>4, WrittenSpec
<1>6. spoiled \subseteq spoiled'
  BY <1>4 DEF SpoiledBy
<1>7. ASSUME NEW d \in Drives \ spoiled' PROVE DriveGood(d)'
  BY <1>1, <1>5, <1>6, DriveSame DEF DrivesGood, Formatting, HalfFlushed
<1>8. ram_bad => active_dev \in spoiled'
  BY <1>4 DEF SpoiledBy
<1>9. DrivesGood'
  BY <1>1, <1>3, <1>7, <1>8 DEF DrivesGood
<1>10. RamGood'
  BY <1>1 DEF RamGood
<1>11. ASSUME Trustworthy'
       PROVE  /\ disk'[active_dev].magic
              /\ BitmapGood(file_table', bitmap_buf, active_dev)
              /\ op.kind = "create" =>
                   \A s \in Slots : disk'[active_dev].ft[s] \in {file_table'[s], Unused}
  <2>1. Trustworthy
    BY <1>3, <1>6, <1>11 DEF Trustworthy
  <2>2. /\ disk[active_dev].magic /\ file_table = disk[active_dev].ft
        /\ op.kind = "create" => file_table[op.slot] = Unused
        /\ BitmapGood([file_table EXCEPT ![op.slot] = NewEntry], bitmap_buf, active_dev)
    BY <1>1, <1>3, <2>1 DEF WriteGood
  <2>3. \A s \in Slots : s # op.slot => file_table'[s] = file_table[s]
    BY <1>1, <1>3 DEF Shape, Tables
  <2>4. ASSUME op.kind = "create", NEW s \in Slots
        PROVE  disk'[active_dev].ft[s] \in {file_table'[s], Unused}
    BY <1>3, <1>5, <2>2, <2>3, <2>4
  <2> QED
    BY <1>1, <1>3, <1>5, <2>2, <2>4
<1>12. WriteGood'
  BY <1>1, <1>3, <1>11 DEF WriteGood
<1> QED
  BY <1>9, <1>10, <1>12

LEMMA FlushBitmapGood ==
  ASSUME Base, Good, BitmapsCover, FlushBitmap
  PROVE  Good'
<1> USE DEF Base, Good
<1> DEFINE a == active_dev
<1>1. pc = "flush_bm" /\ pc' = "flush_ft" /\ op' = op /\ file_table' = file_table
  BY DEF FlushBitmap, ram
<1>2. Writing
  BY DEF Writing
<1>3. /\ pc \in FilePoints /\ pc \in WritePoints /\ a \in Drives
      /\ UNCHANGED <<active_dev, sb_ok, bitmap_buf, ram_bad>> /\ WriteLength \in Nat
  BY <1>2, WritingSpec
<1>4. PICK k \in Nat :
              /\ k <= WriteLength
              /\ disk'[a] = Written(disk[a], k)
              /\ \A d \in Drives : d # a => disk'[d] = disk[d]
              /\ spoiled' = SpoiledBy(a, k)
  BY <1>2, WritingSpec
<1>5. disk'[a].magic = disk[a].magic /\ disk'[a].ft = disk[a].ft
      /\ disk'[a].bm = BitmapPart(disk[a].bm, bitmap_buf, k)
  BY <1>1, <1>3, <1>4, WrittenSpec
<1>6. spoiled \subseteq spoiled'
  BY <1>4 DEF SpoiledBy
<1>7. ASSUME a \notin spoiled'
      PROVE  /\ disk[a].magic
             /\ BitmapGood(file_table, bitmap_buf, a)
             /\ disk'[a].bm = bitmap_buf \cap Covered(a)
             /\ DriveGood(a)'
  <2>1. Trustworthy /\ sb_ok /\ k = WriteLength
    BY <1>3, <1>4, <1>7, UnspoiledSpec
  <2>2. k = BitmapSectors(a)
    BY <1>1, <2>1 DEF WriteLength
  <2>3. disk[a].bm \subseteq DriveBlocks(a) /\ DriveBlocks(a) \subseteq Covered(a)
    BY <1>3, <1>6, <1>7 DEF DrivesGood, DriveGood, BitmapsCover
  <2>4. disk[a].bm \in SUBSET Nat /\ bitmap_buf \in SUBSET Nat
    BY <1>3 DEF Types, DriveContents, Shape
  <2>5. k <= BitmapSectors(a)
    BY <1>3, <2>2, Layout
  <2>6. BitmapPart(disk[a].bm, bitmap_buf, k) = bitmap_buf \cap Covered(a)
    BY <1>3, <2>2, <2>3, <2>4, <2>5, BitmapPartWhole
  <2>7. /\ disk[a].magic /\ BitmapGood(file_table, bitmap_buf, a)
        /\ op.kind = "create" => \A s \in Slots : disk[a].ft[s] \in {file_table[s], Unused}
    BY <1>1, <1>3, <2>1 DEF WriteGood
  <2>8. bitmap_buf \cap Covered(a) \subseteq DriveBlocks(a)
        /\ Consistent(file_table, bitmap_buf \cap Covered(a), a)
    BY <1>3, <2>7, FlushedGood
  <2>9. ASSUME op.kind = "create"
        PROVE  Consistent(disk'[a].ft, disk'[a].bm, a)
    <3>1. \A s \in Slots : Claims(disk[a].ft[s]) \subseteq Claims(file_table[s])
      BY <2>7, <2>9, UnusedClaims
    <3>2. \A s \in Slots : Claims(file_table[s]) \subseteq bitmap_buf \cap Covered(a)
      BY <2>8 DEF Consistent
    <3>3. Consistent(disk[a].ft, bitmap_buf \cap Covered(a), a)
      BY <2>8, <3>1, <3>2, FewerClaims
    <3> QED
      BY <1>5, <2>6, <3>3
  <2>10. HalfFlushed(a)' /\ ~Formatting(a)'
    BY <1>1, <1>3 DEF HalfFlushed, Formatting
  <2>11. DriveGood(a)'
    BY <1>1, <1>3, <1>5, <2>6, <2>7, <2>8, <2>9, <2>10 DEF DriveGood
  <2> QED
    BY <1>5, <2>6, <2>7, <2>11
<1>8. ASSUME NEW d \in Drives \ spoiled', d # a PROVE DriveGood(d)'
  BY <1>1, <1>3, <1>4, <1>6, <1>8, DriveSame DEF DrivesGood, Formatting, HalfFlushed
<1>9. ram_bad => a \in spoiled'
  BY <1>4 DEF SpoiledBy
<1>10. DrivesGood'
  BY <1>1, <1>3, <1>7, <1>8, <1>9 DEF DrivesGood
<1>11. RamGood'
  BY <1>1 DEF RamGood
<1>12. WriteGood'
  <2>1. SUFFICES ASSUME Trustworthy' PROVE WriteGood'
    BY DEF WriteGood
  <2>2. Trustworthy /\ a \notin spoiled'
    BY <1>3, <1>6, <2>1 DEF Trustworthy
  <2>3. op.kind = "create" => \A s \in Slots : disk[a].ft[s] \in {file_table[s], Unused}
    BY <1>1, <2>2 DEF WriteGood
  <2> QED
    BY <1>1, <1>3, <1>5, <1>7, <2>2, <2>3 DEF WriteGood
<1> QED
  BY <1>10, <1>11, <1>12

LEMMA FlushTableGood ==
  ASSUME Base, Good, BitmapsCover, FlushTable
  PROVE  Good'
<1> USE DEF Base, Good
<1> DEFINE a == active_dev
<1>1. pc = "flush_ft" /\ pc' = "idle" /\ file_table' = file_table
  BY DEF FlushTable, ram
<1>2. Writing
  BY DEF Writing
<1>3. /\ pc \in FilePoints /\ pc \in WritePoints /\ a \in Drives
      /\ UNCHANGED <<active_dev, sb_ok, bitmap_buf, ram_bad>> /\ WriteLength \in Nat
  BY <1>2, WritingSpec
<1>4. PICK k \in Nat :
              /\ k <= WriteLength
              /\ disk'[a] = Written(disk[a], k)
              /\ \A d \in Drives : d # a => disk'[d] = disk[d]
              /\ spoiled' = SpoiledBy(a, k)
  BY <1>2, WritingSpec
<1>5. disk'[a].magic = disk[a].magic /\ disk'[a].bm = disk[a].bm
      /\ disk'[a].ft = TablePart(disk[a].ft, file_table, k)
  BY <1>1, <1>3, <1>4, WrittenSpec
<1>6. spoiled \subseteq spoiled'
  BY <1>4 DEF SpoiledBy
<1>7. ASSUME a \notin spoiled'
      PROVE  /\ disk'[a].magic /\ file_table = disk'[a].ft
             /\ BitmapGood(file_table, bitmap_buf, a)
             /\ DriveGood(a)'
  <2>1. Trustworthy /\ sb_ok /\ k = WriteLength
    BY <1>3, <1>4, <1>7, UnspoiledSpec
  <2>2. k = TableSectors
    BY <1>1, <2>1 DEF WriteLength
  <2>3. disk[a].ft \in Tables /\ file_table \in Tables
    BY <1>3 DEF Types, DriveContents, Shape
  <2>4. disk'[a].ft = file_table
    BY <1>5, <2>2, <2>3, TablePartSpec
  <2>5. /\ disk[a].magic /\ BitmapGood(file_table, bitmap_buf, a)
        /\ disk[a].bm = bitmap_buf \cap Covered(a)
    BY <1>1, <1>3, <2>1 DEF WriteGood
  <2>6. /\ bitmap_buf \cap Covered(a) \subseteq DriveBlocks(a)
        /\ Consistent(file_table, bitmap_buf \cap Covered(a), a)
        /\ Undisturbed => Owned(file_table, bitmap_buf \cap Covered(a), a)
    BY <1>3, <2>5, FlushedGood
  <2>7. ~Formatting(a)' /\ disk'[a].magic
    BY <1>1, <1>5, <2>5 DEF Formatting
  <2>8. DriveGood(a)'
    BY <1>3, <1>5, <2>4, <2>5, <2>6, <2>7 DEF DriveGood
  <2> QED
    BY <2>4, <2>5, <2>7, <2>8
<1>8. ASSUME NEW d \in Drives \ spoiled', d # a PROVE DriveGood(d)'
  BY <1>1, <1>3, <1>4, <1>6, <1>8, DriveSame DEF DrivesGood, Formatting, HalfFlushed
<1>9. DrivesGood'
  BY <1>1, <1>3, <1>7, <1>8 DEF DrivesGood
<1>10. RamGood'
  BY <1>1, <1>3, <1>7 DEF RamGood, Trustworthy
<1>11. WriteGood'
  BY <1>1 DEF WriteGood, FilePoints
<1> QED
  BY <1>9, <1>10, <1>11

\* The drive that a write was under way to when power was lost, unless the loss
\* left bitmap and table in disagreement.
LEMMA TornGood ==
  ASSUME Base, Good, BitmapsCover, PowerFailures, pc \in WritePoints,
         NEW k \in Nat, k <= WriteLength, ~LeavesInconsistent(k),
         WriteTarget \notin spoiled
  PROVE  LET x == Written(disk[WriteTarget], k)
         IN  /\ x.bm \subseteq DriveBlocks(WriteTarget)
             /\ ~x.magic => x.bm = {}
             /\ x.magic => Consistent(x.ft, x.bm, WriteTarget)
<1> USE DEF Base, Good
<1> DEFINE d == WriteTarget
           y == disk[d]
           x == Written(disk[d], k)
<1>1. d \in Drives /\ (pc \in FormatPoints => d = op.drive)
      /\ (pc \notin FormatPoints => d = active_dev) /\ WriteLength \in Nat
  BY TargetSpec
<1>2. DriveGood(d)
  BY <1>1 DEF DrivesGood
<1>3. /\ x.magic = IF pc = "fmt_sb" THEN y.magic \/ k = 1 ELSE y.magic
      /\ x.bm = IF pc = "fmt_bm" THEN BitmapPart(y.bm, {}, k)
                ELSE IF pc = "flush_bm" THEN BitmapPart(y.bm, bitmap_buf, k) ELSE y.bm
      /\ x.ft = IF pc = "fmt_ft" THEN TablePart(y.ft, EmptyTable, k)
                ELSE IF pc = "flush_ft" THEN TablePart(y.ft, file_table, k) ELSE y.ft
  BY <1>1, WrittenSpec
<1>4. y.magic \in BOOLEAN /\ y.bm \in SUBSET Nat /\ y.ft \in Tables /\ EmptyTable \in Tables
  BY <1>1, EkeFsAssumption DEF Types, DriveContents
<1>5. y.bm \subseteq DriveBlocks(d) /\ (~y.magic => y.bm = {})
  BY <1>2 DEF DriveGood
<1> HIDE DEF d, x, y
<1>f. CASE pc \in FormatPoints
  <2>1. y.bm = {}
    BY <1>1, <1>2, <1>f DEF DriveGood, DrivesGood, Formatting, FormatPoints, d, y
  <2>2. x.bm = {}
    <3>1. BitmapPart({}, {}, k) = {}
      BY DEF BitmapPart
    <3>2. pc # "flush_bm"
      BY <1>f DEF FormatPoints
    <3> QED
      BY <1>3, <2>1, <3>1, <3>2
  <2>3. CASE pc = "fmt_sb"
    <3>1. ~y.magic
      BY <1>1, <1>f, <2>3 DEF DrivesGood, d, y
    <3>2. x.magic => y.ft = EmptyTable
      BY <1>1, <1>3, <1>f, <2>3, <3>1 DEF LeavesInconsistent, d, y
    <3>3. x.ft = y.ft
      BY <1>3, <2>3
    <3> QED
      BY <2>2, <3>2, <3>3, EmptyConsistent DEF d, x
  <2>4. CASE pc = "fmt_bm"
    <3>1. y.ft = EmptyTable
      BY <1>1, <1>f, <2>4 DEF LeavesInconsistent, d, y
    <3>2. x.ft = y.ft
      BY <1>3, <2>4
    <3> QED
      BY <2>2, <3>1, <3>2, EmptyConsistent DEF d, x
  <2>5. CASE pc = "fmt_ft"
    <3>1. x.ft = EmptyTable
      <4>1. x.ft = TablePart(y.ft, EmptyTable, k)
        BY <1>3, <2>5
      <4>2. CASE k < WriteLength
        <5>1. y.ft = EmptyTable
          BY <1>1, <1>f, <2>5, <4>2 DEF LeavesInconsistent, d, y
        <5> QED
          BY <4>1, <5>1 DEF TablePart, EmptyTable
      <4>3. CASE ~(k < WriteLength)
        <5>1. k = TableSectors
          BY <1>1, <2>5, <4>3, EkeFsAssumption DEF WriteLength
        <5> QED
          BY <1>4, <4>1, <5>1, TablePartSpec
      <4> QED
        BY <4>2, <4>3
    <3> QED
      BY <2>2, <3>1, EmptyConsistent DEF d, x
  <2> QED
    BY <1>f, <2>3, <2>4, <2>5 DEF FormatPoints
<1>6. CASE pc = "data"
  <2>1. x.magic = y.magic /\ x.bm = y.bm /\ x.ft = y.ft
    BY <1>3, <1>6
  <2>2. y.magic => Consistent(y.ft, y.bm, d)
    BY <1>2, <1>6 DEF DriveGood, Formatting, HalfFlushed, y
  <2> QED
    BY <1>5, <2>1, <2>2 DEF d, x
<1>7. CASE pc = "flush_bm"
  <2>0. d = active_dev /\ pc \notin FormatPoints
    BY <1>1, <1>7 DEF FormatPoints
  <2>1. x.magic = y.magic /\ x.bm = BitmapPart(y.bm, bitmap_buf, k) /\ x.ft = y.ft
    BY <1>3, <1>7
  <2>2. y.magic => Consistent(y.ft, y.bm, d)
    BY <1>2, <1>7 DEF DriveGood, Formatting, HalfFlushed, y
  <2>3. bitmap_buf \in SUBSET Nat
    BY <1>7 DEF Shape, FilePoints
  <2>4. CASE k = 0
    <3>1. x.bm = y.bm
      <4>1. \A old, new \in SUBSET Nat : BitmapPart(old, new, 0) = old
        BY BitmapPartSpec
      <4> QED
        BY <1>4, <2>1, <2>3, <2>4, <4>1
    <3> QED
      BY <1>5, <2>1, <2>2, <3>1 DEF d, x
  <2>5. CASE k # 0
    <3>1. op.kind = "create"
      BY <1>7, <2>5 DEF LeavesInconsistent
    <3>2. Trustworthy
      BY <1>1, <1>7, <2>0, <3>1, EkeFsAssumption DEF DrivesGood, Trustworthy, Types, d
    <3>3. /\ y.magic /\ BitmapGood(file_table, bitmap_buf, d)
          /\ \A s \in Slots : y.ft[s] \in {file_table[s], Unused}
      BY <1>7, <2>0, <3>1, <3>2 DEF WriteGood, FilePoints, y
    <3>4. \A s \in Slots : Claims(y.ft[s]) \subseteq y.bm /\ Claims(y.ft[s]) \subseteq bitmap_buf
      BY <2>2, <3>3, UnusedClaims DEF BitmapGood, Consistent
    <3>5. y.bm \cap bitmap_buf \subseteq x.bm
      BY <1>4, <2>1, <2>3, BitmapPartSpec
    <3>6. Consistent(x.ft, x.bm, d)
      BY <2>1, <2>2, <3>3, <3>4, <3>5, FewerClaims
    <3>7. k <= BitmapSectors(d)
      BY <1>1, <1>7, <2>0, <3>2 DEF WriteLength, Shape, Trustworthy
    <3>8. x.bm \subseteq y.bm \cup (bitmap_buf \cap Covered(d))
      BY <1>1, <1>4, <2>1, <2>3, <3>7, BitmapPartWhole
    <3>9. x.bm \subseteq DriveBlocks(d)
      BY <1>5, <3>3, <3>8 DEF BitmapGood
    <3> QED
      BY <2>1, <3>3, <3>6, <3>9 DEF d, x
  <2> QED
    BY <2>4, <2>5
<1>8. CASE pc = "flush_ft"
  <2>0. d = active_dev /\ pc \notin FormatPoints
    BY <1>1, <1>8 DEF FormatPoints
  <2>1. x.magic = y.magic /\ x.bm = y.bm /\ x.ft = TablePart(y.ft, file_table, k)
    BY <1>3, <1>8
  <2>2. Trustworthy /\ sb_ok
    BY <1>1, <1>8, <2>0, EkeFsAssumption DEF DrivesGood, Trustworthy, Types, Shape, d
  <2>3. /\ y.magic /\ BitmapGood(file_table, bitmap_buf, d)
        /\ op.kind = "create" => \A s \in Slots : y.ft[s] \in {file_table[s], Unused}
        /\ y.bm = bitmap_buf \cap Covered(d)
    BY <1>8, <2>0, <2>2 DEF WriteGood, FilePoints, y
  <2>4. Consistent(file_table, y.bm, d)
    BY <1>1, <2>3, FlushedGood
  <2>5. file_table \in Tables
    BY <1>8 DEF Shape, FilePoints
  <2>6. CASE op.kind = "create"
    <3>1. \A s \in Slots : x.ft[s] \in {file_table[s], Unused}
      <4>1. \A s \in Slots : x.ft[s] \in {y.ft[s], file_table[s]}
        BY <1>4, <2>1, <2>5, TablePartSpec
      <4> QED
        BY <2>3, <2>6, <4>1
    <3>2. \A s \in Slots : Claims(x.ft[s]) \subseteq Claims(file_table[s])
      BY <3>1, UnusedClaims
    <3>3. \A s \in Slots : Claims(file_table[s]) \subseteq y.bm
      BY <2>4 DEF Consistent
    <3>4. Consistent(x.ft, y.bm, d)
      BY <2>4, <3>2, <3>3, FewerClaims
    <3> QED
      BY <1>5, <2>1, <2>3, <3>4 DEF d, x
  <2>7. CASE op.kind # "create"
    <3>1. ~(k < WriteLength)
      BY <1>8, <2>7 DEF LeavesInconsistent
    <3>2. k = TableSectors
      BY <1>1, <1>8, <2>2, <3>1, EkeFsAssumption DEF WriteLength
    <3>3. x.ft = file_table
      BY <1>4, <2>1, <2>5, <3>2, TablePartSpec
    <3> QED
      BY <1>5, <2>1, <2>3, <2>4, <3>3 DEF d, x
  <2> QED
    BY <2>6, <2>7
<1> QED
  BY <1>f, <1>6, <1>7, <1>8 DEF WritePoints

LEMMA PowerLossGood ==
  ASSUME Base, Good, BitmapsCover, PowerLoss
  PROVE  Good'
<1> USE DEF Base, Good
<1>1. PICK k \in 0..(IF pc \in WritePoints THEN WriteLength ELSE 0) :
        /\ disk' = AfterPowerLoss(k)
        /\ spoiled' = (IF pc \in WritePoints /\ LeavesInconsistent(k)
                       THEN spoiled \cup {WriteTarget} ELSE spoiled) \ Volatile
  BY DEF PowerLoss
<1>2. k \in Nat /\ (pc \in WritePoints => k <= WriteLength)
  BY WriteLengthNat
<1>3. pc' = "off" /\ active_dev' = NoDrive /\ PowerFailures
  BY DEF PowerLoss, ResetRam
<1>4. ASSUME NEW d \in Drives, d \notin spoiled' PROVE DriveGood(d)'
  <2>0. ~Formatting(d)' /\ ~HalfFlushed(d)' /\ ~Undisturbed
    BY <1>3 DEF Formatting, HalfFlushed, Undisturbed
  <2>1. CASE d \in Volatile
    BY <1>1, <2>0, <2>1, DriveBlank DEF AfterPowerLoss
  <2>2. CASE d \notin Volatile
    <3>1. d \notin spoiled /\ DriveGood(d)
      BY <1>1, <1>4, <2>2 DEF DrivesGood
    <3>2. CASE pc \in WritePoints /\ d = WriteTarget
      <4>1. ~LeavesInconsistent(k)
        BY <1>1, <1>4, <2>2, <3>2
      <4>2. disk'[d] = Written(disk[d], k)
        BY <1>1, <2>2, <3>2 DEF AfterPowerLoss
      <4>3. /\ disk'[d].bm \subseteq DriveBlocks(d)
            /\ ~disk'[d].magic => disk'[d].bm = {}
            /\ disk'[d].magic => Consistent(disk'[d].ft, disk'[d].bm, d)
        BY <1>2, <1>3, <3>1, <3>2, <4>1, <4>2, TornGood
      <4> QED
        BY <2>0, <4>3 DEF DriveGood
    <3>3. CASE ~(pc \in WritePoints /\ d = WriteTarget)
      <4>1. disk'[d] = disk[d]
        BY <1>1, <2>2, <3>3 DEF AfterPowerLoss
      <4>2. ~Formatting(d) /\ ~HalfFlushed(d)
        BY <3>3 DEF Formatting, HalfFlushed, WriteTarget, WritePoints, FormatPoints
      <4> QED
        BY <2>0, <3>1, <4>1, <4>2, DriveSame
    <3> QED
      BY <3>2, <3>3
  <2> QED
    BY <2>1, <2>2
<1>5. DrivesGood'
  BY <1>3, <1>4 DEF DrivesGood
<1>6. RamGood' /\ WriteGood'
  BY <1>3 DEF RamGood, WriteGood, Trustworthy
<1> QED
  BY <1>5, <1>6

LEMMA NextGood ==
  ASSUME BitmapsCover
  PROVE  Base /\ Good /\ [Next]_vars => Good'
<1> SUFFICES ASSUME Base, Good, [Next]_vars PROVE Good'
  OBVIOUS
<1>1. CASE UNCHANGED vars
  <2>1. DrivesGood'
    BY <1>1 DEF Good, DrivesGood, DriveGood, Formatting, HalfFlushed, vars, ram
  <2>2. RamGood'
    BY <1>1 DEF Good, RamGood, Trustworthy, vars, ram
  <2>3. WriteGood'
    BY <1>1 DEF Good, WriteGood, Trustworthy, NewEntry, vars, ram
  <2> QED
    BY <2>1, <2>2, <2>3 DEF Good
<1>2. CASE Next
  BY <1>2, MountingGood, FormatGood, LoadZeroGood, LoadGood, LoadDiskGood, LoadDiskFailsGood,
     DeleteGood, FailedWriteGood, WriteBeginGood, WriteDataGood, FlushBitmapGood, FlushTableGood, PowerLossGood
  DEF Next, Mounting, Writing
<1> QED
  BY <1>1, <1>2

LEMMA Invariance ==
  ASSUME BitmapsCover
  PROVE  Spec => [](Base /\ Good)
<1>1. Init => Base /\ Good
  BY InitBase, InitGood
<1>2. Base /\ Good /\ [Next]_vars => (Base /\ Good)'
  BY NextBase, NextGood
<1> QED
  BY <1>1, <1>2, PTL DEF Spec

\* Between operations bitmap and table agree on every drive, and in RAM, unless a
\* failed transfer, a failed overwrite or a power loss inside one of the windows
\* of LeavesInconsistent has been recorded: no sequence of writes, deletes,
\* mounts, drive switches, page shortages and other power losses breaks them.
\* The bitmap of every drive must have a bit for each block.
THEOREM Agreement ==
  ASSUME BitmapsCover
  PROVE  Spec => []ConsistentWhenIdle
<1>1. Base /\ Good => ConsistentWhenIdle
  <2> SUFFICES ASSUME Base, Good, pc = "idle"
               PROVE  /\ \A d \in Drives \ spoiled :
                           /\ disk[d].magic => Consistent(disk[d].ft, disk[d].bm, d)
                           /\ disk[d].bm \subseteq DriveBlocks(d)
                      /\ Trustworthy =>
                           /\ Consistent(file_table, bitmap_buf, active_dev)
                           /\ file_table = disk[active_dev].ft
    BY DEF ConsistentWhenIdle, Trustworthy
  <2>1. ASSUME NEW d \in Drives \ spoiled
        PROVE  /\ disk[d].magic => Consistent(disk[d].ft, disk[d].bm, d)
               /\ disk[d].bm \subseteq DriveBlocks(d)
    BY DEF Good, DrivesGood, DriveGood, Formatting, HalfFlushed
  <2>2. Trustworthy => /\ Consistent(file_table, bitmap_buf, active_dev)
                       /\ file_table = disk[active_dev].ft
    BY DEF Good, RamGood, BitmapGood
  <2> QED
    BY <2>1, <2>2
<1> QED
  BY <1>1, Invariance, PTL

\* Without power losses and page shortages the accounting is exact: the counter is
\* that of the bitmap, and every block marked used is metadata or a file's, unless
\* a failed transfer or a failed overwrite has been recorded.
THEOREM Accounting ==
  ASSUME BitmapsCover, ~PowerFailures, ~PageFailures
  PROVE  Spec => []AccountingExact
<1>1. Base /\ Good => AccountingExact
  <2> SUFFICES ASSUME Base, Good PROVE AccountingExact
    OBVIOUS
  <2>1. ASSUME pc = "idle", sb_ok, ~ram_bad, active_dev \notin spoiled
        PROVE  bitmap_buf \cap DriveBlocks(active_dev)
                 = MetaBlocks(active_dev) \cup UNION {Claims(file_table[s]) : s \in Slots}
    <3>1. active_dev \in Drives /\ Trustworthy
      BY <2>1, EkeFsAssumption DEF Base, Shape, Trustworthy
    <3>2. BitmapGood(file_table, bitmap_buf, active_dev) /\ Undisturbed
      BY <2>1, <3>1 DEF Good, RamGood, Undisturbed
    <3>3. MetaBlocks(active_dev) \subseteq bitmap_buf \cap DriveBlocks(active_dev)
      BY <3>1, <3>2, Layout DEF BitmapGood
    <3>4. \A s \in Slots : Claims(file_table[s]) \subseteq bitmap_buf \cap DriveBlocks(active_dev)
      BY <3>2 DEF BitmapGood, Consistent
    <3>5. bitmap_buf \cap DriveBlocks(active_dev)
            \subseteq MetaBlocks(active_dev) \cup UNION {Claims(file_table[s]) : s \in Slots}
      BY <3>2 DEF BitmapGood, Owned
    <3> QED
      BY <3>3, <3>4, <3>5
  <2> QED
    BY <2>1 DEF AccountingExact, NoLeakedBlocks, Base
<1> QED
  BY <1>1, Invariance, PTL

-----------------------------------------------------------------------------
(* Files are created whole.                                                *)

LEMMA InitCreate == Init => CreateInv
BY DEF Init, CreateInv, NoOp

LEMMA MountingCreate ==
  ASSUME Base, CreateInv, Faulty = {},
         \/ Boot \/ MountReadFails \/ MountUnformatted \/ MountFormatted \/ Format \/ LoadFsModule
         \/ \E d \in Drives : DriveCommand(d) \/ LoadDiskModule(d)
  PROVE  CreateInv'
<1> USE DEF Base
<1>1. pc' \in {"mount", "load"} \cup FormatPoints /\ UNCHANGED ram /\ op'.kind = "mount"
  <2>1. CASE Boot
    BY <2>1 DEF Boot, StartMount
  <2>2. CASE MountReadFails
    BY <2>2 DEF MountReadFails
  <2>3. CASE MountUnformatted
    BY <2>3 DEF MountUnformatted, Shape, MountOps, FormatPoints
  <2>4. CASE MountFormatted
    BY <2>4 DEF MountFormatted, Shape, MountOps
  <2>5. CASE Format
    BY <2>5 DEF Format, Shape, MountOps, FormatPoints
  <2>6. CASE LoadFsModule
    BY <2>6 DEF LoadFsModule, StartMount
  <2>7. CASE \E d \in Drives : DriveCommand(d)
    BY <2>7 DEF DriveCommand, StartMount
  <2>8. CASE \E d \in Drives : LoadDiskModule(d)
    BY <2>8 DEF LoadDiskModule, StartMount
  <2> QED
    BY <2>1, <2>2, <2>3, <2>4, <2>5, <2>6, <2>7, <2>8
<1>2. pc' \in {"load", "fmt_bm", "fmt_ft"} => disk'[op'.drive].magic
  <2>1. CASE MountFormatted
    BY <2>1 DEF MountFormatted
  <2>2. CASE Format
    <3> DEFINE t == op.drive
    <3> DEFINE k == WriteLength
    <3>1. pc \in FormatPoints /\ pc \in WritePoints /\ t \in Drives /\ op' = op
      BY <2>2, FormatSpec DEF Format
    <3>3. disk'[t] = Written(disk[t], k) /\ k \in Nat
      BY <2>2, FormatSpec
    <3>5. Written(disk[t], k).magic = IF pc = "fmt_sb" THEN disk[t].magic \/ k = 1 ELSE disk[t].magic
      BY <3>1, <3>3, WrittenSpec
    <3>6. pc = "fmt_sb" => k = 1
      BY DEF WriteLength
    <3>7. pc # "fmt_sb" => disk[t].magic
      BY <3>1 DEF CreateInv, FormatPoints
    <3> QED
      BY <3>1, <3>3, <3>5, <3>6, <3>7
  <2>3. CASE ~MountFormatted /\ ~Format
    BY <2>3 DEF Boot, MountReadFails, MountUnformatted, LoadFsModule, DriveCommand,
                LoadDiskModule, StartMount
  <2> QED
    BY <2>1, <2>2, <2>3
<1> QED
  BY <1>1, <1>2 DEF CreateInv, ram, FormatPoints

LEMMA LoadDiskFailsCreate ==
  ASSUME Base, CreateInv, NEW d \in Drives, LoadDiskFails(d)
  PROVE  CreateInv'
<1>1. /\ pc = "idle" /\ UNCHANGED <<ram, pc, op>>
      /\ \A e \in Drives : e \notin Volatile => disk'[e] = disk[e]
  BY LoadDiskFailsSpec DEF Base
<1>2. active_dev \in Drives \cup {NoDrive} /\ op = NoOp
  BY <1>1 DEF Base, Types, CreateInv
<1> QED
  BY <1>1, <1>2 DEF CreateInv, ram, NoOp

LEMMA LoadCreate ==
  ASSUME Base, CreateInv, Faulty = {}, LoadZero \/ Load
  PROVE  CreateInv'
<1> USE DEF Base
<1> DEFINE d == op.drive
<1>1. op \in MountOps /\ d \in Drives /\ pc = "load"
  BY DEF Load, LoadZero, Shape, MountOps
<1>2. disk[d].magic /\ disk[d].ft \in Tables
  BY <1>1 DEF CreateInv, Types, DriveContents
<1>3. Load
  BY <1>2 DEF LoadZero, AdoptedSb
<1>4. disk' = disk /\ active_dev' = d /\ sb_ok' /\
      \/ pc' = "idle" /\ op' = NoOp
      \/ pc' = "mount" /\ op' \in MountOps
  BY <1>1, <1>3, EndMountSpec DEF Load
<1>5. PICK kb \in Moved(d, BitmapSectors(d)), kt \in Moved(d, TableSectors),
           sb \in SUBSET Nat, st \in Tables :
           /\ bitmap_buf' = BitmapPart(sb, disk[d].bm, kb) \cup MetaBlocks(d)
           /\ free_blocks' = CountFree(bitmap_buf', TotalSectors[d]) /\ free_blocks' \in Nat
           /\ file_table' = TablePart(st, disk[d].ft, kt)
           /\ ram_bad' = (kb < BitmapSectors(d) \/ kt < TableSectors)
  BY <1>3, LoadSpec
<1>6. kt = TableSectors
  BY <1>5, MovedSpec, EkeFsAssumption
<1>7. file_table' = disk[d].ft
  BY <1>2, <1>5, <1>6, TablePartSpec
<1>8. op'.kind # "create"
  BY <1>4 DEF NoOp, MountOps
<1> QED
  BY <1>4, <1>7, <1>8 DEF CreateInv

LEMMA CommandCreate ==
  ASSUME Base, CreateInv, NEW n \in Names,
         \/ DeleteFile(n)
         \/ \E z \in ByteSizes : WriteDiskFull(n, z) \/ WriteNoPage(n, z)
         \/ \E z \in ByteSizes, v \in Vals : WriteBegin(n, v, z)
  PROVE  CreateInv'
<1> USE DEF Base
<1>1. CASE DeleteFile(n)
  <2>1. op'.kind = "delete" /\ pc' = "flush_bm" /\ UNCHANGED <<active_dev, sb_ok>>
    BY <1>1 DEF DeleteFile
  <2> QED
    BY <2>1 DEF CreateInv
<1>2. CASE \E z \in ByteSizes : WriteDiskFull(n, z) \/ WriteNoPage(n, z)
  <2>1. UNCHANGED <<disk, active_dev, sb_ok, file_table, pc, op>> /\ Ready
    BY <1>2 DEF WriteDiskFull, WriteNoPage, Place
  <2>2. pc = "idle" /\ op = NoOp
    BY <2>1 DEF Ready, CreateInv
  <2> QED
    BY <2>1, <2>2 DEF CreateInv, NoOp
<1>3. ASSUME NEW z \in ByteSizes, NEW v \in Vals, WriteBegin(n, v, z)
      PROVE  CreateInv'
  <2>1. UNCHANGED <<disk, active_dev, sb_ok, file_table>> /\ Ready /\ pc' = "data"
    BY <1>3 DEF WriteBegin, Place
  <2>2. /\ op' \in WriteOps /\ op'.name = n /\ op'.slot \in TargetSlots(n)
        /\ op'.kind = "create" => Matches(file_table, n) = {}
    BY <1>3, BeginSpec
  <2>3. pc = "idle" /\ file_table \in Tables
    BY <2>1, ReadySpec
  <2>4. op'.kind = "create" => file_table[op'.slot] = Unused
    <3>1. SUFFICES ASSUME op'.kind = "create" PROVE file_table[op'.slot] = Unused
      OBVIOUS
    <3>2. op'.slot \in Slots /\ ~file_table[op'.slot].used
      BY <2>2, <3>1 DEF TargetSlots
    <3>3. file_table[op'.slot] \in Entries
      BY <2>3, <3>2 DEF Tables
    <3> QED
      BY <3>2, <3>3 DEF Entries
  <2>5. (op.kind = "create" /\ active_dev \notin Volatile => UnderCreation)'
    BY <2>1, <2>2, <2>4 DEF UnderCreation
  <2> QED
    BY <2>1, <2>3, <2>5 DEF CreateInv
<1> QED
  BY <1>1, <1>2, <1>3

LEMMA WritingCreate ==
  ASSUME Base, CreateInv, Faulty = {}, Writing
  PROVE  CreateInv'
<1> USE DEF Base
<1> DEFINE a == active_dev
           x == disk[a]
           y == disk'[a]
<1>1. /\ pc \in FilePoints /\ pc \in WritePoints /\ a \in Drives
      /\ UNCHANGED <<active_dev, sb_ok, bitmap_buf, ram_bad>>
  BY WritingSpec
<1>2. PICK k \in Nat : k = WriteLength /\ y = Written(x, k)
  BY WritingSpec
<1>3. sb_ok /\ x.ft \in Tables /\ file_table \in Tables /\ x \in DriveContents(a)
  BY <1>1, EkeFsAssumption DEF CreateInv, Types, DriveContents, Shape
<1>4. CASE WriteData
  <2>1. pc = "data" /\ pc' = "flush_bm" /\ op' = op /\ op \in WriteOps
        /\ file_table' = [file_table EXCEPT ![op.slot] = NewEntry]
    BY <1>4 DEF WriteData, Shape
  <2>2. y.ft = x.ft /\ y.data = DataPart(x.data, op.start, op.val, k)
    BY <1>1, <1>2, <2>1, WrittenSpec
  <2>3. k = BlocksFor(op.bytes)
    BY <1>2, <2>1 DEF WriteLength
  <2>4. op.slot \in Slots /\ op.start \in Nat /\ op.bytes \in Nat
    BY <2>1, EkeFsAssumption DEF WriteOps
  <2>5. \A s \in Slots : file_table'[s] = IF s = op.slot THEN NewEntry ELSE file_table[s]
    BY <1>3, <2>1 DEF Tables
  <2>6. ASSUME op.kind = "create", a \notin Volatile PROVE UnderCreation'
    <3>1. Matches(file_table, op.name) = {} /\ file_table[op.slot] = Unused /\ file_table = x.ft
      BY <1>1, <2>1, <2>6, EkeFsAssumption DEF CreateInv, UnderCreation
    <3>2. file_table'[op.slot] = NewEntry /\ NewEntry' = NewEntry
      BY <2>1, <2>4, <2>5 DEF NewEntry, BlocksFor
    <3>3. ASSUME NEW s \in Slots \ {op.slot}
          PROVE  y.ft[s] = file_table'[s] /\ s \notin Matches(file_table', op.name)
      BY <2>2, <2>5, <3>1 DEF Matches
    <3>4. y.ft[op.slot] = Unused
      BY <2>2, <3>1
    <3>5. ASSUME NEW b \in BlockRun(op.start, k)
          PROVE  b \in DriveBlocks(a) /\ y.data[b] = op.val
      <4>1. op.start + k <= TotalSectors[a] /\ TotalSectors[a] \in Nat
        BY <1>1, <1>3, <2>1, <2>3, Layout DEF Shape, Total
      <4>2. b \in DriveBlocks(a)
        BY <2>4, <4>1 DEF BlockRun, DriveBlocks, Blocks
      <4>3. DOMAIN x.data = DriveBlocks(a)
        BY <1>3 DEF DriveContents
      <4> QED
        BY <2>2, <4>2, <4>3 DEF DataPart
    <3>6. BlockRun(op.start, BlocksFor(op.bytes))' = BlockRun(op.start, k)
      BY <2>1, <2>3
    <3> QED
      BY <1>1, <2>1, <3>2, <3>3, <3>4, <3>5, <3>6 DEF UnderCreation
  <2> QED
    BY <1>1, <1>3, <2>1, <2>6 DEF CreateInv
<1>5. CASE FlushBitmap
  <2>1. pc = "flush_bm" /\ pc' = "flush_ft" /\ op' = op /\ file_table' = file_table
    BY <1>5 DEF FlushBitmap, ram
  <2>2. y.ft = x.ft /\ y.data = x.data
    BY <1>1, <1>2, <2>1, WrittenSpec
  <2>3. op.kind = "create" /\ a \notin Volatile => UnderCreation'
    BY <1>1, <2>1, <2>2 DEF CreateInv, UnderCreation, NewEntry
  <2> QED
    BY <1>1, <1>3, <2>1, <2>3 DEF CreateInv
<1>6. CASE FlushTable
  <2>1. pc = "flush_ft" /\ pc' = "idle" /\ op' = NoOp /\ file_table' = file_table
    BY <1>6 DEF FlushTable, ram
  <2>2. y.ft = TablePart(x.ft, file_table, k)
    BY <1>1, <1>2, <2>1, WrittenSpec
  <2>3. k = TableSectors
    BY <1>2, <1>3, <2>1 DEF WriteLength
  <2>4. y.ft = file_table
    BY <1>3, <2>2, <2>3, TablePartSpec
  <2> QED
    BY <1>1, <1>3, <2>1, <2>4 DEF CreateInv, NoOp
<1> QED
  BY <1>4, <1>5, <1>6 DEF Writing

LEMMA NextCreate ==
  ASSUME Faulty = {}
  PROVE  Base /\ CreateInv /\ [Next]_vars => CreateInv'
<1> SUFFICES ASSUME Base, CreateInv, [Next]_vars PROVE CreateInv'
  OBVIOUS
<1>1. CASE UNCHANGED vars
  BY <1>1 DEF CreateInv, UnderCreation, NewEntry, vars, ram
<1>2. CASE PowerLoss
  <2>1. pc' = "off" /\ active_dev' = NoDrive /\ op' = NoOp
    BY <1>2 DEF PowerLoss, ResetRam
  <2> QED
    BY <2>1 DEF CreateInv, NoOp
<1>3. CASE Next /\ ~PowerLoss
  BY <1>3, MountingCreate, LoadDiskFailsCreate, LoadCreate, CommandCreate, WritingCreate DEF Next, Mounting
<1> QED
  BY <1>1, <1>2, <1>3

\* What a command finds under the name of the file: nothing when no entry has it,
\* and the content of its entry when only that one has.
LEMMA ContentFound ==
  ASSUME NEW t, NEW data, NEW n \in Names, NEW slot \in Slots,
         \A s \in Slots \ {slot} : s \notin Matches(t, n)
  PROVE  \/ FilesIn(t, data)[n] = NoFile
         \/ slot \in Matches(t, n) /\ FilesIn(t, data)[n] = ContentOf(t[slot], data)
<1>1. Matches(t, n) \subseteq Slots
  BY DEF Matches
<1>2. CASE Matches(t, n) = {}
  BY <1>2 DEF FilesIn
<1>3. CASE Matches(t, n) # {}
  <2>1. Least(Matches(t, n)) \in Matches(t, n)
    BY <1>1, <1>3, LeastSlot
  <2>2. Least(Matches(t, n)) = slot /\ slot \in Matches(t, n)
    BY <1>1, <2>1
  <2> QED
    BY <1>3, <2>2 DEF FilesIn
<1> QED
  BY <1>2, <1>3

\* The content of an entry whose blocks all hold the value written.
LEMMA ContentWhole ==
  ASSUME NEW e, NEW data, NEW v \in Vals, e.size \in ByteSizes, e.start \in Nat,
         \A b \in BlockRun(e.start, BlocksFor(e.size)) : b \in DOMAIN data /\ data[b] = v
  PROVE  ContentOf(e, data) = WholeContent(e.size, v) /\ ContentOf(e, data) \in WholeContents
<1> DEFINE c == BlocksFor(e.size)
           found == [k \in 1..c |-> IF e.start + k - 1 \in DOMAIN data
                                    THEN data[e.start + k - 1] ELSE Blank]
<1>1. c \in Nat
  BY BlocksForNat, EkeFsAssumption
<1>2. \A k \in 1..c : e.start + k - 1 \in BlockRun(e.start, c)
  BY <1>1 DEF BlockRun
<1>3. found = [k \in 1..c |-> v]
  BY <1>2
<1>4. ContentOf(e, data) = [bytes |-> e.size, blocks |-> found]
  BY DEF ContentOf
<1>5. ContentOf(e, data) = WholeContent(e.size, v)
  BY <1>3, <1>4 DEF WholeContent
<1> QED
  BY <1>5 DEF WholeContents

\* Power lost while a file is created, on drives whose transfers do not fail: the
\* next mount finds the file complete or does not find it.  Its entry reaches the
\* drive after its data, and with nothing else under its name.
THEOREM Atomicity ==
  ASSUME Faulty = {}
  PROVE  Spec => CreateIsAtomic
<1> DEFINE Whole ==
      pc # "off" /\ pc' = "off" /\ op.kind = "create" /\ active_dev \notin spoiled'
        => FilesIn(disk'[active_dev].ft, disk'[active_dev].data)[op.name]
             \in WholeContents \cup {NoFile}
<1>1. ASSUME Base, CreateInv, [Next]_vars PROVE [Whole]_vars
  <2> USE DEF Base
  <2> SUFFICES ASSUME Next, pc # "off", pc' = "off", op.kind = "create"
               PROVE  FilesIn(disk'[active_dev].ft, disk'[active_dev].data)[op.name]
                        \in WholeContents \cup {NoFile}
    BY <1>1
  <2> DEFINE a == active_dev
             x == disk[a]
             y == disk'[a]
  <2>1. PowerLoss
    <3>1. ~(Boot \/ LoadFsModule
             \/ \E d \in Drives : DriveCommand(d) \/ LoadDiskModule(d) \/ LoadDiskFails(d))
      BY DEF Boot, LoadFsModule, DriveCommand, LoadDiskModule, LoadDiskFails, StartMount
    <3>2. ~(MountReadFails \/ LoadZero \/ Load)
      BY <1>1, EndMountSpec DEF MountReadFails, LoadZero, Load, Shape
    <3>3. ~(MountUnformatted \/ MountFormatted \/ Format)
      BY DEF MountUnformatted, MountFormatted, Format
    <3>4. ~ \E n \in Names : DeleteFile(n)
      BY DEF DeleteFile
    <3>5. ~ \E n \in Names, z \in ByteSizes : WriteDiskFull(n, z) \/ WriteNoPage(n, z)
      BY DEF WriteDiskFull, WriteNoPage
    <3>6. ~ \E n \in Names, z \in ByteSizes, v \in Vals : WriteBegin(n, v, z)
      BY DEF WriteBegin
    <3>7. ~Writing
      BY DEF Writing, WriteData, FlushBitmap, FlushTable
    <3> QED
      BY <3>1, <3>2, <3>3, <3>4, <3>5, <3>6, <3>7 DEF Next, Mounting
  <2>2. pc \in FilePoints
    BY <1>1 DEF CreateInv, NoOp, Shape, MountOps, Types, WritePoints, FormatPoints, FilePoints
  <2>3. pc \in WritePoints /\ a \in Drives /\ WriteTarget = a /\ a # NoDrive
    BY <1>1, <2>2, EkeFsAssumption DEF WritePoints, FormatPoints, FilePoints, WriteTarget, Shape
  <2>4. op \in WriteOps
    BY <1>1, <2>2 DEF FilePoints, Shape, DeleteOps
  <2>5. op.name \in Names /\ op.slot \in Slots /\ op.val \in Vals /\ op.bytes \in ByteSizes
        /\ op.start \in Nat
    BY <2>4 DEF WriteOps
  <2>6. PICK k \in 0..WriteLength : disk' = AfterPowerLoss(k)
    BY <2>1, <2>3 DEF PowerLoss
  <2>7. k \in Nat
    BY <1>1, <2>3, WriteLengthNat
  <2>8. /\ a \notin Volatile => UnderCreation
        /\ x.ft \in Tables /\ file_table \in Tables /\ x \in DriveContents(a)
    BY <1>1, <2>2, <2>3 DEF CreateInv, Types, DriveContents, Shape
  <2>9. CASE a \in Volatile
    <3>1. y = BlankDrive(a, EmptyTable)
      BY <2>3, <2>6, <2>9 DEF AfterPowerLoss
    <3>2. Matches(y.ft, op.name) = {}
      BY <3>1 DEF BlankDrive, Matches, EmptyTable, Unused
    <3> QED
      BY <2>5, <3>2 DEF FilesIn
  <2>10. CASE a \notin Volatile
    <3>1. y = Written(x, k)
      BY <2>3, <2>6, <2>10 DEF AfterPowerLoss
    <3>2. CASE pc \in {"data", "flush_bm"}
      <4>1. y.ft = x.ft
        BY <1>1, <2>3, <2>7, <3>1, <3>2, WrittenSpec
      <4>2. Matches(x.ft, op.name) = {}
        <5>1. CASE pc = "data"
          BY <1>1, <2>3, <2>8, <2>10, <5>1 DEF CreateInv, UnderCreation
        <5>2. CASE pc = "flush_bm"
          BY <2>8, <2>10, <5>2 DEF UnderCreation, Matches, Unused
        <5> QED
          BY <3>2, <5>1, <5>2
      <4> QED
        BY <2>5, <4>1, <4>2 DEF FilesIn
    <3>3. CASE pc = "flush_ft"
      <4>1. y.ft = TablePart(x.ft, file_table, k) /\ y.data = x.data
        BY <1>1, <2>3, <2>7, <3>1, <3>3, WrittenSpec
      <4>2. \A s \in Slots : y.ft[s] \in {x.ft[s], file_table[s]}
        BY <2>8, <4>1, TablePartSpec
      <4>3. /\ file_table[op.slot] = NewEntry /\ x.ft[op.slot] = Unused
            /\ \A s \in Slots \ {op.slot} :
                 x.ft[s] = file_table[s] /\ s \notin Matches(file_table, op.name)
            /\ \A b \in BlockRun(op.start, BlocksFor(op.bytes)) :
                 b \in DriveBlocks(a) /\ x.data[b] = op.val
        BY <2>8, <2>10, <3>3 DEF UnderCreation
      <4>4. \A s \in Slots \ {op.slot} : s \notin Matches(y.ft, op.name)
        BY <4>2, <4>3 DEF Matches
      <4>5. op.slot \in Matches(y.ft, op.name) => y.ft[op.slot] = NewEntry
        BY <2>5, <4>2, <4>3 DEF Matches, Unused
      <4>6. DOMAIN x.data = DriveBlocks(a)
        BY <2>8 DEF DriveContents
      <4>7. NewEntry.size = op.bytes /\ NewEntry.start = op.start
        BY DEF NewEntry
      <4>8. ContentOf(NewEntry, y.data) \in WholeContents
        BY <2>5, <4>1, <4>3, <4>6, <4>7, ContentWhole
      <4> QED
        BY <2>5, <4>4, <4>5, <4>8, ContentFound
    <3> QED
      BY <2>2, <3>2, <3>3 DEF FilePoints
  <2> QED
    BY <2>9, <2>10
<1>2. Init => Base /\ CreateInv
  BY InitBase, InitCreate
<1>3. Base /\ CreateInv /\ [Next]_vars => (Base /\ CreateInv)'
  BY NextBase, NextCreate
<1>4. Base /\ CreateInv /\ [Next]_vars => [Whole]_vars
  BY <1>1
<1>5. Spec => [][Whole]_vars
  <2> HIDE DEF Whole
  <2> QED
    BY <1>2, <1>3, <1>4, PTL DEF Spec
<1> QED
  BY <1>5 DEF CreateIsAtomic

-----------------------------------------------------------------------------
(* EKE-FS implements FileStore.                                            *)

\* A table with one entry per name, each with the blocks its file needs.
TableGood(t) ==
  /\ \A s, u \in Slots : t[s].used /\ t[u].used /\ t[s].name = t[u].name => s = u
  /\ \A s \in Slots : t[s].used => t[s].count = BlocksFor(t[s].size)

\* Two tables that differ at most in one entry, that of file n.
OnlyAt(z, t, u, n) ==
  /\ \A s \in Slots \ {z} : t[s] = u[s]
  /\ \A e \in {t[z], u[z]} : e.used => e.name = n

\* The tables that a mount can find are good, and the change under way is one of
\* the file named in the command, complete when the metadata are flushed.
FilesInv ==
  /\ \A d \in Drives \ spoiled : disk[d].magic /\ ~Formatting(d) => TableGood(disk[d].ft)
  /\ Trustworthy =>
       /\ pc = "data" =>
            Matches(file_table, op.name) = IF op.kind = "create" THEN {} ELSE {op.slot}
       /\ pc \in {"flush_bm", "flush_ft"} =>
            /\ TableGood(file_table)
            /\ \E z \in Slots : OnlyAt(z, disk[active_dev].ft, file_table, op.name)
            /\ FilesIn(file_table, disk[active_dev].data)[op.name] = Requested

\* The files a mount would find on a drive with contents x.
FilesOn(x) == FilesIn(IF x.magic THEN x.ft ELSE EmptyTable, x.data)

\* Commands see the files that are on the drives; while the metadata are being
\* flushed, those of the mounted drive as the table in RAM has them.
Seen ==
  \A d \in Trusted :
    AllFiles[d] = IF pc \in {"flush_bm", "flush_ft"} /\ d = active_dev
                  THEN FilesIn(file_table, disk[d].data) ELSE FilesOn(disk[d])

LEMMA FilesSeen == Base /\ Good => Seen
<1> SUFFICES ASSUME Base, Good, NEW d \in Trusted
             PROVE  AllFiles[d] = IF pc \in {"flush_bm", "flush_ft"} /\ d = active_dev
                                  THEN FilesIn(file_table, disk[d].data) ELSE FilesOn(disk[d])
  BY DEF Seen
<1> USE DEF Base, Good
<1>1. d \in Drives /\ d # NoDrive /\ d \notin spoiled
  BY EkeFsAssumption DEF Trusted
<1>2. AllFiles[d] = Files(d)
  BY <1>1 DEF AllFiles
<1>3. CASE d # active_dev
  BY <1>2, <1>3 DEF Files, FilesOn
<1>4. CASE d = active_dev
  <2>1. Trustworthy
    BY <1>1, <1>4 DEF Trustworthy, Trusted
  <2>2. CASE pc \in {"flush_bm", "flush_ft"}
    <3>1. file_table \in Tables /\ op.kind # "mount"
      BY <2>2 DEF Shape, FilePoints, WriteOps, DeleteOps
    <3> QED
      BY <1>2, <1>4, <2>2, <3>1, NullAssumption DEF Files
  <2>3. CASE pc \in {"idle", "data"}
    <3>1. disk[d].magic /\ file_table = disk[d].ft
      BY <1>4, <2>1, <2>3 DEF RamGood, WriteGood, FilePoints
    <3> QED
      BY <1>2, <2>3, <3>1 DEF Files, FilesOn
  <2>4. CASE pc \notin {"flush_bm", "flush_ft", "idle", "data"}
    <3>1. pc \in {"mount", "load"} \cup FormatPoints
      BY <1>1, <1>4, <2>4 DEF Types, Shape, WritePoints
    <3>2. op.kind = "mount"
      BY <3>1 DEF Shape, MountOps
    <3> QED
      BY <1>2, <2>4, <3>2 DEF Files, FilesOn
  <2> QED
    BY <2>2, <2>3, <2>4
<1> QED
  BY <1>3, <1>4

-----------------------------------------------------------------------------
(* The files of a table.                                                   *)

LEMMA NoneFound ==
  ASSUME NEW t, NEW data, NEW n \in Names, Matches(t, n) = {}
  PROVE  FilesIn(t, data)[n] = NoFile
BY DEF FilesIn

LEMMA OneFound ==
  ASSUME NEW t, NEW data, NEW n \in Names, NEW z, Matches(t, n) = {z}
  PROVE  FilesIn(t, data)[n] = ContentOf(t[z], data)
<1>1. Matches(t, n) \in SUBSET Slots /\ Matches(t, n) # {}
  BY DEF Matches
<1>2. Least(Matches(t, n)) = z
  BY <1>1, LeastSlot
<1> QED
  BY <1>1, <1>2 DEF FilesIn

\* An empty table has no files.
LEMMA EmptyFiles ==
  ASSUME NEW data
  PROVE  FilesIn(EmptyTable, data) = [n \in Names |-> NoFile] /\ TableGood(EmptyTable)
<1>1. \A n : Matches(EmptyTable, n) = {}
  BY DEF Matches, EmptyTable, Unused
<1> QED
  BY <1>1 DEF FilesIn, TableGood, EmptyTable, Unused

\* In a good table a name is found at most once.
LEMMA FoundOnce ==
  ASSUME NEW t, TableGood(t), NEW n, NEW z \in Matches(t, n)
  PROVE  Matches(t, n) = {z}
BY DEF TableGood, Matches

\* Tables that differ in the entry of one file have the same other files.
LEMMA OthersSame ==
  ASSUME NEW t, NEW u, NEW data, NEW z \in Slots, NEW n, OnlyAt(z, t, u, n),
         NEW m \in Names, m # n
  PROVE  FilesIn(t, data)[m] = FilesIn(u, data)[m]
<1>1. \A s \in Slots : s \in Matches(t, m) \/ s \in Matches(u, m) => s # z /\ t[s] = u[s]
  BY DEF OnlyAt, Matches
<1>2. Matches(t, m) = Matches(u, m) /\ Matches(t, m) \in SUBSET Slots
  BY <1>1 DEF Matches
<1>3. CASE Matches(t, m) = {}
  BY <1>2, <1>3, NoneFound
<1>4. CASE Matches(t, m) # {}
  <2>1. Least(Matches(t, m)) \in Matches(t, m)
    BY <1>2, <1>4, LeastSlot
  <2>2. t[Least(Matches(t, m))] = u[Least(Matches(t, m))]
    BY <1>1, <1>2, <2>1
  <2> QED
    BY <1>2, <1>4, <2>2 DEF FilesIn
<1> QED
  BY <1>3, <1>4

\* A torn write of such a table leaves the one or the other.
LEMMA TornTable ==
  ASSUME NEW t \in Tables, NEW u \in Tables, NEW k, NEW z \in Slots, NEW n, OnlyAt(z, t, u, n)
  PROVE  TablePart(t, u, k) \in {t, u}
<1> DEFINE p == TablePart(t, u, k)
<1>1. p \in Tables /\ \A s \in Slots : p[s] \in {t[s], u[s]}
  BY TablePartSpec
<1>2. \A s \in Slots \ {z} : t[s] = u[s]
  BY DEF OnlyAt
<1> HIDE DEF p
<1>3. CASE p[z] = t[z]
  <2>1. \A s \in Slots : p[s] = t[s]
    BY <1>1, <1>2, <1>3
  <2> QED
    BY <1>1, <2>1 DEF Tables, p
<1>4. CASE p[z] = u[z]
  <2>1. \A s \in Slots : p[s] = u[s]
    BY <1>1, <1>2, <1>4
  <2> QED
    BY <1>1, <2>1 DEF Tables, p
<1> QED
  BY <1>1, <1>3, <1>4

\* Writing blocks that belong to no entry of a file leaves its content.
LEMMA DataKept ==
  ASSUME NEW t \in Tables, NEW data, NEW a, NEW v, NEW k, NEW m \in Names, TableGood(t),
         \A s \in Matches(t, m) : Claims(t[s]) \cap BlockRun(a, k) = {}
  PROVE  FilesIn(t, DataPart(data, a, v, k))[m] = FilesIn(t, data)[m]
<1> DEFINE w == DataPart(data, a, v, k)
<1>1. DOMAIN w = DOMAIN data /\ \A b \in DOMAIN data : b \notin BlockRun(a, k) => w[b] = data[b]
  BY DEF DataPart
<1> HIDE DEF w
<1>2. CASE Matches(t, m) = {}
  BY <1>2, NoneFound DEF w
<1>3. ASSUME NEW z \in Matches(t, m)
      PROVE  FilesIn(t, w)[m] = FilesIn(t, data)[m]
  <2> DEFINE e == t[z]
  <2>1. Matches(t, m) = {z}
    BY <1>3, FoundOnce
  <2>2. e.used /\ e \in Entries /\ e.count = BlocksFor(e.size)
    BY <1>3 DEF Matches, Tables, TableGood
  <2>3. e.start \in Nat /\ e.size \in Nat
    <3>1. e # Unused
      BY <2>2 DEF Unused
    <3> QED
      BY <2>2, <3>1 DEF Entries
  <2>4. BlocksFor(e.size) \in Nat
    BY <2>3, BlocksForNat
  <2>5. \A i \in 1..BlocksFor(e.size) : e.start + i - 1 \in Claims(e)
    BY <2>2, <2>3, <2>4 DEF Claims, BlockRun
  <2>6. \A i \in 1..BlocksFor(e.size) : e.start + i - 1 \notin BlockRun(a, k)
    BY <1>3, <2>5
  <2>7. ContentOf(e, w) = ContentOf(e, data)
    BY <1>1, <2>6 DEF ContentOf
  <2> QED
    BY <2>1, <2>7, OneFound
<1> QED
  BY <1>2, <1>3 DEF w

\* One file changed: what a table with another entry for it, and data written to
\* the blocks of that entry, hold.
LEMMA OneChanged ==
  ASSUME NEW n \in Names, NEW f, NEW g, NEW c, f = [m \in Names |-> f[m]],
         g = [m \in Names |-> g[m]], g[n] = c, \A m \in Names \ {n} : g[m] = f[m]
  PROVE  g = [f EXCEPT ![n] = c]
OBVIOUS

\* What the write of the data does, on a drive that can be trusted: it leaves the
\* other files, and the table with the new entry shows the content asked for.
LEMMA DataSpec ==
  ASSUME Base, Good, FilesInv, pc = "data", Trustworthy
  PROVE  LET x == disk[active_dev]
             u == [file_table EXCEPT ![op.slot] = NewEntry]
             Part(k) == DataPart(x.data, op.start, op.val, k)
         IN  /\ x.magic /\ file_table = x.ft /\ file_table \in Tables
             /\ op.name \in Names /\ op.slot \in Slots
             /\ OnlyAt(op.slot, file_table, u, op.name)
             /\ TableGood(u)
             /\ \A m \in Names \ {op.name}, k \in 0..BlocksFor(op.bytes) :
                  FilesIn(file_table, Part(k))[m] = FilesIn(file_table, x.data)[m]
             /\ FilesIn(u, Part(BlocksFor(op.bytes)))[op.name] = Requested
<1> USE DEF Base, Good
<1> DEFINE a == active_dev
           x == disk[a]
           e == NewEntry
           u == [file_table EXCEPT ![op.slot] = e]
           c == BlocksFor(op.bytes)
           Part(k) == DataPart(x.data, op.start, op.val, k)
<1>1. /\ op.name \in Names /\ op.slot \in Slots /\ op.start \in Nat /\ op.bytes \in ByteSizes
      /\ op.val \in Vals /\ op.kind \in {"create", "overwrite"}
  BY DEF Shape, WriteOps
<1>2. a \in Drives /\ a \notin spoiled /\ file_table \in Tables /\ x \in DriveContents(a)
  BY DEF Shape, FilePoints, Trustworthy, Types
<1>3. x.magic /\ file_table = x.ft /\ BitmapGood(u, bitmap_buf, a)
  BY DEF WriteGood, FilePoints
<1>4. TableGood(file_table)
  BY <1>2, <1>3 DEF FilesInv, Formatting
<1>5. op.kind = "create" => file_table[op.slot] = Unused
  BY DEF WriteGood
<1>6. Matches(file_table, op.name) = IF op.kind = "create" THEN {} ELSE {op.slot}
  BY DEF FilesInv
<1>7. e.used /\ e.name = op.name /\ e.size = op.bytes /\ e.start = op.start /\ e.count = c
  BY DEF NewEntry
<1>8. \A s \in Slots : u[s] = IF s = op.slot THEN e ELSE file_table[s]
  BY <1>2 DEF Tables
<1> HIDE DEF e, u
<1>9. file_table[op.slot].used => file_table[op.slot].name = op.name
  BY <1>1, <1>5, <1>6 DEF Matches, Unused
<1>10. OnlyAt(op.slot, file_table, u, op.name)
  BY <1>1, <1>7, <1>8, <1>9 DEF OnlyAt
<1>11. \A s \in Slots : s # op.slot => ~(file_table[s].used /\ file_table[s].name = op.name)
  BY <1>6 DEF Matches
<1>12. Matches(u, op.name) = {op.slot}
  BY <1>1, <1>7, <1>8, <1>11 DEF Matches
<1>13. TableGood(u)
  <2>1. ASSUME NEW s \in Slots, NEW r \in Slots, u[s].used, u[r].used, u[s].name = u[r].name
        PROVE  s = r
    BY <1>4, <1>7, <1>8, <1>11, <2>1 DEF TableGood
  <2>2. ASSUME NEW s \in Slots, u[s].used
        PROVE  u[s].count = BlocksFor(u[s].size)
    BY <1>4, <1>7, <1>8, <2>2 DEF TableGood
  <2> QED
    BY <2>1, <2>2 DEF TableGood
<1>14. c \in Nat
  BY <1>1, BlocksForNat, EkeFsAssumption
<1>15. Claims(e) = BlockRun(op.start, c)
  BY <1>7 DEF Claims
<1>16. ASSUME NEW m \in Names \ {op.name}, NEW k \in 0..c
       PROVE  FilesIn(file_table, Part(k))[m] = FilesIn(file_table, x.data)[m]
  <2>1. BlockRun(op.start, k) \subseteq BlockRun(op.start, c)
    BY <1>1, <1>14 DEF BlockRun
  <2>2. ASSUME NEW s \in Matches(file_table, m)
        PROVE  Claims(file_table[s]) \cap BlockRun(op.start, k) = {}
    <3>1. s \in Slots /\ s # op.slot
      BY <1>9 DEF Matches
    <3>2. Claims(u[s]) \cap Claims(u[op.slot]) = {}
      BY <1>1, <1>3, <3>1 DEF BitmapGood, Consistent
    <3> QED
      BY <1>1, <1>8, <1>15, <2>1, <3>1, <3>2
  <2> QED
    BY <1>2, <1>4, <2>2, DataKept
<1>17. FilesIn(u, Part(c))[op.name] = Requested
  <2>1. FilesIn(u, Part(c))[op.name] = ContentOf(e, Part(c))
    BY <1>1, <1>8, <1>12, OneFound
  <2>2. DOMAIN x.data = DriveBlocks(a) /\ TotalSectors[a] \in Nat
    BY <1>2, Layout DEF DriveContents
  <2>3. op.start + c <= TotalSectors[a]
    BY DEF Shape, Total
  <2>4. \A b \in BlockRun(op.start, c) : b \in DriveBlocks(a)
    BY <1>1, <1>14, <2>2, <2>3 DEF BlockRun, DriveBlocks, Blocks
  <2>5. \A b \in BlockRun(op.start, c) : b \in DOMAIN Part(c) /\ Part(c)[b] = op.val
    BY <2>2, <2>4 DEF DataPart
  <2>6. ContentOf(e, Part(c)) = WholeContent(op.bytes, op.val)
    <3> HIDE DEF Part
    <3> QED
      BY <1>1, <1>7, <2>5, ContentWhole
  <2> QED
    BY <1>1, <2>1, <2>6 DEF Requested
<1> QED
  BY <1>1, <1>2, <1>3, <1>10, <1>13, <1>16, <1>17 DEF e, u

\* The entry of a file of a table that can be trusted is removed.
LEMMA WithoutEntry ==
  ASSUME NEW t \in Tables, TableGood(t), NEW n \in Names, NEW z \in Matches(t, n)
  PROVE  LET u == [t EXCEPT ![z] = Unused]
         IN  /\ z \in Slots /\ OnlyAt(z, t, u, n) /\ TableGood(u)
             /\ \A data : FilesIn(u, data)[n] = NoFile
<1> DEFINE u == [t EXCEPT ![z] = Unused]
<1>1. z \in Slots /\ t[z].name = n
  BY DEF Matches
<1>2. \A s \in Slots : u[s] = IF s = z THEN Unused ELSE t[s]
  BY DEF Tables
<1> HIDE DEF u
<1>3. OnlyAt(z, t, u, n)
  BY <1>1, <1>2 DEF OnlyAt, Unused
<1>4. TableGood(u)
  BY <1>1, <1>2 DEF TableGood, Unused
<1>5. Matches(u, n) = {}
  <2>1. Matches(t, n) = {z}
    BY FoundOnce
  <2> QED
    BY <1>1, <1>2, <2>1 DEF Matches, Unused
<1> QED
  BY <1>1, <1>3, <1>4, <1>5, NoneFound DEF u

-----------------------------------------------------------------------------
(* Every step preserves FilesInv.                                          *)

\* A step that leaves the drives alone and starts no write of a file.
LEMMA QuietFiles ==
  ASSUME FilesInv, UNCHANGED <<disk, spoiled>>, pc \notin {"fmt_bm", "fmt_ft"}, pc' \notin FilePoints
  PROVE  FilesInv'
BY DEF FilesInv, Formatting, FilePoints

LEMMA MountingFiles ==
  ASSUME Base, FilesInv,
         \/ Boot \/ MountReadFails \/ MountUnformatted \/ MountFormatted \/ LoadZero \/ Load
         \/ LoadFsModule
         \/ \E d \in Drives : DriveCommand(d)
         \/ \E n \in Names, z \in ByteSizes : WriteDiskFull(n, z) \/ WriteNoPage(n, z)
  PROVE  UNCHANGED <<disk, spoiled>> /\ {pc, pc'} \cap (FilePoints \cup {"fmt_bm", "fmt_ft"}) = {}
         /\ FilesInv'
<1> USE DEF Base
<1>1. CASE Boot \/ LoadFsModule \/ \E d \in Drives : DriveCommand(d)
  <2>1. UNCHANGED <<disk, spoiled>> /\ pc \in {"off", "idle"} /\ pc' = "mount"
    BY <1>1 DEF Boot, LoadFsModule, DriveCommand, StartMount
  <2> QED
    BY <2>1, QuietFiles DEF FilePoints
<1>2. CASE MountReadFails \/ LoadZero \/ Load
  <2>1. UNCHANGED <<disk, spoiled>> /\ pc \in {"mount", "load"} /\ EndMount
    BY <1>2 DEF MountReadFails, LoadZero, Load
  <2>2. pc' \in {"idle", "mount"}
    BY <2>1, EndMountSpec DEF Shape
  <2> QED
    BY <2>1, <2>2, QuietFiles DEF FilePoints
<1>3. CASE MountUnformatted \/ MountFormatted
  <2>1. UNCHANGED <<disk, spoiled>> /\ pc = "mount" /\ pc' \in {"fmt_sb", "load"}
    BY <1>3 DEF MountUnformatted, MountFormatted
  <2> QED
    BY <2>1, QuietFiles DEF FilePoints
<1>4. CASE \E n \in Names, z \in ByteSizes : WriteDiskFull(n, z) \/ WriteNoPage(n, z)
  <2>1. UNCHANGED <<disk, spoiled>> /\ pc = "idle" /\ pc' = "idle"
    BY <1>4 DEF WriteDiskFull, WriteNoPage, Place, Ready
  <2> QED
    BY <2>1, QuietFiles DEF FilePoints
<1> QED
  BY <1>1, <1>2, <1>3, <1>4

LEMMA FormatFiles ==
  ASSUME Base, FilesInv, Format
  PROVE  FilesInv'
<1> USE DEF Base
<1> DEFINE t == op.drive
<1>1. pc \in FormatPoints /\ pc \in WritePoints /\ t \in Drives /\ op' = op /\ pc' \notin FilePoints
  BY FormatSpec DEF Format, FilePoints
<1>2. /\ spoiled \subseteq spoiled'
      /\ t \notin spoiled' => disk'[t] = Written(disk[t], WriteLength) /\ WriteLength \in Nat
  BY FormatSpec
<1>4. \A d \in Drives : d # t => disk'[d] = disk[d]
  BY FormatSpec
<1>5. ASSUME NEW d \in Drives \ spoiled', disk'[d].magic, ~Formatting(d)'
      PROVE  TableGood(disk'[d].ft)
  <2>1. d \notin spoiled
    BY <1>2, <1>5
  <2>2. CASE d # t
    BY <1>4, <1>5, <2>1, <2>2 DEF FilesInv, Formatting
  <2>3. CASE d = t
    <3>1. pc = "fmt_ft"
      BY <1>1, <1>5, <2>3 DEF Format, Formatting, FormatPoints
    <3>2. WriteLength = TableSectors /\ WriteLength \in Nat
      BY <1>2, <1>5, <2>3, <3>1 DEF WriteLength
    <3>3. disk'[t].ft = TablePart(disk[t].ft, EmptyTable, WriteLength)
      BY <1>1, <1>2, <1>5, <2>3, <3>1, <3>2, WrittenSpec
    <3>4. disk[t].ft \in Tables /\ EmptyTable \in Tables
      BY <1>1, EkeFsAssumption DEF Types, DriveContents
    <3>5. disk'[t].ft = EmptyTable
      BY <3>2, <3>3, <3>4, TablePartSpec
    <3> QED
      BY <2>3, <3>5, EmptyFiles
  <2> QED
    BY <2>2, <2>3
<1> QED
  BY <1>1, <1>5 DEF FilesInv, FilePoints

LEMMA LoadDiskFiles ==
  ASSUME Base, FilesInv, NEW d \in Drives, LoadDiskModule(d)
  PROVE  FilesInv'
<1> USE DEF Base
<1>1. pc = "idle" /\ pc' = "mount"
  BY DEF LoadDiskModule, StartMount
<1>2. CASE d \notin Volatile
  <2>1. UNCHANGED <<disk, spoiled>>
    BY <1>2 DEF LoadDiskModule
  <2> QED
    BY <1>1, <2>1, QuietFiles DEF FilePoints
<1>3. CASE d \in Volatile
  <2>1. disk' = [disk EXCEPT ![d] = BlankDrive(d, EmptyTable)] /\ spoiled' = spoiled \ {d}
    BY <1>3 DEF LoadDiskModule
  <2>2. ASSUME NEW c \in Drives \ spoiled', disk'[c].magic
        PROVE  TableGood(disk'[c].ft)
    <3>1. CASE c = d
      BY <2>1, <2>2, <3>1 DEF Types, BlankDrive
    <3>2. CASE c # d
      BY <1>1, <2>1, <2>2, <3>2 DEF Types, FilesInv, Formatting
    <3> QED
      BY <3>1, <3>2
  <2> QED
    BY <1>1, <2>2 DEF FilesInv
<1> QED
  BY <1>2, <1>3

LEMMA LoadDiskFailsFiles ==
  ASSUME Base, FilesInv, NEW d \in Drives, LoadDiskFails(d)
  PROVE  FilesInv'
<1>1. /\ pc = "idle" /\ UNCHANGED <<ram, pc, op, ram_bad>> /\ spoiled \subseteq spoiled'
      /\ \A e \in Drives \ spoiled' : disk'[e] = disk[e]
  BY LoadDiskFailsSpec DEF Base
<1> QED
  BY <1>1 DEF FilesInv, Formatting

\* What a command finds when it starts on a drive that can be trusted.
LEMMA ReadyGood ==
  ASSUME Base, Good, FilesInv, Ready, Trustworthy
  PROVE  /\ active_dev \in Drives \ spoiled /\ disk[active_dev].magic
         /\ file_table = disk[active_dev].ft
         /\ file_table \in Tables /\ TableGood(file_table)
<1> USE DEF Base, Good
<1>1. pc = "idle" /\ active_dev \in Drives /\ file_table \in Tables
  BY ReadySpec
<1>2. active_dev \notin spoiled
  BY DEF Trustworthy
<1>3. disk[active_dev].magic /\ file_table = disk[active_dev].ft
  BY <1>1 DEF RamGood
<1> QED
  BY <1>1, <1>2, <1>3 DEF FilesInv, Formatting

LEMMA WriteBeginFiles ==
  ASSUME Base, Good, FilesInv, NEW n \in Names, NEW v \in Vals, NEW z \in ByteSizes,
         WriteBegin(n, v, z)
  PROVE  FilesInv'
<1>1. UNCHANGED <<disk, active_dev, file_table, ram_bad, spoiled>> /\ Ready /\ pc' = "data"
  BY DEF WriteBegin, Place
<1>2. pc = "idle"
  BY <1>1 DEF Ready
<1>3. ASSUME Trustworthy
      PROVE  Matches(file_table, op'.name) = IF op'.kind = "create" THEN {} ELSE {op'.slot}
  <2>1. TableGood(file_table)
    BY <1>1, <1>3, ReadyGood
  <2>2. /\ op'.name = n /\ op'.slot \in TargetSlots(n)
        /\ op'.kind = IF Matches(file_table, n) = {} THEN "create" ELSE "overwrite"
    BY BeginSpec
  <2>3. CASE Matches(file_table, n) = {}
    BY <2>2, <2>3
  <2>4. CASE Matches(file_table, n) # {}
    <3>1. op'.slot \in Matches(file_table, n)
      BY <2>2, <2>4 DEF TargetSlots
    <3>2. Matches(file_table, n) = {op'.slot}
      BY <2>1, <3>1, FoundOnce
    <3> QED
      BY <2>2, <2>4, <3>2
  <2> QED
    BY <2>3, <2>4
<1> QED
  BY <1>1, <1>2, <1>3 DEF FilesInv, Formatting, Trustworthy

LEMMA DeleteSpec ==
  ASSUME Base, Good, FilesInv, NEW n \in Names, DeleteFile(n), Trustworthy
  PROVE  /\ TableGood(file_table')
         /\ \E z \in Slots : OnlyAt(z, file_table, file_table', n)
         /\ \A data : FilesIn(file_table', data)[n] = NoFile
<1> DEFINE z == Least(Matches(file_table, n))
<1>1. Ready /\ Matches(file_table, n) # {} /\ file_table' = [file_table EXCEPT ![z] = Unused]
  BY DEF DeleteFile
<1>2. file_table \in Tables /\ TableGood(file_table)
  BY <1>1, ReadyGood
<1>3. z \in Matches(file_table, n)
  <2>1. Matches(file_table, n) \in SUBSET Slots
    BY DEF Matches
  <2> QED
    BY <1>1, <2>1, LeastSlot
<1> HIDE DEF z
<1> QED
  BY <1>1, <1>2, <1>3, WithoutEntry

LEMMA DeleteFiles ==
  ASSUME Base, Good, FilesInv, NEW n \in Names, DeleteFile(n)
  PROVE  FilesInv'
<1>1. /\ UNCHANGED <<disk, active_dev, ram_bad, spoiled>> /\ Ready /\ pc = "idle"
      /\ pc' = "flush_bm" /\ op' = [kind |-> "delete", name |-> n]
  BY DEF DeleteFile, Ready
<1>2. Requested' = NoFile /\ op'.name = n
  BY <1>1 DEF Requested
<1>3. ASSUME Trustworthy
      PROVE  /\ TableGood(file_table')
             /\ \E z \in Slots : OnlyAt(z, disk[active_dev].ft, file_table', n)
             /\ FilesIn(file_table', disk[active_dev].data)[n] = NoFile
  BY <1>1, <1>3, ReadyGood, DeleteSpec
<1> QED
  BY <1>1, <1>2, <1>3 DEF FilesInv, Formatting, Trustworthy

LEMMA WriteDataFiles ==
  ASSUME Base, Good, FilesInv, WriteData
  PROVE  FilesInv'
<1> USE DEF Base
<1> DEFINE a == active_dev
           x == disk[a]
           y == disk'[a]
           u == [file_table EXCEPT ![op.slot] = NewEntry]
<1>1. /\ pc \in WritePoints /\ a \in Drives /\ UNCHANGED <<active_dev, ram_bad>>
      /\ WriteLength \in Nat
  BY WritingSpec DEF Writing
<1>2. PICK k \in Nat : /\ k <= WriteLength /\ y = Written(x, k) /\ spoiled' = SpoiledBy(a, k)
                       /\ \A d \in Drives : d # a => disk'[d] = disk[d]
  BY WritingSpec DEF Writing
<1>3. pc = "data" /\ pc' = "flush_bm" /\ op' = op /\ file_table' = u
  BY DEF WriteData
<1>4. y.magic = x.magic /\ y.ft = x.ft /\ y.data = DataPart(x.data, op.start, op.val, k)
  BY <1>1, <1>2, <1>3, WrittenSpec
<1>5. ASSUME NEW d \in Drives \ spoiled', disk'[d].magic
      PROVE  TableGood(disk'[d].ft)
  <2>1. d \notin spoiled /\ ~Formatting(d)
    BY <1>2, <1>3, <1>5 DEF SpoiledBy, Formatting
  <2>2. disk'[d].magic = disk[d].magic /\ disk'[d].ft = disk[d].ft
    BY <1>2, <1>4
  <2> QED
    BY <1>5, <2>1, <2>2 DEF FilesInv
<1>6. ASSUME Trustworthy'
      PROVE  /\ TableGood(u) /\ \E z \in Slots : OnlyAt(z, y.ft, u, op.name)
             /\ FilesIn(u, y.data)[op.name] = Requested
  <2>1. Trustworthy /\ k = WriteLength
    BY <1>1, <1>2, <1>3, <1>6, UnspoiledSpec DEF Trustworthy, FilePoints
  <2>2. k = BlocksFor(op.bytes)
    BY <1>3, <2>1 DEF WriteLength
  <2> HIDE DEF u
  <2>3. /\ file_table = x.ft /\ op.slot \in Slots /\ OnlyAt(op.slot, file_table, u, op.name)
        /\ TableGood(u)
        /\ FilesIn(u, DataPart(x.data, op.start, op.val, BlocksFor(op.bytes)))[op.name] = Requested
    BY <1>3, <2>1, DataSpec DEF u
  <2> QED
    BY <1>4, <2>2, <2>3
<1>7. Requested' = Requested
  BY <1>3 DEF Requested
<1> HIDE DEF u
<1> QED
  BY <1>1, <1>3, <1>5, <1>6, <1>7 DEF FilesInv

LEMMA FlushFiles ==
  ASSUME Base, Good, FilesInv, FlushBitmap \/ FlushTable
  PROVE  FilesInv'
<1> USE DEF Base
<1> DEFINE a == active_dev
           x == disk[a]
           y == disk'[a]
<1>1. /\ pc \in WritePoints /\ a \in Drives /\ UNCHANGED <<active_dev, ram_bad>>
      /\ WriteLength \in Nat
  BY WritingSpec DEF Writing
<1>2. PICK k \in Nat : /\ k <= WriteLength /\ y = Written(x, k) /\ spoiled' = SpoiledBy(a, k)
                       /\ \A d \in Drives : d # a => disk'[d] = disk[d]
  BY WritingSpec DEF Writing
<1>3. pc \in {"flush_bm", "flush_ft"} /\ pc \in FilePoints /\ file_table' = file_table
  BY DEF FlushBitmap, FlushTable, ram, FilePoints
<1>4. y.magic = x.magic /\ y.data = x.data
      /\ y.ft = IF pc = "flush_ft" THEN TablePart(x.ft, file_table, k) ELSE x.ft
  BY <1>1, <1>2, <1>3, WrittenSpec
<1>5. a \notin spoiled' => Trustworthy /\ sb_ok /\ k = WriteLength
  BY <1>1, <1>2, <1>3, UnspoiledSpec
<1>6. ASSUME NEW d \in Drives \ spoiled', disk'[d].magic
      PROVE  TableGood(disk'[d].ft)
  <2>1. d \notin spoiled /\ ~Formatting(d)
    BY <1>2, <1>3, <1>6 DEF SpoiledBy, Formatting
  <2>2. CASE d # a \/ pc = "flush_bm"
    <3>1. disk'[d].magic = disk[d].magic /\ disk'[d].ft = disk[d].ft
      BY <1>2, <1>4, <2>2
    <3> QED
      BY <1>6, <2>1, <3>1 DEF FilesInv
  <2>3. CASE d = a /\ pc = "flush_ft"
    <3>1. Trustworthy /\ k = TableSectors
      BY <1>5, <1>6, <2>3 DEF WriteLength
    <3>2. x.ft \in Tables /\ file_table \in Tables
      BY <1>1, <1>3 DEF Types, DriveContents, Shape
    <3>3. y.ft = file_table
      BY <1>4, <2>3, <3>1, <3>2, TablePartSpec
    <3> QED
      BY <2>3, <3>1, <3>3 DEF FilesInv
  <2> QED
    BY <1>3, <2>2, <2>3
<1>7. CASE FlushBitmap
  <2>1. pc = "flush_bm" /\ pc' = "flush_ft" /\ op' = op
    BY <1>7 DEF FlushBitmap
  <2>2. Requested' = Requested
    BY <2>1 DEF Requested
  <2>3. Trustworthy' => Trustworthy
    BY <1>1, <1>5 DEF Trustworthy
  <2>4. Trustworthy' =>
          /\ TableGood(file_table) /\ \E z \in Slots : OnlyAt(z, y.ft, file_table, op.name)
          /\ FilesIn(file_table, y.data)[op.name] = Requested
    BY <1>4, <2>1, <2>3 DEF FilesInv
  <2> QED
    BY <1>1, <1>3, <1>6, <2>1, <2>2, <2>4 DEF FilesInv
<1>8. CASE FlushTable
  <2>1. pc' = "idle"
    BY <1>8 DEF FlushTable
  <2> QED
    BY <1>6, <2>1 DEF FilesInv
<1> QED
  BY <1>7, <1>8

\* The table on a drive that a power loss leaves unspoiled.
LEMMA TornFiles ==
  ASSUME Base, Good, FilesInv, pc \in WritePoints, NEW k \in Nat, k <= WriteLength,
         ~LeavesInconsistent(k), WriteTarget \notin spoiled, Written(disk[WriteTarget], k).magic
  PROVE  TableGood(Written(disk[WriteTarget], k).ft)
<1> USE DEF Base, Good
<1> DEFINE t == WriteTarget
           x == disk[t]
           y == Written(x, k)
<1>1. t \in Drives /\ x.ft \in Tables /\ EmptyTable \in Tables
  BY TargetSpec, EkeFsAssumption DEF Types, DriveContents
<1>2. y.magic = (IF pc = "fmt_sb" THEN x.magic \/ k = 1 ELSE x.magic)
      /\ y.ft = IF pc = "fmt_ft" THEN TablePart(x.ft, EmptyTable, k)
                ELSE IF pc = "flush_ft" THEN TablePart(x.ft, file_table, k) ELSE x.ft
  BY <1>1, WrittenSpec
<1> HIDE DEF y
<1>3. CASE pc \in FormatPoints
  <2>1. t = op.drive
    BY <1>3 DEF WriteTarget
  <2>2. y.ft = EmptyTable
    <3>1. CASE pc = "fmt_sb"
      <4>1. ~x.magic /\ k = 1
        BY <1>2, <2>1, <3>1 DEF DrivesGood, y
      <4> QED
        BY <1>2, <2>1, <3>1, <4>1 DEF LeavesInconsistent
    <3>2. CASE pc = "fmt_bm"
      BY <1>2, <2>1, <3>2 DEF LeavesInconsistent
    <3>3. CASE pc = "fmt_ft"
      <4>1. x.ft = EmptyTable \/ k = TableSectors
        <5>1. WriteLength = TableSectors /\ TableSectors \in Nat
          BY <3>3, EkeFsAssumption DEF WriteLength
        <5> QED
          BY <2>1, <3>3, <5>1 DEF LeavesInconsistent
      <4>2. TablePart(EmptyTable, EmptyTable, k) = EmptyTable
        BY DEF TablePart, EmptyTable
      <4> QED
        BY <1>1, <1>2, <3>3, <4>1, <4>2, TablePartSpec
    <3> QED
      BY <1>3, <3>1, <3>2, <3>3 DEF FormatPoints
  <2> QED
    BY <2>2, EmptyFiles DEF y
<1>4. CASE pc \notin FormatPoints
  <2>1. t = active_dev /\ pc \in FilePoints /\ ~Formatting(t)
    BY <1>4, TargetSpec DEF FormatPoints, Formatting
  <2>2. x.magic
    BY <1>2, <1>4 DEF FormatPoints, y
  <2>3. TableGood(x.ft)
    BY <1>1, <2>1, <2>2 DEF FilesInv
  <2>4. CASE pc # "flush_ft"
    BY <1>2, <1>4, <2>3, <2>4 DEF FormatPoints, y
  <2>5. CASE pc = "flush_ft"
    <3>1. Trustworthy
      BY <1>1, <2>1, <2>5, EkeFsAssumption DEF DrivesGood, Trustworthy
    <3>2. PICK z \in Slots : OnlyAt(z, x.ft, file_table, op.name)
      BY <2>1, <2>5, <3>1 DEF FilesInv
    <3>3. file_table \in Tables /\ TableGood(file_table)
      BY <2>5, <3>1 DEF FilesInv, Shape, FilePoints
    <3>4. y.ft \in {x.ft, file_table}
      BY <1>1, <1>2, <2>5, <3>2, <3>3, TornTable
    <3> QED
      BY <2>3, <3>3, <3>4 DEF y
  <2> QED
    BY <2>4, <2>5
<1> QED
  BY <1>3, <1>4

LEMMA PowerLossFiles ==
  ASSUME Base, Good, FilesInv, PowerLoss
  PROVE  FilesInv'
<1> USE DEF Base
<1>1. PICK k \in 0..(IF pc \in WritePoints THEN WriteLength ELSE 0) :
        /\ disk' = AfterPowerLoss(k)
        /\ spoiled' = (IF pc \in WritePoints /\ LeavesInconsistent(k)
                       THEN spoiled \cup {WriteTarget} ELSE spoiled) \ Volatile
  BY DEF PowerLoss
<1>2. k \in Nat /\ (pc \in WritePoints => k <= WriteLength)
  BY WriteLengthNat
<1>3. pc' = "off"
  BY DEF PowerLoss
<1>4. ASSUME NEW d \in Drives \ spoiled', disk'[d].magic
      PROVE  TableGood(disk'[d].ft)
  <2>1. d \notin Volatile
    <3>1. d \in Volatile => disk'[d] = BlankDrive(d, EmptyTable)
      BY <1>1 DEF AfterPowerLoss
    <3> QED
      BY <1>4, <3>1 DEF BlankDrive
  <2>2. d \notin spoiled
    BY <1>1, <1>4, <2>1
  <2>3. CASE pc \in WritePoints /\ d = WriteTarget
    <3>1. ~LeavesInconsistent(k)
      BY <1>1, <1>4, <2>1, <2>3
    <3>2. disk'[d] = Written(disk[d], k)
      BY <1>1, <2>1, <2>3 DEF AfterPowerLoss
    <3> QED
      BY <1>2, <1>4, <2>2, <2>3, <3>1, <3>2, TornFiles
  <2>4. CASE ~(pc \in WritePoints /\ d = WriteTarget)
    <3>1. disk'[d] = disk[d]
      BY <1>1, <2>1, <2>4 DEF AfterPowerLoss
    <3>2. ~Formatting(d)
      BY <2>4 DEF Formatting, WriteTarget, WritePoints, FormatPoints
    <3> QED
      BY <1>4, <2>2, <3>1, <3>2 DEF FilesInv
  <2> QED
    BY <2>3, <2>4
<1> QED
  BY <1>3, <1>4 DEF FilesInv

LEMMA InitFiles == Init => FilesInv
<1> SUFFICES ASSUME Init PROVE FilesInv
  OBVIOUS
<1>1. pc = "off" /\ \A d \in Drives : ~disk[d].magic
  BY DEF Init, BlankDrive
<1> QED
  BY <1>1 DEF FilesInv

LEMMA NextFiles == Base /\ Good /\ FilesInv /\ [Next]_vars => FilesInv'
<1> SUFFICES ASSUME Base, Good, FilesInv, [Next]_vars PROVE FilesInv'
  OBVIOUS
<1>1. CASE UNCHANGED vars
  BY <1>1 DEF FilesInv, Formatting, Trustworthy, Requested, vars, ram
<1>2. CASE Next
  BY <1>2, MountingFiles, FormatFiles, LoadDiskFiles, LoadDiskFailsFiles, WriteBeginFiles,
     DeleteFiles, WriteDataFiles, FlushFiles, PowerLossFiles DEF Next, Mounting, Writing
<1> QED
  BY <1>1, <1>2

-----------------------------------------------------------------------------
(* Every step is one of FileStore's.                                       *)

StoreInv == Base /\ Good /\ FilesInv /\ Seen

\* A step that leaves the drives alone and is not part of a write.
LEMMA QuietStore ==
  ASSUME Seen, Seen', disk' = disk, {pc, pc'} \cap FilePoints = {}
  PROVE  Store!Idle
<1>1. UnderWay = {} /\ UnderWay' = {}
  BY DEF UnderWay, FilePoints
<1>2. ASSUME NEW d \in Trusted \cap Trusted' PROVE AllFiles'[d] = AllFiles[d]
  <2>1. AllFiles[d] = FilesOn(disk[d])
    BY DEF Seen, FilePoints
  <2>2. AllFiles'[d] = FilesOn(disk'[d])
    BY DEF Seen, FilePoints
  <2> QED
    BY <2>1, <2>2
<1> QED
  BY <1>1, <1>2 DEF Store!Idle, Store!Keep, Store!Covered

LEMMA FormatStore ==
  ASSUME StoreInv, Seen', Format
  PROVE  Store!Idle
<1> USE DEF StoreInv, Base
<1> DEFINE t == op.drive
<1>1. /\ pc \in FormatPoints /\ pc \in WritePoints /\ t \in Drives /\ op' = op
      /\ {pc, pc'} \cap FilePoints = {} /\ (pc = "fmt_sb" => pc' = "fmt_bm")
  BY FormatSpec DEF Format, FilePoints, FormatPoints
<1>2. \A d \in Drives : d # t => disk'[d] = disk[d]
  BY FormatSpec
<1>3. UnderWay = {} /\ UnderWay' = {}
  BY <1>1 DEF UnderWay, FilePoints
<1>4. t \notin Trusted \cap Trusted'
  BY <1>1 DEF Trusted, FormatPoints
<1>5. ASSUME NEW d \in Trusted \cap Trusted' PROVE AllFiles'[d] = AllFiles[d]
  <2>1. d \in Drives /\ d # t
    BY <1>4 DEF Trusted
  <2>2. disk'[d] = disk[d]
    BY <1>2, <2>1
  <2>3. AllFiles[d] = FilesOn(disk[d])
    BY <1>1 DEF Seen, FilePoints
  <2>4. AllFiles'[d] = FilesOn(disk'[d])
    BY <1>1 DEF Seen, FilePoints
  <2> QED
    BY <2>2, <2>3, <2>4
<1> QED
  BY <1>3, <1>5 DEF Store!Idle, Store!Keep, Store!Covered

LEMMA BlankFiles ==
  ASSUME NEW d
  PROVE  FilesOn(BlankDrive(d, EmptyTable)) = Store!NoFiles
BY EmptyFiles DEF FilesOn, BlankDrive, Store!NoFiles

LEMMA LoadDiskStore ==
  ASSUME StoreInv, Seen', NEW d \in Drives, LoadDiskModule(d)
  PROVE  Store!Idle \/ Store!Erase(d)
<1> USE DEF StoreInv, Base
<1>1. pc = "idle" /\ pc' = "mount" /\ op'.kind = "mount"
  BY DEF LoadDiskModule, StartMount
<1>2. CASE d \notin Volatile
  BY <1>1, <1>2, QuietStore DEF LoadDiskModule, FilePoints
<1>3. CASE d \in Volatile
  <2>1. disk' = [disk EXCEPT ![d] = BlankDrive(d, EmptyTable)]
    BY <1>3 DEF LoadDiskModule
  <2>2. disk'[d] = BlankDrive(d, EmptyTable) /\ \A c \in Drives \ {d} : disk'[c] = disk[c]
    BY <2>1 DEF Types
  <2>3. AllFiles'[d] = FilesOn(disk'[d])
    BY <1>1 DEF AllFiles, Files, FilesOn
  <2>4. UnderWay = {} /\ UnderWay' = {}
    BY <1>1 DEF UnderWay
  <2>5. ASSUME NEW c \in (Drives \ {d}) \cap (Trusted \cap Trusted')
        PROVE  AllFiles'[c] = AllFiles[c]
    <3>1. AllFiles[c] = FilesOn(disk[c]) /\ AllFiles'[c] = FilesOn(disk'[c])
      BY <1>1 DEF Seen
    <3> QED
      BY <2>2, <3>1
  <2> QED
    BY <1>3, <2>2, <2>3, <2>4, <2>5, BlankFiles DEF Store!Erase, Store!Keep, Store!Covered
<1> QED
  BY <1>2, <1>3

LEMMA LoadDiskFailsStore ==
  ASSUME StoreInv, Seen', NEW d \in Drives, LoadDiskFails(d)
  PROVE  Store!Idle
<1> USE DEF StoreInv, Base
<1>1. /\ pc = "idle" /\ pc' = "idle" /\ \A e \in Drives \ spoiled' : disk'[e] = disk[e]
  BY LoadDiskFailsSpec
<1>2. UnderWay = {} /\ UnderWay' = {}
  BY <1>1 DEF UnderWay
<1>3. ASSUME NEW e \in Trusted \cap Trusted' PROVE AllFiles'[e] = AllFiles[e]
  <2>1. AllFiles[e] = FilesOn(disk[e]) /\ AllFiles'[e] = FilesOn(disk'[e])
    BY <1>1 DEF Seen
  <2>2. disk'[e] = disk[e]
    BY <1>1 DEF Trusted
  <2> QED
    BY <2>1, <2>2
<1> QED
  BY <1>2, <1>3 DEF Store!Idle, Store!Keep, Store!Covered

\* The change under way.
Change == [drive |-> active_dev, name |-> op.name, new |-> Requested]

LEMMA ChangeSpec ==
  ASSUME Types, Shape, pc \in FilePoints
  PROVE  /\ UnderWay = {Change} /\ Change \in Store!Changes
         /\ Change.drive = active_dev /\ Change.name = op.name /\ Change.new = Requested
<1>1. active_dev \in Drives /\ op \in WriteOps \cup DeleteOps
  BY DEF Shape, FilePoints
<1>2. op.name \in Names
  BY <1>1 DEF WriteOps, DeleteOps
<1>3. Requested \in WholeContents \cup {NoFile}
  BY <1>1 DEF Requested, WholeContents, WriteOps, DeleteOps
<1> QED
  BY <1>1, <1>2, <1>3 DEF UnderWay, Change, Store!Changes, FilePoints

LEMMA WriteBeginStore ==
  ASSUME StoreInv, Seen', Base', NEW n \in Names, NEW v \in Vals, NEW z \in ByteSizes,
         WriteBegin(n, v, z)
  PROVE  \E c \in Store!Changes : Store!Begin(c)
<1> DEFINE c == [drive |-> active_dev, name |-> n, new |-> WholeContent(z, v)]
<1> USE DEF StoreInv
<1>1. /\ UNCHANGED <<disk, active_dev>> /\ Ready /\ pc = "idle" /\ pc' = "data"
  BY DEF WriteBegin, Place, Ready
<1>2. op'.name = n /\ op'.val = v /\ op'.bytes = z /\ op'.kind # "delete"
  BY BeginSpec
<1>3. UnderWay = {} /\ UnderWay' = {c}
  BY <1>1, <1>2 DEF UnderWay, Requested
<1>4. c \in Store!Changes
  <2>1. active_dev \in Drives
    BY <1>1, ReadySpec
  <2> QED
    BY <2>1 DEF Store!Changes, WholeContents
<1>5. ASSUME NEW d \in Trusted \cap Trusted' PROVE AllFiles'[d] = AllFiles[d]
  <2>1. AllFiles[d] = FilesOn(disk[d]) /\ AllFiles'[d] = FilesOn(disk'[d])
    BY <1>1 DEF Seen
  <2> QED
    BY <1>1, <2>1
<1> HIDE DEF c
<1>6. Store!Begin(c)
  BY <1>3, <1>5 DEF Store!Begin, Store!Keep, Store!Covered
<1> QED
  BY <1>4, <1>6

\* A trusted drive is one that commands may rely on when it is the mounted one.
LEMMA TrustedActive ==
  ASSUME active_dev \in Trusted
  PROVE  Trustworthy
BY EkeFsAssumption DEF Trusted, Trustworthy

LEMMA FilesAreFunctions ==
  ASSUME NEW t, NEW data
  PROVE  FilesIn(t, data) = [m \in Names |-> FilesIn(t, data)[m]]
BY DEF FilesIn

LEMMA DeleteStore ==
  ASSUME StoreInv, Seen', NEW n \in Names, DeleteFile(n)
  PROVE  \E c \in Store!Changes : Store!Apply(c)
<1> DEFINE a == active_dev
           c == [drive |-> a, name |-> n, new |-> NoFile]
<1> USE DEF StoreInv
<1>1. /\ UNCHANGED <<disk, active_dev, ram_bad, spoiled>> /\ Ready /\ pc = "idle"
      /\ pc' = "flush_bm" /\ op' = [kind |-> "delete", name |-> n]
  BY DEF DeleteFile, Ready
<1>2. UnderWay = {} /\ UnderWay' = {c}
  BY <1>1 DEF UnderWay, Requested
<1>3. c \in Store!Changes /\ c.drive = a /\ c.name = n /\ c.new = NoFile
  <2>1. active_dev \in Drives
    BY <1>1, ReadySpec
  <2> QED
    BY <2>1 DEF Store!Changes
<1>4. ASSUME NEW d \in Trusted \cap Trusted', d # a PROVE AllFiles'[d] = AllFiles[d]
  <2>1. AllFiles[d] = FilesOn(disk[d]) /\ AllFiles'[d] = FilesOn(disk'[d])
    BY <1>1, <1>4 DEF Seen
  <2> QED
    BY <1>1, <2>1
<1>5. ASSUME a \in Trusted \cap Trusted'
      PROVE  AllFiles'[a] = [AllFiles[a] EXCEPT ![n] = NoFile]
  <2> DEFINE f == FilesIn(file_table, disk[a].data)
             g == FilesIn(file_table', disk[a].data)
  <2>1. Trustworthy
    BY <1>5, TrustedActive
  <2>2. disk[a].magic /\ file_table = disk[a].ft
    BY <1>1, <2>1, ReadyGood
  <2>3. AllFiles[a] = f
    BY <1>1, <1>5, <2>2 DEF Seen, FilesOn
  <2>4. AllFiles'[a] = g
    BY <1>1, <1>5 DEF Seen
  <2>5. PICK z \in Slots : OnlyAt(z, file_table, file_table', n)
    BY <2>1, DeleteSpec
  <2>6. g[n] = NoFile
    BY <2>1, DeleteSpec
  <2>7. \A m \in Names \ {n} : g[m] = f[m]
    BY <2>5, OthersSame
  <2>8. f = [m \in Names |-> f[m]] /\ g = [m \in Names |-> g[m]]
    BY FilesAreFunctions
  <2> HIDE DEF f, g
  <2> QED
    BY <2>3, <2>4, <2>6, <2>7, <2>8, OneChanged
<1> HIDE DEF c
<1>6. Store!Apply(c)
  BY <1>2, <1>3, <1>4, <1>5 DEF Store!Apply, Store!Keep, Store!Covered
<1> QED
  BY <1>3, <1>6

LEMMA WriteDataStore ==
  ASSUME StoreInv, Seen', WriteData
  PROVE  \E c \in Store!Changes : Store!Apply(c)
<1> USE DEF StoreInv
<1> DEFINE a == active_dev
           x == disk[a]
           y == disk'[a]
           u == [file_table EXCEPT ![op.slot] = NewEntry]
           c == Change
<1>1. /\ pc \in WritePoints /\ a \in Drives /\ UNCHANGED <<active_dev, ram_bad>>
      /\ WriteLength \in Nat
  BY WritingSpec DEF Writing
<1>2. PICK k \in Nat : /\ k <= WriteLength /\ y = Written(x, k) /\ spoiled' = SpoiledBy(a, k)
                       /\ \A d \in Drives : d # a => disk'[d] = disk[d]
  BY WritingSpec DEF Writing
<1>3. pc = "data" /\ pc' = "flush_bm" /\ op' = op /\ file_table' = u
  BY DEF WriteData
<1>4. y.data = DataPart(x.data, op.start, op.val, k)
  BY <1>1, <1>2, <1>3, WrittenSpec DEF Base
<1>5. /\ UnderWay = {c} /\ c \in Store!Changes
      /\ c.drive = a /\ c.name = op.name /\ c.new = Requested
  BY <1>3, ChangeSpec DEF Base, FilePoints
<1>6. UnderWay' = {c}
  BY <1>1, <1>3 DEF UnderWay, Change, Requested
<1>7. ASSUME NEW d \in Trusted \cap Trusted', d # a PROVE AllFiles'[d] = AllFiles[d]
  <2>1. AllFiles[d] = FilesOn(disk[d]) /\ AllFiles'[d] = FilesOn(disk'[d])
    BY <1>1, <1>7 DEF Seen
  <2>2. d \in Drives
    BY DEF Trusted
  <2> QED
    BY <1>2, <1>7, <2>1, <2>2
<1>8. ASSUME a \in Trusted \cap Trusted'
      PROVE  AllFiles'[a] = [AllFiles[a] EXCEPT ![op.name] = Requested]
  <2> DEFINE f == FilesIn(file_table, x.data)
             g == FilesIn(u, y.data)
  <2>1. Trustworthy /\ a \notin spoiled'
    BY <1>8, TrustedActive DEF Trusted
  <2>2. k = WriteLength
    BY <1>1, <1>2, <1>3, <2>1, UnspoiledSpec DEF FilePoints
  <2>3. k = BlocksFor(op.bytes) /\ k \in 0..k
    BY <1>3, <2>2 DEF WriteLength
  <2> HIDE DEF u
  <2>4. /\ x.magic /\ file_table = x.ft /\ op.name \in Names /\ op.slot \in Slots
        /\ OnlyAt(op.slot, file_table, u, op.name)
        /\ \A m \in Names \ {op.name} : FilesIn(file_table, y.data)[m] = f[m]
        /\ g[op.name] = Requested
    BY <1>3, <1>4, <2>1, <2>3, DataSpec DEF u
  <2>5. AllFiles[a] = f
    BY <1>3, <1>8, <2>4 DEF Seen, FilesOn
  <2>6. AllFiles'[a] = g
    BY <1>1, <1>3, <1>8 DEF Seen
  <2>7. \A m \in Names \ {op.name} : g[m] = f[m]
    BY <2>4, OthersSame
  <2>8. f = [m \in Names |-> f[m]] /\ g = [m \in Names |-> g[m]]
    BY FilesAreFunctions
  <2> HIDE DEF f, g
  <2> QED
    BY <2>4, <2>5, <2>6, <2>7, <2>8, OneChanged
<1> HIDE DEF c
<1>9. Store!Apply(c)
  BY <1>5, <1>6, <1>7, <1>8 DEF Store!Apply, Store!Keep, Store!Covered
<1> QED
  BY <1>5, <1>9

LEMMA FlushBitmapStore ==
  ASSUME StoreInv, Seen', FlushBitmap
  PROVE  Store!Idle
<1> USE DEF StoreInv
<1> DEFINE a == active_dev
<1>1. pc \in WritePoints /\ a \in Drives /\ UNCHANGED <<active_dev, ram_bad>>
  BY WritingSpec DEF Writing
<1>2. PICK k \in Nat : /\ disk'[a] = Written(disk[a], k)
                       /\ \A d \in Drives : d # a => disk'[d] = disk[d]
  BY WritingSpec DEF Writing
<1>3. pc = "flush_bm" /\ pc' = "flush_ft" /\ op' = op /\ file_table' = file_table
  BY DEF FlushBitmap, ram
<1>4. disk'[a].data = disk[a].data
  BY <1>1, <1>2, <1>3, WrittenSpec DEF Base
<1>5. UnderWay' = UnderWay
  BY <1>1, <1>3 DEF UnderWay, Requested
<1>6. ASSUME NEW d \in Trusted \cap Trusted' PROVE AllFiles'[d] = AllFiles[d]
  <2>1. d \in Drives
    BY DEF Trusted
  <2>2. CASE d = a
    BY <1>1, <1>3, <1>4, <2>2 DEF Seen
  <2>3. CASE d # a
    BY <1>1, <1>2, <1>3, <2>1, <2>3 DEF Seen
  <2> QED
    BY <2>2, <2>3
<1> QED
  BY <1>5, <1>6 DEF Store!Idle, Store!Keep, Store!Covered

LEMMA FlushTableStore ==
  ASSUME StoreInv, StoreInv', FlushTable
  PROVE  \E c \in Store!Changes : Store!Finish(c)
<1> USE DEF StoreInv
<1> DEFINE a == active_dev
           c == Change
<1>1. pc \in WritePoints /\ a \in Drives /\ UNCHANGED <<active_dev, ram_bad>> /\ WriteLength \in Nat
  BY WritingSpec DEF Writing
<1>2. PICK k \in Nat : /\ k <= WriteLength /\ disk'[a] = Written(disk[a], k)
                       /\ spoiled' = SpoiledBy(a, k)
                       /\ \A d \in Drives : d # a => disk'[d] = disk[d]
  BY WritingSpec DEF Writing
<1>3. pc = "flush_ft" /\ pc' = "idle" /\ file_table' = file_table
  BY DEF FlushTable, ram
<1>4. disk'[a].data = disk[a].data
  BY <1>1, <1>2, <1>3, WrittenSpec DEF Base
<1>5. /\ UnderWay = {c} /\ c \in Store!Changes
      /\ c.drive = a /\ c.name = op.name /\ c.new = Requested
  BY <1>3, ChangeSpec DEF Base, FilePoints
<1>6. UnderWay' = {}
  BY <1>3 DEF UnderWay
<1>7. ASSUME a \in Trusted \cap Trusted'
      PROVE  AllFiles[a] = FilesIn(file_table, disk[a].data) /\ AllFiles[a][op.name] = Requested
             /\ AllFiles'[a] = AllFiles[a]
  <2>1. Trustworthy /\ Trustworthy'
    BY <1>1, <1>7, EkeFsAssumption DEF Trusted, Trustworthy
  <2>2. AllFiles[a] = FilesIn(file_table, disk[a].data)
    BY <1>3, <1>7 DEF Seen
  <2>3. FilesIn(file_table, disk[a].data)[op.name] = Requested
    BY <1>3, <2>1 DEF FilesInv
  <2>4. disk'[a].magic /\ file_table' = disk'[a].ft
    BY <1>1, <1>3, <2>1 DEF Good, RamGood
  <2>5. AllFiles'[a] = FilesIn(file_table, disk'[a].data)
    BY <1>3, <1>7, <2>4 DEF Seen, FilesOn
  <2> QED
    BY <1>4, <2>2, <2>3, <2>5
<1>8. ASSUME NEW d \in Trusted \cap Trusted' PROVE AllFiles'[d] = AllFiles[d]
  <2>1. d \in Drives
    BY DEF Trusted
  <2>2. CASE d = a
    BY <1>7, <2>2
  <2>3. CASE d # a
    BY <1>1, <1>2, <1>3, <2>1, <2>3 DEF Seen
  <2> QED
    BY <2>2, <2>3
<1> HIDE DEF c
<1>9. Store!Finish(c)
  BY <1>5, <1>6, <1>7, <1>8 DEF Store!Finish, Store!Keep, Store!Covered
<1> QED
  BY <1>5, <1>9

\* An interrupted write leaves the files that it is not about as they were.
LEMMA TornSame ==
  ASSUME StoreInv, pc \in WritePoints, NEW k \in Nat, k <= WriteLength, ~LeavesInconsistent(k),
         WriteTarget \in Trusted, NEW m \in Names, pc \in FilePoints => m # op.name
  PROVE  FilesOn(Written(disk[WriteTarget], k))[m] = AllFiles[WriteTarget][m]
<1> USE DEF StoreInv, Base, Good
<1> DEFINE t == WriteTarget
           x == disk[t]
           y == Written(x, k)
<1>1. t \in Drives /\ t \notin spoiled /\ x.ft \in Tables /\ WriteLength \in Nat
  BY TargetSpec DEF Types, DriveContents, Trusted
<1>2. /\ y.magic = (IF pc = "fmt_sb" THEN x.magic \/ k = 1 ELSE x.magic)
      /\ y.ft = (IF pc = "fmt_ft" THEN TablePart(x.ft, EmptyTable, k)
                 ELSE IF pc = "flush_ft" THEN TablePart(x.ft, file_table, k) ELSE x.ft)
      /\ y.data = IF pc = "data" THEN DataPart(x.data, op.start, op.val, k) ELSE x.data
  BY <1>1, WrittenSpec
<1> HIDE DEF y
<1>3. CASE pc \in FormatPoints
  <2>1. t = op.drive /\ pc \notin {"flush_bm", "flush_ft"}
    BY <1>3 DEF WriteTarget, FormatPoints
  <2>2. pc = "fmt_sb" /\ ~x.magic
    BY <1>3, <2>1 DEF Trusted, FormatPoints, DrivesGood
  <2>3. y.magic => y.ft = EmptyTable
    BY <1>2, <2>1, <2>2 DEF LeavesInconsistent
  <2>4. FilesOn(y) = FilesIn(EmptyTable, x.data)
    BY <1>2, <2>2, <2>3 DEF FilesOn
  <2>5. AllFiles[t] = FilesIn(EmptyTable, x.data)
    BY <2>1, <2>2 DEF Seen, FilesOn
  <2> QED
    BY <2>4, <2>5 DEF y
<1>4. CASE pc \notin FormatPoints
  <2>1. t = active_dev /\ pc \in FilePoints /\ m # op.name
    BY <1>4, TargetSpec
  <2>2. Trustworthy
    BY <2>1, TrustedActive
  <2>3. x.magic /\ y.magic
    BY <1>2, <1>4, <2>1, <2>2 DEF WriteGood, FormatPoints
  <2>4. CASE pc = "data"
    <3>1. k \in 0..BlocksFor(op.bytes)
      BY <1>1, <2>4 DEF WriteLength
    <3>2. file_table = x.ft /\ FilesIn(file_table, y.data)[m] = FilesIn(file_table, x.data)[m]
      BY <1>2, <2>1, <2>2, <2>4, <3>1, DataSpec
    <3>3. FilesOn(y) = FilesIn(file_table, y.data)
      BY <1>2, <2>3, <2>4, <3>2 DEF FilesOn
    <3>4. AllFiles[t] = FilesIn(file_table, x.data)
      BY <2>3, <2>4, <3>2 DEF Seen, FilesOn
    <3> QED
      BY <3>2, <3>3, <3>4 DEF y
  <2>5. CASE pc \in {"flush_bm", "flush_ft"}
    <3>1. PICK z \in Slots : OnlyAt(z, x.ft, file_table, op.name)
      BY <2>1, <2>2, <2>5 DEF FilesInv
    <3>2. y.ft \in {x.ft, file_table}
      <4>1. file_table \in Tables
        BY <2>1 DEF Shape
      <4> QED
        BY <1>1, <1>2, <2>5, <3>1, <4>1, TornTable
    <3>3. FilesOn(y) = FilesIn(y.ft, x.data)
      BY <1>2, <2>3, <2>5 DEF FilesOn
    <3>4. AllFiles[t] = FilesIn(file_table, x.data)
      BY <2>1, <2>5 DEF Seen
    <3>5. FilesIn(x.ft, x.data)[m] = FilesIn(file_table, x.data)[m]
      BY <2>1, <3>1, OthersSame
    <3> QED
      BY <3>2, <3>3, <3>4, <3>5 DEF y
  <2> QED
    BY <2>1, <2>4, <2>5 DEF FilePoints
<1> QED
  BY <1>3, <1>4

LEMMA PowerLossStore ==
  ASSUME StoreInv, Seen', PowerLoss
  PROVE  Store!PowerLoss
<1> USE DEF StoreInv
<1>1. PICK k \in 0..(IF pc \in WritePoints THEN WriteLength ELSE 0) :
        /\ disk' = AfterPowerLoss(k)
        /\ spoiled' = (IF pc \in WritePoints /\ LeavesInconsistent(k)
                       THEN spoiled \cup {WriteTarget} ELSE spoiled) \ Volatile
  BY DEF PowerLoss
<1>2. k \in Nat /\ (pc \in WritePoints => k <= WriteLength)
  BY WriteLengthNat DEF Base
<1>3. pc' = "off" /\ UnderWay' = {}
  BY DEF PowerLoss, UnderWay
<1>4. ASSUME NEW d \in Trusted \cap Trusted'
      PROVE  d \in Drives /\ d \notin spoiled' /\ AllFiles'[d] = FilesOn(disk'[d])
  BY <1>3 DEF Trusted, Seen
<1>5. ASSUME NEW d \in (Trusted \cap Trusted') \cap Volatile
      PROVE  AllFiles'[d] = Store!NoFiles
  <2>1. disk'[d] = BlankDrive(d, EmptyTable)
    BY <1>1, <1>4 DEF AfterPowerLoss
  <2> QED
    BY <1>4, <2>1, BlankFiles
<1>6. ASSUME NEW d \in (Trusted \cap Trusted') \ Volatile, NEW m \in Names,
             AllFiles'[d][m] # AllFiles[d][m]
      PROVE  \E c \in UnderWay : c.drive = d /\ c.name = m
  <2>1. CASE pc \in WritePoints /\ d = WriteTarget
    <3>1. disk'[d] = Written(disk[d], k) /\ ~LeavesInconsistent(k)
      BY <1>1, <1>4, <2>1 DEF AfterPowerLoss
    <3>2. pc \in FilePoints /\ m = op.name
      BY <1>2, <1>4, <1>6, <2>1, <3>1, TornSame
    <3>3. d = active_dev
      BY <2>1, <3>2 DEF WriteTarget, FilePoints, FormatPoints
    <3>4. UnderWay = {Change} /\ Change.drive = d /\ Change.name = m
      BY <3>2, <3>3, ChangeSpec DEF Base
    <3> QED
      BY <3>4
  <2>2. CASE ~(pc \in WritePoints /\ d = WriteTarget)
    <3>1. disk'[d] = disk[d]
      BY <1>1, <1>4, <2>2 DEF AfterPowerLoss
    <3>2. ~(pc \in {"flush_bm", "flush_ft"} /\ d = active_dev)
      BY <2>2 DEF WritePoints, FormatPoints, WriteTarget
    <3>3. AllFiles[d] = FilesOn(disk[d])
      BY <3>2 DEF Seen
    <3> QED
      BY <1>4, <1>6, <3>1, <3>3
  <2> QED
    BY <2>1, <2>2
<1> QED
  BY <1>3, <1>5, <1>6 DEF Store!PowerLoss, Store!Covered

LEMMA NextStore ==
  StoreInv /\ StoreInv' /\ [Next]_vars => [Store!Next]_<<AllFiles, UnderWay, Trusted>>
<1> SUFFICES ASSUME StoreInv, StoreInv', [Next]_vars
             PROVE  [Store!Next]_<<AllFiles, UnderWay, Trusted>>
  OBVIOUS
<1> USE DEF StoreInv
<1>1. CASE UNCHANGED vars
  BY <1>1 DEF vars, ram, AllFiles, Files, UnderWay, Trusted, Requested
<1>2. CASE \/ Boot \/ MountReadFails \/ MountUnformatted \/ MountFormatted \/ LoadZero \/ Load
           \/ LoadFsModule
           \/ \E d \in Drives : DriveCommand(d)
           \/ \E n \in Names, z \in ByteSizes : WriteDiskFull(n, z) \/ WriteNoPage(n, z)
  <2>1. disk' = disk /\ {pc, pc'} \cap FilePoints = {}
    BY <1>2, MountingFiles
  <2>2. Store!Idle
    BY <2>1, QuietStore
  <2> QED
    BY <2>2 DEF Store!Next
<1>3. CASE Format \/ FlushBitmap
  BY <1>3, FormatStore, FlushBitmapStore DEF Store!Next
<1>4. CASE \E d \in Drives : LoadDiskModule(d) \/ LoadDiskFails(d)
  BY <1>4, LoadDiskStore, LoadDiskFailsStore DEF Store!Next
<1>5. CASE \E n \in Names, z \in ByteSizes, v \in Vals : WriteBegin(n, v, z)
  BY <1>5, WriteBeginStore DEF Store!Next
<1>6. CASE WriteData \/ \E n \in Names : DeleteFile(n)
  BY <1>6, WriteDataStore, DeleteStore DEF Store!Next
<1>7. CASE FlushTable
  BY <1>7, FlushTableStore DEF Store!Next
<1>8. CASE PowerLoss
  BY <1>8, PowerLossStore DEF Store!Next
<1> QED
  BY <1>1, <1>2, <1>3, <1>4, <1>5, <1>6, <1>7, <1>8 DEF Next, Mounting, Writing

LEMMA InitStore == Init => Store!Init
<1> SUFFICES ASSUME Init PROVE Store!Init
  OBVIOUS
<1>1. pc = "off" /\ active_dev = NoDrive /\ file_table = NotLoaded /\ \A d \in Drives : ~disk[d].magic
  BY DEF Init, BlankDrive
<1>2. UnderWay = {}
  BY <1>1 DEF UnderWay
<1>3. \A d \in Drives : Files(d) = FilesIn(EmptyTable, disk[d].data)
  BY <1>1 DEF Files
<1>4. \A d \in Drives : Files(d) = Store!NoFiles
  BY <1>3, EmptyFiles DEF Store!NoFiles
<1> QED
  BY <1>2, <1>4 DEF Store!Init, AllFiles

\* EKE-FS is a FileStore, on drives whose bitmaps have a bit for each block and with
\* transfers and power failing at any point: a command changes the file it names to
\* the content it was given and no other, mounts and drive switches change none, and
\* a power loss touches at most the file being changed, on every drive that none of
\* the events recorded in spoiled and ram_bad has damaged.
THEOREM Refinement ==
  ASSUME BitmapsCover
  PROVE  Spec => ImplementsFileStore
<1>1. Init => Base /\ Good /\ FilesInv /\ Store!Init
  BY InitBase, InitGood, InitFiles, InitStore
<1>2. Base /\ Good /\ FilesInv /\ [Next]_vars => (Base /\ Good /\ FilesInv)'
  BY NextBase, NextGood, NextFiles
<1>3. Base /\ Good /\ FilesInv => StoreInv
  BY FilesSeen DEF StoreInv
<1>4. StoreInv /\ StoreInv' /\ [Next]_vars => [Store!Next]_<<AllFiles, UnderWay, Trusted>>
  BY NextStore
<1> QED
  BY <1>1, <1>2, <1>3, <1>4, PTL DEF Spec, ImplementsFileStore, Store!Spec
=============================================================================

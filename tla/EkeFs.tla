------------------------------- MODULE EkeFs -------------------------------
(***************************************************************************)
(* The filesystem EKE-FS (modules/fs/eke_fs.cpp) over the block devices    *)
(* ata0 and ram0 (modules/disk), driven by the shell's commands and by the *)
(* module swaps that remount it (kernel/shell.cpp, kernel/module_swap.cpp, *)
(* changedrive in storage/spmm.cpp).                                       *)
(*                                                                         *)
(* An operation is a chain of steps, one per call of read_sectors or       *)
(* write_sectors together with the code that runs up to the next one.      *)
(* Power may be lost inside any write; a sector is written whole or not.   *)
(* A drive in Faulty may fail a transfer after any number of sectors, as   *)
(* the ATA driver does on an error or a timeout; the RAM disk never does.  *)
(* Either driver may fail to start when it is loaded again.                *)
(*                                                                         *)
(* A block holds one data value; a file's content is the value of each of  *)
(* its blocks.  The unformatted superblock is all zero.                    *)
(***************************************************************************)
EXTENDS SPMMOps, Sequences

CONSTANTS Drives,            \* the registered drives, gk.disks
          NoDrive,           \* the null device pointer
          NotLoaded,         \* a buffer pointer that is still null
          NoFile,            \* the content of a name that does not exist
          BootDrive,         \* the drive that is registered first
          Volatile,          \* RAM disks
          Faulty,            \* drives whose transfers may fail
          TotalSectors,      \* dev->total_sectors of each drive
          BitsPerByte,       \* bits in a byte (8)
          EntriesPerSector,  \* file entries in a sector (8)
          TableSectors,      \* file_table_block_count (8)
          SectorSize,        \* bytes in a sector (512)
          SectorsPerPage,    \* sectors that fit in a page of memory (8)
          Names, Vals,       \* file names; data values
          ByteSizes,         \* sizes of the files written
          Blank,             \* a data block never written
          OldTables,         \* what an unformatted drive may hold at the table's place
          PageFailures,      \* may alloc_page fail?
          PowerFailures      \* may power be lost?

Slots == 1..(TableSectors * EntriesPerSector)

Unused == [used |-> FALSE]

EmptyTable == [s \in Slots |-> Unused]

\* A file entry; only a used one has contents.
Entries ==
  {Unused} \cup [used : {TRUE}, name : Names, size : Nat, start : Nat, count : Nat]

Tables == [Slots -> Entries]

\* Transfers of a RAM disk are copies in memory and never fail.
ASSUME EkeFsAssumption ==
  /\ BootDrive \in Drives /\ NoDrive \notin Drives
  /\ Volatile \subseteq Drives /\ Faulty \subseteq Drives \ Volatile
  /\ TotalSectors \in [Drives -> Nat] /\ TableSectors \in Nat
  /\ {BitsPerByte, EntriesPerSector, SectorSize, SectorsPerPage} \subseteq Nat \ {0}
  /\ ByteSizes \subseteq Nat
  /\ EmptyTable \in OldTables /\ OldTables \subseteq Tables
  /\ {PageFailures, PowerFailures} \subseteq BOOLEAN

\* A null pointer is not the address of a table.
ASSUME NullAssumption == NotLoaded \notin Tables

-----------------------------------------------------------------------------
BitsPerSector == BitsPerByte * SectorSize

\* The layout eke_fs_format computes.
BitmapSectors(d) ==
  (TotalSectors[d] \div BitsPerByte + SectorSize - 1) \div SectorSize

\* What a buffer of as many pages as the drive's bitmap needs has room for.
BitmapRoom(d) ==
  ((BitmapSectors(d) + SectorsPerPage - 1) \div SectorsPerPage) * SectorsPerPage

DataStart(d) == 1 + BitmapSectors(d) + TableSectors

MetaBlocks(d) == 0..(DataStart(d) - 1)

\* Every drive has room for its metadata.
ASSUME LayoutFits == \A d \in Drives : DataStart(d) <= TotalSectors[d]

DriveBlocks(d) == Blocks(TotalSectors[d])

\* The blocks a file of that many bytes needs (never 0).
BlocksFor(bytes) ==
  IF bytes = 0 THEN 1 ELSE (bytes + SectorSize - 1) \div SectorSize

\* A device as ramdisk_init or an unformatted disk presents it.
BlankDrive(d, table) ==
  [magic |-> FALSE, bm |-> {}, ft |-> table,
   data |-> [b \in DriveBlocks(d) |-> Blank]]

-----------------------------------------------------------------------------
VARIABLES
  disk,                    \* the contents of each drive
  current_disk,            \* gk.current_disk
  active_dev, sb_ok,       \* active_dev; is active_sb a formatted superblock (or zero)?
  bitmap_buf, free_blocks, \* the shared bitmap buffer, active_dev->free_blocks
  bitmap_room,             \* the sectors that fit in the pages of bitmap_buf
  file_table,              \* the table in RAM
  pc, op,                  \* where the running operation is, and its locals
  ram_bad, spoiled         \* ghosts: see Trusted

ram  == <<active_dev, sb_ok, bitmap_room, bitmap_buf, free_blocks, file_table>>
vars == <<disk, current_disk, ram, pc, op, ram_bad, spoiled>>

NoOp == [kind |-> "none"]

Total == IF sb_ok THEN TotalSectors[active_dev] ELSE 0

Claims(e) == IF e.used THEN BlockRun(e.start, e.count) ELSE {}

\* What read_file returns for the entry of a file, given a drive's data.
ContentOf(e, data) ==
  [bytes |-> e.size,
   blocks |-> [k \in 1..BlocksFor(e.size) |->
                 IF e.start + k - 1 \in DOMAIN data THEN data[e.start + k - 1] ELSE Blank]]

\* A file of that many bytes, all of them written.
WholeContent(bytes, v) == [bytes |-> bytes, blocks |-> [k \in 1..BlocksFor(bytes) |-> v]]

WholeContents == {WholeContent(z, v) : z \in ByteSizes, v \in Vals}

Matches(table, n) == {s \in Slots : table[s].used /\ table[s].name = n}

-----------------------------------------------------------------------------
(* Transfers.  A transfer of m sectors moves the first k of them: all of   *)
(* them, or fewer when the drive fails.  EKE-FS ignores the result of      *)
(* every transfer but the first read of a mount.                           *)

Moved(d, m) == IF d \in Faulty THEN 0..m ELSE {m}

BitmapPart(old, new, k) ==
  {b \in new : b \div BitsPerSector < k} \cup {b \in old : b \div BitsPerSector >= k}

TablePart(old, new, k) ==
  [s \in Slots |-> IF (s - 1) \div EntriesPerSector < k THEN new[s] ELSE old[s]]

DataPart(old, start, v, k) ==
  [b \in DOMAIN old |-> IF b \in BlockRun(start, k) THEN v ELSE old[b]]

FormatPoints == {"fmt_sb", "fmt_bm", "fmt_ft"}
WritePoints  == FormatPoints \cup {"data", "flush_bm", "flush_ft"}

\* The sectors the write at the current pc has to move, and the drive's
\* contents when the first k of them have been written.
WriteLength ==
  IF pc = "fmt_sb" THEN 1
  ELSE IF pc = "fmt_bm" THEN BitmapSectors(op.drive)
  ELSE IF pc = "fmt_ft" THEN TableSectors
  ELSE IF pc = "data" THEN BlocksFor(op.bytes)
  ELSE IF ~sb_ok THEN 0
  ELSE IF pc = "flush_bm" THEN BitmapSectors(active_dev) ELSE TableSectors

Written(x, k) ==
  IF pc = "fmt_sb" THEN [x EXCEPT !.magic = @ \/ k = 1]
  ELSE IF pc = "fmt_bm" THEN [x EXCEPT !.bm = BitmapPart(@, {}, k)]
  ELSE IF pc = "fmt_ft" THEN [x EXCEPT !.ft = TablePart(@, EmptyTable, k)]
  ELSE IF pc = "data" THEN [x EXCEPT !.data = DataPart(@, op.start, op.val, k)]
  ELSE IF pc = "flush_bm" THEN [x EXCEPT !.bm = BitmapPart(@, bitmap_buf, k)]
  ELSE [x EXCEPT !.ft = TablePart(@, file_table, k)]

WriteTarget == IF pc \in FormatPoints THEN op.drive ELSE active_dev

-----------------------------------------------------------------------------
(* Mounting: eke_fs_mount, and eke_fs_format when block 0 has no magic.    *)

\* op.again: mounts that follow this one (swap_fs mounts once more).
StartMount(d, again) ==
  /\ pc' = "mount"
  /\ op' = [kind |-> "mount", drive |-> d, again |-> again, formatted |-> FALSE]

EndMount ==
  IF op.again THEN StartMount(op.drive, FALSE)
              ELSE pc' = "idle" /\ op' = NoOp

\* Power on: the first drive becomes the active one and eke_fs_init mounts it.
Boot ==
  /\ pc = "off"
  /\ StartMount(BootDrive, FALSE)
  /\ UNCHANGED <<disk, current_disk, ram, ram_bad, spoiled>>

\* Block 0 cannot be read: the mount fails and nothing changes.
MountReadFails ==
  /\ pc = "mount"
  /\ op.drive \in Faulty
  /\ EndMount
  /\ UNCHANGED <<disk, current_disk, ram, ram_bad, spoiled>>

MountUnformatted ==
  /\ pc = "mount"
  /\ ~disk[op.drive].magic
  /\ pc' = "fmt_sb"
  /\ op' = [op EXCEPT !.formatted = TRUE]
  /\ UNCHANGED <<disk, current_disk, ram, ram_bad, spoiled>>

MountFormatted ==
  /\ pc = "mount"
  /\ disk[op.drive].magic
  /\ pc' = "load"
  /\ UNCHANGED <<disk, current_disk, ram, op, ram_bad, spoiled>>

\* What is left when only the sectors of S of a format's write have arrived.
PartlyCleared(x, S) ==
  IF pc = "fmt_sb" THEN x
  ELSE IF pc = "fmt_bm" THEN [x EXCEPT !.bm = {b \in @ : b \div BitsPerSector \notin S}]
  ELSE [x EXCEPT !.ft = [s \in Slots |-> IF (s - 1) \div EntriesPerSector \in S
                                         THEN EmptyTable[s] ELSE @[s]]]

\* eke_fs_format: superblock, then bitmap, then file table, sector by sector; the
\* next sector follows whether or not the one before was written.
Format ==
  /\ pc \in FormatPoints
  /\ \/ /\ disk' = [disk EXCEPT ![op.drive] = Written(@, WriteLength)]
        /\ UNCHANGED spoiled
     \/ /\ op.drive \in Faulty
        /\ LET all == 0..(WriteLength - 1)
           IN  \E S \in (SUBSET all) \ {all} :
                 disk' = [disk EXCEPT ![op.drive] = PartlyCleared(@, S)]
        /\ spoiled' = spoiled \cup {op.drive}
  /\ pc' = IF pc = "fmt_sb" THEN "fmt_bm" ELSE IF pc = "fmt_bm" THEN "fmt_ft" ELSE "load"
  /\ UNCHANGED <<current_disk, ram, op, ram_bad>>

\* The superblock a mount adopts: after formatting, block 0 is read again and a
\* failure leaves the zero block of the first read.
AdoptedSb(d) == {disk[d].magic} \cup (IF op.formatted /\ d \in Faulty THEN {FALSE} ELSE {})

\* What a buffer holds before a read: its old contents, or those of the page
\* alloc_page returned.
StaleBitmap(d) == IF bitmap_buf = NotLoaded THEN {{}, DriveBlocks(d)} ELSE {bitmap_buf}
StaleTable == IF file_table = NotLoaded THEN OldTables ELSE {file_table}

\* A zero superblock: no bitmap, no table, no blocks; buffers stay as they are.
LoadZero ==
  /\ pc = "load"
  /\ FALSE \in AdoptedSb(op.drive)
  /\ active_dev' = op.drive
  /\ sb_ok' = FALSE
  /\ free_blocks' = 0
  /\ ram_bad' = TRUE
  /\ EndMount
  /\ UNCHANGED <<disk, current_disk, bitmap_room, bitmap_buf, file_table, spoiled>>

\* The rest of eke_fs_mount: adopt the superblock and the drive, load bitmap
\* and table into the shared buffers, count the free blocks, reserve metadata.
Load ==
  /\ pc = "load"
  /\ TRUE \in AdoptedSb(op.drive)
  /\ LET d == op.drive
     IN
     \E kb \in Moved(d, BitmapSectors(d)), kt \in Moved(d, TableSectors),
        sb \in StaleBitmap(d), st \in StaleTable :
       LET bm   == BitmapPart(sb, disk[d].bm, kb)
           mark == MarkedBy(bm, TotalSectors[d], MetaBlocks(d))
       IN  /\ bitmap_buf' = bm \cup mark
           /\ free_blocks' = CountFree(bm, TotalSectors[d]) - Cardinality(mark)
           /\ file_table' = TablePart(st, disk[d].ft, kt)
           /\ ram_bad' = (kb < BitmapSectors(d) \/ kt < TableSectors)
           /\ sb_ok' = TRUE /\ active_dev' = d
           /\ bitmap_room' = IF bitmap_buf = NotLoaded THEN BitmapRoom(d) ELSE bitmap_room
  /\ EndMount
  /\ UNCHANGED <<disk, current_disk, spoiled>>

ChangeDrive(d) == current_disk' = d

\* cmd_drive: changedrive switches gk.current_disk, then the drive is mounted.
DriveCommand(d) ==
  /\ pc = "idle"
  /\ ChangeDrive(d)
  /\ StartMount(d, FALSE)
  /\ UNCHANGED <<disk, ram, ram_bad, spoiled>>

\* load EKE-FS: eke_fs_init mounts the current drive, swap_fs mounts it again.
LoadFsModule ==
  /\ pc = "idle"
  /\ StartMount(current_disk, TRUE)
  /\ UNCHANGED <<disk, current_disk, ram, ram_bad, spoiled>>

\* load of a disk driver: swap_blockdev; ramdisk_init starts a blank disk.
LoadDiskModule(d) ==
  /\ pc = "idle"
  /\ disk' = IF d \in Volatile THEN [disk EXCEPT ![d] = BlankDrive(d, EmptyTable)] ELSE disk
  /\ spoiled' = IF d \in Volatile THEN spoiled \ {d} ELSE spoiled
  /\ current_disk' = d
  /\ StartMount(d, FALSE)
  /\ UNCHANGED <<ram, ram_bad>>

\* The driver's init returns null and swap_blockdev leaves everything as it is.
\* But ramdisk_init has put the null into ramdisk_buf: from now on the RAM disk is
\* the memory at address 0, with whatever that holds.
LoadDiskFails(d) ==
  /\ pc = "idle"
  /\ IF d \in Volatile
     THEN /\ \E t \in OldTables, m \in BOOLEAN :
               disk' = [disk EXCEPT ![d] = [BlankDrive(d, t) EXCEPT !.magic = m]]
          /\ spoiled' = spoiled \cup {d}
     ELSE UNCHANGED <<disk, spoiled>>
  /\ UNCHANGED <<current_disk, ram, pc, op, ram_bad>>

-----------------------------------------------------------------------------
(* eke_fs_write_file, for the write, compile and edit commands.            *)

Ready == pc = "idle" /\ active_dev # NoDrive /\ file_table # NotLoaded

\* Mutant: only the first block of the old version is freed.
OldBlocksFirstOnly(n) ==
  IF Matches(file_table, n) = {} THEN {}
  ELSE LET e == file_table[Least(Matches(file_table, n))]
       IN  FreedBy(bitmap_buf, Total, e.start, 1)

\* The bits freed before the new blocks are sought: those of the old version.
OldBlocks(n) ==
  IF Matches(file_table, n) = {} THEN {}
  ELSE LET e == file_table[Least(Matches(file_table, n))]
       IN  FreedBy(bitmap_buf, Total, e.start, e.count)

\* The slot written to: the file's own, else the first unused one.  When there
\* is none the call returns -2 and has changed nothing.
TargetSlots(n) ==
  IF Matches(file_table, n) # {} THEN Matches(file_table, n)
  ELSE {s \in Slots : ~file_table[s].used}

NewStart(n, bytes) ==
  LET old == OldBlocks(n)
  IN  ContiguousStart(bitmap_buf \ old, Total, free_blocks + Cardinality(old), BlocksFor(bytes))

\* Return -3: the old version's bits are already cleared.
WriteDiskFull(n, bytes) ==
  /\ Ready
  /\ TargetSlots(n) # {}
  /\ NewStart(n, bytes) = 0
  /\ bitmap_buf' = bitmap_buf \ OldBlocks(n)
  /\ free_blocks' = free_blocks + Cardinality(OldBlocks(n))
  /\ ram_bad' = (ram_bad \/ OldBlocks(n) # {})
  /\ UNCHANGED <<disk, current_disk, active_dev, sb_ok, bitmap_room, file_table, pc, op, spoiled>>

\* The blocks are allocated in RAM; placed is the bitmap that results.
Placed(n, bytes) ==
  (bitmap_buf \ OldBlocks(n)) \cup BlockRun(NewStart(n, bytes), BlocksFor(bytes))

Place(n, bytes) ==
  /\ Ready
  /\ TargetSlots(n) # {}
  /\ NewStart(n, bytes) # 0
  /\ bitmap_buf' = Placed(n, bytes)
  /\ free_blocks' = (free_blocks + Cardinality(OldBlocks(n))) - BlocksFor(bytes)

\* Return -1: no page for the temporary buffer; the new blocks stay allocated.
WriteNoPage(n, bytes) ==
  /\ PageFailures
  /\ Place(n, bytes)
  /\ ram_bad' = (ram_bad \/ OldBlocks(n) # {})
  /\ UNCHANGED <<disk, current_disk, active_dev, sb_ok, bitmap_room, file_table, pc, op, spoiled>>

WriteBegin(n, v, bytes) ==
  /\ Place(n, bytes)
  /\ pc' = "data"
  /\ op' = [kind |-> IF Matches(file_table, n) = {} THEN "create" ELSE "overwrite",
            name |-> n, val |-> v, bytes |-> bytes,
            start |-> NewStart(n, bytes), slot |-> Least(TargetSlots(n))]
  /\ UNCHANGED <<disk, current_disk, active_dev, sb_ok, bitmap_room, file_table, ram_bad, spoiled>>

\* A transfer that fails, or one driven by a bad bitmap or table, may damage
\* the drive.
SpoiledBy(d, k) ==
  IF k < WriteLength \/ ram_bad THEN spoiled \cup {d} ELSE spoiled

NewEntry ==
  [used |-> TRUE, name |-> op.name, size |-> op.bytes,
   start |-> op.start, count |-> BlocksFor(op.bytes)]

\* Mutant: the bitmap is not flushed.
WriteDataNoBitmap ==
  /\ pc = "data"
  /\ \E k \in Moved(active_dev, WriteLength) :
       /\ disk' = [disk EXCEPT ![active_dev] = Written(@, k)]
       /\ spoiled' = SpoiledBy(active_dev, k)
  /\ file_table' = [file_table EXCEPT ![op.slot] = NewEntry]
  /\ pc' = "flush_ft"
  /\ UNCHANGED <<current_disk, active_dev, sb_ok, bitmap_room, bitmap_buf, free_blocks, op,
                 ram_bad>>

\* Mutant: the data is left in the buffer.
WriteDataLost ==
  /\ pc = "data"
  /\ file_table' = [file_table EXCEPT ![op.slot] = NewEntry]
  /\ pc' = "flush_bm"
  /\ UNCHANGED <<disk, spoiled, current_disk, active_dev, sb_ok, bitmap_room, bitmap_buf,
                 free_blocks, op, ram_bad>>

\* Write the data, then enter the file in the table in RAM.
WriteData ==
  /\ pc = "data"
  /\ \E k \in Moved(active_dev, WriteLength) :
       /\ disk' = [disk EXCEPT ![active_dev] = Written(@, k)]
       /\ spoiled' = SpoiledBy(active_dev, k)
  /\ file_table' = [file_table EXCEPT ![op.slot] = NewEntry]
  /\ pc' = "flush_bm"
  /\ UNCHANGED <<current_disk, active_dev, sb_ok, bitmap_room, bitmap_buf, free_blocks, op,
                 ram_bad>>

\* Both write_file and delete_file end by writing the bitmap, then the table.
FlushBitmap ==
  /\ pc = "flush_bm"
  /\ \E k \in Moved(active_dev, WriteLength) :
       /\ disk' = [disk EXCEPT ![active_dev] = Written(@, k)]
       /\ spoiled' = SpoiledBy(active_dev, k)
  /\ pc' = "flush_ft"
  /\ UNCHANGED <<current_disk, ram, op, ram_bad>>

FlushTable ==
  /\ pc = "flush_ft"
  /\ \E k \in Moved(active_dev, WriteLength) :
       /\ disk' = [disk EXCEPT ![active_dev] = Written(@, k)]
       /\ spoiled' = SpoiledBy(active_dev, k)
  /\ pc' = "idle"
  /\ op' = NoOp
  /\ UNCHANGED <<current_disk, ram, ram_bad>>

\* Mutant: the metadata is not flushed after a delete.
DeleteFileNoFlush(n) ==
  /\ Ready
  /\ Matches(file_table, n) # {}
  /\ bitmap_buf' = bitmap_buf \ OldBlocks(n)
  /\ free_blocks' = free_blocks + Cardinality(OldBlocks(n))
  /\ file_table' = [file_table EXCEPT ![Least(Matches(file_table, n))] = Unused]
  /\ UNCHANGED <<disk, current_disk, active_dev, sb_ok, bitmap_room, pc, op, ram_bad, spoiled>>

\* eke_fs_delete_file, for the rm command; a name that is not there changes nothing.
DeleteFile(n) ==
  /\ Ready
  /\ Matches(file_table, n) # {}
  /\ bitmap_buf' = bitmap_buf \ OldBlocks(n)
  /\ free_blocks' = free_blocks + Cardinality(OldBlocks(n))
  /\ file_table' = [file_table EXCEPT ![Least(Matches(file_table, n))] = Unused]
  /\ pc' = "flush_bm"
  /\ op' = [kind |-> "delete", name |-> n]
  /\ UNCHANGED <<disk, current_disk, active_dev, sb_ok, bitmap_room, ram_bad, spoiled>>

\* Memory after a reset: no drive mounted, no buffer allocated.
ResetRam ==
  /\ current_disk' = BootDrive
  /\ active_dev' = NoDrive /\ sb_ok' = FALSE
  /\ bitmap_buf' = NotLoaded /\ bitmap_room' = 0
  /\ free_blocks' = 0 /\ file_table' = NotLoaded
  /\ op' = NoOp
  /\ ram_bad' = FALSE

\* Does losing power after k sectors of the current write leave bitmap and
\* table in disagreement?  So it is from the first bitmap sector to the last
\* table sector of a delete or an overwrite, and from the superblock to the
\* last table sector of a format over old data.
LeavesInconsistent(k) ==
  \/ pc = "flush_bm" /\ k > 0 /\ op.kind # "create"
  \/ pc = "flush_ft" /\ k < WriteLength /\ op.kind # "create"
  \/ pc = "fmt_sb" /\ k = 1 /\ disk[op.drive].ft # EmptyTable
  \/ pc = "fmt_bm" /\ disk[op.drive].ft # EmptyTable
  \/ pc = "fmt_ft" /\ k < WriteLength /\ disk[op.drive].ft # EmptyTable

\* What is left of the drives: the first k sectors of the running write have
\* reached its target, RAM disks are blank.
AfterPowerLoss(k) ==
  [d \in Drives |-> IF d \in Volatile THEN BlankDrive(d, EmptyTable)
                    ELSE IF pc \in WritePoints /\ d = WriteTarget THEN Written(disk[d], k)
                    ELSE disk[d]]

PowerLoss ==
  /\ PowerFailures
  /\ pc # "off"
  /\ pc' = "off"
  /\ ResetRam
  /\ \E k \in 0..(IF pc \in WritePoints THEN WriteLength ELSE 0) :
       /\ disk' = AfterPowerLoss(k)
       /\ spoiled' = (IF pc \in WritePoints /\ LeavesInconsistent(k)
                      THEN spoiled \cup {WriteTarget} ELSE spoiled) \ Volatile

-----------------------------------------------------------------------------
Init ==
  /\ \E t \in [Drives -> OldTables] :
       disk = [d \in Drives |-> BlankDrive(d, IF d \in Volatile THEN EmptyTable ELSE t[d])]
  /\ current_disk = BootDrive
  /\ active_dev = NoDrive /\ sb_ok = FALSE
  /\ bitmap_buf = NotLoaded /\ bitmap_room = 0 /\ free_blocks = 0 /\ file_table = NotLoaded
  /\ pc = "off" /\ op = NoOp
  /\ ram_bad = FALSE /\ spoiled = {}

Mounting == MountReadFails \/ MountUnformatted \/ MountFormatted \/ Format \/ LoadZero \/ Load

Writing == WriteData \/ FlushBitmap \/ FlushTable

Next ==
  \/ Boot
  \/ Mounting
  \/ \E d \in Drives : DriveCommand(d) \/ LoadDiskModule(d) \/ LoadDiskFails(d)
  \/ LoadFsModule
  \/ \E n \in Names : DeleteFile(n)
  \/ \E n \in Names, z \in ByteSizes : WriteDiskFull(n, z) \/ WriteNoPage(n, z)
  \/ \E n \in Names, z \in ByteSizes, v \in Vals : WriteBegin(n, v, z)
  \/ Writing
  \/ PowerLoss

Spec == Init /\ [][Next]_vars

-----------------------------------------------------------------------------
DriveContents(d) ==
  [magic : BOOLEAN, bm : SUBSET Nat, ft : Tables, data : [DriveBlocks(d) -> Vals \cup {Blank}]]

Types ==
  /\ disk = [d \in Drives |-> disk[d]]
  /\ \A d \in Drives : disk[d] \in DriveContents(d)
  /\ current_disk \in Drives /\ active_dev \in Drives \cup {NoDrive}
  /\ sb_ok \in BOOLEAN /\ ram_bad \in BOOLEAN /\ spoiled \subseteq Drives
  /\ bitmap_buf \in (SUBSET Nat) \cup {NotLoaded} /\ file_table \in Tables \cup {NotLoaded}
  /\ free_blocks \in Nat /\ bitmap_room \in Nat
  /\ pc \in {"off", "mount", "load", "idle"} \cup WritePoints

\* The drives' contents and the filesystem's globals have their types, and a write
\* of data ends on the drive.
TypeOK == Types /\ (pc = "data" => op.start + BlocksFor(op.bytes) <= Total)

\* free_blocks of the mounted drive is the number of clear bits, through
\* mounts, failed transfers, failed writes and drive switches.
FreeCountExact ==
  sb_ok => free_blocks = CountFree(bitmap_buf, Total)

\* Bitmap and table agree: files own disjoint data blocks of the drive, all
\* marked used.
Consistent(table, bm, d) ==
  /\ \A s \in Slots : Claims(table[s]) \subseteq (bm \cap DriveBlocks(d)) \ MetaBlocks(d)
  /\ \A s, t \in Slots : s # t => Claims(table[s]) \cap Claims(table[t]) = {}

\* Between operations, the bitmap and the table on a drive agree, and so do the
\* copies in RAM, unless one of the events recorded in spoiled and ram_bad has
\* happened: a failed transfer, a failed overwrite, or a power loss in one of
\* the windows of LeavesInconsistent.  No other sequence of commands, remounts
\* and power losses breaks them.
ConsistentWhenIdle ==
  pc = "idle" =>
    /\ \A d \in Drives \ spoiled :
         /\ disk[d].magic => Consistent(disk[d].ft, disk[d].bm, d)
         /\ disk[d].bm \subseteq DriveBlocks(d)
    /\ active_dev \notin spoiled \cup {NoDrive} /\ ~ram_bad =>
         Consistent(file_table, bitmap_buf, active_dev) /\ file_table = disk[active_dev].ft

\* Between operations every block marked used is metadata or belongs to a file:
\* without power losses and page shortages nothing leaks.  Behind the last block
\* of a small drive the buffer may still hold bits of a larger one.
NoLeakedBlocks ==
  pc = "idle" /\ sb_ok /\ ~ram_bad /\ active_dev \notin spoiled =>
    bitmap_buf \cap DriveBlocks(active_dev) =
      MetaBlocks(active_dev) \cup UNION {Claims(file_table[s]) : s \in Slots}

\* The accounting of the mounted drive's blocks is exact: the counter is that of
\* the bitmap, and the bitmap is that of the table.
AccountingExact == FreeCountExact /\ NoLeakedBlocks

\* A block the bitmap reports as free belongs to no file of the mounted drive,
\* unless a failed transfer or an interrupted write damaged the drive.
FreeBlocksUnclaimed ==
  pc = "idle" /\ sb_ok /\ active_dev \notin spoiled =>
    \A s \in Slots : Claims(file_table[s]) \subseteq bitmap_buf

\* The bitmap of the mounted drive lies inside the pages of bitmap_buf, which
\* the first mount sized for its own drive.
BitmapInBuffer == sb_ok => BitmapSectors(active_dev) <= bitmap_room

\* rm deletes from the active drive, the one changedrive selected.
DeletesFromActiveDrive ==
  pc # "idle" /\ op.kind = "delete" => active_dev = current_disk

-----------------------------------------------------------------------------
FilesIn(table, data) ==
  [n \in Names |-> IF Matches(table, n) = {} THEN NoFile
                   ELSE ContentOf(table[Least(Matches(table, n))], data)]

\* The files of a drive as commands see them: through the table in RAM when it
\* is the mounted drive, else those a mount would find.
Files(d) ==
  FilesIn(IF d = active_dev /\ file_table # NotLoaded /\ op.kind # "mount" THEN file_table
          ELSE IF disk[d].magic THEN disk[d].ft ELSE EmptyTable,
          disk[d].data)

AllFiles == [d \in Drives |-> Files(d)]

Trusted ==
  Drives \ (spoiled \cup (IF ram_bad THEN {active_dev} ELSE {})
                    \cup (IF pc \in {"fmt_bm", "fmt_ft"} THEN {op.drive} ELSE {}))

\* The change that the running command makes, as its arguments say.
Requested ==
  IF op.kind = "delete" THEN NoFile
  ELSE WholeContent(op.bytes, op.val)

UnderWay ==
  IF pc \in {"data", "flush_bm", "flush_ft"}
  THEN {[drive |-> active_dev, name |-> op.name, new |-> Requested]} ELSE {}

Store == INSTANCE FileStore
           WITH Contents <- WholeContents, busy <- UnderWay,
                files <- AllFiles, trusted <- Trusted

\* Seen through file names and contents, EKE-FS is a FileStore: every command
\* changes one file of one drive as it was told, mounts and drive switches change nothing, a
\* power loss touches only the file being written, and a failing drive does not
\* harm another one.
ImplementsFileStore == Store!Spec

\* Power loss while a file is created leaves it absent or complete, never
\* listed with missing data.
CreateIsAtomic ==
  [][pc # "off" /\ pc' = "off" /\ op.kind = "create" /\ active_dev \notin spoiled'
       => FilesIn(disk'[active_dev].ft, disk'[active_dev].data)[op.name]
            \in WholeContents \cup {NoFile}]_vars
=============================================================================

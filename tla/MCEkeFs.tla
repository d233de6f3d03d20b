------------------------------ MODULE MCEkeFs ------------------------------
(***************************************************************************)
(* Small drives for EkeFs.  Bytes and sectors are shrunk so that a few     *)
(* blocks make a bitmap and a table of one or two sectors each: a torn     *)
(* write of either is then possible with a handful of blocks.              *)
(***************************************************************************)
EXTENDS EkeFs

CONSTANTS ata0, ram0, f, g, x, y

\* A file entry left on a disk by an earlier use: one data block.
OldEntry == [used |-> TRUE, name |-> f, size |-> 1, start |-> 5, count |-> 1]

TwoTables == {EmptyTable, [EmptyTable EXCEPT ![1] = OldEntry]}

BlankTables == {EmptyTable}

\* Superblock, 2 bitmap sectors, 2 table sectors, 3 data blocks.
EightSectors == [d \in Drives |-> 8]

\* Superblock, bitmap, table and 2 data blocks, with the larger sectors.
FiveSectors == [d \in Drives |-> 5]

\* With bitmap sectors of 5 bits: superblock, bitmap, table and 2 data blocks on
\* one drive; superblock, 2 bitmap sectors, table and 6 data blocks on the other.
LargerRam == [d \in Drives |-> IF d = ram0 THEN 10 ELSE 5]
LargerAta == [d \in Drives |-> IF d = ata0 THEN 10 ELSE 5]

\* Superblock, 2 bitmap sectors of 4 bits, 2 table sectors and 4 data blocks:
\* the bitmap has one bit less than the drive has blocks.
NineSectors == [d \in Drives |-> 9]
=============================================================================

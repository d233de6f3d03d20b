-------------------------------- MODULE SPMM --------------------------------
(***************************************************************************)
(* The sector allocator of storage/spmm.cpp for one mounted device: the    *)
(* bitmap and the counters of its BLOCKDEV_API record.  Each operation     *)
(* runs with interrupts off and is one step.  Arguments of the freeing     *)
(* operations are unconstrained: EKE-FS passes what it read from disk.     *)
(***************************************************************************)
EXTENDS SPMMOps

CONSTANTS Total,      \* dev->total_blocks
          WordBits,   \* bits of a bitmap word (64)
          MaxCount    \* largest run asked for or freed

ASSUME SPMMAssumption ==
  /\ Total \in Nat \ {0}
  /\ WordBits \in Nat \ {0}
  /\ MaxCount \in Nat

VARIABLES bitmap, free_blocks, last_free_block,   \* fields of the device
          got                                     \* blocks the last call allocated

vars == <<bitmap, free_blocks, last_free_block, got>>

-----------------------------------------------------------------------------
\* spmm_init(all_free = true): only the superblock is taken.
InitAllFree ==
  /\ bitmap = {0}
  /\ free_blocks = Total - 1

\* spmm_init(all_free = false): whatever bitmap was read from the disk.
InitLoaded ==
  /\ bitmap \in SUBSET Blocks(Total)
  /\ free_blocks = CountFree(bitmap, Total)

Init ==
  /\ InitAllFree \/ InitLoaded
  /\ last_free_block = 1
  /\ got = {}

\* spmm_alloc
Alloc ==
  LET b == AllocBlock(bitmap, Total, free_blocks, last_free_block, WordBits)
  IN  IF b = 0
      THEN got' = {} /\ UNCHANGED <<bitmap, free_blocks, last_free_block>>
      ELSE /\ bitmap' = bitmap \cup {b}
           /\ free_blocks' = free_blocks - 1
           /\ last_free_block' = b + 1
           /\ got' = {b}

\* Mutant: the counter is decremented once for the whole run.
AllocContiguousCountsOne(count) ==
  LET s == ContiguousStart(bitmap, Total, free_blocks, count)
  IN  IF s = 0
      THEN got' = {} /\ UNCHANGED <<bitmap, free_blocks, last_free_block>>
      ELSE /\ bitmap' = bitmap \cup BlockRun(s, count)
           /\ free_blocks' = free_blocks - 1
           /\ last_free_block' = s + count
           /\ got' = BlockRun(s, count)

\* spmm_alloc_contiguous
AllocContiguous(count) ==
  LET s == ContiguousStart(bitmap, Total, free_blocks, count)
  IN  IF s = 0
      THEN got' = {} /\ UNCHANGED <<bitmap, free_blocks, last_free_block>>
      ELSE /\ bitmap' = bitmap \cup BlockRun(s, count)
           /\ free_blocks' = free_blocks - count
           /\ last_free_block' = s + count
           /\ got' = BlockRun(s, count)

\* spmm_free_contiguous; spmm_free(b) is FreeContiguous(b, 1).
FreeContiguous(start, count) ==
  LET F == FreedBy(bitmap, Total, start, count)
  IN  /\ bitmap' = bitmap \ F
      /\ free_blocks' = free_blocks + Cardinality(F)
      /\ last_free_block' = IF F # {} /\ Least(F) < last_free_block
                            THEN Least(F) ELSE last_free_block
      /\ got' = {}

\* spmm_mark_used
MarkUsed(b) ==
  LET M == MarkedBy(bitmap, Total, {b})
  IN  /\ bitmap' = bitmap \cup M
      /\ free_blocks' = IF M # {} /\ free_blocks > 0 THEN free_blocks - 1 ELSE free_blocks
      /\ got' = {}
      /\ UNCHANGED last_free_block

Next ==
  \/ Alloc
  \/ \E count \in 0..MaxCount : AllocContiguous(count)
  \/ \E start \in 0..Total, count \in 0..MaxCount : FreeContiguous(start, count)
  \/ \E b \in 0..Total : MarkUsed(b)

Spec == Init /\ [][Next]_vars

-----------------------------------------------------------------------------
\* Types of the device's allocation state.
TypeOK ==
  /\ bitmap \subseteq Blocks(Total)
  /\ free_blocks \in Nat
  /\ last_free_block \in 0..Total
  /\ got \subseteq Blocks(Total)

\* The counter free_blocks, which the allocation functions trust before they
\* scan, is exactly the number of clear bits after any sequence of calls, with
\* frees of free blocks, of block 0 and past the end of the device included.
FreeCountExact == free_blocks = CountFree(bitmap, Total)

\* No call of spmm_alloc or spmm_alloc_contiguous hands out the superblock or
\* a block whose bit was set, and the bit of what it hands out is set.
AllocTakesFreeBlocks ==
  [][got' \cap ({0} \cup bitmap) = {} /\ got' \subseteq bitmap']_vars

\* spmm_alloc finds a block whenever there is one, wherever the hint points,
\* and spmm_alloc_contiguous a run whenever there is one.
Complete ==
  /\ (\E b \in 1..(Total - 1) : b \notin bitmap)
       => AllocBlock(bitmap, Total, free_blocks, last_free_block, WordBits) # 0
  /\ \A count \in 1..MaxCount :
       FreeRuns(bitmap, Total, count) # {}
         => ContiguousStart(bitmap, Total, free_blocks, count) # 0

\* The scan loop of spmm_alloc_contiguous computes the first fit.
ScanIsFirstFit ==
  \A count \in 1..MaxCount :
    free_blocks >= count =>
      ContiguousScan(bitmap, Total, count)
        = ContiguousStart(bitmap, Total, free_blocks, count)

\* The searches of spmm.cpp are exact: they fail only when nothing fits, and
\* the loop over the blocks returns the first run that does.
SearchesExact == Complete /\ ScanIsFirstFit
=============================================================================

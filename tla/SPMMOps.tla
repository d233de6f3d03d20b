------------------------------ MODULE SPMMOps ------------------------------
(***************************************************************************)
(* The block bitmap operations of storage/spmm.cpp as operators.  A bitmap *)
(* is the set of blocks whose bit is 1; total is dev->total_blocks and     *)
(* free is the counter dev->free_blocks, which the code maintains beside   *)
(* the bitmap.                                                             *)
(***************************************************************************)
EXTENDS Integers, FiniteSets

Blocks(total) == 0..(total - 1)

BlockRun(s, count) == s..(s + count - 1)

\* spmm_init counts the clear bits of a loaded bitmap.
CountFree(bm, total) == Cardinality(Blocks(total) \ bm)

-----------------------------------------------------------------------------
\* Mutant: a run may go past the end of the device.
FreeRunsOffEnd(bm, total, count) ==
  {s \in 1..(total - 1) : BlockRun(s, count) \cap bm = {}}

\* Mutant: the last block of the run is not looked at.
FreeRunsShort(bm, total, count) ==
  {s \in 1..(total - 1) :
     s + count <= total /\ BlockRun(s, count - 1) \cap bm = {}}

\* The starts of the runs of count free blocks; block 0 is never in one.
FreeRuns(bm, total, count) ==
  {s \in 1..(total - 1) :
     s + count <= total /\ BlockRun(s, count) \cap bm = {}}

Least(S) == CHOOSE s \in S : \A t \in S : s <= t

\* The value spmm_alloc_contiguous(count) returns: first fit, 0 on failure.
ContiguousStart(bm, total, free, count) ==
  IF free < count \/ count = 0 \/ FreeRuns(bm, total, count) = {}
  THEN 0 ELSE Least(FreeRuns(bm, total, count))

\* The loop of spmm_alloc_contiguous as the code runs it, for count > 0: run_start,
\* current_run and the value returned, if any, after the iteration for block b.
ContiguousScan(bm, total, count) ==
  LET after[b \in 0..(total - 1)] ==
        IF b = 0 THEN [start |-> 1, run |-> 0, found |-> 0]
        ELSE LET p == after[b - 1]
                 s == IF p.run = 0 THEN b ELSE p.start
             IN  IF p.found # 0 THEN p
                 ELSE IF b \in bm THEN [start |-> p.start, run |-> 0, found |-> 0]
                 ELSE [start |-> s, run |-> p.run + 1,
                       found |-> IF p.run + 1 = count THEN s ELSE 0]
  IN  after[total - 1].found

\* Mutant: no second scan from word 0.
AllocBlockNoWrap(bm, total, free, hint, bits) ==
  LET F == {b \in 1..(total - 1) : b \notin bm /\ b \div bits >= hint \div bits}
  IN  IF free = 0 \/ F = {} THEN 0 ELSE Least(F)

\* The block spmm_alloc returns: the words from the hint's word to the end are
\* scanned first, then those before it; 0 when the counter or the scan says full.
AllocBlock(bm, total, free, hint, bits) ==
  LET F     == {b \in 1..(total - 1) : b \notin bm}
      above == {b \in F : b \div bits >= hint \div bits}
  IN  IF free = 0 \/ F = {} THEN 0
      ELSE IF above # {} THEN Least(above) ELSE Least(F)

-----------------------------------------------------------------------------
\* The bits that spmm_free_contiguous(start, count) clears: spmm_free ignores
\* block 0, blocks off the device, and blocks that are already free.
FreedBy(bm, total, start, count) ==
  IF start = 0 THEN {} ELSE BlockRun(start, count) \cap 1..(total - 1) \cap bm

\* The bits that spmm_mark_used sets when called for every block of M.
MarkedBy(bm, total, M) == (M \cap Blocks(total)) \ bm
=============================================================================

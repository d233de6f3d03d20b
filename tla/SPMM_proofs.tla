---------------------------- MODULE SPMM_proofs ----------------------------
(***************************************************************************)
(* Proofs about the sector allocator, for every device size: first the     *)
(* bitmap operations (what the searches return, and how the number of      *)
(* clear bits changes), then the specification.                            *)
(***************************************************************************)
EXTENDS SPMM, FiniteSetTheorems, WellFoundedInduction, TLAPS

\* Every non-empty set of block numbers has a least element, and Least is it.
LEMMA LeastInSet ==
  ASSUME NEW S \in SUBSET Nat, S # {}
  PROVE  Least(S) \in S /\ \A t \in S : Least(S) <= t
<1> DEFINE R == {ss \in Nat \X Nat : ss[1] < ss[2]}
<1>1. IsWellFoundedOn(R, Nat)
  BY NatLessThanWellFounded, Zenon DEF OpToRel
<1> HIDE DEF R
<1>3. PICK x \in S : \A y \in S : ~ (<<y, x>> \in R)
  BY <1>1, WFMin
<1>4. \A a, b \in Nat : ~ (<<a, b>> \in R) => b <= a
  BY DEF R
<1>2. \A y \in S : x <= y
  BY <1>3, <1>4
<1> QED
  BY <1>2 DEF Least

\* A contiguous allocation returns the start of a free run, or 0.
LEMMA ContiguousStartSpec ==
  ASSUME NEW bm, NEW total \in Nat, NEW free, NEW count \in Nat,
         ContiguousStart(bm, total, free, count) # 0
  PROVE  /\ ContiguousStart(bm, total, free, count) \in FreeRuns(bm, total, count)
         /\ count > 0
<1>1. FreeRuns(bm, total, count) # {} /\ count # 0
  BY DEF ContiguousStart
<1>2. FreeRuns(bm, total, count) \in SUBSET Nat
  BY DEF FreeRuns
<1>3. ContiguousStart(bm, total, free, count) = Least(FreeRuns(bm, total, count))
  BY <1>1 DEF ContiguousStart
<1>4. Least(FreeRuns(bm, total, count)) \in FreeRuns(bm, total, count)
  BY <1>1, <1>2, LeastInSet
<1> QED
  BY <1>1, <1>3, <1>4

\* A single-block allocation returns a free block other than 0, or 0.
LEMMA AllocBlockSpec ==
  ASSUME NEW bm, NEW total \in Nat, NEW free, NEW hint, NEW bits,
         AllocBlock(bm, total, free, hint, bits) # 0
  PROVE  /\ AllocBlock(bm, total, free, hint, bits) \in 1..(total - 1)
         /\ AllocBlock(bm, total, free, hint, bits) \notin bm
<1> DEFINE F == {b \in 1..(total - 1) : b \notin bm}
           A == {b \in F : b \div bits >= hint \div bits}
<1>1. F \in SUBSET Nat /\ A \in SUBSET Nat /\ A \subseteq F
  OBVIOUS
<1>2. F # {}
  BY DEF AllocBlock
<1>3. Least(F) \in F /\ (A # {} => Least(A) \in A)
  BY <1>1, <1>2, LeastInSet
<1>4. AllocBlock(bm, total, free, hint, bits) = IF A # {} THEN Least(A) ELSE Least(F)
  BY DEF AllocBlock
<1>5. AllocBlock(bm, total, free, hint, bits) \in F
  BY <1>1, <1>3, <1>4
<1> QED
  BY <1>5

\* Taking free blocks lowers the count of clear bits by their number.
LEMMA CountAfterTaking ==
  ASSUME NEW bm, NEW total \in Nat, NEW T \in SUBSET (Blocks(total) \ bm)
  PROVE  /\ CountFree(bm \cup T, total) = CountFree(bm, total) - Cardinality(T)
         /\ CountFree(bm, total) \in Nat /\ CountFree(bm \cup T, total) \in Nat
         /\ Cardinality(T) \in Nat
<1> DEFINE S == Blocks(total) \ bm
<1>1. IsFiniteSet(Blocks(total))
  BY FS_Interval DEF Blocks
<1>2. IsFiniteSet(S)
  BY <1>1, FS_Subset
<1>3. Blocks(total) \ (bm \cup T) = S \ T /\ S \cap T = T
  OBVIOUS
<1>4. Cardinality(S \ T) = Cardinality(S) - Cardinality(S \cap T) /\ IsFiniteSet(S \ T)
  BY <1>2, FS_Difference
<1>5. IsFiniteSet(T)
  BY <1>2, FS_Subset
<1>6. Cardinality(S) \in Nat /\ Cardinality(T) \in Nat /\ Cardinality(S \ T) \in Nat
  BY <1>2, <1>4, <1>5, FS_CardinalityType
<1> QED
  BY <1>3, <1>4, <1>6 DEF CountFree

\* Releasing used blocks raises the count of clear bits by their number.
LEMMA CountAfterReleasing ==
  ASSUME NEW bm, NEW total \in Nat, NEW T \in SUBSET (Blocks(total) \cap bm)
  PROVE  /\ CountFree(bm \ T, total) = CountFree(bm, total) + Cardinality(T)
         /\ CountFree(bm, total) \in Nat /\ Cardinality(T) \in Nat
<1> DEFINE B == bm \ T
<1>1. T \in SUBSET (Blocks(total) \ B) /\ B \cup T = bm
  OBVIOUS
<1> HIDE DEF B
<1>2. CountFree(B \cup T, total) = CountFree(B, total) - Cardinality(T)
      /\ CountFree(B, total) \in Nat /\ CountFree(B \cup T, total) \in Nat /\ Cardinality(T) \in Nat
  <2>1. T \in SUBSET (Blocks(total) \ B)
    BY <1>1
  <2> QED
    BY <2>1, CountAfterTaking, ZenonT(30)
<1> QED
  BY <1>1, <1>2 DEF B

-----------------------------------------------------------------------------
(* The scan loop.                                                          *)

\* Induction over block numbers, for a set.
LEMMA BlockInduction ==
  ASSUME NEW S, 0 \in S, \A n \in Nat : n \in S => n + 1 \in S
  PROVE  \A n \in Nat : n \in S
<1> DEFINE B == Nat \ S
<1> SUFFICES ASSUME B # {} PROVE FALSE
  OBVIOUS
<1>1. Least(B) \in B /\ \A t \in B : Least(B) <= t
  <2>1. B \in SUBSET Nat
    OBVIOUS
  <2> QED
    BY <2>1, LeastInSet
<1> DEFINE x == Least(B)
<1> HIDE DEF x
<1>2. x \in Nat /\ x \notin S /\ \A t \in B : x <= t
  BY <1>1 DEF x
<1>3. x # 0 /\ x - 1 \in Nat /\ (x - 1) + 1 = x
  BY <1>2
<1>4. x - 1 \in B
  BY <1>2, <1>3
<1> QED
  BY <1>2, <1>3, <1>4

\* One iteration of the loop, from the state p, at block b.
ScanStep(bm, count, p, b) ==
  LET s == IF p.run = 0 THEN b ELSE p.start
  IN  IF p.found # 0 THEN p
      ELSE IF b \in bm THEN [start |-> p.start, run |-> 0, found |-> 0]
      ELSE [start |-> s, run |-> p.run + 1, found |-> IF p.run + 1 = count THEN s ELSE 0]

\* The loop is well defined: its states follow each other.
LEMMA ScanLoop ==
  ASSUME NEW bm, NEW total \in Nat \ {0}, NEW count
  PROVE  \E f : /\ ContiguousScan(bm, total, count) = f[total - 1].found
                /\ f[0] = [start |-> 1, run |-> 0, found |-> 0]
                /\ \A b \in 1..(total - 1) : f[b] = ScanStep(bm, count, f[b - 1], b)
<1> DEFINE N == total - 1
           zero == [start |-> 1, run |-> 0, found |-> 0]
           Body(g, b) == IF b = 0 THEN zero ELSE ScanStep(bm, count, g[b - 1], b)
           S == {n \in Nat : n <= N => \E g : g = [b \in 0..n |-> Body(g, b)]}
<1>0. N \in Nat
  OBVIOUS
<1>1. 0 \in S
  <2> DEFINE g0 == [b \in 0..0 |-> zero]
  <2>1. g0 = [b \in 0..0 |-> Body(g0, b)]
    OBVIOUS
  <2> QED
    BY <2>1
<1>2. ASSUME NEW n \in Nat, n \in S PROVE n + 1 \in S
  <2>0. n + 1 \in Nat
    OBVIOUS
  <2> SUFFICES ASSUME n + 1 <= N
               PROVE  \E g : g = [b \in 0..(n + 1) |-> Body(g, b)]
    BY <2>0
  <2>1. \E g : g = [b \in 0..n |-> Body(g, b)]
    <3>1. n <= N
      BY <1>0
    <3> QED
      BY <1>2, <3>1
  <2>2. PICK g : g = [b \in 0..n |-> Body(g, b)]
    BY <2>1
  <2>3. \A b \in 0..n : g[b] = Body(g, b)
    BY <2>2
  <2> DEFINE h == [b \in 0..(n + 1) |-> IF b = n + 1 THEN Body(g, n + 1) ELSE g[b]]
  <2>4. ASSUME NEW b \in 0..(n + 1) PROVE h[b] = Body(h, b)
    <3>1. CASE b = 0
      BY <2>3, <3>1
    <3>2. CASE b # 0
      <4>1. h[b - 1] = g[b - 1] /\ b - 1 \in 0..n
        BY <3>2
      <4>2. Body(h, b) = Body(g, b)
        BY <4>1
      <4>3. CASE b = n + 1
        BY <4>2, <4>3
      <4>4. CASE b # n + 1
        BY <2>3, <4>2, <4>4
      <4> QED
        BY <4>3, <4>4
    <3> QED
      BY <3>1, <3>2
  <2>5. h = [b \in 0..(n + 1) |-> Body(h, b)]
    BY <2>4
  <2> QED
    BY <2>5
<1> HIDE DEF S
<1>3. N \in S
  BY <1>0, <1>1, <1>2, BlockInduction
<1>4. \E g : g = [b \in 0..N |-> Body(g, b)]
  BY <1>0, <1>3 DEF S
<1> DEFINE f == CHOOSE g : g = [b \in 0..N |-> Body(g, b)]
<1>5. f = [b \in 0..N |-> Body(f, b)]
  BY <1>4
<1>6. f[N].found = ContiguousScan(bm, total, count)
  BY DEF ContiguousScan, ScanStep
<1> HIDE DEF f
<1>7. \A b \in 0..N : f[b] = Body(f, b)
  BY <1>5
<1>8. f[0] = zero /\ \A b \in 1..N : f[b] = ScanStep(bm, count, f[b - 1], b)
  BY <1>0, <1>7
<1> QED
  BY <1>6, <1>8

\* What the loop knows after the iteration for block b: it has found the first
\* free run, or the last p.run blocks are free, the one before them is not, and no
\* run of count free blocks ends here or earlier.
ScanGood(bm, total, count, p, b) ==
  /\ p.found # 0 => p.found \in FreeRuns(bm, total, count) /\ \A t \in FreeRuns(bm, total, count) : p.found <= t
  /\ p.found = 0 =>
       /\ p.run \in 0..b /\ p.run < count
       /\ p.run = b \/ b - p.run \in bm
       /\ \A x \in (b - p.run + 1)..b : x \notin bm
       /\ p.run > 0 => p.start = b - p.run + 1
       /\ \A s \in Nat : s > 0 /\ s + count - 1 <= b => \E x \in s..(s + count - 1) : x \in bm

\* An iteration keeps that knowledge.
LEMMA ScanStepGood ==
  ASSUME NEW bm, NEW total \in Nat \ {0}, NEW count \in Nat \ {0}, NEW p,
         NEW b \in Nat, b + 1 < total, ScanGood(bm, total, count, p, b)
  PROVE  ScanGood(bm, total, count, ScanStep(bm, count, p, b + 1), b + 1)
<1> DEFINE n == b + 1
           q == ScanStep(bm, count, p, n)
<1>1. CASE p.found # 0
  <2>1. q = p
    BY <1>1 DEF ScanStep
  <2> QED
    BY <1>1, <2>1 DEF ScanGood
<1>2. CASE p.found = 0 /\ n \in bm
  <2>1. q = [start |-> p.start, run |-> 0, found |-> 0]
    BY <1>2 DEF ScanStep
  <2>2. q.found = 0 /\ q.run = 0
    BY <2>1
  <2>3. ASSUME NEW s \in Nat, s > 0, s + count - 1 <= n PROVE \E x \in s..(s + count - 1) : x \in bm
    <3>1. CASE s + count - 1 <= b
      BY <1>2, <2>3, <3>1 DEF ScanGood
    <3>2. CASE ~ (s + count - 1 <= b)
      <4>1. n \in s..(s + count - 1)
        BY <2>3, <3>2
      <4> QED
        BY <1>2, <4>1
    <3> QED
      BY <3>1, <3>2
  <2>4. \A x \in (n - 0 + 1)..n : x \notin bm
    OBVIOUS
  <2>5. n - 0 \in bm /\ 0 \in 0..n /\ 0 < count
    BY <1>2
  <2> HIDE DEF q, n
  <2>6. ScanGood(bm, total, count, q, n)
    BY <2>2, <2>3, <2>4, <2>5 DEF ScanGood
  <2> QED
    BY <2>6 DEF q, n
<1>3. CASE p.found = 0 /\ n \notin bm
  <2> DEFINE s0 == IF p.run = 0 THEN n ELSE p.start
             r == p.run
  <2>1. q = [start |-> s0, run |-> r + 1, found |-> IF r + 1 = count THEN s0 ELSE 0]
    BY <1>3 DEF ScanStep
  <2>2. /\ r \in 0..b /\ r < count
        /\ r = b \/ b - r \in bm
        /\ \A x \in (b - r + 1)..b : x \notin bm
        /\ r > 0 => p.start = b - r + 1
        /\ \A s \in Nat : s > 0 /\ s + count - 1 <= b => \E x \in s..(s + count - 1) : x \in bm
    BY <1>3 DEF ScanGood
  <2>3. s0 = n - r
    <3>1. CASE r = 0
      BY <3>1
    <3>2. CASE r # 0
      BY <2>2, <3>2
    <3> QED
      BY <3>1, <3>2
  <2>4. q.start = s0 /\ q.run = r + 1 /\ q.found = IF r + 1 = count THEN s0 ELSE 0
    BY <2>1
  <2>5. \A x \in s0..n : x \notin bm
    <3> SUFFICES ASSUME NEW x \in s0..n PROVE x \notin bm
      OBVIOUS
    <3>1. x = n \/ x \in (b - r + 1)..b
      BY <2>2, <2>3
    <3> QED
      BY <1>3, <2>2, <3>1
  <2> HIDE DEF q, s0, r
  <2>6. CASE r + 1 = count
    <3>1. s0 \in Nat /\ s0 > 0 /\ s0 + count - 1 = n /\ s0 <= total - 1 /\ s0 + count <= total
      BY <2>2, <2>3, <2>6
    <3>2. s0 \in FreeRuns(bm, total, count)
      <4>1. BlockRun(s0, count) = s0..n
        BY <3>1 DEF BlockRun
      <4>2. BlockRun(s0, count) \cap bm = {}
        BY <2>5, <4>1
      <4>3. s0 \in 1..(total - 1)
        BY <3>1
      <4> QED
        BY <3>1, <4>2, <4>3 DEF FreeRuns
    <3>3. ASSUME NEW t \in FreeRuns(bm, total, count), ~ (s0 <= t) PROVE FALSE
      <4>1. t \in Nat /\ t > 0 /\ BlockRun(t, count) \cap bm = {}
        BY DEF FreeRuns
      <4>2. t + count - 1 <= b
        BY <3>1, <3>3, <4>1
      <4>3. \E x \in t..(t + count - 1) : x \in bm
        BY <2>2, <4>1, <4>2
      <4> QED
        BY <4>1, <4>3 DEF BlockRun
    <3>4. q.found = s0 /\ q.found # 0
      BY <2>4, <2>6, <3>1
    <3>5. ScanGood(bm, total, count, q, n)
      BY <3>2, <3>3, <3>4 DEF ScanGood
    <3> QED
      BY <3>5 DEF q
  <2>7. CASE r + 1 # count
    <3>1. q.found = 0 /\ q.run = r + 1 /\ q.start = n - (r + 1) + 1
      BY <2>2, <2>3, <2>4, <2>7
    <3>2. r + 1 \in 0..n /\ r + 1 < count
      BY <2>2, <2>7
    <3>3. r + 1 = n \/ n - (r + 1) \in bm
      <4>1. n - (r + 1) = b - r /\ (r = b => r + 1 = n)
        BY <2>2
      <4> QED
        BY <2>2, <4>1
    <3>4. \A x \in (n - (r + 1) + 1)..n : x \notin bm
      <4>1. n - (r + 1) + 1 = s0
        BY <2>2, <2>3
      <4> QED
        BY <2>5, <4>1
    <3>5. ASSUME NEW s \in Nat, s > 0, s + count - 1 <= n PROVE \E x \in s..(s + count - 1) : x \in bm
      <4>1. CASE s + count - 1 <= b
        BY <2>2, <3>5, <4>1
      <4>2. CASE ~ (s + count - 1 <= b)
        <5>1. s + count - 1 = n
          BY <3>5, <4>2
        <5>2. s <= b - r
          BY <2>2, <3>2, <5>1
        <5>3. r # b
          BY <2>2, <3>5, <5>2
        <5>4. b - r \in bm /\ b - r \in s..(s + count - 1)
          BY <2>2, <5>1, <5>2, <5>3
        <5> QED
          BY <5>4
      <4> QED
        BY <4>1, <4>2
    <3> HIDE DEF n
    <3>6. ScanGood(bm, total, count, q, n)
      BY <3>1, <3>2, <3>3, <3>4, <3>5 DEF ScanGood
    <3> QED
      BY <3>6 DEF q, n
  <2> QED
    BY <2>6, <2>7 DEF q
<1> QED
  BY <1>1, <1>2, <1>3

\* The loop of spmm_alloc_contiguous returns the first fit, and 0 if nothing fits.
LEMMA ScanFirstFit ==
  ASSUME NEW bm, NEW total \in Nat \ {0}, NEW count \in Nat \ {0}
  PROVE  ContiguousScan(bm, total, count)
           = IF FreeRuns(bm, total, count) = {} THEN 0 ELSE Least(FreeRuns(bm, total, count))
<1>1. PICK f : /\ ContiguousScan(bm, total, count) = f[total - 1].found
               /\ f[0] = [start |-> 1, run |-> 0, found |-> 0]
               /\ \A b \in 1..(total - 1) : f[b] = ScanStep(bm, count, f[b - 1], b)
  BY ScanLoop
<1> DEFINE S == {n \in Nat : n < total => ScanGood(bm, total, count, f[n], n)}
           F == FreeRuns(bm, total, count)
<1>2. 0 \in S
  <2>1. f[0].found = 0 /\ f[0].run = 0
    BY <1>1
  <2>2. \A x \in (0 - 0 + 1)..0 : x \notin bm
    OBVIOUS
  <2>3. \A s \in Nat : ~ (s > 0 /\ s + count - 1 <= 0)
    OBVIOUS
  <2> QED
    BY <2>1, <2>2, <2>3 DEF ScanGood
<1>3. ASSUME NEW n \in Nat, n \in S PROVE n + 1 \in S
  <2> SUFFICES ASSUME n + 1 < total PROVE ScanGood(bm, total, count, f[n + 1], n + 1)
    OBVIOUS
  <2>1. n < total /\ n + 1 \in 1..(total - 1) /\ (n + 1) - 1 = n
    OBVIOUS
  <2>2. ScanGood(bm, total, count, f[n], n)
    BY <1>3, <2>1
  <2>3. f[n + 1] = ScanStep(bm, count, f[n], n + 1)
    BY <1>1, <2>1
  <2>4. ScanGood(bm, total, count, ScanStep(bm, count, f[n], n + 1), n + 1)
    BY <2>2, ScanStepGood
  <2> QED
    BY <2>3, <2>4
<1>4. total - 1 \in Nat /\ total - 1 < total
  OBVIOUS
<1> HIDE DEF S
<1>5. total - 1 \in S
  BY <1>2, <1>3, <1>4, BlockInduction
<1>6. ScanGood(bm, total, count, f[total - 1], total - 1)
  BY <1>4, <1>5 DEF S
<1> DEFINE v == f[total - 1].found
<1>7. CASE v = 0
  <2>1. F = {}
    <3> SUFFICES ASSUME NEW s \in F PROVE FALSE
      OBVIOUS
    <3>1. s \in Nat /\ s > 0 /\ s + count <= total /\ BlockRun(s, count) \cap bm = {}
      BY DEF FreeRuns
    <3>2. s + count - 1 <= total - 1
      BY <3>1
    <3>3. \E x \in s..(s + count - 1) : x \in bm
      BY <1>6, <1>7, <3>1, <3>2 DEF ScanGood
    <3> QED
      BY <3>1, <3>3 DEF BlockRun
  <2> QED
    BY <1>1, <1>7, <2>1
<1>8. CASE v # 0
  <2>1. v \in F /\ \A t \in F : v <= t
    BY <1>6, <1>8 DEF ScanGood
  <2>2. F \in SUBSET Nat
    BY DEF FreeRuns
  <2> HIDE DEF F, v
  <2>3. Least(F) \in F /\ \A t \in F : Least(F) <= t
    BY <2>1, <2>2, LeastInSet
  <2>4. Least(F) = v
    <3>1. v \in Nat /\ Least(F) \in Nat /\ v <= Least(F) /\ Least(F) <= v
      BY <2>1, <2>2, <2>3
    <3> QED
      BY <3>1
  <2> QED
    BY <1>1, <2>1, <2>4 DEF F, v
<1> QED
  BY <1>7, <1>8

-----------------------------------------------------------------------------
\* The invariant: the state is well typed and the counter is exact.
IInv == TypeOK /\ FreeCountExact

\* spmm_init establishes it, whatever bitmap it is given.
LEMMA InitIInv == Init => IInv
<1> SUFFICES ASSUME Init PROVE IInv
  OBVIOUS
<1> USE SPMMAssumption DEF SPMMAssumption
<1>1. bitmap \subseteq Blocks(Total)
  BY DEF Init, InitAllFree, InitLoaded, Blocks
<1>2. IsFiniteSet(Blocks(Total)) /\ Cardinality(Blocks(Total)) = Total
  BY FS_Interval DEF Blocks
<1>3. CountFree({0}, Total) = Total - 1
  <2>1. 0 \in Blocks(Total)
    BY DEF Blocks
  <2>2. Cardinality(Blocks(Total) \ {0}) = Cardinality(Blocks(Total)) - 1
    BY <1>2, <2>1, FS_RemoveElement
  <2> QED
    BY <1>2, <2>2 DEF CountFree
<1>4. CountFree(bitmap, Total) \in Nat
  BY <1>2, FS_Difference, FS_CardinalityType DEF CountFree
<1>5. free_blocks = CountFree(bitmap, Total)
  BY <1>3 DEF Init, InitAllFree, InitLoaded
<1> QED
  BY <1>1, <1>4, <1>5 DEF Init, IInv, TypeOK, FreeCountExact, Blocks

\* Every operation preserves it, and takes only free blocks.
LEMMA StepIInv == IInv /\ [Next]_vars =>
  IInv' /\ ((got' \cap ({0} \cup bitmap) = {} /\ got' \subseteq bitmap') \/ UNCHANGED vars)
<1> DEFINE Good == IInv' /\ got' \cap ({0} \cup bitmap) = {} /\ got' \subseteq bitmap'
<1> SUFFICES ASSUME IInv, Next PROVE Good
  BY DEF vars, IInv, TypeOK, FreeCountExact
<1> USE SPMMAssumption DEF SPMMAssumption
<1>1. CASE Alloc
  <2> DEFINE b == AllocBlock(bitmap, Total, free_blocks, last_free_block, WordBits)
  <2>1. CASE b = 0
    BY <1>1, <2>1 DEF Alloc, IInv, TypeOK, FreeCountExact
  <2>2. CASE b # 0
    <3>1. b \in 1..(Total - 1) /\ b \notin bitmap
      BY <2>2, AllocBlockSpec
    <3> DEFINE T == {b}
    <3> HIDE DEF b
    <3>2. T \in SUBSET (Blocks(Total) \ bitmap) /\ Cardinality(T) = 1
      <4>1. T \in SUBSET (Blocks(Total) \ bitmap)
        BY <3>1 DEF Blocks
      <4>2. Cardinality({b}) = 1
        BY FS_Singleton
      <4> QED
        BY <4>1, <4>2
    <3> HIDE DEF T
    <3>3. CountFree(bitmap \cup T, Total) = CountFree(bitmap, Total) - 1
          /\ CountFree(bitmap \cup T, Total) \in Nat
      BY <3>2, CountAfterTaking
    <3>4. bitmap' = bitmap \cup {b} /\ free_blocks' = free_blocks - 1
          /\ last_free_block' = b + 1 /\ got' = {b}
      BY <1>1, <2>2 DEF Alloc, b
    <3> QED
      BY <3>1, <3>3, <3>4 DEF IInv, TypeOK, FreeCountExact, Blocks, T
  <2> QED
    BY <2>1, <2>2
<1>2. ASSUME NEW count \in 0..MaxCount, AllocContiguous(count) PROVE Good
  <2> DEFINE s == ContiguousStart(bitmap, Total, free_blocks, count)
             R == BlockRun(s, count)
  <2>1. CASE s = 0
    BY <1>2, <2>1 DEF AllocContiguous, IInv, TypeOK, FreeCountExact
  <2>2. CASE s # 0
    <3>1. s \in FreeRuns(bitmap, Total, count) /\ count > 0
      BY <2>2, ContiguousStartSpec
    <3>2. bitmap' = bitmap \cup R /\ free_blocks' = free_blocks - count
          /\ last_free_block' = s + count /\ got' = R
      BY <1>2, <2>2 DEF AllocContiguous
    <3> HIDE DEF s
    <3>3. s \in 1..(Total - 1) /\ s + count <= Total /\ R \cap bitmap = {}
      BY <3>1 DEF FreeRuns
    <3>4. R \in SUBSET (Blocks(Total) \ bitmap) /\ Cardinality(R) = count /\ 0 \notin R
      <4>1. R \subseteq Blocks(Total) /\ 0 \notin R
        BY <3>3 DEF BlockRun, Blocks
      <4>2. Cardinality(s..(s + count - 1)) = (s + count - 1) - s + 1
        BY <3>1, <3>3, FS_Interval
      <4>3. Cardinality(R) = count
        BY <3>3, <4>2 DEF BlockRun
      <4> QED
        BY <3>3, <4>1, <4>3
    <3> HIDE DEF R
    <3>5. CountFree(bitmap \cup R, Total) = CountFree(bitmap, Total) - count
          /\ CountFree(bitmap \cup R, Total) \in Nat
      BY <3>4, CountAfterTaking
    <3>6. IInv'
      BY <3>2, <3>3, <3>4, <3>5 DEF IInv, TypeOK, FreeCountExact, Blocks
    <3> QED
      BY <3>2, <3>3, <3>4, <3>6
  <2> QED
    BY <2>1, <2>2
<1>3. ASSUME NEW start \in 0..Total, NEW count \in 0..MaxCount, FreeContiguous(start, count)
      PROVE Good
  <2> DEFINE F == FreedBy(bitmap, Total, start, count)
  <2>1. F \in SUBSET (Blocks(Total) \cap bitmap) /\ F \in SUBSET Nat
    BY DEF FreedBy, Blocks, BlockRun
  <2>2. bitmap' = bitmap \ F /\ free_blocks' = free_blocks + Cardinality(F) /\ got' = {}
        /\ last_free_block' = IF F # {} /\ Least(F) < last_free_block
                              THEN Least(F) ELSE last_free_block
    BY <1>3 DEF FreeContiguous
  <2> HIDE DEF F
  <2>3. CountFree(bitmap \ F, Total) = CountFree(bitmap, Total) + Cardinality(F)
        /\ Cardinality(F) \in Nat
    BY <2>1, CountAfterReleasing
  <2>4. last_free_block' \in 0..Total
    <3>1. F # {} => Least(F) \in Nat
      BY <2>1, LeastInSet
    <3> QED
      BY <2>2, <3>1 DEF IInv, TypeOK
  <2> QED
    BY <2>1, <2>2, <2>3, <2>4 DEF IInv, TypeOK, FreeCountExact
<1>4. ASSUME NEW b \in 0..Total, MarkUsed(b) PROVE Good
  <2> DEFINE M == MarkedBy(bitmap, Total, {b})
  <2>1. M \in SUBSET (Blocks(Total) \ bitmap) /\ (M = {} \/ M = {b})
    BY DEF MarkedBy
  <2>2. Cardinality(M) = IF M = {} THEN 0 ELSE 1
    BY <2>1, FS_Singleton, FS_EmptySet
  <2>3. bitmap' = bitmap \cup M /\ got' = {} /\ last_free_block' = last_free_block
        /\ free_blocks' = IF M # {} /\ free_blocks > 0 THEN free_blocks - 1 ELSE free_blocks
    BY <1>4 DEF MarkUsed
  <2> HIDE DEF M
  <2>4. CountFree(bitmap \cup M, Total) = CountFree(bitmap, Total) - Cardinality(M)
        /\ CountFree(bitmap \cup M, Total) \in Nat /\ CountFree(bitmap, Total) \in Nat
    BY <2>1, CountAfterTaking
  <2> QED
    BY <2>1, <2>2, <2>3, <2>4 DEF IInv, TypeOK, FreeCountExact
<1> QED
  BY <1>1, <1>2, <1>3, <1>4 DEF Next

\* The allocation state is always well typed, and free_blocks is exact.
THEOREM CountInvariance == Spec => [](TypeOK /\ FreeCountExact)
<1>1. IInv /\ [Next]_vars => IInv'
  BY StepIInv
<1>2. IInv => TypeOK /\ FreeCountExact
  BY DEF IInv
<1> QED
  BY InitIInv, <1>1, <1>2, PTL DEF Spec

\* No call hands out the superblock or a block that is in use.
THEOREM AllocSafety == Spec => AllocTakesFreeBlocks
<1>1. IInv /\ [Next]_vars => IInv'
  BY StepIInv
<1>2. IInv /\ [Next]_vars => [got' \cap ({0} \cup bitmap) = {} /\ got' \subseteq bitmap']_vars
  BY StepIInv
<1> QED
  BY InitIInv, <1>1, <1>2, PTL DEF Spec, AllocTakesFreeBlocks

\* spmm_alloc and spmm_alloc_contiguous give up only when nothing fits, wherever
\* the hint points, and the loop over the blocks returns the first fit.
THEOREM Searches == Spec => []SearchesExact
<1>1. IInv /\ [Next]_vars => IInv'
  BY StepIInv
<1>2. IInv => SearchesExact
  <2> SUFFICES ASSUME IInv PROVE Complete /\ ScanIsFirstFit
    BY DEF SearchesExact
  <2>0. /\ Total \in Nat \ {0} /\ MaxCount \in Nat /\ WordBits \in Nat \ {0}
        /\ free_blocks = CountFree(bitmap, Total) /\ free_blocks \in Nat
    BY SPMMAssumption DEF IInv, TypeOK, FreeCountExact
  <2>1. ASSUME NEW T \in SUBSET (Blocks(Total) \ bitmap)
        PROVE  Cardinality(T) \in Nat /\ Cardinality(T) <= free_blocks
    <3>1. /\ CountFree(bitmap \cup T, Total) = CountFree(bitmap, Total) - Cardinality(T)
          /\ CountFree(bitmap \cup T, Total) \in Nat /\ Cardinality(T) \in Nat
      BY <2>0, CountAfterTaking
    <3> QED
      BY <2>0, <3>1
  <2>2. ASSUME NEW b \in 1..(Total - 1), b \notin bitmap
        PROVE  AllocBlock(bitmap, Total, free_blocks, last_free_block, WordBits) # 0
    <3> DEFINE F == {c \in 1..(Total - 1) : c \notin bitmap}
               A == {c \in F : c \div WordBits >= last_free_block \div WordBits}
    <3>1. b \in F /\ F \in SUBSET Nat /\ A \in SUBSET Nat /\ A \subseteq F
      BY <2>2
    <3>2. free_blocks # 0
      <4>1. {b} \in SUBSET (Blocks(Total) \ bitmap)
        BY <2>0, <2>2 DEF Blocks
      <4>2. Cardinality({b}) = 1
        BY FS_Singleton
      <4>3. 1 <= free_blocks
        BY <2>1, <4>1, <4>2
      <4> QED
        BY <2>0, <4>3
    <3>3. Least(F) \in F /\ (A # {} => Least(A) \in A)
      BY <3>1, LeastInSet
    <3>4. AllocBlock(bitmap, Total, free_blocks, last_free_block, WordBits)
            = IF A # {} THEN Least(A) ELSE Least(F)
      BY <3>1, <3>2 DEF AllocBlock
    <3>5. AllocBlock(bitmap, Total, free_blocks, last_free_block, WordBits) \in F
      BY <3>1, <3>3, <3>4
    <3> QED
      BY <3>5
  <2>3. ASSUME NEW count \in 1..MaxCount, FreeRuns(bitmap, Total, count) # {}
        PROVE  /\ ContiguousStart(bitmap, Total, free_blocks, count) = Least(FreeRuns(bitmap, Total, count))
               /\ ContiguousStart(bitmap, Total, free_blocks, count) # 0
    <3> DEFINE F == FreeRuns(bitmap, Total, count)
    <3>1. F \in SUBSET Nat /\ \A s \in F : s # 0
      BY DEF FreeRuns
    <3>2. Least(F) \in F
      BY <2>3, <3>1, LeastInSet
    <3>3. count <= free_blocks
      <4>1. PICK s \in F : TRUE
        BY <2>3
      <4>2. s \in 1..(Total - 1) /\ s + count <= Total /\ BlockRun(s, count) \cap bitmap = {}
        BY <4>1 DEF FreeRuns
      <4>3. BlockRun(s, count) \in SUBSET (Blocks(Total) \ bitmap)
        BY <2>0, <4>2 DEF BlockRun, Blocks
      <4>4. Cardinality(BlockRun(s, count)) = count
        <5>1. s \in Int /\ s + count - 1 \in Int /\ s <= s + count - 1 /\ (s + count - 1) - s + 1 = count
          BY <2>0, <4>2
        <5>2. Cardinality(s..(s + count - 1)) =
                IF s > s + count - 1 THEN 0 ELSE (s + count - 1) - s + 1
          BY <5>1, FS_Interval
        <5> QED
          BY <5>1, <5>2 DEF BlockRun
      <4> QED
        BY <2>1, <4>3, <4>4
    <3>4. ~ (free_blocks < count) /\ count # 0
      BY <2>0, <3>3
    <3>5. ContiguousStart(bitmap, Total, free_blocks, count) = Least(F)
      BY <2>3, <3>4 DEF ContiguousStart
    <3> QED
      BY <3>1, <3>2, <3>5
  <2>4. Complete
    BY <2>2, <2>3 DEF Complete
  <2>5. ScanIsFirstFit
    <3> SUFFICES ASSUME NEW count \in 1..MaxCount, free_blocks >= count
                 PROVE  ContiguousScan(bitmap, Total, count)
                          = ContiguousStart(bitmap, Total, free_blocks, count)
      BY DEF ScanIsFirstFit
    <3>1. count \in Nat \ {0}
      BY <2>0
    <3>2. ContiguousScan(bitmap, Total, count)
            = IF FreeRuns(bitmap, Total, count) = {} THEN 0 ELSE Least(FreeRuns(bitmap, Total, count))
      BY <2>0, <3>1, ScanFirstFit
    <3>3. CASE FreeRuns(bitmap, Total, count) = {}
      BY <3>2, <3>3 DEF ContiguousStart
    <3>4. CASE FreeRuns(bitmap, Total, count) # {}
      BY <2>3, <3>2, <3>4
    <3> QED
      BY <3>3, <3>4
  <2> QED
    BY <2>4, <2>5
<1> QED
  BY InitIInv, <1>1, <1>2, PTL DEF Spec
=============================================================================

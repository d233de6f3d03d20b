----------------------------- MODULE PMM_proofs -----------------------------
(***************************************************************************)
(* Proofs about the page manager, for every memory size, kernel size and   *)
(* set of request sizes.                                                   *)
(***************************************************************************)
EXTENDS PMM, TLAPS

\* init_pmm establishes the inductive invariant.
LEMMA InitInv == Init => Inv
  BY PMMAssumption DEF Init, Inv, TypeOK, FirstFit, Pages, PMMAssumption

\* Every iteration of alloc_page and every free_page preserves it.
LEMMA StepInv == Inv /\ [Next]_vars => Inv'
<1> SUFFICES ASSUME Inv, [Next]_vars PROVE Inv'
  OBVIOUS
<1> USE PMMAssumption DEF PMMAssumption, Pages
<1>1. ASSUME NEW k \in Sizes, AllocReject(k) PROVE Inv'
  BY <1>1 DEF AllocReject, Inv, TypeOK, FirstFit, Run
<1>2. ASSUME NEW k \in Sizes, AllocBegin(k) PROVE Inv'
  BY <1>2 DEF AllocBegin, Inv, TypeOK, FirstFit, Run
<1>3. CASE ScanOutOfMemory
  BY <1>3 DEF ScanOutOfMemory, CPage, Inv, TypeOK, FirstFit, Run
<1>4. CASE ScanFree
  <2>1. TypeOK'
    BY <1>4 DEF ScanFree, CPage, Inv, TypeOK, FirstFit
  <2>2. Run(base, i + 1) \cap bitmap = {}
    BY <1>4 DEF ScanFree, CPage, Inv, TypeOK, FirstFit, Run
  <2>3. FirstFit'
    <3>1. /\ bitmap' = bitmap /\ last_free_page' = last_free_page
          /\ n' = n /\ base' = base /\ i' = i + 1 /\ pc = "scan"
      BY <1>4 DEF ScanFree
    <3>2. \A s \in last_free_page..(base - 1) : Run(s, n) \cap bitmap # {}
      BY <3>1 DEF Inv, FirstFit
    <3>3. Run(base', i') \cap bitmap' = {}
      BY <3>1, <2>2 DEF Run
    <3>4. \A s \in last_free_page'..(base' - 1) : Run(s, n') \cap bitmap' # {}
      BY <3>1, <3>2 DEF Run
    <3> QED
      BY <1>4, <3>1, <3>3, <3>4 DEF ScanFree, Inv, TypeOK, FirstFit
  <2> QED
    BY <1>4, <2>1, <2>3 DEF ScanFree, CPage, Inv, TypeOK
<1>5. CASE ScanUsed
  <2>1. TypeOK'
    BY <1>5 DEF ScanUsed, CPage, Inv, TypeOK, FirstFit
  <2>2. \A s \in base..CPage : Run(s, n) \cap bitmap # {}
    BY <1>5 DEF ScanUsed, CPage, Inv, TypeOK, FirstFit, Run
  <2>3. \A s \in last_free_page..CPage : Run(s, n) \cap bitmap # {}
    BY <1>5, <2>2 DEF ScanUsed, CPage, Inv, TypeOK, FirstFit
  <2>4. FirstFit'
    <3>1. base' = CPage + 1 /\ i' = 0 /\ n' = n /\ bitmap' = bitmap /\ last_free_page' = last_free_page
      BY <1>5 DEF ScanUsed
    <3>2. \A s \in last_free_page..(base' - 1) : Run(s, n) \cap bitmap # {}
      BY <3>1, <2>3 DEF CPage, Inv, TypeOK
    <3>3. \A s \in last_free_page'..(base' - 1) : Run(s, n') \cap bitmap' # {}
      BY <3>1, <3>2 DEF Run
    <3>4. Run(base', i') \cap bitmap' = {}
      BY <3>1 DEF CPage, Inv, TypeOK, Run
    <3>5. base' >= last_free_page' /\ i' <= n'
      BY <1>5, <3>1 DEF ScanUsed, CPage, Inv, TypeOK, FirstFit
    <3> QED
      BY <3>3, <3>4, <3>5 DEF FirstFit
  <2> QED
    BY <1>5, <2>1, <2>4 DEF ScanUsed, CPage, Inv, TypeOK
<1>6. CASE AllocDone
  <2>1. /\ n \in Nat /\ base \in Nat /\ i = n /\ n > 0
        /\ base >= KernelEnd /\ base + n <= MaxPages
        /\ Run(base, n) \cap bitmap = {}
    BY <1>6 DEF AllocDone, Inv, TypeOK, FirstFit
  <2>2. Run(base, n) \subseteq Pages
    BY <2>1 DEF Run
  <2>3. TypeOK'
    <3>1. bitmap' \subseteq Pages
      BY <1>6, <2>2 DEF AllocDone, Inv, TypeOK
    <3>2. last_free_page' \in 0..MaxPages /\ reply' \in 0..(MaxPages - 1)
      BY <1>6, <2>1 DEF AllocDone
    <3>3. grants' \in [Pages -> Nat]
      BY <1>6 DEF AllocDone, Inv, TypeOK
    <3> QED
      BY <1>6, <3>1, <3>2, <3>3 DEF AllocDone, Inv, TypeOK
  <2>4. \A p \in Pages : p \in Run(base, n) => p >= KernelEnd /\ grants[p] = 0
    BY <2>1 DEF Run, Inv, TypeOK
  <2>5. \A p \in Pages : grants'[p] = IF p >= KernelEnd /\ p \in bitmap' THEN 1 ELSE 0
    BY <1>6, <2>4 DEF AllocDone, Inv, TypeOK
  <2> QED
    BY <1>6, <2>1, <2>3, <2>5 DEF AllocDone, Inv, TypeOK, FirstFit
<1>7. ASSUME NEW p \in Pages, FreePage(p) PROVE Inv'
  <2>1. p >= KernelEnd /\ p \in bitmap /\ grants[p] = 1
    BY <1>7 DEF FreePage, Inv, TypeOK
  <2>2. TypeOK'
    BY <1>7, <2>1 DEF FreePage, Inv, TypeOK
  <2> QED
    BY <1>7, <2>1, <2>2 DEF FreePage, Inv, TypeOK, FirstFit
<1>8. CASE UNCHANGED vars
  BY <1>8 DEF vars, Inv, TypeOK, FirstFit, Run
<1> QED
  BY <1>1, <1>2, <1>3, <1>4, <1>5, <1>6, <1>7, <1>8 DEF Next, Scan

\* The inductive invariant holds in every reachable state.
THEOREM Invariance == Spec => []Inv
  BY InitInv, StepInv, PTL DEF Spec

\* The allocator's state is always well typed.
THEOREM TypeCorrect == Spec => []TypeOK
<1>1. Inv => TypeOK
  BY DEF Inv
<1> QED
  BY Invariance, <1>1, PTL

\* alloc_page never hands out a page that is held, or one of the kernel image.
THEOREM Exclusive == Spec => []ExclusiveGrants
<1>1. Inv => ExclusiveGrants
  BY PMMAssumption DEF Inv, TypeOK, ExclusiveGrants, Pages, PMMAssumption
<1> QED
  BY Invariance, <1>1, PTL

\* The search of alloc_page is first-fit from the hint.
THEOREM SearchIsFirstFit == Spec => []FirstFit
<1>1. Inv => FirstFit
  BY DEF Inv
<1> QED
  BY Invariance, <1>1, PTL

\* Every step of the bitmap allocator is a step of PageAllocator, or changes
\* nothing that its callers can see.
THEOREM Refinement == Spec => ImplementsPageAllocator
<1> USE PMMAssumption DEF PMMAssumption, Pages
<1>1. Init => Abstract!Init
  BY DEF Init, Abstract!Init, Held
<1>2. Inv /\ [Next]_vars => [Abstract!Next]_<<Held, reply>>
  <2> SUFFICES ASSUME Inv, [Next]_vars PROVE Abstract!Next \/ UNCHANGED <<Held, reply>>
    OBVIOUS
  <2>1. ASSUME NEW k \in Sizes, AllocReject(k) PROVE Abstract!Next
    BY <2>1 DEF AllocReject, Abstract!Next, Abstract!Refuse, Held
  <2>2. ASSUME NEW k \in Sizes, AllocBegin(k) PROVE UNCHANGED <<Held, reply>>
    BY <2>2 DEF AllocBegin, Held
  <2>3. CASE ScanOutOfMemory
    BY <2>3 DEF ScanOutOfMemory, Abstract!Next, Abstract!Refuse, Held
  <2>4. CASE ScanFree \/ ScanUsed
    BY <2>4 DEF ScanFree, ScanUsed, Held
  <2>5. CASE AllocDone
    <3>1. /\ n \in Nat /\ base \in Nat /\ i = n /\ n > 0
          /\ base >= KernelEnd /\ base + n <= MaxPages
          /\ Run(base, n) \cap bitmap = {}
      BY <2>5 DEF AllocDone, Inv, TypeOK, FirstFit
    <3>2. Run(base, n) \cap Held = {}
      BY <3>1 DEF Held, Run, Inv, TypeOK
    <3>3. Held' = Held \cup Run(base, n)
      BY <2>5, <3>1 DEF AllocDone, Held, Run, Inv, TypeOK
    <3>4. Abstract!Grant(n)
      BY <2>5, <3>1, <3>2, <3>3 DEF AllocDone, Run, Abstract!Grant
    <3>5. n \in Sizes
      BY <2>5 DEF AllocDone, Inv
    <3> QED
      BY <3>4, <3>5 DEF Abstract!Next
  <2>6. ASSUME NEW p \in Pages, FreePage(p) PROVE Abstract!Next
    <3>1. p \in Held /\ grants[p] = 1
      BY <2>6 DEF FreePage, Held, Inv, TypeOK
    <3>2. Held' = Held \ {p} /\ reply' = reply
      BY <2>6, <3>1 DEF FreePage, Held, Inv, TypeOK
    <3> QED
      BY <3>1, <3>2 DEF Abstract!Next, Abstract!Release
  <2>7. CASE UNCHANGED vars
    BY <2>7 DEF vars, Held
  <2> QED
    BY <2>1, <2>2, <2>3, <2>4, <2>5, <2>6, <2>7 DEF Next, Scan
<1> QED
  BY <1>1, <1>2, Invariance, PTL DEF Spec, ImplementsPageAllocator, Abstract!Spec

-----------------------------------------------------------------------------
\* While nobody asks for more than one page, no free page is ever left below
\* the hint of alloc_page, where the search would miss it.
THEOREM SinglePagesNeverLost ==
  ASSUME \A k \in Sizes : k <= 1
  PROVE  Spec => []NoFreePageBelowHint
<1> DEFINE J == Inv /\ NoFreePageBelowHint /\ (pc = "scan" => n = 1)
<1> USE PMMAssumption DEF PMMAssumption, Pages
<1>1. Init => J
  BY InitInv DEF Init, NoFreePageBelowHint
<1>2. J /\ [Next]_vars => J'
  <2> SUFFICES ASSUME J, [Next]_vars PROVE NoFreePageBelowHint' /\ (pc' = "scan" => n' = 1)
    BY StepInv
  <2> USE DEF NoFreePageBelowHint
  <2>1. ASSUME NEW k \in Sizes, AllocReject(k) \/ AllocBegin(k)
        PROVE NoFreePageBelowHint' /\ (pc' = "scan" => n' = 1)
    BY <2>1 DEF AllocReject, AllocBegin
  <2>2. CASE ScanOutOfMemory \/ ScanFree \/ ScanUsed
    BY <2>2 DEF ScanOutOfMemory, ScanFree, ScanUsed
  <2>3. CASE AllocDone
    <3>1. /\ n = 1 /\ base \in Nat /\ base >= last_free_page
          /\ \A s \in last_free_page..(base - 1) : Run(s, 1) \cap bitmap # {}
      BY <2>3 DEF AllocDone, Inv, TypeOK, FirstFit
    <3>2. \A s \in last_free_page..(base - 1) : s \in bitmap
      BY <3>1 DEF Run, Inv, TypeOK
    <3>3. last_free_page' = base + 1 /\ bitmap' = bitmap \cup {base}
      BY <2>3, <3>1 DEF AllocDone, Run
    <3> QED
      BY <2>3, <3>1, <3>2, <3>3 DEF AllocDone, Inv, TypeOK
  <2>4. ASSUME NEW p \in Pages, FreePage(p)
        PROVE NoFreePageBelowHint' /\ (pc' = "scan" => n' = 1)
    BY <2>4 DEF FreePage, Inv, TypeOK
  <2>5. CASE UNCHANGED vars
    BY <2>5 DEF vars
  <2> QED
    BY <2>1, <2>2, <2>3, <2>4, <2>5 DEF Next, Scan
<1> QED
  BY <1>1, <1>2, PTL DEF Spec
=============================================================================

-------------------------------- MODULE PMM --------------------------------
(***************************************************************************)
(* The physical page manager of memory/pmm.cpp: a bitmap with one bit per  *)
(* page, searched first-fit from the hint last_free_page.                  *)
(*                                                                         *)
(* alloc_page is modelled one loop iteration per step, so that the         *)
(* invariant of its search is a state invariant; free_page is one step.    *)
(* The bitmap is the set of pages whose bit is 1.  The variable grants is  *)
(* a ghost: how many callers believe they hold a page.  Callers free only  *)
(* pages they hold, as every caller in the kernel does.                    *)
(***************************************************************************)
EXTENDS Integers

CONSTANTS MaxPages,    \* MAX_PAGES
          KernelEnd,   \* _kernel_end rounded up to a page number
          WordBits,    \* bits of a bitmap word (64)
          Sizes        \* the arguments n callers pass to alloc_page

ASSUME PMMAssumption ==
  /\ MaxPages \in Nat
  /\ KernelEnd \in 1..MaxPages
  /\ WordBits \in Nat \ {0}
  /\ Sizes \subseteq Int

VARIABLES bitmap, last_free_page,   \* the globals of pmm.cpp
          pc, n, base, i,           \* the locals of alloc_page: base is vi*64+vo
          reply,                    \* the last value alloc_page returned, as a page number
          grants                    \* ghost: callers that hold each page

vars == <<bitmap, last_free_page, pc, n, base, i, reply, grants>>

Pages == 0..(MaxPages - 1)

Run(s, k) == s..(s + k - 1)

-----------------------------------------------------------------------------
\* init_pmm: whole words below the kernel's end are marked, its last partial
\* word is not; the hint starts above it.
Init ==
  /\ bitmap = {p \in Pages : p \div WordBits < KernelEnd \div WordBits}
  /\ last_free_page = KernelEnd
  /\ pc = "idle" /\ n = 0 /\ base = 0 /\ i = 0
  /\ reply = 0
  /\ grants = [p \in Pages |-> 0]

\* alloc_page(k), entry: a request that is not positive returns 0 at once.
AllocReject(k) ==
  /\ pc = "idle"
  /\ k <= 0
  /\ reply' = 0
  /\ UNCHANGED <<bitmap, last_free_page, pc, n, base, i, grants>>

AllocBegin(k) ==
  /\ pc = "idle"
  /\ k > 0
  /\ pc' = "scan"
  /\ n' = k
  /\ base' = last_free_page
  /\ i' = 0
  /\ UNCHANGED <<bitmap, last_free_page, reply, grants>>

\* The loop body; c_page is the page it looks at.
CPage == base + i

ScanOutOfMemory ==
  /\ pc = "scan" /\ i < n
  /\ CPage >= MaxPages
  /\ pc' = "idle"
  /\ reply' = 0
  /\ UNCHANGED <<bitmap, last_free_page, n, base, i, grants>>

ScanFree ==
  /\ pc = "scan" /\ i < n
  /\ CPage < MaxPages /\ CPage \notin bitmap
  /\ i' = i + 1
  /\ UNCHANGED <<bitmap, last_free_page, pc, n, base, reply, grants>>

\* Mutant: the search restarts at the used page instead of past it.
ScanUsedStuck ==
  /\ pc = "scan" /\ i < n
  /\ CPage < MaxPages /\ CPage \in bitmap
  /\ base' = CPage
  /\ i' = 0
  /\ UNCHANGED <<bitmap, last_free_page, pc, n, reply, grants>>

\* Mutant: the run length is kept across a used page.
ScanUsedKeepsCount ==
  /\ pc = "scan" /\ i < n
  /\ CPage < MaxPages /\ CPage \in bitmap
  /\ base' = CPage + 1
  /\ UNCHANGED <<bitmap, last_free_page, pc, n, i, reply, grants>>

ScanUsed ==
  /\ pc = "scan" /\ i < n
  /\ CPage < MaxPages /\ CPage \in bitmap
  /\ base' = CPage + 1
  /\ i' = 0
  /\ UNCHANGED <<bitmap, last_free_page, pc, n, reply, grants>>

\* Mutant: the last page of the run is not marked.
AllocDoneShort ==
  /\ pc = "scan" /\ i >= n
  /\ bitmap' = bitmap \cup Run(base, n - 1)
  /\ last_free_page' = base + n - 1
  /\ grants' = [p \in Pages |-> IF p \in Run(base, n) THEN grants[p] + 1 ELSE grants[p]]
  /\ reply' = base
  /\ pc' = "idle"
  /\ UNCHANGED <<n, base, i>>

\* The run is found: mark it, move the hint past it, return its first page.
AllocDone ==
  /\ pc = "scan" /\ i >= n
  /\ bitmap' = bitmap \cup Run(base, n)
  /\ last_free_page' = base + n
  /\ grants' = [p \in Pages |-> IF p \in Run(base, n) THEN grants[p] + 1 ELSE grants[p]]
  /\ reply' = base
  /\ pc' = "idle"
  /\ UNCHANGED <<n, base, i>>

\* free_page(addr) with addr the address of page p, which the caller holds.
FreePage(p) ==
  /\ pc = "idle"
  /\ grants[p] > 0
  /\ bitmap' = bitmap \ {p}
  /\ last_free_page' = IF p < last_free_page THEN p ELSE last_free_page
  /\ grants' = [grants EXCEPT ![p] = @ - 1]
  /\ UNCHANGED <<pc, n, base, i, reply>>

Scan == ScanOutOfMemory \/ ScanFree \/ ScanUsed \/ AllocDone

Next ==
  \/ \E k \in Sizes : AllocReject(k) \/ AllocBegin(k)
  \/ Scan
  \/ \E p \in Pages : FreePage(p)

Spec == Init /\ [][Next]_vars

\* alloc_page runs to its return: nothing in it waits.
FairSpec == Spec /\ WF_vars(Scan)

-----------------------------------------------------------------------------
\* Types of the allocator's globals and of alloc_page's locals.
TypeOK ==
  /\ bitmap \subseteq Pages
  /\ last_free_page \in 0..MaxPages
  /\ pc \in {"idle", "scan"}
  /\ n \in Nat /\ base \in Nat /\ i \in Nat
  /\ reply \in 0..(MaxPages - 1)
  /\ grants \in [Pages -> Nat]

\* alloc_page never hands a page to a second caller while the first one still
\* holds it, and never hands out a page of the kernel image, although
\* init_pmm leaves the image's last partial word unmarked.
ExclusiveGrants ==
  \A p \in Pages : grants[p] <= (IF p < KernelEnd THEN 0 ELSE 1)

\* The search of alloc_page is first-fit: the pages counted so far are free,
\* and no run of n free pages starts between the hint and the candidate.
\* When the search gives up there is none above the hint at all.
FirstFit ==
  pc = "scan" =>
    /\ base >= last_free_page
    /\ i <= n
    /\ Run(base, i) \cap bitmap = {}
    /\ \A s \in last_free_page..(base - 1) : Run(s, n) \cap bitmap # {}

\* No page from the kernel's end up to the hint is free, so a request for one
\* page fails only when every page is in use.  True while callers ask for one
\* page at a time: a longer run can move the hint over free pages.
NoFreePageBelowHint ==
  \A p \in KernelEnd..(last_free_page - 1) : p \in bitmap

\* Every call of alloc_page returns.
AllocTerminates == pc = "scan" ~> pc = "idle"

\* The strengthening that is inductive: bits and grants agree above the kernel,
\* the hint never drops below it, and a search stays inside memory.
Inv ==
  /\ TypeOK
  /\ last_free_page >= KernelEnd
  /\ \A p \in Pages : grants[p] = IF p >= KernelEnd /\ p \in bitmap THEN 1 ELSE 0
  /\ FirstFit
  /\ pc = "scan" => n \in Sizes /\ n > 0 /\ base + i <= MaxPages

Held == {p \in Pages : grants[p] > 0}

Abstract == INSTANCE PageAllocator
              WITH FirstPage <- KernelEnd, LastPage <- MaxPages - 1,
                   Requests <- Sizes, held <- Held, reply <- reply

\* The bitmap allocator implements the page manager its callers rely on.
ImplementsPageAllocator == Abstract!Spec
=============================================================================

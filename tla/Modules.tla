------------------------------ MODULE Modules ------------------------------
(***************************************************************************)
(* The module registry: registration at boot (kernel_main), makemod and    *)
(* load (kernel/shell.cpp), the swaps (kernel/module_swap.cpp), and the    *)
(* bump heap (modules/heap/bump_alloc.cpp) that holds the headers makemod  *)
(* allocates.                                                              *)
(*                                                                         *)
(* A module is its name, its type, a number (0 for those linked into the   *)
(* kernel, else the build) and the address of its header.  A page of       *)
(* memory is a number; page 0 is what alloc_page returns on failure.  Code *)
(* of modules built at run time is user code: of its init only the result  *)
(* matters, success or null.  Heaps built at run time are left out: they   *)
(* would bring a kmalloc of their own.                                     *)
(***************************************************************************)
EXTENDS Integers, Sequences

CONSTANTS Names,       \* names of modules that users build
          Builtin,     \* the linked-in modules in link order: name and type
          Heap,        \* the name of the bump heap's module
          Types,       \* the module types
          Listed,      \* the types that have a list of their own (all but IPC)
          MaxMods,     \* entries of all_mods (32)
          MaxPerType,  \* entries of a list (8)
          HeapSlots,   \* headers that fit into the bump heap's page (128)
          Pages,       \* pages alloc_page can give
          PageFailures,\* may alloc_page fail although it has pages?  Others use it too
          ImagePages,  \* the pages that files of modules take
          MaxBuilds    \* bound on runs of makemod

ASSUME ModulesAssumption ==
  /\ {MaxMods, MaxPerType, HeapSlots, MaxBuilds, Pages} \subseteq Nat
  /\ Listed \subseteq Types /\ "heap" \in Listed
  /\ PageFailures \in BOOLEAN /\ ImagePages \subseteq Nat \ {0}
  /\ Builtin \in Seq([name : STRING, type : Types])
  /\ Len(Builtin) <= MaxMods
  /\ \E k \in 1..Len(Builtin) : Builtin[k].name = Heap

Linked == [page |-> -1, slot |-> 0]   \* the header of a linked-in module
NoModule == [name |-> "none"]

VARIABLES
  all_mods,                \* gk.all_mods up to total_mod_count
  lists,                   \* gk.sched_mods ... gk.fs_mods up to their counts
  active,                  \* the module behind gk.sched, gk.heap, gk.pmm ...
  heap_base, heap_offset,  \* the bump heap: its page, headers given out from it
  heapcnt, oldheap,        \* gk.heapcnt; gk.oldheap with gk.oldcnt and gk.flag
  free_pages,              \* pages not allocated
  boot,                    \* linked-in modules registered so far
  builds,                  \* runs of makemod
  step, mem, pages,        \* where makemod is, the address of its image, its pages
  live,                    \* ghost: allocations of the active heap
  heaps,                   \* ghost: pages the bump heap was ever given
  strays                   \* ghost: pages of read_file's buffers it did not free

heap_vars == <<heap_base, heap_offset, heaps>>
make_vars == <<step, mem, pages, strays>>
vars == <<all_mods, lists, active, heap_vars, heapcnt, oldheap, free_pages, boot, builds,
          make_vars, live>>

Init ==
  /\ all_mods = <<>>
  /\ lists = [t \in Listed |-> <<>>]
  /\ active = [t \in Types |-> NoModule]
  /\ heap_base = 0 /\ heap_offset = 0
  /\ heapcnt = 0 /\ oldheap = [module |-> NoModule, oldcnt |-> 0, flag |-> 0]
  /\ free_pages = 1..Pages
  /\ boot = 0 /\ builds = 0 /\ live = 0 /\ heaps = {}
  /\ step = "idle" /\ mem = 0 /\ pages = 0 /\ strays = {}

-----------------------------------------------------------------------------
Run(p, n) == p..(p + n - 1)

\* alloc_page(n): the first of n free pages in a row, or 0.
Pick(n) ==
  LET fit == {p \in free_pages : Run(p, n) \subseteq free_pages}
  IN  (IF fit = {} THEN {} ELSE {CHOOSE p \in fit : TRUE})
        \cup (IF PageFailures \/ fit = {} THEN {0} ELSE {})

\* Mutant: the page the heap had is taken again.
BumpInitSamePage ==
  \E p \in Pick(1) :
    /\ heap_base' = IF heap_base # 0 THEN heap_base ELSE p
    /\ heap_offset' = 0
    /\ free_pages' = free_pages \ {heap_base'}
    /\ heaps' = heaps \cup {heap_base'}

\* bump_init: a fresh page; the result of alloc_page is not looked at.
BumpInit ==
  \E p \in Pick(1) :
    /\ heap_base' = p
    /\ heap_offset' = 0
    /\ free_pages' = free_pages \ {p}
    /\ heaps' = heaps \cup ({p} \ {0})

InitOf(m) == IF m.name = Heap /\ m.build = 0 THEN BumpInit
             ELSE UNCHANGED <<heap_vars, free_pages>>

\* The loop of kernel_main: a linked-in module is registered, and the first one
\* of its type becomes active.
Booting == boot < Len(Builtin)

RegisterBuiltin ==
  /\ Booting
  /\ LET b == Builtin[boot + 1]
         m == [name |-> b.name, type |-> b.type, build |-> 0, at |-> Linked]
     IN  /\ all_mods' = Append(all_mods, m)
         /\ IF b.type \in Listed /\ Len(lists[b.type]) < MaxPerType
            THEN /\ lists' = [lists EXCEPT ![b.type] = Append(@, m)]
                 /\ IF active[b.type] = NoModule
                    THEN active' = [active EXCEPT ![b.type] = m] /\ InitOf(m)
                    ELSE UNCHANGED <<active, heap_vars, free_pages>>
            ELSE UNCHANGED <<lists, active, heap_vars, free_pages>>
  /\ boot' = boot + 1
  /\ UNCHANGED <<heapcnt, oldheap, builds, make_vars, live>>

-----------------------------------------------------------------------------
(* makemod, from the size of the file on: pages for the image, read_file    *)
(* into them, the checks, the header.                                      *)

registry == <<all_mods, lists, active, heapcnt, oldheap, boot>>

Image == Run(mem, pages)

MakeBegin ==
  /\ ~Booting /\ step = "idle"
  /\ builds < MaxBuilds /\ builds' = builds + 1
  /\ UNCHANGED <<registry, heap_vars, strays, live>>

\* An unknown type, a source that does not compile, a file that is empty or not
\* there, or no pages for the image.
MakeRefused == MakeBegin /\ UNCHANGED <<free_pages, step, mem, pages>>

MakeNoMemory ==
  /\ \E n \in ImagePages : 0 \in Pick(n)
  /\ MakeBegin /\ UNCHANGED <<free_pages, step, mem, pages>>

MakeTakesPages ==
  /\ MakeBegin
  /\ \E n \in ImagePages : \E p \in Pick(n) \ {0} :
       mem' = p /\ pages' = n /\ free_pages' = free_pages \ Run(p, n)
  /\ step' = "read"

\* read_file takes a buffer of as many pages, and frees its first page only.
MakeReads ==
  /\ step = "read"
  /\ \E q \in Pick(pages) \ {0} :
       LET kept == Run(q, pages) \ {q}
       IN  free_pages' = free_pages \ kept /\ strays' = strays \cup kept
  /\ step' = "check"
  /\ UNCHANGED <<registry, heap_vars, builds, mem, pages, live>>

\* makemod returns; the pages it frees are those of the set.
MakeReturns(freed) ==
  /\ free_pages' = free_pages \cup freed
  /\ step' = "idle" /\ mem' = 0 /\ pages' = 0
  /\ UNCHANGED <<builds, strays>>

\* Mutant: only the first page of the image is given back.
GivesBackFirst ==
  MakeReturns({mem}) /\ UNCHANGED <<registry, heap_base, heaps, live>>

\* An early return: every page of the image is given back.
GivesBack ==
  MakeReturns(Image) /\ UNCHANGED <<registry, heap_base, heaps, live>>

\* read_file finds no pages for its buffer.
MakeUnread ==
  /\ step = "read"
  /\ 0 \in Pick(pages)
  /\ GivesBack /\ UNCHANGED heap_offset

MakeBadMagic ==
  step = "check" /\ GivesBack /\ UNCHANGED heap_offset

MakeRegistryFull ==
  /\ step = "check"
  /\ Len(all_mods) >= MaxMods
  /\ GivesBack /\ UNCHANGED heap_offset

\* The offset after bump_kmalloc has given out a header.
AfterKmalloc == heap_offset + 1

\* kmalloc has no room, or returns address 0.
MakeNoHeader ==
  /\ step = "check" /\ Len(all_mods) < MaxMods
  /\ heap_offset >= HeapSlots \/ (heap_base = 0 /\ heap_offset = 0)
  /\ heap_offset' = IF heap_offset >= HeapSlots THEN heap_offset ELSE AfterKmalloc
  /\ GivesBack

\* The module of name n and type t that makemod has read.
NewModule(n, t) ==
  [name |-> n, type |-> t, build |-> builds,
   at |-> [page |-> heap_base, slot |-> heap_offset], image |-> Image]

\* Mutant: the limit on modules is not looked at.
MakeRegistersUnbounded(n, t) ==
  /\ step = "check"
  /\ heap_offset < HeapSlots /\ ~(heap_base = 0 /\ heap_offset = 0)
  /\ all_mods' = Append(all_mods, NewModule(n, t))
  /\ heap_offset' = AfterKmalloc /\ live' = live + 1
  /\ MakeReturns({})
  /\ UNCHANGED <<lists, active, heap_base, heaps, heapcnt, oldheap, boot>>

MakeRegisters(n, t) ==
  /\ step = "check" /\ Len(all_mods) < MaxMods
  /\ heap_offset < HeapSlots /\ ~(heap_base = 0 /\ heap_offset = 0)
  /\ all_mods' = Append(all_mods, NewModule(n, t))
  /\ lists' = IF t \in Listed /\ Len(lists[t]) < MaxPerType
              THEN [lists EXCEPT ![t] = Append(@, NewModule(n, t))] ELSE lists
  /\ heap_offset' = AfterKmalloc /\ live' = live + 1
  /\ MakeReturns({})
  /\ UNCHANGED <<active, heap_base, heaps, heapcnt, oldheap, boot>>

-----------------------------------------------------------------------------
\* cmd_load takes the first module of that name.
Found(n) == {k \in 1..Len(all_mods) : all_mods[k].name = n}

FirstFound(n) == all_mods[CHOOSE k \in Found(n) : \A j \in Found(n) : k <= j]

\* swap_module: run the module's init and switch the pointer of its type; for a
\* heap the old pointer and count are kept for hfree.
Load(n) ==
  /\ ~Booting /\ step = "idle"
  /\ Found(n) # {}
  /\ LET m == FirstFound(n)
     IN  /\ m.type \in Listed
         /\ InitOf(m)
         /\ active' = [active EXCEPT ![m.type] = m]
         /\ IF m.type = "heap"
            THEN /\ oldheap' = [module |-> active["heap"], oldcnt |-> heapcnt, flag |-> 1]
                 /\ heapcnt' = 0 /\ live' = 0
            ELSE UNCHANGED <<oldheap, heapcnt, live>>
  /\ UNCHANGED <<all_mods, lists, boot, builds, make_vars>>

\* A module whose init fails, or of a type that cannot be swapped: no change.
LoadFails(n) ==
  /\ ~Booting /\ step = "idle"
  /\ Found(n) # {} => FirstFound(n).build > 0
  /\ UNCHANGED vars

Next ==
  \/ RegisterBuiltin
  \/ MakeRefused \/ MakeNoMemory \/ MakeTakesPages \/ MakeReads \/ MakeUnread
  \/ MakeBadMagic \/ MakeRegistryFull \/ MakeNoHeader
  \/ \E n \in Names, t \in Types \ {"heap"} : MakeRegisters(n, t)
  \/ \E n \in Names \cup {Heap} : Load(n) \/ LoadFails(n)

Spec == Init /\ [][Next]_vars

-----------------------------------------------------------------------------
\* Types and limits of the registry.
TypeOK ==
  /\ Len(all_mods) <= MaxMods
  /\ \A t \in Listed : Len(lists[t]) <= MaxPerType
  /\ heap_base \in 0..Pages /\ heap_offset \in 0..HeapSlots
  /\ free_pages \subseteq 1..Pages /\ heaps \subseteq 1..Pages /\ strays \subseteq 1..Pages
  /\ step \in {"idle", "read", "check"} /\ mem \in 0..Pages /\ pages \in ImagePages \cup {0}
  /\ boot \in 0..Len(Builtin) /\ builds \in 0..MaxBuilds
  /\ {heapcnt, live} \subseteq Nat

Made == {k \in 1..Len(all_mods) : all_mods[k].build > 0}

\* No two registered modules share a header or a page of their images, although
\* loading the heap again restarts it from offset 0.
HeadersDisjoint ==
  \A j, k \in Made :
    j # k => /\ all_mods[j].at # all_mods[k].at
             /\ all_mods[j].image \cap all_mods[k].image = {}

Images == UNION {all_mods[k].image : k \in Made}

\* Through every early return of makemod, each page has one owner or is free: the
\* heaps, the build under way, the registered modules.  What nobody owns and
\* nobody gets back are the further pages of read_file's buffers, nothing else.
PagesAccounted ==
  /\ free_pages = (1..Pages) \ (heaps \cup Image \cup Images \cup strays)
  /\ heaps \cap Image = {} /\ heaps \cap Images = {} /\ heaps \cap strays = {}
  /\ Image \cap Images = {} /\ Image \cap strays = {} /\ Images \cap strays = {}

\* No page is lost for good.
NoImageLeak == (1..Pages) \ free_pages = heaps \cup Image \cup Images

\* Headers live in pages the heap was given.
HeadersInHeap == \A k \in Made : all_mods[k].at.page # 0

\* load activates the module that makemod registered last under that name.
LoadActivatesNewest ==
  [][\A n \in Names : Load(n) =>
       \E t \in Listed : active'[t] = all_mods[CHOOSE k \in Found(n) : \A j \in Found(n) : k >= j]]_vars

\* mods shows every registered module.
ModsListsAll ==
  \A k \in 1..Len(all_mods) :
    \E t \in Listed : \E j \in 1..Len(lists[t]) : lists[t][j] = all_mods[k]

\* mem shows the number of allocations of the active heap.
MemCountsAllocations == heapcnt = live
=============================================================================

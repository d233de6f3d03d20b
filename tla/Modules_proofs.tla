--------------------------- MODULE Modules_proofs ---------------------------
(***************************************************************************)
(* Proofs about the module registry, for every set of linked-in modules,   *)
(* every size of the registry, of its lists, of the heap and of memory.    *)
(***************************************************************************)
EXTENDS Modules, TLAPS

LinkedIn == [name : STRING, type : Types, build : {0}, at : {Linked}]

Built == [name : Names, type : Types, build : Nat \ {0},
          at : [page : 0..Pages, slot : Nat], image : SUBSET (1..Pages)]

Records == LinkedIn \cup Built

\* The sequences are sequences of modules, and the registry has room for the
\* linked-in ones while kernel_main registers them.
Shape ==
  /\ all_mods \in Seq(Records)
  /\ lists \in [Listed -> Seq(Records)]
  /\ Booting => Len(all_mods) = boot
  /\ \A k \in Made : all_mods[k] \in Built

\* The heap's page and the pages of all headers are taken, and not by an image.
HeadersTaken ==
  /\ heap_base \notin free_pages /\ heap_base \notin Image
  /\ \A k \in Made : /\ all_mods[k].at.page \notin free_pages
                     /\ all_mods[k].at.page \notin Image

\* The headers in the heap's page lie below its offset, as long as makemod has
\* or can still find a page for an image.
HeadersBelow ==
  free_pages # {} \/ step # "idle" =>
    \A k \in Made : all_mods[k].at.page = heap_base => all_mods[k].at.slot < heap_offset

ImagesDisjoint ==
  \A j, k \in Made : j # k => all_mods[j].image \cap all_mods[k].image = {}

\* Where makemod is.
StepShape ==
  /\ step = "idle" => pages = 0
  /\ step # "idle" => builds > 0
  /\ Image \subseteq 1..Pages
  /\ Booting => step = "idle"

IInv ==
  /\ TypeOK /\ Shape /\ StepShape /\ PagesAccounted /\ ImagesDisjoint /\ HeadersTaken
  /\ ~PageFailures => HeadersBelow /\ HeadersDisjoint

\* PagesAccounted of any sets: free pages, heaps, the image of the build under
\* way, the other images, the pages that are lost.
Accounted(F, H, I, M, S) ==
  /\ F = (1..Pages) \ (H \cup I \cup M \cup S)
  /\ H \cap I = {} /\ H \cap M = {} /\ H \cap S = {}
  /\ I \cap M = {} /\ I \cap S = {} /\ M \cap S = {}

-----------------------------------------------------------------------------
\* alloc_page gives a free page and those after it, or 0 when there are none.
LEMMA PickFacts ==
  ASSUME NEW n, NEW p \in Pick(n)
  PROVE  \/ p \in free_pages /\ Run(p, n) \subseteq free_pages
         \/ p = 0 /\ (PageFailures \/ ~ \E q \in free_pages : Run(q, n) \subseteq free_pages)
<1> DEFINE fit == {q \in free_pages : Run(q, n) \subseteq free_pages}
<1>1. p \in (IF fit = {} THEN {} ELSE {CHOOSE q \in fit : TRUE})
             \cup (IF PageFailures \/ fit = {} THEN {0} ELSE {})
  BY DEF Pick
<1>2. fit # {} => (CHOOSE q \in fit : TRUE) \in fit
  <2> HIDE DEF fit
  <2> QED
    OBVIOUS
<1>3. p \in fit \/ (p = 0 /\ (PageFailures \/ fit = {}))
  <2> HIDE DEF fit
  <2>1. CASE fit = {}
    BY <1>1, <2>1
  <2>2. CASE fit # {}
    BY <1>1, <1>2, <2>2
  <2> QED
    BY <2>1, <2>2
<1> QED
  BY <1>3

\* One page: the run is the page itself.
LEMMA PickOne ==
  ASSUME free_pages \subseteq 1..Pages, Pages \in Nat, NEW p \in Pick(1)
  PROVE  p \in free_pages \/ (p = 0 /\ (PageFailures \/ free_pages = {}))
<1>1. \A q \in free_pages : Run(q, 1) = {q}
  <2>1. \A q \in Nat : Run(q, 1) = {q}
    BY DEF Run
  <2> QED
    BY <2>1
<1> QED
  BY <1>1, PickFacts

\* PagesAccounted in terms of sets.
LEMMA AccountedIs ==
  PagesAccounted <=> Accounted(free_pages, heaps, Image, Images, strays)
BY DEF PagesAccounted, Accounted

\* Pages move between their owners without a loss.
LEMMA Transfers ==
  ASSUME NEW F, NEW H, NEW I, NEW M, NEW S, Accounted(F, H, I, M, S),
         NEW X, X \subseteq F
  PROVE  /\ Accounted(F \ X, H \cup X, I, M, S)
         /\ Accounted(F \ X, H, I, M, S \cup X)
         /\ I = {} => Accounted(F \ X, H, X, M, S)
         /\ I \subseteq 1..Pages => Accounted(F \cup I, H, {}, M, S)
         /\ Accounted(F, H, {}, M \cup I, S)
<1>1. /\ \A x \in X : x \in 1..Pages /\ x \notin H /\ x \notin I /\ x \notin M /\ x \notin S
      /\ X \cap H = {} /\ X \cap I = {} /\ X \cap M = {} /\ X \cap S = {}
  BY DEF Accounted
<1> DEFINE U == 1..Pages
<1>2. /\ F = U \ (H \cup I \cup M \cup S)
      /\ H \cap I = {} /\ H \cap M = {} /\ H \cap S = {}
      /\ I \cap M = {} /\ I \cap S = {} /\ M \cap S = {}
  BY DEF Accounted
<1>3. \A f, h, i, m, s : Accounted(f, h, i, m, s) <=>
        /\ f = U \ (h \cup i \cup m \cup s)
        /\ h \cap i = {} /\ h \cap m = {} /\ h \cap s = {}
        /\ i \cap m = {} /\ i \cap s = {} /\ m \cap s = {}
  BY DEF Accounted
<1> HIDE DEF U
<1>4. Accounted(F \ X, H \cup X, I, M, S)
  BY <1>1, <1>2, <1>3
<1>5. Accounted(F \ X, H, I, M, S \cup X)
  BY <1>1, <1>2, <1>3
<1>6. I = {} => Accounted(F \ X, H, X, M, S)
  BY <1>1, <1>2, <1>3
<1>7. I \subseteq U => Accounted(F \cup I, H, {}, M, S)
  BY <1>2, <1>3
<1>8. Accounted(F, H, {}, M \cup I, S)
  BY <1>2, <1>3
<1> QED
  BY <1>4, <1>5, <1>6, <1>7, <1>8 DEF U

\* No pages, no image.
LEMMA NoImage ==
  ASSUME NEW m \in Nat
  PROVE  Run(m, 0) = {}
BY DEF Run

\* An empty registry satisfies the invariant.
LEMMA InitIInv == Init => IInv
<1> SUFFICES ASSUME Init PROVE IInv
  OBVIOUS
<1>0. /\ {MaxMods, MaxPerType, HeapSlots, MaxBuilds, Pages} \subseteq Nat
      /\ Len(Builtin) \in Nat
  BY ModulesAssumption
<1>1. Len(all_mods) = 0 /\ Made = {} /\ Images = {}
  BY DEF Init, Made, Images
<1>2. TypeOK
  BY <1>0, <1>1 DEF Init, TypeOK
<1>3. Shape
  BY <1>1 DEF Init, Shape
<1>4. Image = {}
  BY NoImage DEF Init, Image
<1>5. PagesAccounted /\ StepShape
  BY <1>1, <1>4 DEF Init, PagesAccounted, StepShape
<1>6. HeadersTaken
  BY <1>1, <1>0, <1>4 DEF Init, HeadersTaken
<1>7. HeadersBelow /\ HeadersDisjoint /\ ImagesDisjoint
  BY <1>1 DEF HeadersBelow, HeadersDisjoint, ImagesDisjoint
<1> QED
  BY <1>2, <1>3, <1>5, <1>6, <1>7 DEF IInv

\* What stays with the registered modules when none is added.
LEMMA SameModules ==
  ASSUME NEW M, M = Made, M = Made', \A k \in M : all_mods'[k] = all_mods[k]
  PROVE  /\ Images' = Images
         /\ ImagesDisjoint => ImagesDisjoint'
         /\ HeadersDisjoint => HeadersDisjoint'
<1>1. {all_mods'[k].image : k \in Made'} = {all_mods[k].image : k \in Made}
  OBVIOUS
<1>2. Images' = Images
  BY <1>1 DEF Images
<1>3. ImagesDisjoint => ImagesDisjoint'
  BY DEF ImagesDisjoint
<1>4. HeadersDisjoint => HeadersDisjoint'
  BY DEF HeadersDisjoint
<1> QED
  BY <1>2, <1>3, <1>4

\* bump_init moves the heap to a page no header lies in, or leaves no page for
\* further modules.
LEMMA BumpStep ==
  ASSUME IInv, BumpInit \/ UNCHANGED <<heap_vars, free_pages>>, UNCHANGED make_vars,
         step = "idle",
         NEW M, M = Made, M = Made', \A k \in M : all_mods'[k] = all_mods[k]
  PROVE  /\ heap_base' \in 0..Pages /\ heap_offset' \in 0..HeapSlots
         /\ free_pages' \subseteq 1..Pages /\ heaps' \subseteq 1..Pages
         /\ PagesAccounted' /\ ImagesDisjoint' /\ HeadersTaken'
         /\ ~PageFailures => HeadersBelow' /\ HeadersDisjoint'
<1>0. /\ HeapSlots \in Nat /\ Pages \in Nat
  BY ModulesAssumption
<1>1. TypeOK /\ StepShape /\ PagesAccounted /\ ImagesDisjoint /\ HeadersTaken
  BY DEF IInv
<1>2. M = Made /\ M = Made' /\ \A k \in Made : all_mods'[k] = all_mods[k]
  OBVIOUS
<1>3. ImagesDisjoint' /\ Images' = Images /\ (HeadersDisjoint => HeadersDisjoint')
  BY <1>1, SameModules
<1>4. UNCHANGED <<step, mem, pages, strays>> /\ Image' = Image
  BY DEF make_vars, Image
<1>5. Accounted(free_pages, heaps, Image, Images, strays)
  BY <1>1, AccountedIs
<1>6. CASE UNCHANGED <<heap_vars, free_pages>>
  <2>1. UNCHANGED <<heap_base, heap_offset, heaps, free_pages>>
    BY <1>6 DEF heap_vars
  <2>2. PagesAccounted' /\ HeadersTaken'
    BY <1>1, <1>2, <1>3, <1>4, <2>1 DEF PagesAccounted, HeadersTaken
  <2>3. HeadersBelow => HeadersBelow'
    BY <1>2, <1>4, <2>1 DEF HeadersBelow
  <2> QED
    BY <1>1, <1>3, <2>1, <2>2, <2>3 DEF TypeOK, IInv
<1>7. CASE BumpInit
  <2>1. PICK p \in Pick(1) : /\ heap_base' = p /\ heap_offset' = 0
                             /\ free_pages' = free_pages \ {p} /\ heaps' = heaps \cup ({p} \ {0})
    BY <1>7 DEF BumpInit
  <2>3. free_pages \subseteq 1..Pages /\ heaps \subseteq 1..Pages
    BY <1>1 DEF TypeOK
  <2>2. p \in free_pages \/ (p = 0 /\ (PageFailures \/ free_pages = {}))
    BY <1>0, <2>3, PickOne
  <2>4. p \in 0..Pages /\ (p \in free_pages => p \in 1..Pages /\ p # 0)
    <3>1. p \in free_pages => p \in 1..Pages
      BY <2>3
    <3>2. \A q \in 1..Pages : q \in 0..Pages /\ q # 0
      BY <1>0
    <3>3. 0 \in 0..Pages
      BY <1>0
    <3> QED
      BY <2>2, <3>1, <3>2, <3>3, Zenon
  <2>5. free_pages' \subseteq 1..Pages /\ heaps' \subseteq 1..Pages
    BY <2>1, <2>2, <2>3, <2>4
  <2>6. PagesAccounted'
    <3>1. CASE p = 0
      <4>1. 0 \notin free_pages
        BY <2>4, <3>1
      <4>2. heaps' = heaps /\ free_pages' = free_pages
        BY <2>1, <3>1, <4>1
      <4> QED
        BY <1>1, <1>3, <1>4, <4>2 DEF PagesAccounted
    <3>2. CASE p # 0
      <4>1. heaps' = heaps \cup {p} /\ {p} \subseteq free_pages
        BY <2>1, <2>2, <3>2
      <4>2. Accounted(free_pages \ {p}, heaps \cup {p}, Image, Images, strays)
        BY <1>5, <4>1, Transfers
      <4>3. Accounted(free_pages', heaps', Image', Images', strays')
        BY <1>3, <1>4, <2>1, <4>1, <4>2
      <4> QED
        BY <4>3 DEF PagesAccounted, Accounted
    <3> QED
      BY <3>1, <3>2
  <2>7. HeadersTaken'
    <3>1. p \notin free_pages' /\ free_pages' \subseteq free_pages
      BY <2>1
    <3>2. p \notin Image
      <4>1. free_pages \cap Image = {}
        BY <1>1 DEF PagesAccounted
      <4>2. 0 \notin Image
        BY <1>1 DEF StepShape
      <4> QED
        BY <2>2, <4>1, <4>2
    <3> QED
      BY <1>1, <1>2, <1>4, <2>1, <3>1, <3>2 DEF HeadersTaken
  <2>8. ~PageFailures => HeadersBelow'
    <3> SUFFICES ASSUME ~PageFailures, NEW k \in Made, free_pages' # {}, all_mods[k].at.page = p PROVE FALSE
      BY <1>2, <1>4, <2>1 DEF HeadersBelow
    <3>1. p \notin free_pages
      BY <1>1 DEF HeadersTaken
    <3> QED
      BY <2>1, <2>2, <3>1
  <2> QED
    BY <1>0, <1>3, <2>1, <2>4, <2>5, <2>6, <2>7, <2>8 DEF IInv
<1> QED
  BY <1>6, <1>7

\* Registration at boot: no module built yet is disturbed.
LEMMA RegisterStep ==
  ASSUME IInv, RegisterBuiltin
  PROVE  IInv'
<1>0. /\ HeapSlots \in Nat /\ Pages \in Nat /\ MaxMods \in Nat /\ MaxPerType \in Nat
      /\ Builtin \in Seq([name : STRING, type : Types]) /\ Len(Builtin) <= MaxMods
      /\ Listed \subseteq Types
  BY ModulesAssumption
<1>1. TypeOK /\ Shape /\ StepShape /\ step = "idle"
  BY DEF IInv, StepShape, RegisterBuiltin
<1> DEFINE b == Builtin[boot + 1]
           m == [name |-> b.name, type |-> b.type, build |-> 0, at |-> Linked]
<1>2. /\ boot \in Nat /\ boot < Len(Builtin) /\ Len(all_mods) = boot
      /\ all_mods \in Seq(Records) /\ Len(all_mods) \in Nat
  BY <1>1, <1>0 DEF RegisterBuiltin, Booting, Shape, TypeOK
<1>3. m \in Records /\ m.build = 0
  <2>0. boot + 1 \in 1..Len(Builtin)
    BY <1>0, <1>2
  <2> DEFINE R == [name : STRING, type : Types]
  <2>1. b \in R
    <3>1. Builtin \in Seq(R)
      BY <1>0
    <3> HIDE DEF R
    <3> QED
      BY <2>0, <3>1
  <2> QED
    BY <2>1 DEF Records, LinkedIn
<1>4. /\ all_mods' = Append(all_mods, m) /\ boot' = boot + 1
      /\ UNCHANGED <<heapcnt, oldheap, builds, live>> /\ UNCHANGED make_vars
  BY DEF RegisterBuiltin
<1>5. \/ lists' = lists
      \/ b.type \in Listed /\ Len(lists[b.type]) < MaxPerType
           /\ lists' = [lists EXCEPT ![b.type] = Append(@, m)]
  BY DEF RegisterBuiltin
<1>6. BumpInit \/ UNCHANGED <<heap_vars, free_pages>>
  BY DEF RegisterBuiltin, InitOf
<1> HIDE DEF m
<1>7. /\ all_mods' \in Seq(Records) /\ Len(all_mods') = boot + 1
      /\ all_mods'[boot + 1] = m /\ \A k \in 1..Len(all_mods) : all_mods'[k] = all_mods[k]
  BY <1>2, <1>3, <1>4
<1>8. Made' = Made /\ \A k \in Made : all_mods'[k] = all_mods[k]
  <2>1. 1..Len(all_mods') = 1..Len(all_mods) \cup {boot + 1}
    BY <1>2, <1>7
  <2> QED
    BY <1>3, <1>7, <2>1 DEF Made
<1>9. /\ heap_base' \in 0..Pages /\ heap_offset' \in 0..HeapSlots
      /\ free_pages' \subseteq 1..Pages /\ heaps' \subseteq 1..Pages
      /\ PagesAccounted' /\ ImagesDisjoint' /\ HeadersTaken'
      /\ ~PageFailures => HeadersBelow' /\ HeadersDisjoint'
  BY <1>1, <1>4, <1>6, <1>8, BumpStep
<1>10. /\ lists' \in [Listed -> Seq(Records)]
       /\ \A t \in Listed : Len(lists'[t]) <= MaxPerType
  <2>1. lists \in [Listed -> Seq(Records)] /\ \A t \in Listed : Len(lists[t]) <= MaxPerType
    BY <1>1 DEF Shape, TypeOK
  <2>2. CASE lists' = lists
    BY <2>1, <2>2
  <2>3. CASE b.type \in Listed /\ Len(lists[b.type]) < MaxPerType
               /\ lists' = [lists EXCEPT ![b.type] = Append(@, m)]
    <3> DEFINE u == b.type
    <3> HIDE DEF u, b
    <3>1. lists[u] \in Seq(Records) /\ Append(lists[u], m) \in Seq(Records)
          /\ Len(Append(lists[u], m)) = Len(lists[u]) + 1 /\ Len(lists[u]) \in Nat
      BY <1>3, <2>1, <2>3 DEF u
    <3>2. lists' = [lists EXCEPT ![u] = Append(lists[u], m)] /\ u \in Listed /\ Len(lists[u]) < MaxPerType
      BY <2>3 DEF u
    <3>3. Len(lists[u]) + 1 <= MaxPerType
      BY <1>0, <3>1, <3>2
    <3> QED
      BY <2>1, <3>1, <3>2, <3>3
  <2> QED
    BY <1>5, <2>2, <2>3
<1>13. UNCHANGED <<step, mem, pages, strays>> /\ Image' = Image
  BY <1>4 DEF make_vars, Image
<1>11. TypeOK'
  <2>1. Len(all_mods') <= MaxMods /\ boot' \in 0..Len(Builtin)
    BY <1>0, <1>2, <1>4, <1>7
  <2> QED
    BY <1>1, <1>4, <1>9, <1>10, <1>13, <2>1 DEF TypeOK
<1>12. Shape' /\ StepShape'
  <2>1. \A k \in Made' : all_mods'[k] \in Built
    BY <1>1, <1>8 DEF Shape
  <2>2. StepShape'
    BY <1>1, <1>13 DEF StepShape
  <2> QED
    BY <1>4, <1>7, <1>10, <2>1, <2>2 DEF Shape
<1> QED
  BY <1>9, <1>11, <1>12 DEF IInv

\* load: the registry keeps its modules.
LEMMA LoadStep ==
  ASSUME IInv, NEW n, Load(n)
  PROVE  IInv'
<1>1. TypeOK /\ Shape /\ StepShape
  BY DEF IInv
<1>2. BumpInit \/ UNCHANGED <<heap_vars, free_pages>>
  BY DEF Load, InitOf
<1>3. UNCHANGED <<all_mods, lists, boot, builds>> /\ UNCHANGED make_vars /\ step = "idle"
  BY DEF Load
<1>4. {heapcnt', live'} \subseteq Nat
  <2>1. heapcnt' \in {0, heapcnt} /\ live' \in {0, live}
    BY DEF Load
  <2> QED
    BY <1>1, <2>1 DEF TypeOK
<1>5. Made' = Made /\ \A k \in Made : all_mods'[k] = all_mods[k]
  BY <1>3 DEF Made
<1>6. /\ heap_base' \in 0..Pages /\ heap_offset' \in 0..HeapSlots
      /\ free_pages' \subseteq 1..Pages /\ heaps' \subseteq 1..Pages
      /\ PagesAccounted' /\ ImagesDisjoint' /\ HeadersTaken'
      /\ ~PageFailures => HeadersBelow' /\ HeadersDisjoint'
  BY <1>2, <1>3, <1>5, BumpStep
<1>9. UNCHANGED <<step, mem, pages, strays>> /\ Image' = Image
  BY <1>3 DEF make_vars, Image
<1>7. TypeOK'
  BY <1>1, <1>3, <1>4, <1>6, <1>9 DEF TypeOK
<1>8. Shape' /\ StepShape'
  BY <1>1, <1>3, <1>5, <1>9 DEF Shape, StepShape, Booting
<1> QED
  BY <1>6, <1>7, <1>8 DEF IInv

\* A step of makemod that adds no module, the headers' side of it: the heap's
\* offset may only move up.
LEMMA NoNewHeader ==
  ASSUME IInv, UNCHANGED <<registry, heap_base>>,
         heap_offset' \in 0..HeapSlots, heap_offset' >= heap_offset,
         free_pages' # {} \/ step' # "idle" => free_pages # {} \/ step # "idle"
  PROVE  /\ Made' = Made /\ Images' = Images /\ Shape' /\ ImagesDisjoint'
         /\ ~PageFailures => HeadersBelow' /\ HeadersDisjoint'
<1>1. TypeOK /\ Shape /\ ImagesDisjoint
  BY DEF IInv
<1>2. UNCHANGED <<all_mods, lists, boot, heap_base>> /\ Made' = Made
  BY DEF registry, Made
<1>3. Images' = Images /\ ImagesDisjoint' /\ (HeadersDisjoint => HeadersDisjoint')
  BY <1>1, <1>2, SameModules
<1>4. Shape'
  BY <1>1, <1>2 DEF Shape, Booting
<1>5. HeadersBelow => HeadersBelow'
  <2> SUFFICES ASSUME HeadersBelow, free_pages # {} \/ step # "idle",
                      NEW k \in Made, all_mods[k].at.page = heap_base
               PROVE  all_mods[k].at.slot < heap_offset'
    BY <1>2 DEF HeadersBelow
  <2>1. all_mods[k].at.slot < heap_offset
    BY DEF HeadersBelow
  <2>2. all_mods[k].at.slot \in Nat
    BY <1>1 DEF Shape, Built
  <2>3. heap_offset \in Nat /\ heap_offset' \in Nat
    BY <1>1 DEF TypeOK
  <2> QED
    BY <2>1, <2>2, <2>3
<1> QED
  BY <1>2, <1>3, <1>4, <1>5 DEF IInv

\* A makemod that ends before it has pages.
LEMMA MakeRefusedStep ==
  ASSUME IInv, MakeRefused \/ MakeNoMemory
  PROVE  IInv'
<1>0. MaxBuilds \in Nat
  BY ModulesAssumption
<1>1. TypeOK /\ StepShape /\ PagesAccounted /\ HeadersTaken
  BY DEF IInv
<1>2. /\ UNCHANGED <<registry, heap_vars, strays, live, free_pages, step, mem, pages>>
      /\ builds < MaxBuilds /\ builds' = builds + 1
  BY DEF MakeRefused, MakeNoMemory, MakeBegin
<1>3. UNCHANGED <<all_mods, lists, heapcnt, boot, heap_base, heap_offset, heaps>> /\ Image' = Image
  BY <1>2 DEF registry, heap_vars, Image
<1>4. builds' \in 0..MaxBuilds
  BY <1>0, <1>1, <1>2 DEF TypeOK
<1>5. heap_offset' \in 0..HeapSlots /\ heap_offset' >= heap_offset
  BY <1>1, <1>3 DEF TypeOK
<1>6. /\ Made' = Made /\ Images' = Images /\ Shape' /\ ImagesDisjoint'
      /\ ~PageFailures => HeadersBelow' /\ HeadersDisjoint'
  BY <1>2, <1>3, <1>5, NoNewHeader
<1>7. TypeOK'
  BY <1>1, <1>2, <1>3, <1>4 DEF TypeOK
<1>8. PagesAccounted' /\ StepShape' /\ HeadersTaken'
  <2>1. step = "idle" => step' = "idle"
    BY <1>2
  <2>2. step = "idle"
    BY DEF MakeRefused, MakeNoMemory, MakeBegin
  <2> QED
    BY <2>1, <2>2, <1>1, <1>2, <1>3, <1>6 DEF PagesAccounted, StepShape, HeadersTaken, Booting
<1> QED
  BY <1>6, <1>7, <1>8 DEF IInv

\* Pages for the image.
LEMMA MakeTakesPagesStep ==
  ASSUME IInv, MakeTakesPages
  PROVE  IInv'
<1>0. MaxBuilds \in Nat /\ Pages \in Nat /\ ImagePages \subseteq Nat \ {0}
  BY ModulesAssumption
<1>1. TypeOK /\ StepShape /\ PagesAccounted /\ HeadersTaken
  BY DEF IInv
<1>2. /\ UNCHANGED <<registry, heap_vars, strays, live>> /\ step' = "read"
      /\ builds < MaxBuilds /\ builds' = builds + 1 /\ step = "idle" /\ ~Booting
  BY DEF MakeTakesPages, MakeBegin
<1>14. PICK n \in ImagePages : \E p \in Pick(n) \ {0} :
         mem' = p /\ pages' = n /\ free_pages' = free_pages \ Run(p, n)
  BY DEF MakeTakesPages
<1>3. PICK p \in Pick(n) \ {0} :
        mem' = p /\ pages' = n /\ free_pages' = free_pages \ Run(p, n)
  BY <1>14
<1>4. p \in free_pages /\ Run(p, n) \subseteq free_pages
  BY PickFacts
<1>5. free_pages \subseteq 1..Pages /\ Image = {} /\ Image' = Run(p, n)
  <2>1. mem \in Nat /\ free_pages \subseteq 1..Pages
    BY <1>0, <1>1 DEF TypeOK
  <2> QED
    BY <1>1, <1>2, <1>3, <2>1, NoImage DEF StepShape, Image
<1>6. UNCHANGED <<all_mods, lists, heapcnt, boot, heap_base, heap_offset, heaps>>
  BY <1>2 DEF registry, heap_vars
<1>7. builds' \in 0..MaxBuilds /\ mem' \in 0..Pages /\ pages' \in ImagePages \cup {0}
  BY <1>0, <1>1, <1>2, <1>3, <1>4, <1>5 DEF TypeOK
<1>8. heap_offset' \in 0..HeapSlots /\ heap_offset' >= heap_offset
  BY <1>1, <1>6 DEF TypeOK
<1>9. /\ Made' = Made /\ Images' = Images /\ Shape' /\ ImagesDisjoint'
      /\ ~PageFailures => HeadersBelow' /\ HeadersDisjoint'
  <2>1. free_pages # {}
    BY <1>4
  <2> QED
    BY <1>2, <1>6, <1>8, <2>1, NoNewHeader
<1>10. TypeOK'
  BY <1>1, <1>2, <1>3, <1>6, <1>7 DEF TypeOK
<1>11. PagesAccounted'
  <2>1. Accounted(free_pages, heaps, Image, Images, strays)
    BY <1>1, AccountedIs
  <2>2. Accounted(free_pages \ Run(p, n), heaps, Run(p, n), Images, strays)
    BY <1>4, <1>5, <2>1, Transfers
  <2>3. Accounted(free_pages', heaps', Image', Images', strays')
    BY <1>2, <1>3, <1>5, <1>6, <1>9, <2>2
  <2> QED
    BY <2>3 DEF PagesAccounted, Accounted
<1>12. StepShape'
  <2>1. builds' > 0
    BY <1>0, <1>1, <1>2 DEF TypeOK
  <2> QED
    BY <1>2, <1>4, <1>5, <1>6, <2>1 DEF StepShape, Booting
<1>13. HeadersTaken'
  BY <1>1, <1>3, <1>4, <1>5, <1>6, <1>9 DEF HeadersTaken
<1> QED
  BY <1>9, <1>10, <1>11, <1>12, <1>13 DEF IInv

\* read_file keeps the pages of its buffer but one.
LEMMA MakeReadsStep ==
  ASSUME IInv, MakeReads
  PROVE  IInv'
<1>1. TypeOK /\ StepShape /\ PagesAccounted /\ HeadersTaken
  BY DEF IInv
<1>2. /\ UNCHANGED <<registry, heap_vars, builds, mem, pages, live>> /\ step = "read" /\ step' = "check"
  BY DEF MakeReads
<1>3. PICK q \in Pick(pages) \ {0} :
        /\ free_pages' = free_pages \ (Run(q, pages) \ {q})
        /\ strays' = strays \cup (Run(q, pages) \ {q})
  BY DEF MakeReads
<1> DEFINE kept == Run(q, pages) \ {q}
<1>4. kept \subseteq free_pages
  BY PickFacts
<1>5. free_pages' = free_pages \ kept /\ strays' = strays \cup kept
  BY <1>3
<1> HIDE DEF kept
<1>6. /\ UNCHANGED <<all_mods, lists, heapcnt, boot, heap_base, heap_offset, heaps>> /\ Image' = Image
  BY <1>2 DEF registry, heap_vars, Image
<1>7. free_pages' \subseteq 1..Pages /\ strays' \subseteq 1..Pages
  BY <1>1, <1>4, <1>5 DEF TypeOK
<1>8. heap_offset' \in 0..HeapSlots /\ heap_offset' >= heap_offset
  BY <1>1, <1>6 DEF TypeOK
<1>9. /\ Made' = Made /\ Images' = Images /\ Shape' /\ ImagesDisjoint'
      /\ ~PageFailures => HeadersBelow' /\ HeadersDisjoint'
  BY <1>2, <1>6, <1>8, NoNewHeader
<1>10. TypeOK'
  BY <1>1, <1>2, <1>6, <1>7 DEF TypeOK
<1>11. PagesAccounted'
  <2>1. Accounted(free_pages, heaps, Image, Images, strays)
    BY <1>1, AccountedIs
  <2>2. Accounted(free_pages \ kept, heaps, Image, Images, strays \cup kept)
    BY <1>4, <2>1, Transfers
  <2>3. Accounted(free_pages', heaps', Image', Images', strays')
    BY <1>5, <1>6, <1>9, <2>2
  <2> QED
    BY <2>3 DEF PagesAccounted, Accounted
<1>12. StepShape'
  BY <1>1, <1>2, <1>6 DEF StepShape, Booting
<1>13. HeadersTaken'
  BY <1>1, <1>5, <1>6, <1>9 DEF HeadersTaken
<1> QED
  BY <1>9, <1>10, <1>11, <1>12, <1>13 DEF IInv

\* Whatever makemod returns at, its pages go to the free ones.
LEMMA MakeReturned ==
  ASSUME IInv, MakeReturns(Image), UNCHANGED <<registry, heap_base, heaps, live>>,
         step # "idle", heap_offset' \in 0..HeapSlots, heap_offset' >= heap_offset
  PROVE  IInv'
<1>0. Pages \in Nat
  BY ModulesAssumption
<1>1. TypeOK /\ StepShape /\ PagesAccounted /\ HeadersTaken
  BY DEF IInv
<1>2. /\ free_pages' = free_pages \cup Image
      /\ step' = "idle" /\ mem' = 0 /\ pages' = 0 /\ UNCHANGED <<builds, strays>>
  BY DEF MakeReturns
<1>3. UNCHANGED <<all_mods, lists, heapcnt, boot, heap_base, heaps, live>>
  BY DEF registry
<1>4. Image' = {} /\ Image \subseteq 1..Pages
  BY <1>1, <1>2, NoImage DEF Image, StepShape
<1>5. /\ Made' = Made /\ Images' = Images /\ Shape' /\ ImagesDisjoint'
      /\ ~PageFailures => HeadersBelow' /\ HeadersDisjoint'
  BY <1>2, NoNewHeader
<1>6. TypeOK'
  <2>1. free_pages' \subseteq 1..Pages /\ mem' \in 0..Pages /\ pages' \in ImagePages \cup {0}
    BY <1>0, <1>1, <1>2, <1>4 DEF TypeOK
  <2> QED
    BY <1>1, <1>2, <1>3, <2>1 DEF TypeOK
<1>7. PagesAccounted'
  <2>1. Accounted(free_pages, heaps, Image, Images, strays)
    BY <1>1, AccountedIs
  <2>2. Accounted(free_pages \cup Image, heaps, {}, Images, strays)
    BY <1>4, <2>1, Transfers
  <2>3. Accounted(free_pages', heaps', Image', Images', strays')
    BY <1>2, <1>3, <1>4, <1>5, <2>2
  <2> QED
    BY <2>3 DEF PagesAccounted, Accounted
<1>8. StepShape'
  BY <1>2, <1>4 DEF StepShape
<1>9. HeadersTaken'
  <2>1. heap_base \notin Image /\ \A k \in Made : all_mods[k].at.page \notin Image
    BY <1>1 DEF HeadersTaken
  <2> QED
    BY <1>1, <1>2, <1>3, <1>4, <1>5, <2>1 DEF HeadersTaken
<1> QED
  BY <1>5, <1>6, <1>7, <1>8, <1>9 DEF IInv

\* A makemod that gives up keeps at most a header's room.
LEMMA MakeGivesUpStep ==
  ASSUME IInv, MakeUnread \/ MakeBadMagic \/ MakeRegistryFull \/ MakeNoHeader
  PROVE  IInv'
<1>0. HeapSlots \in Nat
  BY ModulesAssumption
<1>1. GivesBack /\ step # "idle"
  BY DEF MakeUnread, MakeBadMagic, MakeRegistryFull, MakeNoHeader
<1>2. heap_offset' \in 0..HeapSlots /\ heap_offset' >= heap_offset
  <2>1. heap_offset \in 0..HeapSlots
    BY DEF IInv, TypeOK
  <2>2. heap_offset' = heap_offset \/ (heap_offset' = heap_offset + 1 /\ ~ (heap_offset >= HeapSlots))
    BY DEF MakeUnread, MakeBadMagic, MakeRegistryFull, MakeNoHeader, AfterKmalloc
  <2> QED
    BY <1>0, <2>1, <2>2
<1> QED
  BY <1>1, <1>2, MakeReturned DEF GivesBack

\* makemod registers a module: the header lies past all headers of the heap's
\* page, and the image is no longer the build's.
LEMMA MakeRegistersStep ==
  ASSUME IInv, NEW n \in Names, NEW t \in Types, MakeRegisters(n, t)
  PROVE  IInv'
<1>0. HeapSlots \in Nat /\ Pages \in Nat /\ MaxMods \in Nat /\ MaxPerType \in Nat
  BY ModulesAssumption
<1>1. TypeOK /\ Shape /\ StepShape /\ PagesAccounted /\ ImagesDisjoint /\ HeadersTaken
  BY DEF IInv
<1> DEFINE m == NewModule(n, t)
           N == Len(all_mods) + 1
<1>3. /\ all_mods' = Append(all_mods, m)
      /\ lists' = IF t \in Listed /\ Len(lists[t]) < MaxPerType
                  THEN [lists EXCEPT ![t] = Append(lists[t], m)] ELSE lists
  BY DEF MakeRegisters
<1>4. /\ Len(all_mods) < MaxMods /\ heap_offset < HeapSlots /\ step = "check"
      /\ heap_offset' = heap_offset + 1 /\ live' = live + 1
      /\ UNCHANGED <<active, heap_base, heaps, heapcnt, oldheap, boot>>
  BY DEF MakeRegisters, AfterKmalloc
<1>2. /\ free_pages' = free_pages /\ step' = "idle" /\ mem' = 0 /\ pages' = 0
      /\ UNCHANGED <<builds, strays>>
  <2>1. free_pages' = free_pages \cup {} /\ step' = "idle" /\ mem' = 0 /\ pages' = 0
        /\ UNCHANGED <<builds, strays>>
    BY DEF MakeRegisters, MakeReturns
  <2> QED
    BY <2>1
<1>5. Image' = {} /\ Image \subseteq 1..Pages
  BY <1>1, <1>2, NoImage DEF Image, StepShape
<1>6. /\ heap_base \in 0..Pages /\ heap_offset \in Nat /\ builds \in Nat \ {0}
      /\ live \in Nat /\ heapcnt \in Nat
  BY <1>0, <1>1, <1>4 DEF TypeOK, StepShape
<1>7. m \in Built /\ m.build > 0 /\ m.at.page = heap_base /\ m.at.slot = heap_offset /\ m.image = Image
  BY <1>5, <1>6 DEF Built, NewModule
<1> HIDE DEF m
<1>8. all_mods \in Seq(Records) /\ Len(all_mods) \in Nat
  BY <1>1 DEF Shape
<1>9. /\ all_mods' \in Seq(Records) /\ Len(all_mods') = N
      /\ all_mods'[N] = m /\ \A k \in 1..Len(all_mods) : all_mods'[k] = all_mods[k]
  BY <1>3, <1>7, <1>8 DEF Records
<1>10. /\ Made' = Made \cup {N} /\ N \notin Made
       /\ \A k \in Made : all_mods'[k] = all_mods[k]
  <2>1. 1..Len(all_mods') = 1..Len(all_mods) \cup {N} /\ N \notin 1..Len(all_mods)
    BY <1>8, <1>9
  <2> HIDE DEF N
  <2> QED
    BY <1>7, <1>9, <2>1 DEF Made
<1> HIDE DEF N
<1>11. /\ lists' \in [Listed -> Seq(Records)]
       /\ \A u \in Listed : Len(lists'[u]) <= MaxPerType
  <2>1. lists \in [Listed -> Seq(Records)] /\ \A u \in Listed : Len(lists[u]) <= MaxPerType
    BY <1>1 DEF Shape, TypeOK
  <2>2. CASE ~ (t \in Listed /\ Len(lists[t]) < MaxPerType)
    BY <1>3, <2>1, <2>2
  <2>3. CASE t \in Listed /\ Len(lists[t]) < MaxPerType
    <3>1. lists[t] \in Seq(Records) /\ Append(lists[t], m) \in Seq(Records)
          /\ Len(Append(lists[t], m)) = Len(lists[t]) + 1 /\ Len(lists[t]) \in Nat
      BY <1>7, <2>1, <2>3 DEF Records
    <3>2. lists' = [lists EXCEPT ![t] = Append(lists[t], m)]
      BY <1>3, <2>3
    <3>3. Len(lists[t]) + 1 <= MaxPerType
      BY <1>0, <2>3, <3>1
    <3> QED
      BY <2>1, <2>3, <3>1, <3>2, <3>3
  <2> QED
    BY <2>2, <2>3
<1>12. TypeOK'
  <2>1. Len(all_mods') <= MaxMods
    BY <1>0, <1>4, <1>8, <1>9 DEF N
  <2>2. heap_offset' \in 0..HeapSlots /\ {heapcnt', live'} \subseteq Nat
        /\ mem' \in 0..Pages /\ pages' \in ImagePages \cup {0}
    BY <1>0, <1>2, <1>4, <1>6
  <2> QED
    BY <1>1, <1>2, <1>4, <1>11, <2>1, <2>2 DEF TypeOK
<1>13. Shape' /\ StepShape'
  <2>1. \A k \in Made' : all_mods'[k] \in Built
    BY <1>1, <1>7, <1>9, <1>10 DEF Shape
  <2>2. ~Booting /\ ~Booting'
    BY <1>1, <1>4 DEF StepShape, Booting
  <2>3. StepShape'
    BY <1>2, <1>5 DEF StepShape
  <2> QED
    BY <1>9, <1>11, <2>1, <2>2, <2>3 DEF Shape
<1>14. \A k \in Made : all_mods[k].image \cap Image = {}
  <2>1. Image \cap Images = {}
    BY <1>1 DEF PagesAccounted
  <2> QED
    BY <2>1 DEF Images
<1>15. PagesAccounted'
  <2> DEFINE I == {all_mods[k].image : k \in Made}
  <2>1. {all_mods'[k].image : k \in Made'} = I \cup {Image}
    BY <1>7, <1>9, <1>10
  <2>2. Images = UNION I /\ Images' = UNION (I \cup {Image})
    BY <2>1 DEF Images
  <2> HIDE DEF I
  <2>3. Images' = Images \cup Image
    BY <2>2
  <2>4. Accounted(free_pages, heaps, Image, Images, strays)
    BY <1>1, AccountedIs
  <2>5. Accounted(free_pages, heaps, {}, Images \cup Image, strays)
    BY <2>4, Transfers
  <2>6. Accounted(free_pages', heaps', Image', Images', strays')
    BY <1>2, <1>4, <1>5, <2>3, <2>5
  <2> QED
    BY <2>6 DEF PagesAccounted, Accounted
<1>16. ImagesDisjoint'
  <2> SUFFICES ASSUME NEW j \in Made', NEW k \in Made', j # k
               PROVE  all_mods'[j].image \cap all_mods'[k].image = {}
    BY DEF ImagesDisjoint
  <2>1. CASE j \in Made /\ k \in Made
    BY <1>1, <1>10, <2>1 DEF ImagesDisjoint
  <2>2. CASE j = N /\ k \in Made
    BY <1>7, <1>9, <1>10, <1>14, <2>2
  <2>3. CASE k = N /\ j \in Made
    BY <1>7, <1>9, <1>10, <1>14, <2>3
  <2> QED
    BY <1>10, <2>1, <2>2, <2>3
<1>17. HeadersTaken'
  BY <1>1, <1>2, <1>4, <1>5, <1>7, <1>9, <1>10 DEF HeadersTaken
<1>18. ASSUME ~PageFailures PROVE HeadersBelow' /\ HeadersDisjoint'
  <2>1. HeadersBelow /\ HeadersDisjoint
    BY <1>18 DEF IInv
  <2>2. \A k \in Made : all_mods[k].at.page = heap_base => all_mods[k].at.slot < heap_offset
    BY <1>4, <2>1 DEF HeadersBelow
  <2>3. \A k \in Made : all_mods[k].at.slot \in Nat
    BY <1>1 DEF Shape, Built
  <2>4. HeadersBelow'
    <3> SUFFICES ASSUME NEW k \in Made', all_mods'[k].at.page = heap_base
                 PROVE  all_mods'[k].at.slot < heap_offset + 1
      BY <1>4 DEF HeadersBelow
    <3>1. CASE k \in Made
      BY <1>6, <1>10, <2>2, <2>3, <3>1
    <3>2. CASE k = N
      BY <1>6, <1>7, <1>9, <3>2
    <3> QED
      BY <1>10, <3>1, <3>2
  <2>5. \A k \in Made : all_mods[k].at # m.at
    <3> SUFFICES ASSUME NEW k \in Made, all_mods[k].at = m.at PROVE FALSE
      OBVIOUS
    <3>1. all_mods[k].at.page = heap_base /\ all_mods[k].at.slot = heap_offset
      BY <1>7
    <3> QED
      BY <1>6, <2>2, <3>1
  <2>6. HeadersDisjoint'
    <3> SUFFICES ASSUME NEW j \in Made', NEW k \in Made', j # k
                 PROVE  all_mods'[j].at # all_mods'[k].at
      BY <1>16 DEF HeadersDisjoint, ImagesDisjoint
    <3>1. CASE j \in Made /\ k \in Made
      BY <1>10, <2>1, <3>1 DEF HeadersDisjoint
    <3>2. CASE j = N /\ k \in Made
      BY <1>9, <1>10, <2>5, <3>2
    <3>3. CASE k = N /\ j \in Made
      BY <1>9, <1>10, <2>5, <3>3
    <3> QED
      BY <1>10, <3>1, <3>2, <3>3
  <2> QED
    BY <2>4, <2>6
<1> QED
  BY <1>12, <1>13, <1>15, <1>16, <1>17, <1>18 DEF IInv

\* Every operation of the registry preserves the invariant.
LEMMA NextIInv == IInv /\ [Next]_vars => IInv'
<1> SUFFICES ASSUME IInv, [Next]_vars PROVE IInv'
  OBVIOUS
<1>1. CASE RegisterBuiltin
  BY <1>1, RegisterStep
<1>2. CASE MakeUnread \/ MakeBadMagic \/ MakeRegistryFull \/ MakeNoHeader
  BY <1>2, MakeGivesUpStep
<1>6. CASE MakeRefused \/ MakeNoMemory
  BY <1>6, MakeRefusedStep
<1>7. CASE MakeTakesPages
  BY <1>7, MakeTakesPagesStep
<1>8. CASE MakeReads
  BY <1>8, MakeReadsStep
<1>3. CASE \E n \in Names, t \in Types \ {"heap"} : MakeRegisters(n, t)
  BY <1>3, MakeRegistersStep
<1>4. CASE \E n \in Names \cup {Heap} : Load(n)
  BY <1>4, LoadStep
<1>5. CASE UNCHANGED vars \/ \E n \in Names \cup {Heap} : LoadFails(n)
  <2>1. UNCHANGED vars
    BY <1>5 DEF LoadFails
  <2>2. /\ UNCHANGED <<all_mods, lists, heap_base, heap_offset, heaps, heapcnt, free_pages, boot>>
        /\ UNCHANGED <<builds, step, mem, pages, strays, live>> /\ UNCHANGED registry
    BY <2>1 DEF vars, heap_vars, make_vars, registry
  <2>3. TypeOK'
    BY <2>2 DEF IInv, TypeOK
  <2>4. heap_offset' \in 0..HeapSlots /\ heap_offset' >= heap_offset
    BY <2>2 DEF IInv, TypeOK
  <2>5. /\ Made' = Made /\ Images' = Images /\ Shape' /\ ImagesDisjoint'
        /\ ~PageFailures => HeadersBelow' /\ HeadersDisjoint'
    BY <2>2, <2>4, NoNewHeader
  <2>6. Image' = Image
    BY <2>2 DEF Image
  <2>7. StepShape' /\ PagesAccounted' /\ HeadersTaken'
    BY <2>2, <2>5, <2>6 DEF IInv, StepShape, Booting, PagesAccounted, HeadersTaken
  <2> QED
    BY <2>3, <2>5, <2>7 DEF IInv
<1> QED
  BY <1>1, <1>2, <1>3, <1>4, <1>5, <1>6, <1>7, <1>8 DEF Next

\* The invariant holds in every reachable state of the registry.
THEOREM Invariance == Spec => []IInv
BY InitIInv, NextIInv, PTL DEF Spec

-----------------------------------------------------------------------------
\* all_mods, the lists and the heap's page never overflow.
THEOREM Typing == Spec => []TypeOK
<1>1. IInv => TypeOK
  BY DEF IInv
<1> QED
  BY <1>1, Invariance, PTL

\* Through every early return of makemod, and also when alloc_page fails in
\* between: each page is free or has one owner, or is one of those that read_file
\* did not give back.
THEOREM Accounting == Spec => []PagesAccounted
<1>1. IInv => PagesAccounted
  BY DEF IInv
<1> QED
  BY <1>1, Invariance, PTL

\* As long as alloc_page fails only when no page is free, loading the heap again
\* never lets two modules share a header, and no two share an image.
THEOREM Disjoint ==
  ASSUME ~PageFailures
  PROVE  Spec => []HeadersDisjoint
<1>1. IInv => HeadersDisjoint
  BY DEF IInv
<1> QED
  BY <1>1, Invariance, PTL
=============================================================================

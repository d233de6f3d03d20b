---------------------------- MODULE Tasks_proofs ----------------------------
(***************************************************************************)
(* Proofs about tasks and the scheduler, for every number of tasks, every  *)
(* size of the queue and every number of swaps, with the timer striking    *)
(* between any two steps.                                                  *)
(***************************************************************************)
EXTENDS Tasks, WellFoundedInduction, TLAPS

KernelPoints == {"modules", "init_tasks", "add", "add_slot", "add_count", "create", "link", "halt"}

Startup == {"modules", "init_tasks"}

\* Where kernel_main and the tasks it has created can be.
ControlInv ==
  /\ progress[0] \in KernelPoints
  /\ \A t \in Task : t > next_pid => progress[t] = "none"
  /\ \A t \in Task \ {0} : progress[t] \in {"none", "entry", "prompt", "program", "work"}
  /\ progress[0] \in Startup => curr_task = NoTask /\ next_pid = 0 /\ cpu.task = 0
  /\ progress[0] \notin Startup =>
       /\ curr_task # NoTask /\ sched_on
       /\ state[0] > 0
       /\ list # <<>> /\ list[1] = 0
  /\ progress[0] = "init_tasks" => sched_on
  /\ progress[0] = "link" => next_pid > 0
  /\ next_pid = 0 => ~early

\* kernel_main itself is the first of the queue as soon as there is another task:
\* the scan for a live task always finds one.
HeadInv ==
  /\ next_pid > 0 \/ progress[0] \in {"create", "link", "halt"} =>
       queue_count > 0 /\ ready_queue[0] = 0
  /\ progress[0] \in {"add_slot", "add_count"} /\ next_pid > 0 => add_idx > 0

\* Tasks that kernel_main has linked, and tasks whose slot it has filled.
Linked ==
  IF progress[0] \in Startup THEN 0
  ELSE IF progress[0] = "create" \/ next_pid = 0 THEN next_pid + 1 ELSE next_pid

Offered ==
  IF progress[0] \in Startup THEN 0
  ELSE IF progress[0] \in {"add", "add_slot"} THEN next_pid ELSE next_pid + 1

\* Until kernel_main is done, the master list and the queue are filled in the
\* order of creation, if no swap came in between.
BuildInv ==
  ~early /\ progress[0] # "halt" =>
    /\ Len(list) = Linked /\ \A k \in 1..Len(list) : list[k] = k - 1
    /\ \A k \in Indices : ready_queue[k] = IF k < Offered THEN k ELSE NoTask
    /\ queue_count = IF progress[0] = "add_slot" THEN next_pid + 1
                     ELSE IF progress[0] = "add_count" THEN next_pid
                     ELSE AtMostQueue(Offered)
    /\ progress[0] \in {"add_slot", "add_count"} => add_idx = next_pid

\* Afterwards the master list has no task twice.
DoneInv ==
  ~early /\ progress[0] = "halt" =>
    \A j, k \in 1..Len(list) : list[j] = list[k] => j = k

IInv ==
  /\ TypeOK /\ ContextsPreserved
  /\ ControlInv /\ HeadInv /\ BuildInv /\ DoneInv
  /\ SchedulerSound

-----------------------------------------------------------------------------
(* Facts about numbers and sequences.                                      *)

\* Induction over the natural numbers, for a set.
LEMMA Induction ==
  ASSUME NEW S, 0 \in S, \A n \in Nat : n \in S => n + 1 \in S
  PROVE  \A n \in Nat : n \in S
<1> DEFINE R == {ss \in Nat \X Nat : ss[1] < ss[2]}
           B == Nat \ S
<1>1. IsWellFoundedOn(R, Nat)
  BY NatLessThanWellFounded, Zenon DEF OpToRel
<1> HIDE DEF R
<1> SUFFICES ASSUME B # {} PROVE FALSE
  OBVIOUS
<1>2. B \subseteq Nat
  OBVIOUS
<1>3. PICK x \in B : \A y \in B : ~ (<<y, x>> \in R)
  BY <1>1, <1>2, WFMin
<1>4. \A a, b \in Nat : ~ (<<a, b>> \in R) => b <= a
  BY DEF R
<1>5. x \in Nat /\ x # 0 /\ x - 1 \in Nat
  BY <1>3
<1>6. x - 1 \in B
  BY <1>3, <1>5
<1>7. ~ (<<x - 1, x>> \in R)
  BY <1>3, <1>6
<1>8. x <= x - 1
  BY <1>4, <1>5, <1>7
<1> QED
  BY <1>5, <1>8

\* A non-empty set of numbers has a least element, and Nearest is it.
LEMMA NearestInSet ==
  ASSUME NEW S \in SUBSET Nat, S # {}
  PROVE  Nearest(S) \in S
<1> DEFINE R == {ss \in Nat \X Nat : ss[1] < ss[2]}
<1>1. IsWellFoundedOn(R, Nat)
  BY NatLessThanWellFounded, Zenon DEF OpToRel
<1> HIDE DEF R
<1>2. PICK x \in S : \A y \in S : ~ (<<y, x>> \in R)
  BY <1>1, WFMin
<1>3. \A a, b \in Nat : ~ (<<a, b>> \in R) => b <= a
  BY DEF R
<1>4. \A y \in S : x <= y
  BY <1>2, <1>3
<1> QED
  BY <1>4 DEF Nearest

\* The recursive walk of Kept is well defined.
LEMMA KeptWalk ==
  ASSUME NEW T, NEW s \in Seq(T), NEW L
  PROVE  \E f : /\ f[Len(s)] = Kept(s, L)
                /\ f[0] = <<>>
                /\ \A k \in 1..Len(s) :
                     f[k] = IF s[k] \in L THEN Append(f[k - 1], s[k]) ELSE f[k - 1]
<1> DEFINE N == Len(s)
           Body(g, k) == IF k = 0 THEN <<>>
                         ELSE IF s[k] \in L THEN Append(g[k - 1], s[k]) ELSE g[k - 1]
           S == {n \in Nat : n <= N => \E g : g = [k \in 0..n |-> Body(g, k)]}
<1>0. N \in Nat
  OBVIOUS
<1>1. 0 \in S
  <2> DEFINE g0 == [k \in 0..0 |-> <<>>]
  <2>1. g0 = [k \in 0..0 |-> Body(g0, k)]
    OBVIOUS
  <2> QED
    BY <2>1
<1>2. ASSUME NEW n \in Nat, n \in S PROVE n + 1 \in S
  <2>0. n + 1 \in Nat
    OBVIOUS
  <2> SUFFICES ASSUME n + 1 <= N
               PROVE  \E g : g = [k \in 0..(n + 1) |-> Body(g, k)]
    BY <2>0
  <2>1. \E g : g = [k \in 0..n |-> Body(g, k)]
    <3>1. n <= N
      BY <1>0
    <3> QED
      BY <1>2, <3>1
  <2>2. PICK g : g = [k \in 0..n |-> Body(g, k)]
    BY <2>1
  <2>3. \A k \in 0..n : g[k] = Body(g, k)
    BY <2>2
  <2> DEFINE h == [k \in 0..(n + 1) |-> IF k = n + 1 THEN Body(g, n + 1) ELSE g[k]]
  <2>4. ASSUME NEW k \in 0..(n + 1) PROVE h[k] = Body(h, k)
    <3>1. CASE k = 0
      BY <2>3, <3>1
    <3>2. CASE k # 0
      <4>1. h[k - 1] = g[k - 1] /\ k - 1 \in 0..n
        BY <3>2
      <4>2. Body(h, k) = Body(g, k)
        BY <4>1
      <4>3. CASE k = n + 1
        BY <4>2, <4>3
      <4>4. CASE k # n + 1
        BY <2>3, <4>2, <4>4
      <4> QED
        BY <4>3, <4>4
    <3> QED
      BY <3>1, <3>2
  <2>5. h = [k \in 0..(n + 1) |-> Body(h, k)]
    BY <2>4, Zenon
  <2> QED
    BY <2>5
<1> HIDE DEF S
<1>3. N \in S
  BY <1>0, <1>1, <1>2, Induction
<1>4. \E g : g = [k \in 0..N |-> Body(g, k)]
  BY <1>0, <1>3 DEF S
<1> DEFINE f == CHOOSE h : h = [k \in 0..N |-> Body(h, k)]
<1>5. f = [k \in 0..N |-> Body(f, k)]
  BY <1>4, Zenon
<1>6. f[N] = Kept(s, L)
  BY DEF Kept
<1> HIDE DEF f
<1>7. \A k \in 0..N : f[k] = Body(f, k)
  BY <1>5
<1>8. f[0] = <<>> /\ \A k \in 1..N :
        f[k] = IF s[k] \in L THEN Append(f[k - 1], s[k]) ELSE f[k - 1]
  BY <1>0, <1>7
<1> QED
  BY <1>6, <1>8

\* Kept(s, L) has exactly the members of s that are in L, keeps s free of
\* repetitions, and keeps the first member first.
LEMMA KeptSpec ==
  ASSUME NEW T, NEW s \in Seq(T), NEW L
  PROVE  /\ Kept(s, L) \in Seq(T)
         /\ \A v : (\E j \in 1..Len(Kept(s, L)) : Kept(s, L)[j] = v)
                     <=> (v \in L /\ \E i \in 1..Len(s) : s[i] = v)
         /\ (\A i, j \in 1..Len(s) : s[i] = s[j] => i = j) =>
              \A i, j \in 1..Len(Kept(s, L)) : Kept(s, L)[i] = Kept(s, L)[j] => i = j
         /\ s # <<>> /\ s[1] \in L => Kept(s, L) # <<>> /\ Kept(s, L)[1] = s[1]
<1>1. PICK f : /\ f[Len(s)] = Kept(s, L)
               /\ f[0] = <<>>
               /\ \A k \in 1..Len(s) : f[k] = IF s[k] \in L THEN Append(f[k - 1], s[k]) ELSE f[k - 1]
  BY KeptWalk
<1> DEFINE N == Len(s)
           Good(n) ==
             /\ f[n] \in Seq(T)
             /\ \A v : (\E j \in 1..Len(f[n]) : f[n][j] = v) <=> (v \in L /\ \E i \in 1..n : s[i] = v)
             /\ (\A i, j \in 1..N : s[i] = s[j] => i = j) =>
                  \A i, j \in 1..Len(f[n]) : f[n][i] = f[n][j] => i = j
             /\ n > 0 /\ s[1] \in L => Len(f[n]) > 0 /\ f[n][1] = s[1]
           S == {n \in Nat : n <= N => Good(n)}
<1>2. 0 \in S
  <2>1. f[0] \in Seq(T) /\ Len(f[0]) = 0
    BY <1>1
  <2>2. \A v : ~ (\E j \in 1..Len(f[0]) : f[0][j] = v) /\ ~ (\E i \in 1..0 : s[i] = v)
    BY <2>1
  <2>3. Good(0)
    BY <2>1, <2>2
  <2> QED
    BY <2>3
<1>3. ASSUME NEW n \in Nat, n \in S PROVE n + 1 \in S
  <2>0. n + 1 \in Nat /\ N \in Nat
    OBVIOUS
  <2> SUFFICES ASSUME n + 1 <= N PROVE Good(n + 1)
    BY <2>0
  <2>1. Good(n)
    <3>1. n <= N
      BY <2>0
    <3> HIDE DEF Good
    <3> QED
      BY <1>3, <3>1
  <2>2. f[n + 1] = IF s[n + 1] \in L THEN Append(f[n], s[n + 1]) ELSE f[n]
    <3>1. n + 1 \in 1..N /\ (n + 1) - 1 = n
      BY <2>0
    <3> QED
      BY <1>1, <3>1
  <2>3. s[n + 1] \in T
    BY <2>0
  <2>4. CASE s[n + 1] \notin L
    <3>1. f[n + 1] = f[n]
      BY <2>2, <2>4
    <3>2. \A v : v \in L => ((\E i \in 1..(n + 1) : s[i] = v) <=> (\E i \in 1..n : s[i] = v))
      BY <2>4
    <3>3. n + 1 > 0 /\ s[1] \in L => n > 0
      BY <2>4
    <3>4. \A v : (\E j \in 1..Len(f[n + 1]) : f[n + 1][j] = v)
                  <=> (v \in L /\ \E i \in 1..(n + 1) : s[i] = v)
      BY <2>1, <3>1, <3>2
    <3>5. n + 1 > 0 /\ s[1] \in L => Len(f[n + 1]) > 0 /\ f[n + 1][1] = s[1]
      BY <2>1, <3>1, <3>3
    <3> QED
      BY <2>1, <3>1, <3>4, <3>5
  <2>5. CASE s[n + 1] \in L
    <3> DEFINE g == f[n]
               h == f[n + 1]
               x == s[n + 1]
    <3>1. /\ h \in Seq(T) /\ Len(h) = Len(g) + 1 /\ h[Len(g) + 1] = x
          /\ \A j \in 1..Len(g) : h[j] = g[j]
          /\ Len(g) \in Nat
      BY <2>1, <2>2, <2>3, <2>5
    <3>2. \A v : (\E j \in 1..Len(h) : h[j] = v) <=> (v \in L /\ \E i \in 1..(n + 1) : s[i] = v)
      <4>1. \A v : (\E j \in 1..Len(h) : h[j] = v) <=> (v = x \/ \E j \in 1..Len(g) : g[j] = v)
        <5>1. \A v : (\E j \in 1..Len(h) : h[j] = v) => (v = x \/ \E j \in 1..Len(g) : g[j] = v)
          <6> SUFFICES ASSUME NEW j \in 1..Len(h), h[j] # x PROVE \E k \in 1..Len(g) : g[k] = h[j]
            OBVIOUS
          <6>1. j \in 1..Len(g)
            BY <3>1
          <6> QED
            BY <3>1, <6>1
        <5>2. \A k \in 1..Len(g) : k \in 1..Len(h) /\ h[k] = g[k]
          BY <3>1
        <5>3. Len(g) + 1 \in 1..Len(h) /\ h[Len(g) + 1] = x
          BY <3>1
        <5> HIDE DEF g, h, x
        <5> QED
          BY <5>1, <5>2, <5>3
      <4>2. \A v : (\E i \in 1..(n + 1) : s[i] = v) <=> (v = x \/ \E i \in 1..n : s[i] = v)
        OBVIOUS
      <4> QED
        BY <2>1, <2>5, <4>1, <4>2
    <3>3. ASSUME \A i, j \in 1..N : s[i] = s[j] => i = j,
                 NEW i \in 1..Len(h), NEW j \in 1..Len(h), h[i] = h[j]
          PROVE  i = j
      <4>1. \A k \in 1..Len(g) : g[k] # x
        <5> SUFFICES ASSUME NEW k \in 1..Len(g), g[k] = x PROVE FALSE
          OBVIOUS
        <5>1. PICK m \in 1..n : s[m] = x
          BY <2>1
        <5>2. m \in 1..N /\ n + 1 \in 1..N /\ m # n + 1
          BY <2>0
        <5> QED
          BY <3>3, <5>1, <5>2
      <4>2. \A k, l \in 1..Len(g) : g[k] = g[l] => k = l
        BY <2>1, <3>3
      <4>3. i \in 1..(Len(g) + 1) /\ j \in 1..(Len(g) + 1)
        BY <3>1
      <4>4. CASE i \in 1..Len(g) /\ j \in 1..Len(g)
        BY <3>1, <3>3, <4>2, <4>4
      <4>5. CASE i = Len(g) + 1 /\ j \in 1..Len(g)
        BY <3>1, <3>3, <4>1, <4>5
      <4>6. CASE j = Len(g) + 1 /\ i \in 1..Len(g)
        BY <3>1, <3>3, <4>1, <4>6
      <4> QED
        BY <3>1, <4>3, <4>4, <4>5, <4>6, SMTT(20)
    <3>4. s[1] \in L => Len(h) > 0 /\ h[1] = s[1]
      <4>1. CASE n > 0
        BY <2>1, <3>1, <4>1
      <4>2. CASE n = 0
        <5>1. Len(g) = 0
          BY <1>1, <4>2
        <5> QED
          BY <3>1, <4>2, <5>1
      <4> QED
        BY <4>1, <4>2
    <3> QED
      BY <3>1, <3>2, <3>3, <3>4
  <2> QED
    BY <2>4, <2>5
<1> HIDE DEF S
<1>4. N \in Nat /\ N \in S
  BY <1>2, <1>3, Induction
<1>5. Good(N)
  BY <1>4 DEF S
<1>6. s # <<>> => N > 0
  OBVIOUS
<1> QED
  <2>1. f[N] = Kept(s, L)
    BY <1>1
  <2>2. s # <<>> /\ s[1] \in L => Kept(s, L) # <<>> /\ Kept(s, L)[1] = s[1]
    <3>1. N > 0 /\ s[1] \in L => Len(Kept(s, L)) > 0 /\ Kept(s, L)[1] = s[1]
      BY <1>5, <2>1, Zenon
    <3>2. Len(Kept(s, L)) > 0 => Kept(s, L) # <<>>
      OBVIOUS
    <3> QED
      BY <1>6, <3>1, <3>2
  <2>3. Kept(s, L) \in Seq(T)
    BY <1>5, <2>1, Zenon
  <2>4. ASSUME NEW v
        PROVE  (\E j \in 1..Len(Kept(s, L)) : Kept(s, L)[j] = v)
                 <=> (v \in L /\ \E i \in 1..N : s[i] = v)
    BY <1>5, <2>1, Zenon
  <2>5. (\A i, j \in 1..N : s[i] = s[j] => i = j) =>
          \A i, j \in 1..Len(Kept(s, L)) : Kept(s, L)[i] = Kept(s, L)[j] => i = j
    BY <1>5, <2>1, Zenon
  <2> QED
    BY <2>2, <2>3, <2>4, <2>5, Zenon

-----------------------------------------------------------------------------
(* The scan and the switch of rr_pick_next and schedule_next_task.         *)

\* The distance to the next multiple of q.
LEMMA NextMultiple ==
  ASSUME NEW q \in Nat \ {0}, NEW a \in Nat
  PROVE  (a + (q - (a % q))) % q = 0
OBVIOUS

\* Full circle brings the scan back to the head of the queue.
LEMMA FullCircle ==
  ASSUME NEW q \in Nat \ {0}, NEW a \in Nat
  PROVE  /\ \A o \in Nat : (a + o) % q \in 0..(q - 1)
         /\ \E o \in 1..q : (a + o) % q = 0
<1>1. \A o \in Nat : (a + o) % q \in 0..(q - 1)
  OBVIOUS
<1>2. q - (a % q) \in 1..q
  <2>1. a % q \in 0..(q - 1)
    OBVIOUS
  <2>2. \A r \in 0..(q - 1) : q - r \in 1..q
    OBVIOUS
  <2> QED
    BY <2>1, <2>2, Zenon
<1>3. (a + (q - (a % q))) % q = 0
  BY NextMultiple
<1> QED
  BY <1>1, <1>2, <1>3

\* rr_pick_next returns a live task if the current one is alive or the head of the
\* queue is kernel_main and alive.
LEMMA PickLive ==
  ASSUME TypeOK, NEW st \in [Task -> 0..2], curr_task \in Task,
         st[curr_task] > 0 \/ (queue_count > 0 /\ ready_queue[0] = 0 /\ st[0] > 0)
  PROVE  PickedIdx(st) \in Indices /\ Picked(st) \in Task /\ st[Picked(st)] > 0
<1> DEFINE P == Pickable(st)
<1>0. queue_count \in Nat /\ current_idx \in Nat /\ MaxQueue \in Nat \ {0} /\ queue_count <= MaxQueue
  BY TasksAssumption DEF TypeOK, Indices
<1>a. 0 \in Task /\ NoTask \notin Task
  BY TasksAssumption DEF Task, NoTask
<1>1. CASE queue_count = 0
  <2>1. PickedIdx(st) = current_idx /\ Picked(st) = curr_task
    BY <1>1 DEF PickedIdx, Picked
  <2>2. st[curr_task] > 0
    BY <1>1
  <2> QED
    BY <2>1, <2>2 DEF TypeOK
<1>2. CASE queue_count # 0
  <2>1. /\ \A o \in Nat : (current_idx + o) % queue_count \in 0..(queue_count - 1)
        /\ \E o \in 1..queue_count : (current_idx + o) % queue_count = 0
    BY <1>0, <1>2, FullCircle
  <2>2. 0..(queue_count - 1) \subseteq Indices
    BY <1>0 DEF Indices
  <2>3. CASE P = {}
    <3>1. Picked(st) = curr_task /\ PickedIdx(st) = (current_idx + queue_count) % queue_count
      BY <1>2, <2>3 DEF PickedIdx, Picked
    <3>2. PickedIdx(st) \in Indices
      BY <1>0, <2>1, <2>2, <3>1
    <3>3. ~ (ready_queue[0] = 0 /\ st[0] > 0)
      <4> SUFFICES ASSUME ready_queue[0] = 0, st[0] > 0 PROVE FALSE
        OBVIOUS
      <4>1. PICK o \in 1..queue_count : (current_idx + o) % queue_count = 0
        BY <2>1
      <4>2. Ahead(o) = 0
        BY <4>1 DEF Ahead
      <4>3. o \in P
        BY <4>2, <1>a DEF Pickable
      <4> QED
        BY <2>3, <4>3
    <3> QED
      BY <3>1, <3>2, <3>3
  <2>4. CASE P # {}
    <3>1. P \in SUBSET Nat
      BY <1>0 DEF Pickable
    <3> DEFINE o == Nearest(P)
    <3>2. o \in P
      BY <2>4, <3>1, NearestInSet
    <3> HIDE DEF o
    <3>3. o \in 1..queue_count /\ Ahead(o) # NoTask /\ st[Ahead(o)] > 0
      BY <3>2 DEF Pickable
    <3>4. PickedIdx(st) = (current_idx + o) % queue_count
      BY <1>2, <2>4 DEF PickedIdx, o
    <3>5. Picked(st) = Ahead(o)
      BY <1>2, <2>4, <3>4 DEF Picked, Ahead
    <3>6. PickedIdx(st) \in Indices
      BY <1>0, <2>1, <2>2, <3>3, <3>4
    <3>7. Ahead(o) \in Task
      BY <3>3, <3>4, <3>6 DEF Ahead, TypeOK
    <3> QED
      BY <3>3, <3>5, <3>6, <3>7
  <2> QED
    BY <2>3, <2>4
<1> QED
  BY <1>1, <1>2

\* Points and contexts: what TypeOK and ContextsPreserved say of a step that only
\* moves the running task on.
LEMMA GotoStep ==
  ASSUME TypeOK, ContextsPreserved,
         NEW t \in Task, NEW x, NEW p \in Points, At(t, x), Goto(p),
         reg' = reg, curr_task' = curr_task \/ curr_task' = t
  PROVE  /\ progress[t] = x /\ cpu.task = t
         /\ cpu' = Context(t, p) /\ cpu' \in Contexts
         /\ progress' = [progress EXCEPT ![t] = p] /\ progress' \in [Task -> Points]
         /\ progress'[t] = p /\ \A u \in Task \ {t} : progress'[u] = progress[u]
         /\ ContextsPreserved'
<1>1. cpu = [task |-> t, at |-> x] /\ progress[t] = x
  BY DEF At, Context, ContextsPreserved
<1>2. cpu' = Context(t, p) /\ cpu' \in Contexts
  BY <1>1 DEF Goto, Context, Contexts
<1>3. progress' = [progress EXCEPT ![t] = p] /\ progress' \in [Task -> Points]
  BY <1>1 DEF Goto, TypeOK
<1>4. progress'[t] = p /\ \A u \in Task \ {t} : progress'[u] = progress[u]
  BY <1>3 DEF TypeOK
<1>5. curr_task' # NoTask => cpu'.task = curr_task'
  BY <1>1, <1>2 DEF ContextsPreserved, Context
<1>6. cpu'.at = progress'[cpu'.task]
  BY <1>2, <1>4 DEF Context
<1>7. \A u \in Task : u # cpu'.task => reg'[u] = Context(u, progress'[u])
  BY <1>1, <1>2, <1>4 DEF ContextsPreserved, Context
<1> QED
  BY <1>1, <1>2, <1>3, <1>4, <1>5, <1>6, <1>7 DEF ContextsPreserved

\* schedule_next_task saves one context and resumes another: no context is lost or
\* mixed up, and the task it resumes is alive.
LEMMA ScheduleStep ==
  ASSUME TypeOK, ContextsPreserved, ControlInv, HeadInv,
         NEW st \in [Task -> 0..2], ScheduleNextTask(st), progress' = progress,
         curr_task # NoTask =>
           st[curr_task] > 0 \/ (queue_count > 0 /\ ready_queue[0] = 0 /\ st[0] > 0)
  PROVE  /\ ready_queue' = ready_queue /\ queue_count' = queue_count
         /\ current_idx' \in Indices
         /\ curr_task' \in Task \cup {NoTask}
         /\ curr_task' = NoTask <=> curr_task = NoTask
         /\ curr_task = NoTask => cpu' = cpu
         /\ curr_task' # NoTask => st[curr_task'] > 0
         /\ reg' \in [Task -> Contexts] /\ cpu' \in Contexts
         /\ ContextsPreserved'
<1>a. NoTask \notin Task
  BY TasksAssumption DEF Task, NoTask
<1>b. curr_task = NoTask \/ curr_task \in Task
  BY DEF TypeOK
<1>1. CASE curr_task = NoTask
  <2>1. UNCHANGED <<queue_vars, curr_task, reg, cpu>>
    BY <1>1 DEF ScheduleNextTask
  <2>2. ContextsPreserved'
    BY <2>1 DEF ContextsPreserved
  <2> QED
    BY <1>1, <2>1, <2>2 DEF TypeOK, queue_vars
<1>2. CASE curr_task # NoTask
  <2>1. sched_on
    BY <1>2 DEF ControlInv
  <2> DEFINE p == Picked(st)
  <2>2. /\ current_idx' = PickedIdx(st)
        /\ reg' = [reg EXCEPT ![curr_task] = cpu]
        /\ curr_task' = p /\ cpu' = reg'[p]
        /\ ready_queue' = ready_queue /\ queue_count' = queue_count
    BY <1>2, <2>1 DEF ScheduleNextTask
  <2>3. PickedIdx(st) \in Indices /\ p \in Task /\ st[p] > 0
    BY <1>b, <1>2, PickLive
  <2> HIDE DEF p
  <2>4. cpu = Context(curr_task, progress[curr_task])
    BY <1>2 DEF ContextsPreserved, TypeOK, Contexts, Context
  <2>5. \A t \in Task : reg'[t] = Context(t, progress[t])
    BY <1>b, <1>2, <2>2, <2>4 DEF ContextsPreserved, TypeOK
  <2>6. cpu' = Context(p, progress[p])
    BY <2>2, <2>3, <2>5
  <2>7. ContextsPreserved'
    BY <2>2, <2>3, <2>5, <2>6 DEF ContextsPreserved, Context
  <2>8. reg' \in [Task -> Contexts] /\ cpu' \in Contexts
    BY <2>2, <2>3, <1>b, <1>2 DEF TypeOK
  <2> QED
    BY <1>2, <1>a, <2>2, <2>3, <2>7, <2>8
<1> QED
  BY <1>1, <1>2

-----------------------------------------------------------------------------
(* The invariant is inductive.                                             *)

\* kernel_main at the entry of its module loop satisfies the invariant.
LEMMA InitIInv == Init => IInv
<1> SUFFICES ASSUME Init PROVE IInv
  OBVIOUS
<1> USE DEF Init
<1>0. 0 \in Task /\ NTasks \in Nat \ {0} /\ MaxQueue \in Nat \ {0} /\ 0 \in Indices /\ NoTask \notin Task
  BY TasksAssumption DEF Task, Indices, NoTask
<1>1. TypeOK
  <2>1. sched_on \in BOOLEAN /\ early \in BOOLEAN
    OBVIOUS
  <2>2. /\ ready_queue \in [Indices -> Task \cup {NoTask}]
        /\ queue_count \in 0..MaxQueue /\ current_idx \in Indices
        /\ curr_task \in Task \cup {NoTask}
        /\ list \in Seq(Task) /\ next_pid \in Task
        /\ state \in [Task -> 0..2]
        /\ add_idx \in Indices /\ swaps \in Nat
    BY <1>0
  <2>3. reg \in [Task -> Contexts] /\ cpu \in Contexts /\ progress \in [Task -> Points]
    BY <1>0 DEF Contexts, Context, Points
  <2> QED
    BY <2>1, <2>2, <2>3 DEF TypeOK
<1>2. ContextsPreserved
  BY <1>0 DEF ContextsPreserved, Context
<1>3. progress[0] = "modules"
  BY <1>0
<1>4. ControlInv
  BY <1>0, <1>3 DEF ControlInv, KernelPoints, Startup, Context, Task
<1>5. HeadInv
  BY <1>3 DEF HeadInv
<1>6. BuildInv
  <2>1. Linked = 0 /\ Offered = 0 /\ AtMostQueue(0) = 0
    BY <1>0, <1>3 DEF Linked, Offered, Startup, AtMostQueue
  <2> QED
    BY <1>0, <1>3, <2>1 DEF BuildInv, Indices
<1>7. DoneInv
  BY <1>3 DEF DoneInv
<1>8. SchedulerSound
  BY <1>3 DEF SchedulerSound, NoDeadTaskRuns, QueuedOnce, NoTaskLost, NoTaskEverLost
<1> QED
  BY <1>1, <1>2, <1>4, <1>5, <1>6, <1>7, <1>8 DEF IInv

\* Facts about the constants.
LEMMA Basics ==
  /\ NTasks \in Nat \ {0} /\ MaxQueue \in Nat \ {0}
  /\ 0 \in Task /\ 1 \in Task /\ NoTask \notin Task /\ 0 \in Indices
  /\ \A t \in Task : t \in Nat
  /\ AtMostQueue(0) = 0
BY TasksAssumption DEF Task, Indices, NoTask, AtMostQueue

\* While kernel_main still creates tasks, soundness of the scheduler follows from
\* the shape of the queue.
LEMMA StillBuilding ==
  ASSUME IInv, TypeOK', ContextsPreserved', ControlInv', HeadInv', BuildInv',
         progress'[0] # "halt", NoDeadTaskRuns'
  PROVE  IInv'
<1>1. DoneInv'
  BY DEF DoneInv
<1>2. NoTaskLost'
  BY DEF NoTaskLost, NoTaskEverLost
<1>3. QueuedOnce'
  <2> SUFFICES ASSUME ~early', NEW j \in 0..(queue_count' - 1), NEW k \in 0..(queue_count' - 1),
                      ready_queue'[j] = ready_queue'[k], ready_queue'[j] # NoTask
               PROVE  j = k
    BY DEF QueuedOnce
  <2>0. queue_count' \in 0..MaxQueue /\ MaxQueue \in Nat
    BY Basics DEF TypeOK
  <2>1. j \in Indices /\ k \in Indices
    <3>1. \A c \in 0..MaxQueue : \A i \in 0..(c - 1) : i \in 0..(MaxQueue - 1)
      BY <2>0
    <3> QED
      BY <2>0, <3>1 DEF Indices
  <2>2. \A i \in Indices : ready_queue'[i] = i \/ ready_queue'[i] = NoTask
    BY DEF BuildInv
  <2> QED
    BY <2>1, <2>2
<1> QED
  BY <1>1, <1>2, <1>3 DEF IInv, SchedulerSound

\* A step that leaves the queue, the master list and kernel_main's progress alone.
LEMMA QueueUntouched ==
  ASSUME IInv, UNCHANGED <<ready_queue, queue_count, list, next_pid, add_idx, early>>,
         progress'[0] = progress[0]
  PROVE  HeadInv' /\ BuildInv' /\ DoneInv' /\ QueuedOnce'
<1>1. Linked' = Linked /\ Offered' = Offered /\ AtMostQueue(Offered)' = AtMostQueue(Offered)
  BY DEF Linked, Offered, AtMostQueue
<1>2. HeadInv'
  BY DEF IInv, HeadInv
<1>3. BuildInv'
  BY <1>1 DEF IInv, BuildInv
<1>4. DoneInv'
  BY DEF IInv, DoneInv
<1>5. QueuedOnce'
  BY DEF IInv, SchedulerSound, QueuedOnce
<1> QED
  BY <1>2, <1>3, <1>4, <1>5

\* The steps of kernel_main up to the first rr_add_task.
LEMMA EarlySteps ==
  ASSUME IInv, RegisterScheduler \/ InitTasks
  PROVE  IInv'
<1> USE Basics
<1>0. TypeOK /\ ContextsPreserved /\ ControlInv /\ BuildInv
  BY DEF IInv
<1>1. CASE RegisterScheduler
  <2>1. /\ progress[0] = "modules" /\ progress' = [progress EXCEPT ![0] = "init_tasks"]
        /\ progress' \in [Task -> Points] /\ cpu' \in Contexts /\ cpu'.task = 0
        /\ progress'[0] = "init_tasks" /\ \A u \in Task \ {0} : progress'[u] = progress[u]
        /\ ContextsPreserved'
    BY <1>0, <1>1, GotoStep DEF RegisterScheduler, Points, Context
  <2>2. TypeOK'
    BY <1>0, <1>1, <2>1 DEF RegisterScheduler, TypeOK
  <2>3. ControlInv'
    BY <1>0, <1>1, <2>1 DEF RegisterScheduler, ControlInv, KernelPoints, Startup
  <2>4. HeadInv'
    BY <1>0, <1>1, <2>1 DEF RegisterScheduler, HeadInv, ControlInv, Startup
  <2>5. BuildInv'
    <3>1. Linked = 0 /\ Offered = 0 /\ Linked' = 0 /\ Offered' = 0
      BY <2>1 DEF Linked, Offered, Startup
    <3> QED
      BY <1>0, <1>1, <2>1, <3>1 DEF RegisterScheduler, BuildInv, AtMostQueue
  <2>6. NoDeadTaskRuns'
    BY <1>1 DEF IInv, SchedulerSound, NoDeadTaskRuns, RegisterScheduler
  <2> QED
    BY <2>1, <2>2, <2>3, <2>4, <2>5, <2>6, StillBuilding
<1>2. CASE InitTasks
  <2>1. /\ progress[0] = "init_tasks" /\ progress' = [progress EXCEPT ![0] = "add"]
        /\ progress' \in [Task -> Points] /\ cpu' \in Contexts /\ cpu'.task = 0
        /\ progress'[0] = "add" /\ \A u \in Task \ {0} : progress'[u] = progress[u]
        /\ ContextsPreserved'
    BY <1>0, <1>2, GotoStep DEF InitTasks, Points, Context
  <2>2. TypeOK'
    BY <1>0, <1>2, <2>1 DEF InitTasks, TypeOK, queue_vars
  <2>3. ControlInv'
    BY <1>0, <1>2, <2>1 DEF InitTasks, ControlInv, KernelPoints, Startup, TypeOK
  <2>4. HeadInv'
    BY <1>0, <1>2, <2>1 DEF InitTasks, HeadInv, ControlInv, Startup
  <2>5. BuildInv'
    <3>1. Offered = 0 /\ Linked' = 1 /\ Offered' = 0
      BY <1>0, <1>2, <2>1 DEF Linked, Offered, Startup, ControlInv, InitTasks
    <3> QED
      BY <1>0, <1>2, <2>1, <3>1 DEF InitTasks, BuildInv, AtMostQueue, queue_vars
  <2>6. NoDeadTaskRuns'
    BY <1>0, <1>2 DEF NoDeadTaskRuns, InitTasks, TypeOK
  <2> QED
    BY <2>1, <2>2, <2>3, <2>4, <2>5, <2>6, StillBuilding
<1> QED
  BY <1>1, <1>2

\* rr_add_task: kernel_main's own entry fills slot 0, every later one a later slot,
\* wherever the timer interrupts it.
LEMMA AddSteps ==
  ASSUME IInv, \/ AddDropped \/ AddCountFirst \/ AddSlotSecond \/ AddSlotFirst \/ AddCountSecond
  PROVE  IInv'
<1> USE Basics
<1>0. TypeOK /\ ContextsPreserved /\ ControlInv /\ HeadInv /\ BuildInv
  BY DEF IInv
<1> DEFINE after == AfterAdd
<1>a. after \in {"create", "link"} /\ (next_pid = 0 <=> after = "create")
  BY DEF AfterAdd, Adding
<1>b. next_pid \in Nat /\ queue_count \in Nat /\ queue_count <= MaxQueue /\ add_idx \in 0..(MaxQueue - 1)
  BY <1>0 DEF TypeOK, Indices
<1>c. sched_on \in BOOLEAN /\ early \in BOOLEAN
  BY <1>0 DEF TypeOK
<1> HIDE DEF after
<1>1. CASE AddDropped
  <2>1. /\ progress[0] = "add" /\ progress' \in [Task -> Points] /\ cpu' \in Contexts /\ cpu'.task = 0
        /\ progress'[0] = after /\ \A u \in Task \ {0} : progress'[u] = progress[u]
        /\ ContextsPreserved'
    BY <1>0, <1>1, <1>a, GotoStep DEF AddDropped, Points, Context, after
  <2>2. Offered = next_pid
    BY <2>1 DEF Offered, Startup
  <2>3. next_pid > 0
    <3> SUFFICES ASSUME next_pid = 0 PROVE FALSE
      BY <1>b
    <3>1. queue_count = 0
      BY <1>0, <2>1, <2>2 DEF ControlInv, BuildInv
    <3> QED
      BY <1>1, <3>1 DEF AddDropped
  <2>4. progress'[0] = "link"
    BY <1>a, <1>b, <2>1, <2>3
  <2>5. TypeOK'
    BY <1>0, <1>1, <2>1 DEF AddDropped, TypeOK, queue_vars
  <2>6. ControlInv'
    BY <1>0, <1>1, <2>1, <2>3, <2>4 DEF AddDropped, ControlInv, KernelPoints, Startup
  <2>7. HeadInv'
    BY <1>0, <1>1, <2>3, <2>4 DEF AddDropped, HeadInv, queue_vars
  <2>8. BuildInv'
    <3>1. Linked' = Linked /\ Offered' = next_pid + 1
      BY <1>1, <1>b, <2>1, <2>3, <2>4 DEF Linked, Offered, Startup, AddDropped
    <3> SUFFICES ASSUME ~early PROVE
           /\ \A k \in Indices : ready_queue[k] = IF k < next_pid + 1 THEN k ELSE NoTask
           /\ queue_count = AtMostQueue(next_pid + 1)
      BY <1>0, <1>1, <2>1, <2>4, <3>1 DEF BuildInv, AddDropped, queue_vars, AtMostQueue
    <3>2. queue_count = AtMostQueue(next_pid) /\ queue_count >= MaxQueue
      BY <1>0, <1>1, <2>1, <2>2 DEF BuildInv, AddDropped
    <3>3. next_pid >= MaxQueue /\ queue_count = MaxQueue
      BY <1>b, <3>2 DEF AtMostQueue
    <3>4. \A k \in Indices : ready_queue[k] = k /\ k < next_pid + 1
      BY <1>0, <1>b, <2>1, <2>2, <3>3 DEF BuildInv, Indices
    <3> QED
      BY <1>b, <3>3, <3>4 DEF AtMostQueue
  <2>9. NoDeadTaskRuns'
    BY <1>1 DEF IInv, SchedulerSound, NoDeadTaskRuns, AddDropped
  <2> QED
    BY <2>1, <2>4, <2>5, <2>6, <2>7, <2>8, <2>9, StillBuilding
<1>2. CASE AddCountFirst
  <2>1. /\ progress[0] = "add" /\ progress' \in [Task -> Points] /\ cpu' \in Contexts /\ cpu'.task = 0
        /\ progress'[0] = "add_slot" /\ \A u \in Task \ {0} : progress'[u] = progress[u]
        /\ ContextsPreserved'
    BY <1>0, <1>2, GotoStep DEF AddCountFirst, Points, Context
  <2>2. queue_count + 1 \in 0..MaxQueue /\ queue_count \in Indices
    BY <1>2, <1>b DEF AddCountFirst, Indices
  <2>3. TypeOK'
    BY <1>0, <1>2, <2>1, <2>2 DEF AddCountFirst, TypeOK
  <2>4. ControlInv'
    BY <1>0, <1>2, <2>1 DEF AddCountFirst, ControlInv, KernelPoints, Startup
  <2>5. HeadInv'
    BY <1>0, <1>2, <1>b, <2>1 DEF AddCountFirst, HeadInv
  <2>6. BuildInv'
    <3>1. Linked' = Linked /\ Offered' = next_pid /\ Offered = next_pid
      BY <1>2, <2>1 DEF Linked, Offered, Startup, AddCountFirst
    <3>2. ~early => queue_count = next_pid
      BY <1>0, <1>2, <1>b, <2>1, <3>1 DEF BuildInv, AtMostQueue, AddCountFirst
    <3> QED
      BY <1>0, <1>2, <2>1, <3>1, <3>2 DEF BuildInv, AddCountFirst
  <2>7. NoDeadTaskRuns'
    BY <1>2 DEF IInv, SchedulerSound, NoDeadTaskRuns, AddCountFirst
  <2> QED
    BY <2>1, <2>3, <2>4, <2>5, <2>6, <2>7, StillBuilding
<1>3. CASE AddSlotSecond
  <2>1. /\ progress[0] = "add_slot" /\ progress' \in [Task -> Points] /\ cpu' \in Contexts /\ cpu'.task = 0
        /\ progress'[0] = after /\ \A u \in Task \ {0} : progress'[u] = progress[u]
        /\ ContextsPreserved'
    BY <1>0, <1>3, <1>a, GotoStep DEF AddSlotSecond, Points, Context, after
  <2>2. /\ ready_queue'[add_idx] = next_pid /\ \A k \in Indices \ {add_idx} : ready_queue'[k] = ready_queue[k]
        /\ ready_queue' \in [Indices -> Task \cup {NoTask}]
    BY <1>0, <1>3 DEF AddSlotSecond, Adding, TypeOK
  <2>3. TypeOK'
    BY <1>0, <1>3, <2>1, <2>2 DEF AddSlotSecond, TypeOK
  <2>4. ControlInv'
    BY <1>0, <1>3, <1>a, <1>b, <2>1 DEF AddSlotSecond, ControlInv, KernelPoints, Startup
  <2>5. HeadInv'
    <3>1. CASE next_pid > 0
      BY <1>0, <1>3, <1>a, <1>b, <2>1, <2>2, <3>1 DEF AddSlotSecond, HeadInv
    <3>2. CASE next_pid = 0
      <4>1. add_idx = 0 /\ queue_count = 1
        BY <1>0, <2>1, <3>2 DEF ControlInv, BuildInv
      <4> QED
        BY <1>3, <1>a, <2>1, <2>2, <3>2, <4>1 DEF AddSlotSecond, HeadInv
    <3> QED
      BY <1>b, <3>1, <3>2
  <2>6. BuildInv'
    <3>1. Linked' = Linked /\ Offered' = next_pid + 1 /\ Offered = next_pid
      BY <1>3, <1>a, <1>b, <2>1 DEF Linked, Offered, Startup, AddSlotSecond
    <3> SUFFICES ASSUME ~early PROVE
           /\ \A k \in Indices : ready_queue'[k] = IF k < next_pid + 1 THEN k ELSE NoTask
           /\ queue_count = AtMostQueue(next_pid + 1)
      BY <1>0, <1>3, <1>a, <2>1, <3>1 DEF BuildInv, AddSlotSecond, AtMostQueue
    <3>2. add_idx = next_pid /\ queue_count = next_pid + 1
      BY <1>0, <2>1 DEF BuildInv
    <3>3. \A k \in Indices : ready_queue[k] = IF k < next_pid THEN k ELSE NoTask
      BY <1>0, <2>1, <3>1 DEF BuildInv
    <3> QED
      BY <1>b, <2>2, <3>2, <3>3 DEF AtMostQueue, Indices
  <2>7. NoDeadTaskRuns'
    BY <1>3 DEF IInv, SchedulerSound, NoDeadTaskRuns, AddSlotSecond
  <2> QED
    BY <1>a, <2>1, <2>3, <2>4, <2>5, <2>6, <2>7, StillBuilding
<1>4. CASE AddSlotFirst
  <2>1. /\ progress[0] = "add" /\ progress' \in [Task -> Points] /\ cpu' \in Contexts /\ cpu'.task = 0
        /\ progress'[0] = "add_count" /\ \A u \in Task \ {0} : progress'[u] = progress[u]
        /\ ContextsPreserved'
    BY <1>0, <1>4, GotoStep DEF AddSlotFirst, Points, Context
  <2>2. queue_count \in Indices
    BY <1>4, <1>b DEF AddSlotFirst, Indices
  <2>3. /\ ready_queue'[queue_count] = next_pid
        /\ \A k \in Indices \ {queue_count} : ready_queue'[k] = ready_queue[k]
        /\ ready_queue' \in [Indices -> Task \cup {NoTask}]
    BY <1>0, <1>4, <2>2 DEF AddSlotFirst, Adding, TypeOK
  <2>4. TypeOK'
    BY <1>0, <1>4, <2>1, <2>2, <2>3 DEF AddSlotFirst, TypeOK
  <2>5. ControlInv'
    BY <1>0, <1>4, <2>1 DEF AddSlotFirst, ControlInv, KernelPoints, Startup
  <2>6. HeadInv'
    BY <1>0, <1>4, <1>b, <2>1, <2>3 DEF AddSlotFirst, HeadInv
  <2>7. BuildInv'
    <3>1. Linked' = Linked /\ Offered' = next_pid + 1 /\ Offered = next_pid
      <4>1. next_pid' = next_pid /\ next_pid \in Nat
        BY <1>0, <1>4 DEF AddSlotFirst, TypeOK
      <4> QED
        BY <2>1, <4>1 DEF Linked, Offered, Startup
    <3> SUFFICES ASSUME ~early PROVE
           /\ \A k \in Indices : ready_queue'[k] = IF k < next_pid + 1 THEN k ELSE NoTask
           /\ queue_count = next_pid
      BY <1>0, <1>4, <2>1, <3>1, Zenon DEF BuildInv, AddSlotFirst
    <3>2. queue_count = next_pid
      BY <1>0, <1>4, <1>b, <2>1, <3>1 DEF BuildInv, AtMostQueue, AddSlotFirst
    <3>3. \A k \in Indices : ready_queue[k] = IF k < next_pid THEN k ELSE NoTask
      BY <1>0, <2>1, <3>1 DEF BuildInv
    <3> QED
      BY <1>b, <2>3, <3>2, <3>3 DEF Indices
  <2>8. NoDeadTaskRuns'
    BY <1>4 DEF IInv, SchedulerSound, NoDeadTaskRuns, AddSlotFirst
  <2> QED
    BY <2>1, <2>4, <2>5, <2>6, <2>7, <2>8, StillBuilding
<1>5. CASE AddCountSecond
  <2>1. /\ progress[0] = "add_count" /\ progress' \in [Task -> Points] /\ cpu' \in Contexts /\ cpu'.task = 0
        /\ progress'[0] = after /\ \A u \in Task \ {0} : progress'[u] = progress[u]
        /\ ContextsPreserved'
    BY <1>0, <1>5, <1>a, GotoStep DEF AddCountSecond, Points, Context, after
  <2>2. add_idx + 1 \in 0..MaxQueue
    BY <1>b
  <2>3. TypeOK'
    BY <1>0, <1>5, <2>1, <2>2 DEF AddCountSecond, TypeOK
  <2>4. ControlInv'
    BY <1>0, <1>5, <1>a, <1>b, <2>1 DEF AddCountSecond, ControlInv, KernelPoints, Startup
  <2>5. Linked' = Linked /\ Offered' = next_pid + 1 /\ Offered = next_pid + 1
    BY <1>5, <1>a, <1>b, <2>1 DEF Linked, Offered, Startup, AddCountSecond
  <2>6. HeadInv'
    <3>1. CASE next_pid > 0
      BY <1>0, <1>5, <1>a, <1>b, <2>1, <3>1 DEF AddCountSecond, HeadInv
    <3>2. CASE next_pid = 0
      <4>1. ready_queue[0] = 0 /\ add_idx = 0
        BY <1>0, <2>1, <2>5, <3>2 DEF ControlInv, BuildInv
      <4> QED
        BY <1>5, <1>a, <2>1, <3>2, <4>1 DEF AddCountSecond, HeadInv
    <3> QED
      BY <1>b, <3>1, <3>2
  <2>7. BuildInv'
    <3> SUFFICES ASSUME ~early PROVE add_idx + 1 = AtMostQueue(next_pid + 1)
      BY <1>0, <1>5, <1>a, <2>1, <2>5 DEF BuildInv, AddCountSecond, AtMostQueue
    <3>1. add_idx = next_pid
      BY <1>0, <2>1 DEF BuildInv
    <3> QED
      BY <1>b, <3>1 DEF AtMostQueue
  <2>8. NoDeadTaskRuns'
    BY <1>5 DEF IInv, SchedulerSound, NoDeadTaskRuns, AddCountSecond
  <2> QED
    BY <1>a, <2>1, <2>3, <2>4, <2>6, <2>7, <2>8, StillBuilding
<1> QED
  BY <1>1, <1>2, <1>3, <1>4, <1>5

\* create_task around its rr_add_task, and the end of kernel_main.
LEMMA CreateSteps ==
  ASSUME IInv, CreateTask \/ LinkTask \/ EnterHalt
  PROVE  IInv'
<1> USE Basics
<1>0. TypeOK /\ ContextsPreserved /\ ControlInv /\ HeadInv /\ BuildInv
  BY DEF IInv
<1>b. next_pid \in Nat /\ queue_count \in Nat /\ queue_count <= MaxQueue
  BY <1>0 DEF TypeOK
<1>c. list \in Seq(Task)
  BY <1>0 DEF TypeOK
<1>1. CASE CreateTask
  <2> DEFINE t == next_pid + 1
  <2>1. t \in Task /\ t # 0 /\ t > next_pid
    BY <1>1, <1>b DEF CreateTask, Task
  <2>2. /\ cpu = Context(0, "create") /\ progress[0] = "create"
        /\ next_pid' = t
        /\ state' = [state EXCEPT ![t] = 1]
        /\ reg' = [reg EXCEPT ![t] = Context(t, "entry")]
        /\ cpu' = Context(0, "add")
        /\ progress' = [progress EXCEPT ![0] = "add", ![t] = "entry"]
        /\ UNCHANGED <<sched_on, ready_queue, queue_count, current_idx, curr_task, list, add_idx, swaps, early>>
    BY <1>0, <1>1 DEF CreateTask, At, Context, ContextsPreserved, queue_vars
  <2> HIDE DEF t
  <2>3. /\ progress' \in [Task -> Points] /\ progress'[0] = "add" /\ progress'[t] = "entry"
        /\ \A u \in Task \ {0, t} : progress'[u] = progress[u]
    BY <1>0, <2>1, <2>2 DEF TypeOK, Points
  <2>4. cpu' \in Contexts /\ Context(t, "entry") \in Contexts
    BY <2>1, <2>2 DEF Contexts, Context, Points
  <2>5. state' \in [Task -> 0..2] /\ state'[t] = 1 /\ \A u \in Task \ {t} : state'[u] = state[u]
    BY <1>0, <2>1, <2>2 DEF TypeOK
  <2>6. /\ reg' \in [Task -> Contexts] /\ reg'[t] = Context(t, "entry")
        /\ \A u \in Task \ {t} : reg'[u] = reg[u]
    BY <1>0, <2>1, <2>2, <2>4 DEF TypeOK
  <2>7. TypeOK'
    BY <1>0, <2>1, <2>2, <2>3, <2>4, <2>5, <2>6 DEF TypeOK
  <2>8. ContextsPreserved'
    <3>1. cpu.task = 0 /\ cpu'.task = 0 /\ cpu'.at = "add"
      BY <2>2 DEF Context
    <3>2. \A u \in Task : u # 0 => reg'[u] = Context(u, progress'[u])
      BY <1>0, <2>1, <2>3, <2>6, <3>1 DEF ContextsPreserved
    <3> QED
      BY <1>0, <2>2, <2>3, <3>1, <3>2 DEF ContextsPreserved
  <2>9. ControlInv'
    <3>1. \A u \in Task : u > next_pid' => progress'[u] = "none"
      BY <1>0, <1>b, <2>1, <2>2, <2>3 DEF ControlInv, t
    <3>2. \A u \in Task \ {0} : progress'[u] \in {"none", "entry", "prompt", "program", "work"}
      BY <1>0, <2>1, <2>3 DEF ControlInv
    <3>3. curr_task' # NoTask /\ sched_on' /\ state'[0] > 0 /\ list' # <<>> /\ list'[1] = 0
      BY <1>0, <2>1, <2>2, <2>5 DEF ControlInv, Startup
    <3>4. progress'[0] \in KernelPoints \ Startup /\ next_pid' # 0
      BY <2>1, <2>2, <2>3 DEF KernelPoints, Startup
    <3> QED
      BY <2>3, <3>1, <3>2, <3>3, <3>4 DEF ControlInv
  <2>10. HeadInv'
    BY <1>0, <2>2, <2>3 DEF HeadInv
  <2>11. BuildInv'
    <3>1. Linked = next_pid + 1 /\ Offered = next_pid + 1 /\ Linked' = next_pid + 1 /\ Offered' = next_pid + 1
      BY <2>1, <2>2, <2>3 DEF Linked, Offered, Startup, t
    <3> QED
      BY <1>0, <2>2, <2>3, <3>1 DEF BuildInv, AtMostQueue
  <2>12. NoDeadTaskRuns'
    <3>1. NoDeadTaskRuns
      BY DEF IInv, SchedulerSound
    <3>2. curr_task \in Task \cup {NoTask}
      BY <1>0 DEF TypeOK
    <3> QED
      BY <2>1, <2>2, <2>5, <3>1, <3>2 DEF NoDeadTaskRuns
  <2> QED
    BY <2>3, <2>7, <2>8, <2>9, <2>10, <2>11, <2>12, StillBuilding
<1>2. CASE LinkTask
  <2>1. /\ progress[0] = "link" /\ progress' \in [Task -> Points] /\ cpu' \in Contexts /\ cpu'.task = 0
        /\ progress'[0] = "create" /\ \A u \in Task \ {0} : progress'[u] = progress[u]
        /\ ContextsPreserved'
    BY <1>0, <1>2, GotoStep DEF LinkTask, Points, Context
  <2>2. next_pid > 0 /\ next_pid \in Task /\ list # <<>> /\ list[1] = 0
    BY <1>0, <2>1 DEF ControlInv, Startup, TypeOK
  <2>3. /\ list' \in Seq(Task) /\ Len(list') = Len(list) + 1
        /\ list'[Len(list) + 1] = next_pid /\ \A k \in 1..Len(list) : list'[k] = list[k]
        /\ Len(list) \in Nat \ {0}
    BY <1>2, <1>c, <2>2 DEF LinkTask, Adding
  <2>4. TypeOK'
    BY <1>0, <1>2, <2>1, <2>3 DEF LinkTask, TypeOK, queue_vars
  <2>5. ControlInv'
    <3>1. list' # <<>> /\ list'[1] = 0
      BY <2>2, <2>3
    <3> QED
      BY <1>0, <1>2, <2>1, <3>1 DEF LinkTask, ControlInv, KernelPoints, Startup
  <2>6. HeadInv'
    BY <1>0, <1>2, <2>1 DEF LinkTask, HeadInv, queue_vars
  <2>7. BuildInv'
    <3>1. Linked = next_pid /\ Offered = next_pid + 1 /\ Linked' = next_pid + 1 /\ Offered' = next_pid + 1
      BY <1>2, <1>b, <2>1, <2>2 DEF Linked, Offered, Startup, LinkTask
    <3>2. ASSUME ~early
          PROVE  Len(list') = next_pid + 1 /\ \A k \in 1..Len(list') : list'[k] = k - 1
      <4>1. Len(list) = next_pid /\ \A k \in 1..Len(list) : list[k] = k - 1
        BY <1>0, <2>1, <3>1, <3>2 DEF BuildInv
      <4>2. ASSUME NEW k \in 1..Len(list') PROVE list'[k] = k - 1
        <5>1. k \in 1..Len(list) \/ k = Len(list) + 1
          BY <2>3
        <5> QED
          BY <1>b, <2>3, <4>1, <5>1
      <4> QED
        BY <2>3, <4>1, <4>2
    <3> QED
      BY <1>0, <1>2, <2>1, <3>1, <3>2 DEF BuildInv, AtMostQueue, LinkTask, queue_vars
  <2>8. NoDeadTaskRuns'
    BY <1>2 DEF IInv, SchedulerSound, NoDeadTaskRuns, LinkTask
  <2> QED
    BY <2>1, <2>4, <2>5, <2>6, <2>7, <2>8, StillBuilding
<1>3. CASE EnterHalt
  <2>1. /\ progress[0] = "create" /\ progress' \in [Task -> Points] /\ cpu' \in Contexts /\ cpu'.task = 0
        /\ progress'[0] = "halt" /\ \A u \in Task \ {0} : progress'[u] = progress[u]
        /\ ContextsPreserved'
    BY <1>0, <1>3, GotoStep DEF EnterHalt, Points, Context
  <2>2. TypeOK'
    BY <1>0, <1>3, <2>1 DEF EnterHalt, TypeOK, queue_vars
  <2>3. ControlInv'
    BY <1>0, <1>3, <2>1 DEF EnterHalt, ControlInv, KernelPoints, Startup
  <2>4. HeadInv'
    BY <1>0, <1>3, <2>1 DEF EnterHalt, HeadInv, queue_vars
  <2>5. BuildInv'
    BY <2>1 DEF BuildInv
  <2>6. ~early =>
          /\ Len(list) = next_pid + 1 /\ \A k \in 1..Len(list) : list[k] = k - 1
          /\ \A k \in Indices : ready_queue[k] = IF k < next_pid + 1 THEN k ELSE NoTask
          /\ queue_count = AtMostQueue(next_pid + 1)
    BY <1>0, <1>3, <2>1 DEF BuildInv, Linked, Offered, Startup, EnterHalt
  <2>7. DoneInv'
    BY <1>3, <2>6 DEF DoneInv, EnterHalt
  <2>8. NoDeadTaskRuns' /\ QueuedOnce'
    BY <1>3 DEF IInv, SchedulerSound, NoDeadTaskRuns, QueuedOnce, EnterHalt, queue_vars
  <2>9. NoTaskLost'
    <3> SUFFICES ASSUME ~early, Len(list) <= MaxQueue, NEW t \in Range(list), state[t] > 0
                 PROVE  t \in Queued
      BY <1>3 DEF NoTaskLost, NoTaskEverLost, EnterHalt, Queued, queue_vars, Range
    <3>1. PICK k \in 1..Len(list) : t = list[k]
      BY <1>c DEF Range
    <3>2. t = k - 1 /\ k - 1 < next_pid + 1 /\ queue_count = next_pid + 1
      BY <1>b, <2>6, <3>1 DEF AtMostQueue
    <3>3. t \in 0..(queue_count - 1) /\ t \in Indices
      BY <1>b, <3>1, <3>2 DEF Indices
    <3>4. ready_queue[t] = t
      BY <2>6, <3>2, <3>3
    <3> QED
      BY <3>3, <3>4 DEF Queued
  <2> QED
    BY <2>1, <2>2, <2>3, <2>4, <2>5, <2>7, <2>8, <2>9 DEF IInv, SchedulerSound
<1> QED
  BY <1>1, <1>2, <1>3

\* A task's own steps.
LEMMA TaskSteps ==
  ASSUME IInv, NEW t \in Task, TaskStarts(t) \/ (t = Shell /\ (RunProgram \/ ProgramReturns))
  PROVE  IInv'
<1> USE Basics
<1>0. TypeOK /\ ContextsPreserved /\ ControlInv
  BY DEF IInv
<1>1. t # 0
  BY DEF TaskStarts, Shell
<1>2. PICK x \in {"entry", "prompt", "program"}, p \in {"prompt", "program", "work"} : At(t, x) /\ Goto(p)
  BY DEF TaskStarts, RunProgram, ProgramReturns
<1>3. UNCHANGED <<sched_on, ready_queue, queue_count, current_idx, curr_task, list, next_pid,
                  state, reg, add_idx, swaps, early>>
  BY DEF TaskStarts, RunProgram, ProgramReturns, queue_vars
<1>4. /\ progress[t] = x /\ progress' \in [Task -> Points] /\ cpu' \in Contexts /\ cpu'.task = t /\ cpu.task = t
      /\ progress'[t] = p /\ \A u \in Task \ {t} : progress'[u] = progress[u]
      /\ ContextsPreserved'
  <2>1. p \in Points
    BY DEF Points
  <2> QED
    BY <1>0, <1>2, <1>3, <2>1, GotoStep DEF Context
<1>5. progress'[0] = progress[0]
  BY <1>1, <1>4
<1>6. TypeOK'
  BY <1>0, <1>3, <1>4 DEF TypeOK
<1>7. ControlInv'
  <2>1. ~ (t > next_pid)
    BY <1>0, <1>4 DEF ControlInv
  <2>2. progress[0] \notin Startup
    BY <1>0, <1>1, <1>4 DEF ControlInv
  <2>3. \A u \in Task : u > next_pid' => progress'[u] = "none"
    BY <1>0, <1>3, <1>4, <2>1 DEF ControlInv
  <2>4. \A u \in Task \ {0} : progress'[u] \in {"none", "entry", "prompt", "program", "work"}
    BY <1>0, <1>4 DEF ControlInv
  <2> QED
    BY <1>0, <1>3, <1>5, <2>2, <2>3, <2>4 DEF ControlInv
<1>8. HeadInv' /\ BuildInv' /\ DoneInv' /\ QueuedOnce'
  BY <1>3, <1>5, QueueUntouched
<1>9. NoDeadTaskRuns'
  BY <1>3 DEF IInv, SchedulerSound, NoDeadTaskRuns
<1>10. NoTaskLost'
  BY <1>3, <1>5 DEF IInv, SchedulerSound, NoTaskLost, NoTaskEverLost, Queued, Range
<1> QED
  BY <1>4, <1>6, <1>7, <1>8, <1>9, <1>10 DEF IInv, SchedulerSound

\* The timer, and an exception in a task.
LEMMA InterruptSteps ==
  ASSUME IInv, Tick \/ \E t \in Task : Fault(t)
  PROVE  IInv'
<1> USE Basics
<1>0. TypeOK /\ ContextsPreserved /\ ControlInv /\ HeadInv /\ NoDeadTaskRuns /\ NoTaskLost
  BY DEF IInv, SchedulerSound
<1>1. PICK st \in [Task -> 0..2] :
        /\ state' = st /\ ScheduleNextTask(st)
        /\ \A u \in Task : st[u] > 0 => state[u] > 0
        /\ st[0] = state[0]
        /\ curr_task # NoTask =>
             st[curr_task] > 0 \/ (queue_count > 0 /\ ready_queue[0] = 0 /\ st[0] > 0)
  <2>1. CASE Tick
    BY <1>0, <2>1 DEF Tick, TypeOK, NoDeadTaskRuns
  <2>2. CASE \E t \in Task : Fault(t)
    <3>1. PICK t \in Task : Fault(t)
      BY <2>2
    <3>2. t # 0 /\ cpu.task = t /\ progress[t] \in {"program", "work"}
      BY <1>0, <3>1 DEF Fault, ContextsPreserved
    <3>3. progress[0] \notin Startup /\ ~ (t > next_pid)
      BY <1>0, <3>2 DEF ControlInv
    <3>4. curr_task = t /\ state[0] > 0
      BY <1>0, <3>2, <3>3 DEF ControlInv, ContextsPreserved
    <3>5. next_pid > 0
      BY <1>0, <3>2, <3>3 DEF TypeOK
    <3>6. queue_count > 0 /\ ready_queue[0] = 0
      BY <1>0, <3>5 DEF HeadInv
    <3> DEFINE st == [state EXCEPT ![t] = 0]
    <3>7. st \in [Task -> 0..2] /\ st[0] = state[0] /\ \A u \in Task : st[u] > 0 => state[u] > 0
      BY <1>0, <3>2 DEF TypeOK
    <3>8. state' = st /\ ScheduleNextTask(st)
      BY <3>1, <3>4 DEF Fault
    <3> HIDE DEF st
    <3> QED
      BY <3>4, <3>6, <3>7, <3>8
  <2> QED
    BY <2>1, <2>2
<1>2. UNCHANGED <<sched_on, list, next_pid, progress, add_idx, swaps, early>>
  BY DEF Tick, Fault
<1>3. /\ ready_queue' = ready_queue /\ queue_count' = queue_count
      /\ current_idx' \in Indices
      /\ curr_task' \in Task \cup {NoTask}
      /\ curr_task' = NoTask <=> curr_task = NoTask
      /\ curr_task = NoTask => cpu' = cpu
      /\ curr_task' # NoTask => st[curr_task'] > 0
      /\ reg' \in [Task -> Contexts] /\ cpu' \in Contexts
      /\ ContextsPreserved'
  BY <1>0, <1>1, <1>2, ScheduleStep
<1>4. TypeOK'
  BY <1>0, <1>1, <1>2, <1>3 DEF TypeOK
<1>5. ControlInv'
  BY <1>0, <1>1, <1>2, <1>3 DEF ControlInv
<1>6. HeadInv' /\ BuildInv' /\ DoneInv' /\ QueuedOnce'
  BY <1>2, <1>3, QueueUntouched
<1>7. NoDeadTaskRuns'
  BY <1>1, <1>3 DEF NoDeadTaskRuns
<1>8. NoTaskLost'
  <2>1. Range(list) \subseteq Task
    BY <1>0 DEF Range, TypeOK
  <2> QED
    BY <1>0, <1>1, <1>2, <1>3, <2>1 DEF NoTaskLost, NoTaskEverLost, Queued, Range
<1> QED
  BY <1>3, <1>4, <1>5, <1>6, <1>7, <1>8 DEF IInv, SchedulerSound

\* swap_scheduler: the new queue starts with kernel_main, and holds every live task
\* once if it has room.
LEMMA SwapStep ==
  ASSUME IInv, SwapScheduler
  PROVE  IInv'
<1> USE Basics
<1>0. TypeOK /\ ContextsPreserved /\ ControlInv /\ DoneInv /\ NoDeadTaskRuns
  BY DEF IInv, SchedulerSound
<1> DEFINE live == LiveTasks
           L == {t \in Task : Alive(t)}
<1>1. /\ At(Shell, "prompt") /\ swaps' = swaps + 1
      /\ early' = (early \/ progress[0] # "halt")
      /\ queue_count' = AtMostQueue(Len(live)) /\ ready_queue' = FedQueue(0)
      /\ current_idx' = 0 /\ list' = live
      /\ UNCHANGED <<sched_on, curr_task, next_pid, state, reg, cpu, progress, add_idx>>
  BY DEF SwapScheduler, Swap
<1>2. progress[1] = "prompt" /\ cpu.task = 1
  BY <1>0, <1>1 DEF At, Context, ContextsPreserved, Shell
<1>3. progress[0] \notin Startup /\ next_pid > 0
  <2>1. progress[0] \notin Startup
    BY <1>0, <1>2 DEF ControlInv
  <2>2. ~ (1 > next_pid)
    BY <1>0, <1>2 DEF ControlInv
  <2>3. next_pid \in Nat
    BY <1>0 DEF TypeOK
  <2> QED
    BY <2>1, <2>2, <2>3
<1>4. list \in Seq(Task) /\ list # <<>> /\ list[1] = 0 /\ 0 \in L
  BY <1>0, <1>3 DEF ControlInv, TypeOK, Alive
<1>5. /\ live \in Seq(Task)
      /\ \A v : (\E j \in 1..Len(live) : live[j] = v) <=> (v \in L /\ \E i \in 1..Len(list) : list[i] = v)
      /\ (\A i, j \in 1..Len(list) : list[i] = list[j] => i = j) =>
           \A i, j \in 1..Len(live) : live[i] = live[j] => i = j
      /\ live # <<>> /\ live[1] = 0
  <2>1. live = Kept(list, L)
    BY DEF LiveTasks
  <2> HIDE DEF live, L
  <2>2. list[1] \in L
    BY <1>4
  <2>3. /\ Kept(list, L) \in Seq(Task)
        /\ \A v : (\E j \in 1..Len(Kept(list, L)) : Kept(list, L)[j] = v)
                    <=> (v \in L /\ \E i \in 1..Len(list) : list[i] = v)
        /\ (\A i, j \in 1..Len(list) : list[i] = list[j] => i = j) =>
             \A i, j \in 1..Len(Kept(list, L)) : Kept(list, L)[i] = Kept(list, L)[j] => i = j
        /\ list # <<>> /\ list[1] \in L => Kept(list, L) # <<>> /\ Kept(list, L)[1] = list[1]
    BY <1>4, KeptSpec, Zenon
  <2> QED
    BY <1>4, <2>1, <2>2, <2>3
<1>a. ready_queue' = [k \in Indices |-> IF 0 <= k /\ k < Len(live) THEN live[k + 1] ELSE ready_queue[k]]
  <2>1. \A k \in Indices : k - 0 + 1 = k + 1 /\ 0 + Len(live) = Len(live)
    BY <1>5 DEF Indices
  <2> HIDE DEF live
  <2> QED
    BY <1>1, <2>1 DEF FedQueue, live
<1> HIDE DEF live, L
<1>6. Len(live) \in Nat \ {0}
  BY <1>5
<1>7. \A k \in Indices : ready_queue'[k] = IF k < Len(live) THEN live[k + 1] ELSE ready_queue[k]
  BY <1>a DEF Indices
<1>8. ready_queue' \in [Indices -> Task \cup {NoTask}]
  <2>1. ASSUME NEW k \in Indices PROVE ready_queue'[k] \in Task \cup {NoTask}
    <3>1. k < Len(live) => k + 1 \in 1..Len(live)
      BY <1>6 DEF Indices
    <3> QED
      BY <1>0, <1>5, <1>7, <3>1, SMTT(20) DEF TypeOK
  <2> QED
    BY <1>a, <2>1
<1>9. queue_count' \in 0..MaxQueue /\ queue_count' > 0 /\ queue_count' <= Len(live)
  BY <1>1, <1>6 DEF AtMostQueue
<1>10. ready_queue'[0] = 0
  BY <1>5, <1>6, <1>7
<1>11. TypeOK'
  <2>1. early' \in BOOLEAN
    BY <1>1
  <2>2. swaps' \in Nat
    BY <1>0, <1>1 DEF TypeOK
  <2> QED
    BY <1>0, <1>1, <1>5, <1>8, <1>9, <2>1, <2>2 DEF TypeOK
<1>12. ContextsPreserved'
  BY <1>0, <1>1 DEF ContextsPreserved
<1>13. ControlInv'
  BY <1>0, <1>1, <1>3, <1>5 DEF ControlInv
<1>14. HeadInv'
  <2>1. HeadInv
    BY DEF IInv
  <2> QED
    BY <1>1, <1>9, <1>10, <2>1 DEF HeadInv
<1>15. BuildInv'
  BY <1>1 DEF BuildInv
<1>16. NoDeadTaskRuns'
  BY <1>0, <1>1 DEF NoDeadTaskRuns
<1>17. CASE early'
  BY <1>11, <1>12, <1>13, <1>14, <1>15, <1>16, <1>17
     DEF IInv, DoneInv, SchedulerSound, QueuedOnce, NoTaskLost
<1>18. CASE ~early'
  <2>1. ~early /\ progress[0] = "halt"
    BY <1>1, <1>18
  <2>2. \A i, j \in 1..Len(live) : live[i] = live[j] => i = j
    BY <1>0, <1>5, <2>1 DEF DoneInv
  <2>3. DoneInv'
    BY <1>1, <2>2 DEF DoneInv
  <2>4. \A k \in 0..(queue_count' - 1) : k \in Nat /\ k + 1 \in 1..Len(live) /\ ready_queue'[k] = live[k + 1]
    <3> SUFFICES ASSUME NEW k \in 0..(queue_count' - 1)
                 PROVE  k \in Nat /\ k + 1 \in 1..Len(live) /\ ready_queue'[k] = live[k + 1]
      OBVIOUS
    <3>1. k \in Indices /\ k < Len(live) /\ k \in Nat /\ k + 1 \in 1..Len(live)
      <4>1. \A c \in 0..MaxQueue, n \in Nat : c <= n =>
              \A i \in 0..(c - 1) : i \in 0..(MaxQueue - 1) /\ i < n /\ i \in Nat /\ i + 1 \in 1..n
        OBVIOUS
      <4> QED
        BY <1>6, <1>9, <4>1 DEF Indices
    <3> QED
      BY <1>7, <3>1
  <2>5. QueuedOnce'
    <3> SUFFICES ASSUME NEW j \in 0..(queue_count' - 1), NEW k \in 0..(queue_count' - 1),
                        ready_queue'[j] = ready_queue'[k]
                 PROVE  j = k
      BY DEF QueuedOnce
    <3>1. j + 1 = k + 1 /\ j \in Nat /\ k \in Nat
      BY <2>2, <2>4
    <3> QED
      BY <3>1
  <2>6. NoTaskLost'
    <3> SUFFICES ASSUME Len(live) <= MaxQueue, NEW t \in Range(live)
                 PROVE  t \in {ready_queue'[k] : k \in 0..(queue_count' - 1)}
      BY <1>1 DEF NoTaskLost, NoTaskEverLost, Queued, Range
    <3>1. PICK k \in 1..Len(live) : t = live[k]
      BY <1>5 DEF Range
    <3>2. queue_count' = Len(live)
      BY <1>1, <1>6 DEF AtMostQueue
    <3>3. k - 1 \in 0..(queue_count' - 1) /\ (k - 1) + 1 = k
      BY <1>6, <3>2
    <3>4. ready_queue'[k - 1] = t
      BY <2>4, <3>1, <3>3
    <3> QED
      BY <3>3, <3>4
  <2> QED
    BY <1>11, <1>12, <1>13, <1>14, <1>15, <1>16, <2>3, <2>5, <2>6 DEF IInv, SchedulerSound
<1> QED
  BY <1>17, <1>18

\* Every step of kernel_main, of the tasks and of the interrupt handlers preserves
\* the invariant.
LEMMA NextIInv == IInv /\ [Next]_vars => IInv'
<1> SUFFICES ASSUME IInv, [Next]_vars PROVE IInv'
  OBVIOUS
<1>1. CASE KernelMain
  BY <1>1, EarlySteps, AddSteps, CreateSteps DEF KernelMain
<1>2. CASE Tick \/ \E t \in Task : Fault(t)
  BY <1>2, InterruptSteps
<1>3. CASE \/ \E t \in Task : TaskStarts(t)
           \/ RunProgram \/ ProgramReturns
  <2>1. Shell \in Task
    BY Basics DEF Shell
  <2> QED
    BY <1>3, <2>1, TaskSteps
<1>4. CASE SwapScheduler
  BY <1>4, SwapStep
<1>5. CASE UNCHANGED vars
  <2>1. UNCHANGED <<sched_on, ready_queue, queue_count, current_idx, curr_task, list, next_pid,
                    state, reg, cpu, progress, add_idx, swaps, early>>
    BY <1>5 DEF vars, queue_vars
  <2>2. HeadInv' /\ BuildInv' /\ DoneInv' /\ QueuedOnce'
    BY <2>1, QueueUntouched
  <2>3. TypeOK' /\ ContextsPreserved' /\ ControlInv'
    BY <2>1 DEF IInv, TypeOK, ContextsPreserved, ControlInv
  <2>4. NoDeadTaskRuns' /\ NoTaskLost'
    BY <2>1 DEF IInv, SchedulerSound, NoDeadTaskRuns, NoTaskLost, NoTaskEverLost, Queued, Range
  <2> QED
    BY <2>2, <2>3, <2>4 DEF IInv, SchedulerSound
<1> QED
  BY <1>1, <1>2, <1>3, <1>4, <1>5 DEF Next

\* The invariant holds in every reachable state of kernel_main, the tasks and the
\* interrupt handlers.
THEOREM Invariance == Spec => []IInv
BY InitIInv, NextIInv, PTL DEF Spec

-----------------------------------------------------------------------------
\* The globals of task.cpp and round_robin.cpp keep their types: in particular
\* queue_count stays within ready_queue, and schedule_next_task never follows an
\* empty slot.
THEOREM Typing == Spec => []TypeOK
<1>1. IInv => TypeOK
  BY DEF IInv
<1> QED
  BY <1>1, Invariance, PTL

\* A task resumes exactly where the timer interrupted it, for any number of tasks
\* and wherever in kernel_main or rr_add_task the timer strikes.
THEOREM ContextsKept == Spec => []ContextsPreserved
<1>1. IInv => ContextsPreserved
  BY DEF IInv
<1> QED
  BY <1>1, Invariance, PTL

\* rr_pick_next never returns a task that an exception ended; no task is queued
\* twice, and none is lost, whatever faults and swaps happen (a swap in the middle
\* of kernel_main excepted).
THEOREM Sound == Spec => []SchedulerSound
<1>1. IInv => SchedulerSound
  BY DEF IInv
<1> QED
  BY <1>1, Invariance, PTL
=============================================================================

------------------------------- MODULE Tasks -------------------------------
(***************************************************************************)
(* Tasks and preemption: kernel_main's start-up of tasks (kernel.cpp,      *)
(* task.cpp), the round-robin scheduler module (modules/sched), the timer  *)
(* and exception paths of isr_handler (interrupts/idt.cpp), the hot swap   *)
(* of the scheduler (module_swap.cpp) and the shell's run command.         *)
(*                                                                         *)
(* Task 0 is kernel_main itself, task 1 the shell, higher numbers are      *)
(* worker tasks that create_task can start.  A context is the task whose   *)
(* stack it lives on and the point it has reached; cpu is the context that *)
(* executes, reg[t] the one saved for t.  The timer can interrupt a task   *)
(* between any two of its steps, except in swap_scheduler, which runs with *)
(* interrupts off, and in the handlers themselves.                         *)
(***************************************************************************)
EXTENDS Integers, Sequences

CONSTANTS NTasks,      \* tasks kernel_main creates: 1 (the shell) as shipped
          MaxQueue,    \* entries of ready_queue (32)
          MaxSwaps     \* bound on scheduler swaps

ASSUME TasksAssumption ==
  /\ NTasks \in Nat \ {0}
  /\ MaxQueue \in Nat \ {0}
  /\ MaxSwaps \in Nat

Task    == 0..NTasks
NoTask  == -1                  \* the null Process pointer
Shell   == 1
Indices == 0..(MaxQueue - 1)

VARIABLES
  sched_on,                              \* gk.sched is set
  ready_queue, queue_count, current_idx, \* the statics of round_robin.cpp
  curr_task, list, next_pid,             \* the globals of task.cpp; list is the master list
  state,                                 \* Process.state: 0 is dead
  reg, cpu,                              \* saved contexts, running context
  progress,                              \* ghost: the point each task has reached
  add_idx,                               \* queue_count as rr_add_task read it
  swaps,                                 \* scheduler swaps so far
  early                                  \* ghost: was one before kernel_main was done?

queue_vars == <<ready_queue, queue_count, current_idx>>
vars == <<sched_on, queue_vars, curr_task, list, next_pid, state, reg, cpu, progress,
          add_idx, swaps, early>>

Context(t, p) == [task |-> t, at |-> p]

Range(s) == {s[k] : k \in DOMAIN s}

\* The running task goes on to point p.
Goto(p) ==
  /\ cpu' = [cpu EXCEPT !.at = p]
  /\ progress' = [progress EXCEPT ![cpu.task] = p]

At(t, p) == cpu = Context(t, p)

Init ==
  /\ sched_on = FALSE
  /\ ready_queue = [k \in Indices |-> NoTask]
  /\ queue_count = 0 /\ current_idx = 0
  /\ curr_task = NoTask /\ list = <<>> /\ next_pid = 0
  /\ state = [t \in Task |-> 0]
  /\ reg = [t \in Task |-> Context(t, "none")]
  /\ cpu = Context(0, "modules")
  /\ progress = [t \in Task |-> IF t = 0 THEN "modules" ELSE "none"]
  /\ add_idx = 0 /\ swaps = 0 /\ early = FALSE

-----------------------------------------------------------------------------
(* kernel_main, running as task 0 with interrupts enabled since init_idt.  *)

\* The scheduler module is registered: rr_init, gk.sched = new.
RegisterScheduler ==
  /\ At(0, "modules")
  /\ sched_on' = TRUE
  /\ queue_count' = 0 /\ current_idx' = 0
  /\ Goto("init_tasks")
  /\ UNCHANGED <<ready_queue, curr_task, list, next_pid, state, reg, add_idx, swaps, early>>

\* init_tasks up to its call of add_task.
InitTasks ==
  /\ At(0, "init_tasks")
  /\ state' = [state EXCEPT ![0] = 2]
  /\ curr_task' = 0
  /\ list' = <<0>>
  /\ Goto("add")
  /\ UNCHANGED <<sched_on, queue_vars, next_pid, reg, add_idx, swaps, early>>

\* The task kernel_main is adding: itself, or the one being created.
Adding == next_pid

AfterAdd == IF Adding = 0 THEN "create" ELSE "link"

\* Mutant: the limit of the queue is one too large.
AddDroppedLate ==
  /\ At(0, "add")
  /\ queue_count = MaxQueue
  /\ queue_count' = queue_count + 1
  /\ Goto(AfterAdd)
  /\ UNCHANGED <<sched_on, ready_queue, current_idx, curr_task, list, next_pid, state, reg,
                 add_idx, swaps, early>>

\* rr_add_task drops the task when the queue is full.
AddDropped ==
  /\ At(0, "add")
  /\ queue_count >= MaxQueue
  /\ Goto(AfterAdd)
  /\ UNCHANGED <<sched_on, queue_vars, curr_task, list, next_pid, state, reg, add_idx, swaps, early>>

\* ready_queue[queue_count++] = proc reads the counter once; the counter and the
\* slot are then two stores, in the order the compiler chooses.
AddCountFirst ==
  /\ At(0, "add")
  /\ queue_count < MaxQueue
  /\ add_idx' = queue_count
  /\ queue_count' = queue_count + 1
  /\ Goto("add_slot")
  /\ UNCHANGED <<sched_on, ready_queue, current_idx, curr_task, list, next_pid, state, reg, swaps, early>>

AddSlotSecond ==
  /\ At(0, "add_slot")
  /\ ready_queue' = [ready_queue EXCEPT ![add_idx] = Adding]
  /\ Goto(AfterAdd)
  /\ UNCHANGED <<sched_on, queue_count, current_idx, curr_task, list, next_pid, state, reg,
                 add_idx, swaps, early>>

AddSlotFirst ==
  /\ At(0, "add")
  /\ queue_count < MaxQueue
  /\ add_idx' = queue_count
  /\ ready_queue' = [ready_queue EXCEPT ![queue_count] = Adding]
  /\ Goto("add_count")
  /\ UNCHANGED <<sched_on, queue_count, current_idx, curr_task, list, next_pid, state, reg, swaps, early>>

AddCountSecond ==
  /\ At(0, "add_count")
  /\ queue_count' = add_idx + 1
  /\ Goto(AfterAdd)
  /\ UNCHANGED <<sched_on, ready_queue, current_idx, curr_task, list, next_pid, state, reg,
                 add_idx, swaps, early>>

\* create_task up to its call of add_task: the new task's frame holds its entry.
\* Its two pages are there: kernel_main is the only caller, init_pmm has just made
\* 4 GB of pages free, and the linked-in modules have taken 16 MB of them.
CreateTask ==
  /\ At(0, "create")
  /\ next_pid < NTasks
  /\ LET t == next_pid + 1
     IN  /\ next_pid' = t
         /\ state' = [state EXCEPT ![t] = 1]
         /\ reg' = [reg EXCEPT ![t] = Context(t, "entry")]
         /\ cpu' = [cpu EXCEPT !.at = "add"]
         /\ progress' = [progress EXCEPT ![0] = "add", ![t] = "entry"]
  /\ UNCHANGED <<sched_on, queue_vars, curr_task, list, add_idx, swaps, early>>

\* The end of create_task: append to the master list.
LinkTask ==
  /\ At(0, "link")
  /\ list' = Append(list, Adding)
  /\ Goto("create")
  /\ UNCHANGED <<sched_on, queue_vars, curr_task, next_pid, state, reg, add_idx, swaps, early>>

\* The final hlt loop.
EnterHalt ==
  /\ At(0, "create")
  /\ next_pid = NTasks
  /\ Goto("halt")
  /\ UNCHANGED <<sched_on, queue_vars, curr_task, list, next_pid, state, reg, add_idx, swaps, early>>

KernelMain ==
  \/ RegisterScheduler \/ InitTasks
  \/ AddDropped \/ AddCountFirst \/ AddSlotSecond \/ AddSlotFirst \/ AddCountSecond
  \/ CreateTask \/ LinkTask \/ EnterHalt

-----------------------------------------------------------------------------
(* rr_pick_next and schedule_next_task.                                    *)

Ahead(o) == ready_queue[(current_idx + o) % queue_count]

\* How far ahead of current_idx the queue holds a live task, given the states st.
Pickable(st) == {o \in 1..queue_count : Ahead(o) # NoTask /\ st[Ahead(o)] > 0}

Nearest(S) == CHOOSE o \in S : \A p \in S : o <= p

\* The index rr_pick_next stops at: the scan comes full circle when it finds none.
PickedIdx(st) ==
  IF queue_count = 0 THEN current_idx
  ELSE (current_idx + (IF Pickable(st) = {} THEN queue_count ELSE Nearest(Pickable(st))))
         % queue_count

Picked(st) == IF queue_count = 0 \/ Pickable(st) = {} THEN curr_task
              ELSE ready_queue[PickedIdx(st)]

\* Mutant: the interrupted context is not saved.
ScheduleNextTaskNoSave(st) ==
  IF ~sched_on \/ curr_task = NoTask
  THEN UNCHANGED <<queue_vars, curr_task, reg, cpu>>
  ELSE /\ current_idx' = PickedIdx(st)
       /\ curr_task' = Picked(st)
       /\ cpu' = IF Picked(st) = curr_task THEN cpu ELSE reg[Picked(st)]
       /\ UNCHANGED <<ready_queue, queue_count, reg>>

\* Mutant: the scan position is not kept, every scan starts at the head.
ScheduleNextTaskNoIndex(st) ==
  IF ~sched_on \/ curr_task = NoTask
  THEN UNCHANGED <<queue_vars, curr_task, reg, cpu>>
  ELSE /\ current_idx' = 0
       /\ reg' = [reg EXCEPT ![curr_task] = cpu]
       /\ curr_task' = Picked(st)
       /\ cpu' = reg'[Picked(st)]
       /\ UNCHANGED <<ready_queue, queue_count>>

\* schedule_next_task, with the tasks' states st: save the interrupted context
\* for the current task, resume the picked one.  Before init_tasks curr_task is
\* null and the context goes through the identity-mapped page 0 and back.
ScheduleNextTask(st) ==
  IF ~sched_on \/ curr_task = NoTask
  THEN UNCHANGED <<queue_vars, curr_task, reg, cpu>>
  ELSE /\ current_idx' = PickedIdx(st)
       /\ reg' = [reg EXCEPT ![curr_task] = cpu]
       /\ curr_task' = Picked(st)
       /\ cpu' = reg'[Picked(st)]
       /\ UNCHANGED <<ready_queue, queue_count>>

\* isr_handler for IRQ 0.
Tick ==
  /\ ScheduleNextTask(state)
  /\ UNCHANGED <<sched_on, list, next_pid, state, progress, add_idx, swaps, early>>

\* isr_handler for a CPU exception raised by code of a task other than 0.
Fault(t) ==
  /\ t # 0
  /\ cpu.task = t /\ cpu.at \in {"program", "work"}
  /\ state' = [state EXCEPT ![curr_task] = 0]
  /\ ScheduleNextTask(state')
  /\ UNCHANGED <<sched_on, list, next_pid, progress, add_idx, swaps, early>>

-----------------------------------------------------------------------------
(* The tasks.                                                              *)

\* A task starts at its entry point; the shell reaches its prompt.
TaskStarts(t) ==
  /\ t # 0
  /\ At(t, "entry")
  /\ Goto(IF t = Shell THEN "prompt" ELSE "work")
  /\ UNCHANGED <<sched_on, queue_vars, curr_task, list, next_pid, state, reg, add_idx, swaps, early>>

\* cmd_run: the program is called as a function of the shell, on its stack.
RunProgram ==
  /\ At(Shell, "prompt")
  /\ Goto("program")
  /\ UNCHANGED <<sched_on, queue_vars, curr_task, list, next_pid, state, reg, add_idx, swaps, early>>

ProgramReturns ==
  /\ At(Shell, "program")
  /\ Goto("prompt")
  /\ UNCHANGED <<sched_on, queue_vars, curr_task, list, next_pid, state, reg, add_idx, swaps, early>>

Alive(t) == state[t] > 0

\* The members of s that are in L, as a walk along s collects them.
Kept(s, L) ==
  LET upto[k \in 0..Len(s)] ==
        IF k = 0 THEN <<>>
        ELSE IF s[k] \in L THEN Append(upto[k - 1], s[k]) ELSE upto[k - 1]
  IN  upto[Len(s)]

LiveTasks == Kept(list, {t \in Task : Alive(t)})

\* The queue after rr_init and rr_add_task for each live task in turn, when the
\* counter starts from c.
FedQueue(c) ==
  [k \in Indices |-> IF c <= k /\ k < c + Len(LiveTasks) THEN LiveTasks[k - c + 1] ELSE ready_queue[k]]

AtMostQueue(m) == IF m < MaxQueue THEN m ELSE MaxQueue

Swap(c, count) ==
  /\ At(Shell, "prompt")
  /\ swaps < MaxSwaps
  /\ swaps' = swaps + 1
  /\ early' = (early \/ progress[0] # "halt")
  /\ queue_count' = count
  /\ ready_queue' = FedQueue(c)
  /\ current_idx' = 0
  /\ list' = LiveTasks
  /\ UNCHANGED <<sched_on, curr_task, next_pid, state, reg, cpu, progress, add_idx>>

\* Mutant: rr_init does not empty the queue.
SwapSchedulerKeepsQueue == Swap(queue_count, AtMostQueue(queue_count + Len(LiveTasks)))

\* load RoundRobinSched: swap_scheduler, with interrupts off.  rr_init empties
\* the queue, the walk prunes dead tasks from the master list and adds the rest.
SwapScheduler == Swap(0, AtMostQueue(Len(LiveTasks)))

Next ==
  \/ KernelMain
  \/ Tick
  \/ \E t \in Task : Fault(t) \/ TaskStarts(t)
  \/ RunProgram \/ ProgramReturns
  \/ SwapScheduler

Spec == Init /\ [][Next]_vars

\* The timer interrupts forever: interrupts are never left disabled.
FairSpec == Spec /\ WF_vars(Tick)

-----------------------------------------------------------------------------
Points == {"none", "modules", "init_tasks", "add", "add_slot", "add_count", "create", "link",
           "halt", "entry", "prompt", "program", "work"}

Contexts == [task : Task, at : Points]

\* Types of the scheduler's and the task manager's globals.
TypeOK ==
  /\ sched_on \in BOOLEAN
  /\ ready_queue \in [Indices -> Task \cup {NoTask}]
  /\ queue_count \in 0..MaxQueue /\ current_idx \in Indices
  /\ curr_task \in Task \cup {NoTask}
  /\ list \in Seq(Task) /\ next_pid \in Task
  /\ state \in [Task -> 0..2]
  /\ reg \in [Task -> Contexts] /\ cpu \in Contexts
  /\ progress \in [Task -> Points]
  /\ add_idx \in Indices /\ swaps \in Nat /\ early \in BOOLEAN

\* A task always resumes exactly where it was interrupted, on its own stack,
\* wherever the timer strikes, in the start-up code included: the running
\* context is that of curr_task, and every other started task is saved at the
\* point it reached.
ContextsPreserved ==
  /\ curr_task # NoTask => cpu.task = curr_task
  /\ cpu.at = progress[cpu.task]
  /\ \A t \in Task : t # cpu.task => reg[t] = Context(t, progress[t])

\* The scheduler never resumes a task that an exception terminated.
NoDeadTaskRuns == curr_task # NoTask => state[curr_task] > 0

\* No task is queued twice, so none gets two turns of a round, through any deaths
\* and swaps (rr_add_task does not look).  A swap in the middle of an rr_add_task
\* that goes on with the index it had read brings slots of the old queue back.
QueuedOnce ==
  ~early =>
    \A j, k \in 0..(queue_count - 1) :
      ready_queue[j] = ready_queue[k] /\ ready_queue[j] # NoTask => j = k

Queued == {ready_queue[k] : k \in 0..(queue_count - 1)}

\* Once kernel_main is done, every live task on a master list that fits into the
\* queue can be picked: a swap of the scheduler hands over all active tasks, also
\* those that a full queue had turned away.
NoTaskEverLost ==
  progress[0] = "halt" /\ Len(list) <= MaxQueue
    => \A t \in Range(list) : state[t] > 0 => t \in Queued

\* The same when no swap came before kernel_main had linked all its tasks.
NoTaskLost == ~early => NoTaskEverLost

\* Through preemption at any point, deaths and swaps, the scheduler neither runs a
\* dead task, nor queues one twice, nor loses one.
SchedulerSound == NoDeadTaskRuns /\ QueuedOnce /\ NoTaskLost

\* Round robin: a live task that the queue had room for gets the processor again
\* and again, whatever faults and (finitely many) swaps happen, unless a swap came
\* before kernel_main was done.
EveryTaskRuns ==
  \A t \in Task :
    t < MaxQueue => []<>(progress[0] # "halt" \/ early \/ state[t] = 0 \/ cpu.task = t)

\* A program that faults takes only itself down: the shell stays alive.
ShellSurvives == progress[Shell] # "none" => state[Shell] > 0
=============================================================================

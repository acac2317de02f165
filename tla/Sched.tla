------------------------------- MODULE Sched -------------------------------
(***************************************************************************)
(* The scheduler of proc.c: do_timer, schedule, switch_to, with the task   *)
(* table as task_init fills it and fork extends it.                        *)
(*                                                                         *)
(* do_timer runs in the timer interrupt with interrupts off, so a tick is  *)
(* one action: it charges the running task, and when the time slice of the *)
(* task is used up it calls schedule(), which picks the next task and,     *)
(* when all slices are used up, first deals out new ones.  start_kernel    *)
(* calls schedule() once, to leave the idle task.                          *)
(***************************************************************************)
EXTENDS Integers, FiniteSetsExt

CONSTANTS
  NR_TASKS,       \* slots of the array task[]
  InitTasks,      \* the initial value of nr_tasks (2: idle and one task)
  MaxTasks,       \* bound on nr_tasks: user programs fork no further
  PRIORITY_MIN,
  PRIORITY_MAX

ASSUME SchedAssumption ==
  /\ {NR_TASKS, InitTasks, MaxTasks, PRIORITY_MIN, PRIORITY_MAX} \subseteq Nat
  /\ 2 <= InitTasks /\ InitTasks <= NR_TASKS
  /\ InitTasks <= MaxTasks
  /\ 1 <= PRIORITY_MIN /\ PRIORITY_MIN <= PRIORITY_MAX

Slots == 0 .. MaxTasks - 1
Idle  == 0                          \* task[0], pid 0

VARIABLES
  current,    \* pid of the running task
  nr_tasks,   \* task[0] .. task[nr_tasks - 1] are in use
  counter,    \* counter[p]: ticks left in the time slice of task p
  priority,   \* priority[p]: length of the slices of task p
  waited      \* history: ticks since task p last ran or was created

vars == <<current, nr_tasks, counter, priority, waited>>

Live == 1 .. nr_tasks - 1

(* rand() % (PRIORITY_MAX - PRIORITY_MIN + 1) + PRIORITY_MIN; rand() is not *)
(* negative (rand.c shifts out the sign), and its sequence is left open.    *)
Rand == PRIORITY_MIN .. PRIORITY_MAX

WaitCap == 2 * (MaxTasks - 2) * PRIORITY_MAX + 1   \* bound of the history

-----------------------------------------------------------------------------
(* schedule() *)

AlwaysUsedUp(c) == TRUE
AllUsedUp(c) == \A p \in Live : c[p] = 0

(* New time slices for all, when no task has any time left. *)
Refill(c) ==
  IF AllUsedUp(c) THEN [p \in Slots |-> IF p \in Live THEN priority[p] ELSE c[p]]
                  ELSE c

(* The scan keeps a task only if its counter is greater than the greatest  *)
(* so far: the first of the tasks with the greatest counter.               *)
FirstWithTime(c) == {p \in Live : c[p] > 0 /\ \A q \in 1 .. p - 1 : c[q] = 0}
Chosen(c) ==
  {p \in Live : \A q \in Live : c[q] < c[p] \/ (c[q] = c[p] /\ p <= q)}

(* With slices of at least one tick the recursive call finds a counter     *)
(* greater than 0, so it recurs once only.                                 *)
Schedule(c) ==
  /\ counter' = Refill(c)
  /\ current' \in Chosen(Refill(c))

-----------------------------------------------------------------------------
Init ==
  /\ current = Idle
  /\ nr_tasks = InitTasks
  /\ counter = [p \in Slots |-> 0]
  /\ priority \in {r \in [Slots -> 0 .. PRIORITY_MAX] :
                     \A p \in Slots : IF p \in 1 .. InitTasks - 1
                                         THEN r[p] \in Rand
                                         ELSE r[p] = 0}
  /\ waited = [p \in Slots |-> 0]

Waits ==
  waited' = [p \in Slots |->
    IF p \notin Live \/ p = current' THEN 0
    ELSE IF waited[p] < WaitCap THEN waited[p] + 1 ELSE WaitCap]

(* start_kernel calls schedule() and leaves idle for good.  Until then     *)
(* sstatus.SIE is clear (head.S:41): no tick finds idle running.           *)
StartKernel ==
  /\ current = Idle
  /\ Schedule(counter)
  /\ Waits
  /\ UNCHANGED <<nr_tasks, priority>>

(* do_timer charges the task a tick, unless there is nothing to charge. *)
Charged == IF counter[current] = 0 THEN counter
                                   ELSE [counter EXCEPT ![current] = @ - 1]

NeverUsedUp(c) == FALSE
UsedUp(c) == c[current] = 0

(* The timer interrupt, in a user program. *)
Tick ==
  /\ current # Idle
  /\ IF UsedUp(Charged) THEN Schedule(Charged)
                        ELSE counter' = Charged /\ UNCHANGED current
  /\ Waits
  /\ UNCHANGED <<nr_tasks, priority>>

SliceSummed(p) == counter[p] + priority[p]
ChildSlice(p)  == counter[p]

(* SYS_CLONE of the running task: the child's task_struct is a copy.       *)
(* Nothing compares nr_tasks with the size of task[].                      *)
Fork ==
  /\ current # Idle
  /\ nr_tasks < MaxTasks
  /\ counter' = [counter EXCEPT ![nr_tasks] = ChildSlice(current)]
  /\ priority' = [priority EXCEPT ![nr_tasks] = priority[current]]
  /\ nr_tasks' = nr_tasks + 1
  /\ UNCHANGED <<current, waited>>

Next == StartKernel \/ Tick \/ Fork

(* The kernel boots, and ticks do not stop: head.S sets the first timer,   *)
(* trap_handler the next one at every tick, before do_timer.               *)
Spec == Init /\ [][Next]_vars /\ WF_vars(StartKernel) /\ WF_vars(Tick)

-----------------------------------------------------------------------------
(* Every variable has its type. *)
TypeOK ==
  /\ nr_tasks \in InitTasks .. MaxTasks
  /\ current \in Live \cup {Idle}
  /\ counter \in [Slots -> 0 .. PRIORITY_MAX]
  /\ priority \in [Slots -> 0 .. PRIORITY_MAX]
  /\ waited \in [Slots -> 0 .. WaitCap]

(* Between two ticks the running task has time left: no tick finds it with *)
(* counter == 0, and no child is created with an empty slice.              *)
RunningHasTime == current # Idle => counter[current] > 0

SumOf(f, S) == MapThenSumSet(LAMBDA p : f[p], S)

(* No task waits longer than it takes each of the others to use up two     *)
(* slices: what is left of this round, and one turn in the next.           *)
BoundedWait ==
  \A p \in Live : waited[p] <= 2 * SumOf(priority, Live \ {p})

(* A task is taken off the processor only when its slice is used up, and   *)
(* for a task that has the most time left of all.                          *)
SwitchesAtSliceEnd ==
  [][current' # current =>
       /\ current # Idle => counter[current] = 1
       /\ \A p \in Live : counter'[p] <= counter'[current']]_vars

(* No task starves. *)
EveryTaskRuns == \A p \in Slots : p \in Live ~> current = p

(* All tasks are kept in task[] (proc.c:18), whose size is there to limit  *)
(* the number of threads (proc.h:9).                                       *)
TaskTableHoldsAll == nr_tasks <= NR_TASKS
=============================================================================

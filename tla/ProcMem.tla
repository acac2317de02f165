------------------------------ MODULE ProcMem ------------------------------
(***************************************************************************)
(* What fork promises a user program: every task owns a private memory.    *)
(* The child starts with a copy of its parent's memory and from then on    *)
(* no store of one task is ever seen by another.                           *)
(*                                                                         *)
(* This is the behaviour of do_fork (arch/riscv/kernel/trap.c), the eager  *)
(* fork that copies every mapped page at once.  The kernel no longer calls *)
(* it: syscall() calls do_fork_cow, which must be indistinguishable from   *)
(* it.  Module CowFork models do_fork_cow and is checked to implement this *)
(* specification.                                                          *)
(***************************************************************************)
EXTENDS Integers

CONSTANTS
  MaxTasks,   \* bound: task ids are 1 .. MaxTasks - 1
  Pages,      \* virtual page numbers of the user address space
  Stores,     \* what a store leaves in a page
  Image       \* Image[g]: what page g holds when the program starts

VARIABLES
  current,    \* the running task
  nr_tasks,   \* number of task slots used, the idle task included
  memory      \* memory[p][g]: what task p finds in page g

vars == <<current, nr_tasks, memory>>

Pids == 1 .. MaxTasks - 1

Init ==
  /\ current = 1
  /\ nr_tasks = 2
  /\ memory = [p \in Pids |-> Image]

(* The running task overwrites a page of its own memory. *)
Store(g, v) ==
  /\ memory' = [memory EXCEPT ![current][g] = v]
  /\ UNCHANGED <<current, nr_tasks>>

(* do_fork: the child gets a copy of every page of the running task. *)
Fork ==
  /\ nr_tasks < MaxTasks
  /\ memory' = [memory EXCEPT ![nr_tasks] = memory[current]]
  /\ nr_tasks' = nr_tasks + 1
  /\ UNCHANGED current

(* The scheduler gives the processor to another task. *)
SwitchTo(q) ==
  /\ q \in 1 .. nr_tasks - 1
  /\ current' = q
  /\ UNCHANGED <<nr_tasks, memory>>

Next ==
  \/ \E g \in Pages, v \in Stores : Store(g, v)
  \/ Fork
  \/ \E q \in Pids : SwitchTo(q)

Spec == Init /\ [][Next]_vars
=============================================================================

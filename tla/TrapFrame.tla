----------------------------- MODULE TrapFrame -----------------------------
(***************************************************************************)
(* How the contexts of user programs travel through the kernel: _traps,    *)
(* __ret_from_fork, __dummy and __switch_to of entry.S, with what          *)
(* trap_handler, syscall, do_timer and do_fork_cow do to saved registers.  *)
(*                                                                         *)
(* A context crosses four places: the registers of the hart, the frame     *)
(* _traps pushes on the kernel stack of the task, the thread_struct        *)
(* __switch_to fills, and the CSRs sepc, sscratch and sstatus.  The hart   *)
(* does one block of code per action; interrupts are off from _traps to    *)
(* sret, so no trap comes in between.                                      *)
(*                                                                         *)
(* Of the 32 registers there are four, one for each way they are treated:  *)
(* sp, t0 (the scratch register of the entry code), a0 (arguments and      *)
(* results; the C code is free to overwrite it) and s0 (preserved by C     *)
(* code and by __switch_to).                                               *)
(***************************************************************************)
EXTENDS Integers

CONSTANTS
  MaxTasks,     \* bound on nr_tasks: user programs fork no further
  PcMod,        \* bound: program counters are instruction numbers mod PcMod
  UserData,     \* numbers a user program puts in its registers
  UserStacks,   \* stack pointers a user program uses
  UserRegs      \* bound: the registers user instructions write

ASSUME TrapFrameAssumption ==
  /\ MaxTasks \in Nat /\ MaxTasks > 1
  /\ PcMod \in Nat \ {0}
  /\ UserData \subseteq Nat
  /\ UserStacks \subseteq Nat /\ 0 \in UserStacks
  /\ UserRegs \subseteq {"sp", "t0", "a0", "s0"}

Pids == 1 .. MaxTasks - 1
Idle == 0
Pcs  == 0 .. PcMod - 1

(* Register contents.  kernel(p, d) is d frames of 256 bytes below the top *)
(* of the kernel stack of task p; Null is a register or CSR that holds 0   *)
(* as an address; Junk is whatever C code happens to leave behind.         *)
Reg == {"sp", "t0", "a0", "s0"}
Word == [kind : {"data", "user", "kernel", "junk"}, id : Nat, depth : Int]
Data(n)      == [kind |-> "data", id |-> n, depth |-> 0]
User(n)      == [kind |-> "user", id |-> n, depth |-> 0]
kernel(p, d) == [kind |-> "kernel", id |-> p, depth |-> d]
Junk         == [kind |-> "junk", id |-> 0, depth |-> 0]
Null         == Data(0)
UserEnd      == User(0)

Push(w) == [w EXCEPT !.depth = @ + 1]        \* addi sp, sp, -256
Unpopped(w) == w
Pop(w)  == [w EXCEPT !.depth = @ - 1]        \* addi sp, sp, 256

After(pc) == (pc + 1) % PcMod                \* the next instruction, sepc + 4

VARIABLES
  phase,      \* what the hart executes, see the actions
  mode,       \* "u" or "s": the privilege mode
  cause,      \* scause of the trap being handled
  current, nr_tasks,
  reg,        \* the registers of the hart
  pc,         \* the program counter in user code
  sepc, sscratch, spp,     \* the CSRs; spp is sstatus.SPP
  frame,      \* frame[p]: the registers _traps saved on p's kernel stack
  argsepc,    \* argsepc[p]: the sepc trap_handler was called with, ditto
  thread,     \* thread[p]: the thread_struct of task p
  ctx         \* history: the context task p must find when it runs again

hart == <<mode, reg, pc, sepc, sscratch, spp>>
tasks == <<current, nr_tasks, thread>>
vars == <<phase, cause, hart, tasks, frame, argsepc, ctx>>

Causes == {"timer", "fault", "getpid", "write", "clone", "other"}

-----------------------------------------------------------------------------
(* What __switch_to saves of the hart, and task_init and fork set up. *)
Thread == [ra : {"dummy", "ret_from_fork", "trap_handler"}, sp : Word,
           s0 : Word, sepc : Pcs, sscratch : Word, spp : {"u", "s"}]

NoFrame == [r \in Reg |-> Junk]
NoCtx   == [pc |-> 0, reg |-> NoFrame]

(* task_init: __dummy will start task 1 at the entry point, its stack      *)
(* pointer in sscratch.  The idle task, on the boot stack with sscratch 0, *)
(* has no saved context that matters: nothing switches back to it.         *)
FirstThread ==
  [ra |-> "dummy", sp |-> kernel(1, 0), s0 |-> Junk, sepc |-> 0,
   sscratch |-> UserEnd, spp |-> "u"]

Init ==
  /\ phase = "boot" /\ mode = "s" /\ cause = "timer"
  /\ current = Idle /\ nr_tasks = 2
  /\ reg = [NoFrame EXCEPT !["sp"] = kernel(Idle, 0)]
  /\ pc = 0 /\ sepc = 0 /\ sscratch = Null /\ spp = "s"
  /\ frame = [p \in Pids \cup {Idle} |-> NoFrame]
  /\ argsepc = [p \in Pids \cup {Idle} |-> 0]
  /\ thread = [p \in Pids \cup {Idle} |-> FirstThread]
  /\ ctx = [p \in Pids \cup {Idle} |-> NoCtx]

-----------------------------------------------------------------------------
(* User code: an instruction that writes a register. *)
UserStep(r, w) ==
  /\ phase = "run" /\ mode = "u"
  /\ reg' = [reg EXCEPT ![r] = w]
  /\ pc' = After(pc)
  /\ ctx' = [ctx EXCEPT ![current] = [pc |-> pc', reg |-> reg']]
  /\ UNCHANGED <<phase, mode, cause, sepc, sscratch, spp, tasks, frame, argsepc>>

(* The hardware takes the trap and _traps runs up to the call of           *)
(* trap_handler: t0 receives sscratch before it is saved; a trap from user *)
(* mode swaps sp and sscratch; the frame holds the kernel's sp.            *)
Trap(c) ==
  LET fromUser == sscratch # Null
      ksp      == Push(IF fromUser THEN sscratch ELSE reg["sp"])
  IN
  /\ phase = "run"
  /\ c = "clone" => nr_tasks < MaxTasks
  /\ cause' = c
  /\ mode' = "s" /\ spp' = mode /\ sepc' = pc
  /\ sscratch' = IF fromUser THEN reg["sp"] ELSE sscratch
  /\ frame' = [frame EXCEPT ![current] =
                 [reg EXCEPT !["t0"] = sscratch, !["sp"] = ksp]]
  /\ argsepc' = [argsepc EXCEPT ![current] = pc]
  /\ reg' = [reg EXCEPT !["sp"] = ksp, !["t0"] = Junk, !["a0"] = Junk]
  /\ phase' = "handler"
  /\ UNCHANGED <<pc, tasks, ctx>>

-----------------------------------------------------------------------------
(* trap_handler *)

(* Page faults and ticks end by writing back the sepc of the trap; for a   *)
(* tick, do_timer decides here not to switch.                              *)
HandleRetry ==
  /\ phase = "handler" /\ cause \in {"timer", "fault"}
  /\ sepc' = argsepc[current]
  /\ phase' = "return"
  /\ UNCHANGED <<mode, cause, reg, pc, sscratch, spp, tasks, frame, argsepc, ctx>>

(* SYS_GETPID and SYS_WRITE: the result goes into the saved a0.  The      *)
(* number of bytes written is an argument, or 0 for another fd than 1.     *)
Result(n) ==
  CASE cause = "getpid" -> n = current
    [] cause = "write"  -> n \in UserData \cup {0}
    [] OTHER            -> FALSE
HandleResult(n) ==
  /\ phase = "handler" /\ Result(n)
  /\ frame' = [frame EXCEPT ![current]["a0"] = Data(n)]
  /\ sepc' = After(argsepc[current])
  /\ phase' = "return"
  /\ ctx' = [ctx EXCEPT ![current].pc = After(@), ![current].reg["a0"] = Data(n)]
  /\ UNCHANGED <<mode, cause, reg, pc, sscratch, spp, tasks, argsepc>>

(* Other system calls and exceptions: the instruction is skipped. *)
HandleOther ==
  /\ phase = "handler" /\ cause = "other"
  /\ sepc' = After(argsepc[current])
  /\ phase' = "return"
  /\ ctx' = [ctx EXCEPT ![current].pc = After(@)]
  /\ UNCHANGED <<mode, cause, reg, pc, sscratch, spp, tasks, frame, argsepc>>

(* SYS_CLONE: do_fork_cow copies the page with task_struct and kernel      *)
(* stack.  The child will start in __ret_from_fork on its copy of the      *)
(* frame, with its own kernel stack pointer and a0 = 0.  syscall() leaves  *)
(* the frame of the parent as it is.                                       *)
StaleSscratch(c) == thread[current].sscratch
ChildSscratch(c) == sscratch
HandleClone ==
  LET c == nr_tasks IN
  /\ phase = "handler" /\ cause = "clone"
  /\ frame' = [frame EXCEPT ![c] =
       [frame[current] EXCEPT !["a0"] = Data(0), !["sp"] = kernel(c, reg["sp"].depth)]]
  /\ thread' = [thread EXCEPT ![c] =
       [thread[current] EXCEPT
          !.ra = "ret_from_fork",
          !.sp = kernel(c, reg["sp"].depth),
          !.sscratch = ChildSscratch(c),
          !.sepc = After(sepc)]]
  /\ argsepc' = [argsepc EXCEPT ![c] = argsepc[current]]
  /\ nr_tasks' = nr_tasks + 1
  /\ sepc' = After(argsepc[current])
  /\ phase' = "return"
  /\ ctx' = [ctx EXCEPT
       ![c] = [pc |-> After(ctx[current].pc),
               reg |-> [ctx[current].reg EXCEPT !["a0"] = Data(0)]],
       ![current].pc = After(@)]
  /\ UNCHANGED <<mode, cause, current, reg, pc, sscratch, spp>>

(* switch_to sets current and calls __switch_to, which saves what C code   *)
(* expects to keep and the CSRs of the trap, loads those of the next task  *)
(* and returns to its ra: into trap_handler, after do_timer, for a task    *)
(* that was switched out.                                                  *)
Saved ==
  [ra |-> "trap_handler", sp |-> reg["sp"], s0 |-> reg["s0"], sepc |-> sepc,
   sscratch |-> sscratch, spp |-> spp]
OldStatus(t)  == spp
NextStatus(t) == t.spp
OneTooMany == 1 .. nr_tasks
Candidates == 1 .. nr_tasks - 1
SwitchTo(q) ==
  LET t == thread[q] IN
  /\ q \in Candidates /\ q # current
  /\ thread' = [thread EXCEPT ![current] = Saved]
  /\ current' = q
  /\ reg' = [reg EXCEPT !["sp"] = t.sp, !["s0"] = t.s0, !["t0"] = Junk]
  /\ sscratch' = t.sscratch /\ spp' = NextStatus(t)
  /\ sepc' = IF t.ra = "trap_handler" THEN argsepc[q] ELSE t.sepc
  /\ phase' = IF t.ra = "dummy" THEN "start" ELSE "return"
  /\ UNCHANGED <<mode, cause, pc, nr_tasks, frame, argsepc, ctx>>

(* start_kernel calls schedule(), with interrupts off. *)
StartKernel(q) == phase = "boot" /\ SwitchTo(q)

(* do_timer: the time slice is used up and schedule() picks another task. *)
HandleSwitch(q) == phase = "handler" /\ cause = "timer" /\ SwitchTo(q)

-----------------------------------------------------------------------------
(* __ret_from_fork, the end of _traps: every register is loaded from the   *)
(* frame sp points to; a return to user mode swaps sp and sscratch again,  *)
(* through t0.                                                             *)
Return ==
  LET f   == frame[reg["sp"].id]
      ksp == Pop(f["sp"])
  IN
  /\ phase = "return"
  /\ reg' = [f EXCEPT !["t0"] = sscratch,
                      !["sp"] = IF sscratch = Null THEN ksp ELSE sscratch]
  /\ sscratch' = IF sscratch = Null THEN sscratch ELSE ksp
  /\ mode' = spp /\ spp' = "u" /\ pc' = sepc          \* sret
  /\ phase' = "run"
  /\ UNCHANGED <<cause, sepc, tasks, frame, argsepc, ctx>>

(* __dummy: the first instructions of task 1.  Its registers hold whatever *)
(* the kernel left in them.                                                *)
Start ==
  /\ phase = "start"
  /\ reg' = [reg EXCEPT !["t0"] = sscratch, !["sp"] = sscratch]
  /\ sscratch' = reg["sp"]
  /\ mode' = spp /\ spp' = "u" /\ pc' = sepc
  /\ phase' = "run"
  /\ ctx' = [ctx EXCEPT ![current] =
               [pc |-> 0, reg |-> [reg' EXCEPT !["sp"] = UserEnd]]]
  /\ UNCHANGED <<cause, sepc, tasks, frame, argsepc>>

Writes(r) == IF r = "sp" THEN {User(n) : n \in UserStacks}
                         ELSE {Data(n) : n \in UserData}

Next ==
  \/ \E r \in UserRegs : \E w \in Writes(r) : UserStep(r, w)
  \/ \E c \in Causes : Trap(c)
  \/ HandleRetry
  \/ \E n \in Pids \cup UserData \cup {0} : HandleResult(n)
  \/ HandleOther
  \/ HandleClone
  \/ \E q \in Pids : StartKernel(q) \/ HandleSwitch(q)
  \/ Return
  \/ Start

Spec == Init /\ [][Next]_vars

-----------------------------------------------------------------------------
(* Every variable has its type. *)
TypeOK ==
  /\ phase \in {"boot", "run", "handler", "return", "start"}
  /\ mode \in {"u", "s"} /\ spp \in {"u", "s"}
  /\ cause \in Causes
  /\ current \in 0 .. nr_tasks - 1 /\ nr_tasks \in 2 .. MaxTasks
  /\ reg \in [Reg -> Word]
  /\ pc \in Pcs /\ sepc \in Pcs /\ sscratch \in Word
  /\ frame \in [Pids \cup {Idle} -> [Reg -> Word]]
  /\ argsepc \in [Pids \cup {Idle} -> Pcs]
  /\ thread \in [Pids \cup {Idle} -> Thread]
  /\ ctx \in [Pids \cup {Idle} -> [pc : Pcs, reg : [Reg -> Word]]]

UserMode == phase = "run" /\ mode = "u"

(* A task that runs again finds the program counter, the stack pointer and *)
(* the registers it was interrupted with, or those its system call gave    *)
(* it; a child those of its parent, with 0 in a0.  (All registers but t0.) *)
ContextKept ==
  UserMode => /\ pc = ctx[current].pc
              /\ \A r \in Reg \ {"t0"} : reg[r] = ctx[current].reg[r]

(* "save 32 registers and sepc to stack" (entry.S:8): so t0 is kept, too.  *)
T0Kept == UserMode => reg["t0"] = ctx[current].reg["t0"]

(* While a user program runs, sscratch points to the top of the kernel     *)
(* stack of its own task: traps, switches and forks leave nothing behind.  *)
KernelStackReady ==
  UserMode => current # Idle /\ sscratch = kernel(current, 0)

(* The way out of the kernel, to a task that was switched out, to a child *)
(* or to the first task, always leads to user mode.                        *)
UserStaysUser == phase = "run" => mode = "u"

(* fork() returns 0 in the child only (user/main.c:67-73): the parent does *)
(* not take the branch of the child.                                       *)
ForkTellsParent ==
  [][HandleClone => frame'[current]["a0"] # Data(0)]_vars
=============================================================================

---------------------------- MODULE UserProgram ----------------------------
(***************************************************************************)
(* The user programs of user/main.c, whose text is in UserMain, run by    *)
(* the tasks that fork creates, under the scheduler of Sched.  A timer     *)
(* interrupt may come between any two steps of a program; in the kernel    *)
(* interrupts are off, and SYS_WRITE puts one character of the buffer on   *)
(* the console after the other.  The kernel logs every trap and every      *)
(* system call on the same console.                                        *)
(*                                                                         *)
(* Each task has its own memory, as CowFork shows of the page tables.  A   *)
(* line counts four characters: its label, the pid, the value and NUL.     *)
(***************************************************************************)
EXTENDS Integers, Sequences, SequencesExt, UserMain

CONSTANTS
  NR_TASKS, InitTasks, MaxTasks, PRIORITY_MIN, PRIORITY_MAX,   \* see Sched
  Mains,      \* the main functions to consider
  Wrap,       \* bound: the int variables count modulo Wrap
  Ticks(_),   \* bound on the number of timer interrupts, 0 for no bound,
  TickAt(_)   \* and the instructions before which they may come, in a program

VARIABLES
  current, nr_tasks, counter, priority, waited,                \* see Sched
  main,       \* the program: its text is the same in all tasks
  pc,         \* pc[p]: index of the next instruction of task p
  regs,       \* regs[p]: a0, and the value computed for the next line
  mem,        \* mem[p]: the variables of the program, see Loaded
  i,          \* the loop counter of SYS_WRITE, User outside of it
  console,    \* the line on the console: who wrote which character
  shown,      \* history: value last shown by p or its ancestors, -1 for none
  ran,        \* the program has taken a step since the last timer interrupt
  ticks       \* number of timer interrupts, for the bound

kernel == <<current, nr_tasks, counter, priority, waited>>
vars   == <<kernel, main, pc, regs, mem, i, console, shown, ran, ticks>>

Kernel == INSTANCE Sched

ASSUME UserAssumption ==
  /\ Kernel!SchedAssumption
  /\ Wrap \in Nat \ {0} /\ \A m \in Mains : Ticks(m) \in Nat

Slots  == Kernel!Slots
Root   == 1
User   == -1
BufferSize == 8                     \* bound: 1000 in the code, for longer lines

Text   == -2                        \* the message stored in placeholder
Empty  == [kind |-> "NUL", val |-> 0]
(* The first task finds in a0 what __switch_to was called with: prev, the  *)
(* address of the idle task.  __dummy leaves the register as it is.        *)
IdleTask == 1000

Loaded == [global_variable |-> 0, placeholder |-> 0, tail |-> 0,
           buffer |-> [k \in 0 .. BufferSize - 1 |-> Empty]]

-----------------------------------------------------------------------------
Init ==
  /\ Kernel!Init
  /\ main \in Mains
  /\ pc = [p \in Slots |-> 1]
  /\ regs = [p \in Slots |-> [a0 |-> IdleTask, value |-> 0]]
  /\ mem = [p \in Slots |-> Loaded]
  /\ i = User /\ console = <<>> /\ ran = FALSE /\ ticks = 0
  /\ shown = [p \in Slots |-> -1]

Boot ==
  /\ Kernel!StartKernel
  /\ UNCHANGED <<main, pc, regs, mem, i, console, shown, ran, ticks>>

Instr(p) == main[pc[p]]

(* A new line begins behind the last character of the one before; a line   *)
(* of the kernel's log counts as one character.                            *)
Ended == console # <<>> /\ Last(console).kind \in {"NUL", "log"}
Printed(c) == Append(IF Ended THEN <<>> ELSE console, c)
Logged == [by |-> Kernel!Idle, kind |-> "log", val |-> 0]
Log == console' = Printed(Logged)

(* A tick, in user mode: sstatus.SIE is clear in the kernel.  It comes a   *)
(* fixed time behind the last one (clock.c), long enough for the program   *)
(* to take a step in between.                                              *)
Anywhere == TRUE
InUserMode == i = User
Tick ==
  /\ InUserMode
  /\ current # Kernel!Idle => Instr(current).op \in TickAt(main)
  /\ ran /\ ran' = FALSE
  /\ Ticks(main) = 0 \/ ticks < Ticks(main)
  /\ ticks' = IF Ticks(main) = 0 THEN 0 ELSE ticks + 1
  /\ Kernel!Tick
  /\ Log
  /\ UNCHANGED <<main, pc, regs, mem, i, shown>>

At(p, op) == current = p /\ p # Kernel!Idle /\ i = User /\ Instr(p).op = op
Step(p)   == pc' = [pc EXCEPT ![p] = @ + 1]
M(p) == mem[p]
Calm  == UNCHANGED <<kernel, main, shown, ticks>>
Quiet == Calm /\ UNCHANGED console

(* va_arg and ++ on the memory of the task. *)
Evaluate(p, op, value, m) ==
  /\ At(p, op)
  /\ regs' = [regs EXCEPT ![p].value = value]
  /\ mem' = [mem EXCEPT ![p] = m]
  /\ Step(p) /\ Quiet /\ UNCHANGED i

Next1(v) == (v + 1) % Wrap
Incremented(m) == [m EXCEPT !.global_variable = Next1(@)]
PostIncrement(p) ==
  Evaluate(p, "global_variable++", M(p).global_variable, Incremented(M(p)))
PreIncrement(p) ==
  Evaluate(p, "++counter", Next1(M(p).global_variable), Incremented(M(p)))
ReadMessage(p) == Evaluate(p, "message", M(p).placeholder, M(p))
StoreMessage(p) ==
  Evaluate(p, "store", regs[p].value, [M(p) EXCEPT !.placeholder = Text])

(* putc: buffer[tail++] = c *)
Char(p) == [kind |-> Instr(p).kind,
            val  |-> CASE Instr(p).kind = "pid"   -> regs[p].a0
                       [] Instr(p).kind = "value" -> regs[p].value
                       [] OTHER                   -> Instr(p).char]
PutInto(m, c) == [m EXCEPT !.buffer[m.tail] = c, !.tail = m.tail + 1]
putc(p) ==
  /\ At(p, "putc")
  /\ mem' = [mem EXCEPT ![p] = PutInto(M(p), Char(p))]
  /\ Step(p) /\ Quiet /\ UNCHANGED <<regs, i>>

(* The end of printf: tail is reset, and a0 holds the number of characters *)
(* vprintfmt has printed.                                                  *)
Reset(p) ==
  /\ At(p, "reset")
  /\ mem' = [mem EXCEPT ![p].tail = 0]
  /\ regs' = [regs EXCEPT ![p].a0 = M(p).tail - 1]
  /\ Step(p) /\ Quiet /\ UNCHANGED i

Jump(p) ==
  /\ At(p, "jump") \/ At(p, "bnez")
  /\ pc' = [pc EXCEPT ![p] = @ + (IF Instr(p).op = "bnez" /\ regs[p].a0 = 0
                                    THEN 1 ELSE Instr(p).by)]
  /\ Quiet /\ UNCHANGED <<regs, mem, i>>

-----------------------------------------------------------------------------
(* The system calls.  The parent of a fork goes on with the a0 it had.     *)
GetPid(p) ==
  /\ At(p, "getpid")
  /\ regs' = [regs EXCEPT ![p].a0 = current]
  /\ Step(p) /\ Log /\ Calm /\ UNCHANGED <<mem, i>>

ParentsA0(p) == regs[p].a0
ChildA0(p)   == 0
ReloadedMemory(p) == Loaded
CopiedMemory(p) == mem[p]
Clone(p) ==
  /\ At(p, "fork")
  /\ Kernel!Fork
  /\ LET c == nr_tasks IN
       /\ pc'    = [pc EXCEPT ![p] = @ + 1, ![c] = pc[p] + 1]
       /\ regs'  = [regs EXCEPT ![c] = [regs[p] EXCEPT !.a0 = ChildA0(p)]]
       /\ mem'   = [mem EXCEPT ![c] = CopiedMemory(p)]
       /\ shown' = [shown EXCEPT ![c] = shown[p]]
  /\ Log /\ UNCHANGED <<main, i, ticks>>

WriteBegins(p) ==
  /\ At(p, "write")
  /\ i' = 0
  /\ Log /\ Calm /\ UNCHANGED <<pc, regs, mem>>

(* printk("%c", buf[i]) *)
Value == console[3].val
Counted == Ended /\ Len(console) = 4 /\ Value # Text
WritePuts(p) ==
  LET c == M(p).buffer[i] IN
  /\ current = p /\ i # User /\ i < M(p).tail
  /\ console' = Printed([by |-> p, kind |-> c.kind, val |-> c.val])
  /\ shown' = IF Counted' THEN [shown EXCEPT ![p] = Value'] ELSE shown
  /\ i' = i + 1
  /\ UNCHANGED <<kernel, main, pc, regs, mem, ticks>>

WriteReturns(p) ==
  /\ current = p /\ i # User /\ i >= M(p).tail
  /\ regs' = [regs EXCEPT ![p].a0 = i]
  /\ i' = User
  /\ Step(p) /\ Log /\ Calm /\ UNCHANGED mem

Write(p) == WriteBegins(p) \/ WritePuts(p) \/ WriteReturns(p)

Task(p) ==
  /\ \/ PostIncrement(p) \/ PreIncrement(p) \/ ReadMessage(p) \/ StoreMessage(p)
     \/ putc(p) \/ Reset(p) \/ Jump(p) \/ GetPid(p) \/ Clone(p) \/ Write(p)
  /\ ran' = TRUE
Running == \E p \in Slots : Task(p)

Next == Boot \/ Tick \/ Running

(* The hart does not stop, and a tick that finds interrupts off is taken   *)
(* as soon as they are on, before the program takes a step.                *)
Spec ==
  /\ Init /\ [][Next]_vars
  /\ WF_vars(Boot) /\ WF_vars(Running) /\ SF_vars(Tick)

-----------------------------------------------------------------------------
(* Every task is at an instruction, and its buffer has room for the next   *)
(* character: the lines of main.c fit, and tail is back at 0 for each.     *)
TypeOK ==
  /\ \A p \in Slots : pc[p] \in DOMAIN main
  /\ \A p \in Slots : mem[p].tail \in 0 .. 4
  /\ i \in 0 .. 4 \cup {User}

(* What is on the console since the last line is the beginning of a line   *)
(* of one task with the pid of that task, or one line of the kernel's log, *)
(* however the tasks are interrupted in printf: the kernel writes a buffer *)
(* without being interrupted and logs before or after it.                  *)
LinesWhole ==
  \/ console = <<Logged>>
  \/ \A k \in DOMAIN console :
       /\ console[k].by = console[1].by
       /\ console[k].kind = Line(main)[k]
       /\ console[k].kind = "pid" => console[k].val = console[k].by

(* A task counts on from the last value that it, or before the fork its    *)
(* parent, has shown: no line is lost or repeated, and no task counts in   *)
(* the variable of another (main.c increments before the line is shown).   *)
CountsOn ==
  [][(console' # console /\ Counted') =>
        LET last == shown[console'[1].by] IN
          \/ Value' = Next1(last)
          \/ last = -1 /\ main = PFH1 /\ Value' = 1]_vars

(* The child of a fork takes the branch for pid == 0 and the parent the    *)
(* other, although SYS_CLONE returns nothing to the parent (TrapFrame):    *)
(* what main.c leaves in a0 before its forks is never 0.                   *)
BranchesTaken ==
  \A k \in DOMAIN console : console[k].kind = "label" =>
    (console[k].val = "U-CHILD" => console[k].by # Root)
      /\ (console[k].val = "U-PARENT" => console[k].by = Root)

(* The programs of main.c create no more tasks than task[] has slots.      *)
FitsTable == Kernel!TaskTableHoldsAll

(* Parent and child print again and again, if ticks do not stop and there  *)
(* is a test.                                                              *)
EveryTaskPrints ==
  \A p \in {Root, Root + 1} :
    p \in Kernel!Live /\ Ticks(main) = 0 /\ main # NOTEST
      ~> Ended /\ console[1].by = p
=============================================================================

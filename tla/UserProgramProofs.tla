------------------------- MODULE UserProgramProofs -------------------------
(***************************************************************************)
(* Theorems about UserProgram, for every program that is formed as         *)
(* UserMain says, for every number of tasks and however they are           *)
(* interrupted.                                                            *)
(***************************************************************************)
EXTENDS UserProgram, TLAPS, FiniteSetTheorems

Tasks == INSTANCE SchedProofs

MainsFormed == \A m \in Mains : Formed(m)

-----------------------------------------------------------------------------
(* The scheduler *)

LEMMA SameAssumption == Tasks!SchedAssumption
BY UserAssumption DEF Kernel!SchedAssumption, Tasks!SchedAssumption

LEMMA KernelStarts == Kernel!Init => Tasks!SchedInv
<1>1. Kernel!Init => Tasks!Init
  BY DEF Kernel!Init, Tasks!Init, Kernel!Idle, Tasks!Idle, Kernel!Slots, Tasks!Slots,
         Kernel!Rand, Tasks!Rand
<1>2. Tasks!Init => Tasks!SchedInv
  BY SameAssumption, Tasks!SchedInit
<1> QED
  BY <1>1, <1>2

LEMMA SameScheduler ==
  /\ Kernel!StartKernel => Tasks!StartKernel
  /\ Kernel!Tick => Tasks!Tick
  /\ Kernel!Fork => Tasks!Fork
<1>1. ASSUME NEW c PROVE Kernel!Schedule(c) = Tasks!Schedule(c)
  BY DEF Kernel!Schedule, Tasks!Schedule, Kernel!Refill, Tasks!Refill, Kernel!AllUsedUp,
         Tasks!AllUsedUp, Kernel!Chosen, Tasks!Chosen, Kernel!Live, Tasks!Live,
         Kernel!Slots, Tasks!Slots
<1>2. Kernel!Waits = Tasks!Waits
  BY DEF Kernel!Waits, Tasks!Waits, Kernel!WaitCap, Tasks!WaitCap, Kernel!Live, Tasks!Live,
         Kernel!Slots, Tasks!Slots
<1>3. Kernel!StartKernel => Tasks!StartKernel
  BY <1>1, <1>2 DEF Kernel!StartKernel, Tasks!StartKernel, Kernel!Idle, Tasks!Idle
<1>4. Kernel!Tick => Tasks!Tick
  BY <1>1, <1>2 DEF Kernel!Tick, Tasks!Tick, Kernel!Idle, Tasks!Idle, Kernel!Charged,
                    Tasks!Charged, Kernel!UsedUp, Tasks!UsedUp
<1>5. Kernel!Fork => Tasks!Fork
  BY DEF Kernel!Fork, Tasks!Fork, Kernel!Idle, Tasks!Idle, Kernel!ChildSlice,
         Tasks!ChildSlice
<1> QED
  BY <1>3, <1>4, <1>5

(* Every step of the programs is a step of the scheduler or none. *)
LEMMA KernelStep == Tasks!SchedInv /\ [Next]_vars => Tasks!SchedInv'
<1> SUFFICES ASSUME Tasks!SchedInv, [Next]_vars PROVE Tasks!SchedInv'
  OBVIOUS
<1>1. [Tasks!Next]_(Tasks!vars)
  <2>1. CASE Boot
    BY <2>1, SameScheduler DEF Boot, Tasks!Next
  <2>2. CASE Tick
    BY <2>2, SameScheduler DEF Tick, Tasks!Next
  <2>3. CASE Running
    <3>1. PICK p \in Slots : Task(p)
      BY <2>3 DEF Running
    <3>2. Kernel!Fork \/ UNCHANGED kernel
      BY <3>1 DEF Task, PostIncrement, PreIncrement, ReadMessage, StoreMessage, Evaluate,
                  putc, Reset, Jump, GetPid, Clone, Write, WriteBegins, WritePuts,
                  WriteReturns, Quiet, Calm, kernel
    <3> QED
      BY <3>2, SameScheduler DEF Tasks!Next, Tasks!vars, kernel
  <2>4. CASE UNCHANGED vars
    BY <2>4 DEF vars, kernel, Tasks!vars
  <2> QED
    BY <2>1, <2>2, <2>3, <2>4 DEF Next
<1> QED
  BY <1>1, SameAssumption, Tasks!SchedStep

LEMMA SameFinite ==
  ASSUME NEW S, IsFiniteSet(S)
  PROVE  Tasks!IsFiniteSet(S)
BY DEF IsFiniteSet, Tasks!IsFiniteSet

(* What the other proofs need to know of the scheduler. *)
LEMMA KernelFacts ==
  ASSUME Tasks!SchedInv
  PROVE  /\ nr_tasks \in Nat /\ 2 <= nr_tasks /\ nr_tasks <= MaxTasks
         /\ current \in Slots
         /\ current # Kernel!Idle => current \in Kernel!Live
         /\ Kernel!Live \subseteq Slots /\ Kernel!Idle \notin Kernel!Live
         /\ Root \in Kernel!Live
         /\ Slots \subseteq Nat
<1>1. Tasks!TypeOK
  BY DEF Tasks!SchedInv
<1>2. /\ InitTasks \in Nat /\ MaxTasks \in Nat /\ 2 <= InitTasks
  BY SameAssumption DEF Tasks!SchedAssumption
<1> QED
  BY <1>1, <1>2 DEF Tasks!TypeOK, Tasks!Live, Kernel!Live, Slots, Kernel!Slots, Kernel!Idle,
                    Tasks!Idle, Root

LEMMA ForkAdds ==
  ASSUME Tasks!SchedInv, Kernel!Fork
  PROVE  /\ nr_tasks \in Slots /\ nr_tasks \notin Kernel!Live /\ nr_tasks # Root
         /\ nr_tasks # current
         /\ Kernel!Live' = Kernel!Live \cup {nr_tasks}
         /\ nr_tasks' = nr_tasks + 1 /\ current' = current
<1>1. /\ nr_tasks \in Nat /\ 2 <= nr_tasks /\ MaxTasks \in Nat
      /\ current # Kernel!Idle => current \in Kernel!Live
  BY KernelFacts, SameAssumption DEF Tasks!SchedAssumption
<1> QED
  BY <1>1 DEF Kernel!Fork, Kernel!Live, Slots, Kernel!Slots, Root

-----------------------------------------------------------------------------
(* The text of a program that is formed *)

Kinds == {"label", "pid", "value", "NUL"}

LEMMA LineShape ==
  ASSUME NEW m
  PROVE  /\ Len(Line(m)) = IF m = NOTEST THEN 2 ELSE 4
         /\ Line(m)[1] = "label" /\ Line(m)[Len(Line(m))] = "NUL"
         /\ \A k \in 1 .. Len(Line(m)) : Line(m)[k] \in Kinds
         /\ \A k \in 2 .. Len(Line(m)) : Line(m)[k] # "label"
         /\ \A k \in 1 .. Len(Line(m)) - 1 : Line(m)[k] \notin {"NUL", "log"}
<1>1. CASE m = NOTEST
  <2>1. Line(m) = <<"label", "NUL">>
    BY <1>1 DEF Line
  <2>2. /\ Len(Line(m)) = 2
        /\ Line(m)[1] = "label"
        /\ Line(m)[2] = "NUL"
    BY <2>1
  <2>3. /\ 1 .. Len(Line(m)) = {1, 2}
        /\ 2 .. Len(Line(m)) = {2}
        /\ 1 .. Len(Line(m)) - 1 = {1}
    BY <2>2
  <2> DEFINE n == Len(Line(m))
  <2> HIDE DEF n
  <2>4. n = 2 /\ 1 .. n = {1, 2} /\ 2 .. n = {2} /\ 1 .. n - 1 = {1}
    BY <2>2, <2>3 DEF n
  <2>5. /\ n = IF m = NOTEST THEN 2 ELSE 4
        /\ Line(m)[1] = "label" /\ Line(m)[n] = "NUL"
    BY <1>1, <2>2, <2>4
  <2>6. ASSUME NEW k \in 1 .. n
        PROVE  /\ Line(m)[k] \in Kinds
               /\ k >= 2 => Line(m)[k] # "label"
               /\ k <= n - 1 => Line(m)[k] \notin {"NUL", "log"}
    <3>1. k = 1 \/ k = 2
      BY <2>4
    <3>2. Line(m)[k] = "label" \/ Line(m)[k] = "NUL"
      BY <2>2, <3>1
    <3>3. Line(m)[k] \in Kinds
      BY <3>2 DEF Kinds
    <3>4. k >= 2 => Line(m)[k] # "label"
      BY <2>2, <3>1
    <3>5. k <= n - 1 => Line(m)[k] \notin {"NUL", "log"}
      BY <2>2, <2>4, <3>1
    <3> QED
      BY <3>3, <3>4, <3>5
  <2> QED
    BY <2>4, <2>5, <2>6 DEF n
<1>2. CASE m # NOTEST
  <2>1. Line(m) = <<"label", "pid", "value", "NUL">>
    BY <1>2 DEF Line
  <2>2. /\ Len(Line(m)) = 4
        /\ Line(m)[1] = "label"
        /\ Line(m)[2] = "pid"
        /\ Line(m)[3] = "value"
        /\ Line(m)[4] = "NUL"
    BY <2>1
  <2>3. /\ 1 .. Len(Line(m)) = {1, 2, 3, 4}
        /\ 2 .. Len(Line(m)) = {2, 3, 4}
        /\ 1 .. Len(Line(m)) - 1 = {1, 2, 3}
    BY <2>2
  <2> DEFINE n == Len(Line(m))
  <2> HIDE DEF n
  <2>4. n = 4 /\ 1 .. n = {1, 2, 3, 4} /\ 2 .. n = {2, 3, 4} /\ 1 .. n - 1 = {1, 2, 3}
    BY <2>2, <2>3 DEF n
  <2>5. /\ n = IF m = NOTEST THEN 2 ELSE 4
        /\ Line(m)[1] = "label" /\ Line(m)[n] = "NUL"
    BY <1>2, <2>2, <2>4
  <2>6. ASSUME NEW k \in 1 .. n
        PROVE  /\ Line(m)[k] \in Kinds
               /\ k >= 2 => Line(m)[k] # "label"
               /\ k <= n - 1 => Line(m)[k] \notin {"NUL", "log"}
    <3>1. k = 1 \/ k = 2 \/ k = 3 \/ k = 4
      BY <2>4
    <3>2. Line(m)[k] = "label" \/ Line(m)[k] = "pid" \/ Line(m)[k] = "value" \/ Line(m)[k] = "NUL"
      BY <2>2, <3>1
    <3>3. Line(m)[k] \in Kinds
      BY <3>2 DEF Kinds
    <3>4. k >= 2 => Line(m)[k] # "label"
      BY <2>2, <3>1
    <3>5. k <= n - 1 => Line(m)[k] \notin {"NUL", "log"}
      BY <2>2, <2>4, <3>1
    <3> QED
      BY <3>3, <3>4, <3>5
  <2> QED
    BY <2>4, <2>5, <2>6 DEF n
<1> QED
  BY <1>1, <1>2

LEMMA TextFacts ==
  ASSUME MainsFormed, NEW m \in Mains
  PROVE  /\ Closed(m) /\ LinesFormed(m) /\ BranchesFormed(m) /\ CountsFormed(m)
         /\ ForksFormed(m)
         /\ 1 \in DOMAIN m /\ DOMAIN m \subseteq Nat
         /\ \A k \in DOMAIN m : Op(m, k) \in Operations /\ Follows(m, k) \subseteq DOMAIN m
BY DEF MainsFormed, Formed, Closed

LEMMA FilledFacts ==
  ASSUME MainsFormed, NEW m \in Mains, NEW k \in DOMAIN m
  PROVE  /\ Filled(m, k) \in 0 .. Len(Line(m)) /\ Filled(m, k) \in 0 .. 4
         /\ Op(m, k) \in {"write", "reset"} => Filled(m, k) = Len(Line(m))
         /\ Op(m, k) = "putc" => Filled(m, k) < Len(Line(m))
         /\ Op(m, k) \notin {"putc", "write", "reset"} => Filled(m, k) = 0
<1>1. Len(Line(m)) \in {2, 4}
  BY LineShape
<1>2. Op(m, k) = "putc" => Filled(m, k) \in 0 .. Len(Line(m)) - 1
  BY TextFacts DEF LinesFormed
<1>3. ASSUME Op(m, k) \in {"write", "reset"} PROVE Filled(m, k) = Len(Line(m))
  BY <1>3 DEF Filled
<1>4. ASSUME Op(m, k) \notin {"putc", "write", "reset"} PROVE Filled(m, k) = 0
  BY <1>4 DEF Filled
<1> DEFINE n == Len(Line(m))
           f == Filled(m, k)
<1> HIDE DEF n, f
<1>5. /\ n \in {2, 4}
      /\ Op(m, k) = "putc" => f \in 0 .. n - 1
      /\ Op(m, k) \in {"write", "reset"} => f = n
      /\ Op(m, k) \notin {"putc", "write", "reset"} => f = 0
  BY <1>1, <1>2, <1>3, <1>4 DEF n, f
<1>6. f \in 0 .. n /\ f \in 0 .. 4 /\ (Op(m, k) = "putc" => f < n)
  BY <1>5
<1> QED
  BY <1>3, <1>4, <1>6 DEF n, f

-----------------------------------------------------------------------------
(* What the steps of a task do *)

Regs      == [a0 : Int, value : Int]
Chars     == UNION {{m[k].char : k \in DOMAIN m} : m \in Mains}
Character == [kind : Kinds, val : Int \cup Chars]
Memory    == [global_variable : Int, placeholder : Int, tail : 0 .. 4,
              buffer : [0 .. BufferSize - 1 -> Character]]

(* The type of the tasks; that of shown depends on what is counted. *)
Typed ==
  /\ main \in Mains
  /\ pc \in [Slots -> Nat] /\ \A p \in Slots : pc[p] \in DOMAIN main
  /\ regs \in [Slots -> Regs]
  /\ mem \in [Slots -> Memory]
  /\ i \in Nat \cup {User}

OpOf(p) == Op(main, pc[p])

(* All that a step of task p changes is where it is, its registers and its *)
(* memory.                                                                 *)
LocalStep(p) ==
  /\ current = p /\ p \in Kernel!Live /\ p \in Slots
  /\ UNCHANGED <<current, nr_tasks, main>> /\ Kernel!Live' = Kernel!Live
  /\ pc' \in [Slots -> Nat] /\ pc'[p] \in Follows(main, pc[p])
  /\ regs' \in [Slots -> Regs] /\ mem' \in [Slots -> Memory]
  /\ \A q \in Slots \ {p} : pc'[q] = pc[q] /\ regs'[q] = regs[q] /\ mem'[q] = mem[q]

LEMMA EvaluateStep ==
  ASSUME MainsFormed, Tasks!SchedInv, Typed, NEW p \in Slots, NEW op \in Assignments \cup {"store"},
         NEW value \in Int, NEW m \in Memory, Evaluate(p, op, value, m)
  PROVE  /\ LocalStep(p) /\ OpOf(p) = op /\ i = User /\ i' = User
         /\ regs'[p].a0 = regs[p].a0 /\ regs'[p].value = value /\ mem'[p] = m
         /\ UNCHANGED <<shown, console>>
<1>1. /\ current = p /\ p \in Kernel!Live /\ OpOf(p) = op /\ i = User /\ i' = User
      /\ UNCHANGED <<current, nr_tasks, main, shown, console>>
  BY KernelFacts DEF Evaluate, At, Quiet, Calm, kernel, OpOf, Op, Instr
<1>2. Follows(main, pc[p]) = {pc[p] + 1}
  BY <1>1 DEF Follows, OpOf, Assignments
<1>3. /\ pc' \in [Slots -> Nat] /\ pc'[p] = pc[p] + 1
      /\ \A q \in Slots \ {p} : pc'[q] = pc[q]
  BY DEF Evaluate, Step, Typed
<1>4. /\ regs' \in [Slots -> Regs] /\ regs'[p].a0 = regs[p].a0 /\ regs'[p].value = value
      /\ \A q \in Slots \ {p} : regs'[q] = regs[q]
  BY DEF Evaluate, Typed, Regs
<1>5. /\ mem' \in [Slots -> Memory] /\ mem'[p] = m
      /\ \A q \in Slots \ {p} : mem'[q] = mem[q]
  BY DEF Evaluate, Typed
<1> QED
  BY <1>1, <1>2, <1>3, <1>4, <1>5 DEF LocalStep, Kernel!Live

LEMMA PutIntoFacts ==
  ASSUME NEW m \in Memory, m.tail < 4, NEW c \in Character
  PROVE  /\ PutInto(m, c) \in Memory
         /\ PutInto(m, c).tail = m.tail + 1
         /\ PutInto(m, c).buffer = [m.buffer EXCEPT ![m.tail] = c]
         /\ PutInto(m, c).global_variable = m.global_variable
         /\ PutInto(m, c).placeholder = m.placeholder
<1> DEFINE b == [m.buffer EXCEPT ![m.tail] = c]
<1>1. m.tail \in 0 .. 3 /\ m.buffer \in [0 .. BufferSize - 1 -> Character]
  BY DEF Memory
<1>2. b \in [0 .. BufferSize - 1 -> Character]
  BY <1>1 DEF BufferSize
<1>3. PutInto(m, c) = [[m EXCEPT !.buffer = b] EXCEPT !.tail = m.tail + 1]
  BY DEF PutInto
<1> HIDE DEF b
<1> DEFINE r == [m EXCEPT !.buffer = b]
<1>4. /\ r \in Memory /\ r.buffer = b /\ r.tail = m.tail
      /\ r.global_variable = m.global_variable /\ r.placeholder = m.placeholder
  BY <1>2 DEF Memory
<1> HIDE DEF r
<1>5. /\ PutInto(m, c) \in Memory /\ PutInto(m, c).tail = m.tail + 1
      /\ PutInto(m, c).buffer = b
      /\ PutInto(m, c).global_variable = m.global_variable
      /\ PutInto(m, c).placeholder = m.placeholder
  <2>1. PutInto(m, c) = [r EXCEPT !.tail = m.tail + 1]
    BY <1>3 DEF r
  <2> QED
    BY <1>1, <1>4, <2>1 DEF Memory
<1> QED
  BY <1>5 DEF b

LEMMA PutcStep ==
  ASSUME MainsFormed, Tasks!SchedInv, Typed, NEW p \in Slots, putc(p),
         mem[p].tail < 4, OpOf(p) = "putc" => main[pc[p]].kind \in Kinds
  PROVE  /\ LocalStep(p) /\ OpOf(p) = "putc" /\ i = User /\ i' = User
         /\ UNCHANGED <<regs, shown, console>>
         /\ mem'[p].tail = mem[p].tail + 1
         /\ mem'[p].buffer = [mem[p].buffer EXCEPT ![mem[p].tail] = Char(p)]
         /\ mem'[p].global_variable = mem[p].global_variable
         /\ mem'[p].placeholder = mem[p].placeholder
<1>1. /\ current = p /\ p \in Kernel!Live /\ OpOf(p) = "putc" /\ i = User /\ i' = User
      /\ UNCHANGED <<current, nr_tasks, main, regs, shown, console>>
  BY KernelFacts DEF putc, At, Quiet, Calm, kernel, OpOf, Op, Instr
<1>2. Follows(main, pc[p]) = {pc[p] + 1}
  BY <1>1 DEF Follows, OpOf
<1>3. /\ pc' \in [Slots -> Nat] /\ pc'[p] = pc[p] + 1
      /\ \A q \in Slots \ {p} : pc'[q] = pc[q]
  BY DEF putc, Step, Typed
<1>4. Char(p) \in Character
  <2>1. regs[p].a0 \in Int /\ regs[p].value \in Int
    BY DEF Typed, Regs
  <2>2. main[pc[p]].char \in Chars
    BY DEF Typed, Chars
  <2> QED
    BY <1>1, <2>1, <2>2 DEF Char, Instr, OpOf, Op, Character
<1>5. mem[p] \in Memory
  BY DEF Typed
<1> DEFINE n == PutInto(mem[p], Char(p))
<1>6. /\ n \in Memory /\ n.tail = mem[p].tail + 1
      /\ n.buffer = [mem[p].buffer EXCEPT ![mem[p].tail] = Char(p)]
      /\ n.global_variable = mem[p].global_variable /\ n.placeholder = mem[p].placeholder
  BY <1>4, <1>5, PutIntoFacts
<1>7. mem' = [mem EXCEPT ![p] = n]
  BY DEF putc, M
<1> HIDE DEF n
<1>8. /\ mem' \in [Slots -> Memory] /\ mem'[p] = n
      /\ \A q \in Slots \ {p} : mem'[q] = mem[q]
  BY <1>6, <1>7 DEF Typed
<1> QED
  BY <1>1, <1>2, <1>3, <1>6, <1>8 DEF LocalStep, Kernel!Live, Typed

LEMMA ResetStep ==
  ASSUME MainsFormed, Tasks!SchedInv, Typed, NEW p \in Slots, Reset(p)
  PROVE  /\ LocalStep(p) /\ OpOf(p) = "reset" /\ i = User /\ i' = User
         /\ UNCHANGED <<shown, console>>
         /\ regs'[p].a0 = mem[p].tail - 1
         /\ mem'[p] = [mem[p] EXCEPT !.tail = 0]
<1>1. /\ current = p /\ p \in Kernel!Live /\ OpOf(p) = "reset" /\ i = User /\ i' = User
      /\ UNCHANGED <<current, nr_tasks, main, shown, console>>
  BY KernelFacts DEF Reset, At, Quiet, Calm, kernel, OpOf, Op, Instr
<1>2. Follows(main, pc[p]) = {pc[p] + 1}
  BY <1>1 DEF Follows, OpOf
<1>3. /\ pc' \in [Slots -> Nat] /\ pc'[p] = pc[p] + 1
      /\ \A q \in Slots \ {p} : pc'[q] = pc[q]
  BY DEF Reset, Step, Typed
<1>4. mem[p] \in Memory /\ mem[p].tail \in Int
  BY DEF Typed, Memory
<1>5. /\ regs' \in [Slots -> Regs] /\ regs'[p].a0 = mem[p].tail - 1
      /\ \A q \in Slots \ {p} : regs'[q] = regs[q]
  BY <1>4 DEF Reset, Typed, Regs, M
<1>6. [mem[p] EXCEPT !.tail = 0] \in Memory
  BY <1>4 DEF Memory
<1>7. /\ mem' \in [Slots -> Memory] /\ mem'[p] = [mem[p] EXCEPT !.tail = 0]
      /\ \A q \in Slots \ {p} : mem'[q] = mem[q]
  BY <1>6 DEF Reset, Typed
<1> QED
  BY <1>1, <1>2, <1>3, <1>5, <1>7 DEF LocalStep, Kernel!Live

LEMMA JumpStep ==
  ASSUME MainsFormed, Tasks!SchedInv, Typed, NEW p \in Slots, Jump(p)
  PROVE  /\ LocalStep(p) /\ OpOf(p) \in {"jump", "bnez"} /\ i = User /\ i' = User
         /\ UNCHANGED <<regs, mem, shown, console>>
         /\ OpOf(p) = "bnez" => pc'[p] = pc[p] + IF regs[p].a0 = 0 THEN 1 ELSE main[pc[p]].by
<1>1. /\ current = p /\ p \in Kernel!Live /\ OpOf(p) \in {"jump", "bnez"} /\ i = User /\ i' = User
      /\ UNCHANGED <<current, nr_tasks, main, regs, mem, shown, console>>
  BY KernelFacts DEF Jump, At, Quiet, Calm, kernel, OpOf, Op, Instr
<1>2. /\ pc'[p] = pc[p] + (IF OpOf(p) = "bnez" /\ regs[p].a0 = 0 THEN 1 ELSE main[pc[p]].by)
      /\ pc' = [pc EXCEPT ![p] = pc'[p]]
  BY DEF Jump, Typed, OpOf, Op, Instr
<1>3. pc'[p] \in Follows(main, pc[p])
  BY <1>1, <1>2 DEF Follows, OpOf
<1>4. pc'[p] \in Nat
  BY <1>3, TextFacts DEF Typed
<1>5. /\ pc' \in [Slots -> Nat] /\ \A q \in Slots \ {p} : pc'[q] = pc[q]
  BY <1>2, <1>4 DEF Typed
<1> QED
  BY <1>1, <1>2, <1>3, <1>5 DEF LocalStep, Kernel!Live, Typed

LEMMA GetPidStep ==
  ASSUME MainsFormed, Tasks!SchedInv, Typed, NEW p \in Slots, GetPid(p)
  PROVE  /\ LocalStep(p) /\ OpOf(p) = "getpid" /\ i = User /\ i' = User
         /\ UNCHANGED <<mem, shown>> /\ console' = Printed(Logged)
         /\ regs'[p].a0 = p
<1>1. /\ current = p /\ p \in Kernel!Live /\ OpOf(p) = "getpid" /\ i = User /\ i' = User
      /\ UNCHANGED <<current, nr_tasks, main, mem, shown>> /\ console' = Printed(Logged)
  BY KernelFacts DEF GetPid, At, Calm, Log, kernel, OpOf, Op, Instr
<1>2. Follows(main, pc[p]) = {pc[p] + 1}
  BY <1>1 DEF Follows, OpOf
<1>3. /\ pc' \in [Slots -> Nat] /\ pc'[p] = pc[p] + 1
      /\ \A q \in Slots \ {p} : pc'[q] = pc[q]
  BY DEF GetPid, Step, Typed
<1>4. current \in Int
  BY KernelFacts
<1>5. /\ regs' \in [Slots -> Regs] /\ regs'[p].a0 = p
      /\ \A q \in Slots \ {p} : regs'[q] = regs[q]
  BY <1>1, <1>4 DEF GetPid, Typed, Regs
<1> QED
  BY <1>1, <1>2, <1>3, <1>5 DEF LocalStep, Kernel!Live, Typed

CloneStep(p) ==
  LET c == nr_tasks IN
  /\ Kernel!Fork /\ current = p /\ p \in Kernel!Live /\ p \in Slots /\ c \in Slots /\ c # p
  /\ OpOf(p) = "fork" /\ i = User /\ i' = User /\ console' = Printed(Logged)
  /\ UNCHANGED main
  /\ pc' \in [Slots -> Nat] /\ regs' \in [Slots -> Regs] /\ mem' \in [Slots -> Memory]
  /\ Follows(main, pc[p]) = {pc[p] + 1} /\ pc'[p] = pc[p] + 1 /\ pc'[c] = pc[p] + 1
  /\ regs'[p] = regs[p] /\ regs'[c].a0 = 0
  /\ mem'[p] = mem[p] /\ mem'[c] = mem[p]
  /\ shown' = [shown EXCEPT ![c] = shown[p]]
  /\ \A q \in Slots \ {p, c} : pc'[q] = pc[q] /\ regs'[q] = regs[q] /\ mem'[q] = mem[q]

LEMMA ForkStep ==
  ASSUME MainsFormed, Tasks!SchedInv, Typed, NEW p \in Slots, Clone(p)
  PROVE  CloneStep(p)
<1>1. /\ current = p /\ p \in Kernel!Live /\ OpOf(p) = "fork" /\ i = User /\ i' = User
      /\ Kernel!Fork /\ UNCHANGED main /\ console' = Printed(Logged)
      /\ shown' = [shown EXCEPT ![nr_tasks] = shown[p]]
  BY KernelFacts DEF Clone, At, Log, OpOf, Op, Instr
<1>2. nr_tasks \in Slots /\ nr_tasks # p
  BY <1>1, ForkAdds
<1>3. Follows(main, pc[p]) = {pc[p] + 1}
  BY <1>1 DEF Follows, OpOf
<1>4. /\ pc' \in [Slots -> Nat] /\ pc'[p] = pc[p] + 1 /\ pc'[nr_tasks] = pc[p] + 1
      /\ \A q \in Slots \ {p, nr_tasks} : pc'[q] = pc[q]
  BY <1>2 DEF Clone, Typed
<1> DEFINE r == [regs[p] EXCEPT !.a0 = 0]
<1>5. r \in Regs /\ r.a0 = 0
  BY DEF Typed, Regs
<1>6. regs' = [regs EXCEPT ![nr_tasks] = r]
  BY DEF Clone, ChildA0
<1> HIDE DEF r
<1>7. /\ regs' \in [Slots -> Regs] /\ regs'[p] = regs[p] /\ regs'[nr_tasks].a0 = 0
      /\ \A q \in Slots \ {p, nr_tasks} : regs'[q] = regs[q]
  BY <1>2, <1>5, <1>6 DEF Typed
<1>8. /\ mem' \in [Slots -> Memory] /\ mem'[p] = mem[p] /\ mem'[nr_tasks] = mem[p]
      /\ \A q \in Slots \ {p, nr_tasks} : mem'[q] = mem[q]
  BY <1>2 DEF Clone, CopiedMemory, Typed
<1> QED
  BY <1>1, <1>2, <1>3, <1>4, <1>7, <1>8 DEF CloneStep

LEMMA WriteReturnsStep ==
  ASSUME MainsFormed, Tasks!SchedInv, Typed, NEW p \in Slots, WriteReturns(p),
         current # Kernel!Idle, OpOf(current) = "write"
  PROVE  /\ LocalStep(p) /\ OpOf(p) = "write" /\ i # User /\ i' = User
         /\ UNCHANGED <<mem, shown>> /\ console' = Printed(Logged)
         /\ regs'[p].a0 = i /\ i >= mem[p].tail
<1>1. /\ current = p /\ p \in Kernel!Live /\ OpOf(p) = "write" /\ i # User /\ i' = User
      /\ UNCHANGED <<current, nr_tasks, main, mem, shown>> /\ console' = Printed(Logged)
      /\ i >= mem[p].tail
  BY KernelFacts DEF WriteReturns, Calm, Log, kernel, M
<1>2. Follows(main, pc[p]) = {pc[p] + 1}
  BY <1>1 DEF Follows, OpOf
<1>3. /\ pc' \in [Slots -> Nat] /\ pc'[p] = pc[p] + 1
      /\ \A q \in Slots \ {p} : pc'[q] = pc[q]
  BY DEF WriteReturns, Step, Typed
<1>4. i \in Int
  BY DEF Typed, User
<1>5. /\ regs' \in [Slots -> Regs] /\ regs'[p].a0 = i
      /\ \A q \in Slots \ {p} : regs'[q] = regs[q]
  BY <1>4 DEF WriteReturns, Typed, Regs
<1> QED
  BY <1>1, <1>2, <1>3, <1>5 DEF LocalStep, Kernel!Live, Typed

(* Steps of the kernel, and those of SYS_WRITE but the last, leave the     *)
(* tasks alone.                                                            *)
TasksAlone == UNCHANGED <<main, pc, regs, mem>>

-----------------------------------------------------------------------------
(* Lines *)

BufferOK(p) ==
  /\ mem[p].tail = Filled(main, pc[p])
  /\ \A k \in 0 .. mem[p].tail - 1 :
       /\ mem[p].buffer[k].kind = Line(main)[k + 1]
       /\ mem[p].buffer[k].kind = "pid" => mem[p].buffer[k].val = p
  /\ KnowsPid(main, pc[p]) => regs[p].a0 = p

TasksOK == \A p \in Slots : BufferOK(p)

Entry == [by : Slots, kind : Kinds, val : Int \cup Chars]

(* What SYS_WRITE puts for the n-th character. *)
Shows(n) == LET c == mem[current].buffer[n - 1] IN
  [by |-> current, kind |-> c.kind, val |-> c.val]

Writing ==
  /\ current # Kernel!Idle /\ OpOf(current) = "write" /\ i \in 0 .. mem[current].tail
  /\ i = 0 => console = <<Logged>>
  /\ i > 0 => /\ console \in Seq(Entry) /\ Len(console) = i
              /\ \A k \in 1 .. i : console[k] = Shows(k)

ConsoleOK ==
  /\ i = User => console \in {<<>>, <<Logged>>}
  /\ i # User => Writing

LineInv == Tasks!SchedInv /\ Typed /\ TasksOK /\ ConsoleOK

LEMMA LineInit == ASSUME MainsFormed PROVE Init => LineInv
<1> SUFFICES ASSUME Init PROVE LineInv
  OBVIOUS
<1>1. Tasks!SchedInv
  BY KernelStarts DEF Init
<1>2. /\ main \in Mains /\ 1 \in DOMAIN main
      /\ Filled(main, 1) = 0 /\ ~KnowsPid(main, 1)
  BY TextFacts DEF Init, LinesFormed
<1>3. Loaded \in Memory /\ Loaded.tail = 0
  BY DEF Loaded, Memory, Empty, Character, Kinds, BufferSize
<1>4. [a0 |-> IdleTask, value |-> 0] \in Regs
  BY DEF Regs, IdleTask
<1>5. Typed
  BY <1>2, <1>3, <1>4 DEF Init, Typed
<1>6. TasksOK
  BY <1>2, <1>3 DEF Init, TasksOK, BufferOK
<1>7. ConsoleOK
  BY DEF Init, ConsoleOK
<1> QED
  BY <1>1, <1>5, <1>6, <1>7 DEF LineInv

LEMMA LogPrinted ==
  ASSUME console \in {<<>>, <<Logged>>}
  PROVE  Printed(Logged) = <<Logged>>
<1>1. CASE console = <<>>
  BY <1>1 DEF Printed, Ended
<1>2. CASE console = <<Logged>>
  <2>1. Ended
    BY <1>2 DEF Ended, Last, Logged
  <2> QED
    BY <2>1 DEF Printed
<1> QED
  BY <1>1, <1>2

(* A line is complete when it is written, and until tail is reset. *)
LEMMA TailFull ==
  ASSUME MainsFormed, Typed, TasksOK, NEW p \in Slots, OpOf(p) \in {"write", "reset"}
  PROVE  mem[p].tail = Len(Line(main)) /\ mem[p].tail \in {2, 4}
<1>1. mem[p].tail = Filled(main, pc[p])
  BY DEF TasksOK, BufferOK
<1>2. Filled(main, pc[p]) = Len(Line(main))
  BY FilledFacts DEF Typed, OpOf
<1>3. Len(Line(main)) \in {2, 4}
  BY LineShape
<1> QED
  BY <1>1, <1>2, <1>3

(* A step of task p leaves the lines of the others as they are. *)
LEMMA LocalLine ==
  ASSUME MainsFormed, Typed, TasksOK, NEW p \in Slots, LocalStep(p), BufferOK(p)',
         i' \in Nat \cup {User}
  PROVE  Typed' /\ TasksOK'
<1>1. main' = main /\ pc'[p] \in DOMAIN main /\ \A q \in Slots : pc[q] \in DOMAIN main
  BY TextFacts DEF LocalStep, Typed
<1>2. Typed'
  BY <1>1 DEF LocalStep, Typed
<1>3. ASSUME NEW q \in Slots, q # p PROVE BufferOK(q)'
  <2>1. pc'[q] = pc[q] /\ regs'[q] = regs[q] /\ mem'[q] = mem[q] /\ BufferOK(q)
    BY <1>3 DEF LocalStep, TasksOK
  <2> QED
    BY <1>1, <2>1 DEF BufferOK
<1> QED
  BY <1>2, <1>3 DEF TasksOK

LEMMA QuietLine ==
  ASSUME MainsFormed, Typed, TasksOK, NEW p \in Slots, LocalStep(p), i' \in Nat \cup {User},
         OpOf(p) \notin {"putc", "reset"},
         mem'[p].tail = mem[p].tail, mem'[p].buffer = mem[p].buffer,
         OpOf(p) \in Assignments => regs'[p].a0 = regs[p].a0,
         OpOf(p) = "getpid" => regs'[p].a0 = p
  PROVE  Typed' /\ TasksOK'
<1>1. LineUp(main, pc[p], pc'[p])
  BY TextFacts DEF LocalStep, Typed, LinesFormed
<1>2. BufferOK(p)
  BY DEF TasksOK
<1>3. Filled(main, pc'[p]) = Filled(main, pc[p])
  BY <1>1 DEF LineUp, OpOf
<1>4. KnowsPid(main, pc'[p]) => regs'[p].a0 = p
  BY <1>1, <1>2 DEF LineUp, OpOf, BufferOK
<1>5. main' = main
  BY DEF LocalStep
<1>6. BufferOK(p)'
  BY <1>2, <1>3, <1>4, <1>5 DEF BufferOK
<1> QED
  BY <1>6, LocalLine

LEMMA PutcLine ==
  ASSUME MainsFormed, Tasks!SchedInv, Typed, TasksOK, NEW p \in Slots, putc(p)
  PROVE  /\ Typed' /\ TasksOK' /\ LocalStep(p) /\ OpOf(p) = "putc" /\ i = User /\ i' = User
         /\ UNCHANGED <<regs, shown, console>>
         /\ mem'[p].tail = mem[p].tail + 1 /\ mem[p].tail \in 0 .. 3
         /\ mem'[p].buffer = [mem[p].buffer EXCEPT ![mem[p].tail] = Char(p)]
         /\ mem'[p].global_variable = mem[p].global_variable
         /\ mem'[p].placeholder = mem[p].placeholder
         /\ Char(p).kind = Line(main)[mem[p].tail + 1]
<1> DEFINE k == pc[p]
           f == Filled(main, k)
<1>1. OpOf(p) = "putc"
  BY DEF putc, At, OpOf, Op, Instr
<1>2. /\ f \in 0 .. Len(Line(main)) - 1 /\ Len(Line(main)) \in {2, 4}
      /\ main[k].kind = Line(main)[f + 1]
  BY <1>1, TextFacts, LineShape DEF Typed, LinesFormed, OpOf
<1>3. BufferOK(p) /\ mem[p].tail = f
  BY DEF TasksOK, BufferOK
<1> DEFINE len == Len(Line(main))
<1> HIDE DEF f, len
<1>4. f \in 0 .. 3 /\ f + 1 \in 1 .. len
  BY <1>2 DEF len
<1>5. Line(main)[f + 1] \in Kinds
  BY <1>4, LineShape DEF len
<1>6. /\ LocalStep(p) /\ i = User /\ i' = User
      /\ UNCHANGED <<regs, shown, console>>
      /\ mem'[p].tail = f + 1
      /\ mem'[p].buffer = [mem[p].buffer EXCEPT ![f] = Char(p)]
      /\ mem'[p].global_variable = mem[p].global_variable
      /\ mem'[p].placeholder = mem[p].placeholder
  <2>1. mem[p].tail < 4 /\ main[pc[p]].kind \in Kinds
    BY <1>2, <1>3, <1>4, <1>5
  <2> QED
    BY <1>3, <2>1, PutcStep
<1>7. /\ Char(p).kind = Line(main)[f + 1]
      /\ main[k].kind = "pid" => Char(p).val = regs[p].a0
  BY <1>2 DEF Char, Instr
<1>8. LineUp(main, k, pc'[p]) /\ main' = main
  BY <1>6, TextFacts DEF LocalStep, Typed, LinesFormed
<1>9. Filled(main, pc'[p]) = f + 1 /\ (KnowsPid(main, pc'[p]) => KnowsPid(main, k))
  BY <1>1, <1>8 DEF LineUp, OpOf, f
<1>10. main[k].kind = "pid" => regs[p].a0 = p
  <2>1. SUFFICES ASSUME main[k].kind = "pid" PROVE KnowsPid(main, k)
    BY <1>3 DEF BufferOK
  <2>2. main # NOTEST /\ f = 1
    <3>1. /\ main = NOTEST => Line(main) = <<"label", "NUL">>
          /\ main # NOTEST => Line(main) = <<"label", "pid", "value", "NUL">>
      BY DEF Line
    <3>2. Line(main)[f + 1] = "pid" /\ f + 1 \in 1 .. len
      BY <1>2, <1>4, <2>1
    <3>3. CASE main = NOTEST
      <4>1. len = 2 /\ Line(main)[1] = "label" /\ Line(main)[2] = "NUL"
        BY <3>1, <3>3 DEF len
      <4>2. f + 1 = 1 \/ f + 1 = 2
        BY <1>4, <4>1
      <4> QED
        BY <3>2, <4>1, <4>2
    <3>4. CASE main # NOTEST
      <4>1. /\ Line(main)[1] = "label" /\ Line(main)[2] = "pid" /\ Line(main)[3] = "value"
            /\ Line(main)[4] = "NUL"
        BY <3>1, <3>4
      <4>2. f + 1 = 1 \/ f + 1 = 2 \/ f + 1 = 3 \/ f + 1 = 4
        BY <1>4
      <4> QED
        BY <1>4, <3>2, <3>4, <4>1, <4>2
    <3> QED
      BY <3>3, <3>4
  <2> QED
    BY <1>1, <2>2 DEF KnowsPid, OpOf, f
<1>11. BufferOK(p)'
  <2>1. mem[p].buffer \in [0 .. BufferSize - 1 -> Character]
    BY DEF Typed, Memory
  <2>2. ASSUME NEW j \in 0 .. f
        PROVE  /\ mem'[p].buffer[j].kind = Line(main)[j + 1]
               /\ mem'[p].buffer[j].kind = "pid" => mem'[p].buffer[j].val = p
    <3>1. CASE j = f
      <4>1. mem'[p].buffer[j] = Char(p)
        BY <1>4, <1>6, <2>1, <3>1 DEF BufferSize
      <4> QED
        BY <1>2, <1>7, <1>10, <3>1, <4>1
    <3>2. CASE j # f
      <4>1. mem'[p].buffer[j] = mem[p].buffer[j] /\ j \in 0 .. f - 1
        BY <1>4, <1>6, <2>1, <3>2 DEF BufferSize
      <4> QED
        BY <1>3, <4>1 DEF BufferOK
    <3> QED
      BY <3>1, <3>2
  <2>3. mem'[p].tail - 1 = f
    BY <1>4, <1>6
  <2>4. KnowsPid(main, pc'[p]) => regs'[p].a0 = p
    BY <1>3, <1>6, <1>9 DEF BufferOK
  <2> QED
    BY <1>6, <1>8, <1>9, <2>2, <2>3, <2>4 DEF BufferOK
<1>12. Typed' /\ TasksOK'
  BY <1>6, <1>11, LocalLine
<1> QED
  BY <1>1, <1>3, <1>4, <1>6, <1>7, <1>12

LEMMA ResetLine ==
  ASSUME MainsFormed, Tasks!SchedInv, Typed, TasksOK, NEW p \in Slots, Reset(p)
  PROVE  Typed' /\ TasksOK'
<1>1. /\ LocalStep(p) /\ OpOf(p) = "reset" /\ i' = User
      /\ mem'[p] = [mem[p] EXCEPT !.tail = 0]
  BY ResetStep
<1>2. LineUp(main, pc[p], pc'[p]) /\ main' = main
  BY <1>1, TextFacts DEF LocalStep, Typed, LinesFormed
<1>3. Filled(main, pc'[p]) = 0 /\ ~KnowsPid(main, pc'[p])
  BY <1>1, <1>2 DEF LineUp, OpOf, Assignments
<1>4. mem'[p].tail = 0
  BY <1>1 DEF Typed, Memory
<1>5. BufferOK(p)'
  BY <1>2, <1>3, <1>4 DEF BufferOK
<1> QED
  BY <1>1, <1>5, LocalLine

(* All steps but those of SYS_WRITE start and end in user mode. *)
LEMMA UserConsole ==
  ASSUME ConsoleOK, i = User, i' = User, console' \in {console, Printed(Logged)}
  PROVE  ConsoleOK'
BY LogPrinted DEF ConsoleOK, Logged, Kernel!Idle

LEMMA IncrementedFacts ==
  ASSUME NEW m \in Memory
  PROVE  /\ Incremented(m) \in Memory /\ Incremented(m).tail = m.tail
         /\ Incremented(m).buffer = m.buffer /\ Incremented(m).placeholder = m.placeholder
         /\ Incremented(m).global_variable = Next1(m.global_variable)
<1>1. m.global_variable \in Int
  BY DEF Memory
<1>2. Next1(m.global_variable) \in Int
  BY <1>1, UserAssumption DEF Next1
<1> DEFINE v == Next1(m.global_variable)
<1>3. Incremented(m) = [m EXCEPT !.global_variable = v]
  BY DEF Incremented
<1> HIDE DEF v
<1>4. v \in Int
  BY <1>2 DEF v
<1>5. /\ Incremented(m) \in Memory /\ Incremented(m).tail = m.tail
      /\ Incremented(m).buffer = m.buffer /\ Incremented(m).placeholder = m.placeholder
      /\ Incremented(m).global_variable = v
  BY <1>3, <1>4 DEF Memory
<1> QED
  BY <1>5 DEF v

(* What the steps that compute a value do. *)
Assigns(p) ==
  /\ LocalStep(p) /\ i = User /\ i' = User /\ UNCHANGED <<shown, console>>
  /\ regs'[p].a0 = regs[p].a0
  /\ mem'[p].tail = mem[p].tail /\ mem'[p].buffer = mem[p].buffer
  /\ \/ /\ OpOf(p) = "global_variable++"
        /\ regs'[p].value = mem[p].global_variable
        /\ mem'[p].global_variable = Next1(mem[p].global_variable)
        /\ mem'[p].placeholder = mem[p].placeholder
     \/ /\ OpOf(p) = "++counter"
        /\ regs'[p].value = Next1(mem[p].global_variable)
        /\ mem'[p].global_variable = Next1(mem[p].global_variable)
        /\ mem'[p].placeholder = mem[p].placeholder
     \/ /\ OpOf(p) = "message"
        /\ regs'[p].value = mem[p].placeholder
        /\ mem'[p].global_variable = mem[p].global_variable
        /\ mem'[p].placeholder = mem[p].placeholder
     \/ /\ OpOf(p) = "store"
        /\ regs'[p].value = regs[p].value
        /\ mem'[p].global_variable = mem[p].global_variable
        /\ mem'[p].placeholder = Text

LEMMA AssignStep ==
  ASSUME MainsFormed, Tasks!SchedInv, Typed, NEW p \in Slots,
         PostIncrement(p) \/ PreIncrement(p) \/ ReadMessage(p) \/ StoreMessage(p)
  PROVE  Assigns(p)
<1>1. /\ mem[p] \in Memory /\ mem[p].global_variable \in Int /\ mem[p].placeholder \in Int
      /\ regs[p].value \in Int
  BY DEF Typed, Memory, Regs
<1>2. CASE PostIncrement(p)
  <2>1. Evaluate(p, "global_variable++", mem[p].global_variable, Incremented(mem[p]))
    BY <1>2 DEF PostIncrement, M
  <2> QED
    BY <1>1, <2>1, IncrementedFacts, EvaluateStep DEF Assigns, Assignments
<1>3. CASE PreIncrement(p)
  <2>1. Evaluate(p, "++counter", Next1(mem[p].global_variable), Incremented(mem[p]))
    BY <1>3 DEF PreIncrement, M
  <2>2. Incremented(mem[p]) \in Memory /\ Next1(mem[p].global_variable) \in Int
    BY <1>1, IncrementedFacts, UserAssumption DEF Next1
  <2> QED
    BY <1>1, <2>1, <2>2, IncrementedFacts, EvaluateStep DEF Assigns, Assignments
<1>4. CASE ReadMessage(p)
  <2>1. Evaluate(p, "message", mem[p].placeholder, mem[p])
    BY <1>4 DEF ReadMessage, M
  <2> QED
    BY <1>1, <2>1, EvaluateStep DEF Assigns, Assignments
<1>5. CASE StoreMessage(p)
  <2> DEFINE n == [mem[p] EXCEPT !.placeholder = Text]
  <2>1. Evaluate(p, "store", regs[p].value, n)
    BY <1>5 DEF StoreMessage, M
  <2>2. /\ n \in Memory /\ n.tail = mem[p].tail /\ n.buffer = mem[p].buffer
        /\ n.global_variable = mem[p].global_variable /\ n.placeholder = Text
    BY <1>1 DEF Memory, Text
  <2> HIDE DEF n
  <2> QED
    BY <1>1, <2>1, <2>2, EvaluateStep DEF Assigns, Assignments
<1> QED
  BY <1>2, <1>3, <1>4, <1>5

LEMMA ForkLine ==
  ASSUME MainsFormed, Typed, TasksOK, NEW p \in Slots, CloneStep(p)
  PROVE  Typed' /\ TasksOK'
<1> DEFINE k == pc[p]
<1>1. k \in DOMAIN main /\ k + 1 \in DOMAIN main /\ main' = main
  BY TextFacts DEF Typed, CloneStep
<1>2. LineUp(main, k, k + 1) /\ Op(main, k) = "fork"
  BY <1>1, TextFacts DEF Typed, CloneStep, LinesFormed, OpOf
<1>3. Filled(main, k) = 0
  BY <1>1, <1>2, FilledFacts DEF Typed
<1>4. Filled(main, k + 1) = 0 /\ ~KnowsPid(main, k + 1)
  BY <1>2, <1>3 DEF LineUp, Assignments
<1>5. mem[p].tail = 0
  BY <1>3 DEF TasksOK, BufferOK
<1>6. Typed'
  BY <1>1 DEF CloneStep, Typed
<1>7. PICK c \in Slots : c = nr_tasks
  BY DEF CloneStep
<1>8. /\ pc'[p] = k + 1 /\ pc'[c] = k + 1 /\ mem'[p] = mem[p] /\ mem'[c] = mem[p]
      /\ \A q \in Slots : q # p /\ q # c =>
           pc'[q] = pc[q] /\ regs'[q] = regs[q] /\ mem'[q] = mem[q]
  BY <1>7 DEF CloneStep
<1>9. BufferOK(p)' /\ BufferOK(c)'
  BY <1>1, <1>4, <1>5, <1>8 DEF BufferOK
<1>10. ASSUME NEW q \in Slots, q # p, q # c PROVE BufferOK(q)'
  <2>1. pc'[q] = pc[q] /\ regs'[q] = regs[q] /\ mem'[q] = mem[q] /\ BufferOK(q)
    BY <1>8, <1>10 DEF TasksOK
  <2> QED
    BY <1>1, <2>1 DEF BufferOK
<1>11. ASSUME NEW q \in Slots PROVE BufferOK(q)'
  <2>1. CASE q = p
    BY <1>9, <2>1
  <2>2. CASE q = c
    BY <1>9, <2>2
  <2>3. CASE q # p /\ q # c
    BY <1>10, <2>3
  <2> QED
    BY <2>1, <2>2, <2>3
<1> QED
  BY <1>6, <1>11 DEF TasksOK

LEMMA WritePutsStep ==
  ASSUME MainsFormed, LineInv, NEW p \in Slots, WritePuts(p)
  PROVE  /\ TasksAlone /\ current = p /\ p \in Kernel!Live /\ OpOf(p) = "write"
         /\ UNCHANGED <<current, nr_tasks>> /\ Kernel!Live' = Kernel!Live
         /\ mem[p].tail = Len(Line(main)) /\ mem[p].tail \in {2, 4}
         /\ i \in 0 .. mem[p].tail - 1 /\ i' = i + 1
         /\ console' \in Seq(Entry) /\ Len(console') = i + 1
         /\ \A k \in 1 .. i + 1 : console'[k] = Shows(k)
         /\ shown' = IF Counted' THEN [shown EXCEPT ![p] = Value'] ELSE shown
<1>1. /\ TasksAlone /\ current = p /\ i # User /\ i' = i + 1 /\ i < mem[p].tail
      /\ UNCHANGED <<current, nr_tasks>>
      /\ shown' = IF Counted' THEN [shown EXCEPT ![p] = Value'] ELSE shown
  BY DEF WritePuts, TasksAlone, kernel, M
<1>2. Writing /\ p \in Kernel!Live /\ OpOf(p) = "write" /\ BufferOK(p) /\ i \in 0 .. mem[p].tail
  BY <1>1, KernelFacts DEF LineInv, ConsoleOK, Writing, TasksOK
<1>3. mem[p].tail = Len(Line(main)) /\ mem[p].tail \in {2, 4}
  BY <1>2, TailFull DEF LineInv
<1>4. i \in 0 .. mem[p].tail - 1
  BY <1>1, <1>2, <1>3
<1> DEFINE c == Shows(i + 1)
<1>5. c \in Entry /\ c = [by |-> p, kind |-> mem[p].buffer[i].kind, val |-> mem[p].buffer[i].val]
  <2>1. i \in 0 .. BufferSize - 1 /\ (i + 1) - 1 = i
    <3>1. mem[p].tail \in {2, 4}
      BY <1>3
    <3> QED
      BY <1>4, <3>1 DEF BufferSize
  <2>2. mem[p].buffer[i] \in Character
    BY <2>1 DEF LineInv, Typed, Memory
  <2> QED
    BY <1>1, <2>1, <2>2 DEF Shows, Entry, Character
<1>6. console' = Printed(c)
  BY <1>5 DEF WritePuts, M
<1> HIDE DEF c
<1>7. CASE i = 0
  <2>1. console = <<Logged>>
    BY <1>2, <1>7 DEF Writing
  <2>2. Ended
    BY <2>1 DEF Ended, Last, Logged
  <2>3. console' = <<c>>
    BY <1>6, <2>2 DEF Printed
  <2>4. console' \in Seq(Entry) /\ Len(console') = 1 /\ console'[1] = c
    BY <1>5, <2>3
  <2> QED
    BY <1>1, <1>2, <1>3, <1>4, <1>7, <2>4 DEF c, Kernel!Live
<1>8. CASE i > 0
  <2>1. console \in Seq(Entry) /\ Len(console) = i /\ \A k \in 1 .. i : console[k] = Shows(k)
    BY <1>2, <1>8 DEF Writing
  <2>2. Last(console).kind = Line(main)[i]
    <3>1. Last(console) = Shows(i) /\ i - 1 \in 0 .. mem[p].tail - 1 /\ (i - 1) + 1 = i
      BY <1>3, <1>4, <1>8, <2>1 DEF Last
    <3> QED
      BY <1>1, <1>2, <3>1 DEF Shows, BufferOK
  <2>3. ~Ended
    <3>1. i \in 1 .. Len(Line(main)) - 1
      BY <1>3, <1>4, <1>8
    <3> QED
      BY <2>2, <3>1, LineShape DEF Ended
  <2>4. console' = Append(console, c)
    BY <1>6, <2>3 DEF Printed
  <2>5. /\ console' \in Seq(Entry) /\ Len(console') = i + 1 /\ console'[i + 1] = c
        /\ \A k \in 1 .. i : console'[k] = console[k]
    BY <1>5, <2>1, <2>4
  <2>6. \A k \in 1 .. i + 1 : console'[k] = Shows(k)
    BY <1>4, <2>1, <2>5 DEF c
  <2> QED
    BY <1>1, <1>2, <1>3, <1>4, <2>5, <2>6 DEF Kernel!Live
<1> QED
  BY <1>4, <1>7, <1>8

LEMMA AloneLine ==
  ASSUME Typed, TasksOK, TasksAlone, i' \in Nat \cup {User}
  PROVE  Typed' /\ TasksOK'
BY DEF Typed, TasksOK, TasksAlone, BufferOK

LEMMA LineTask ==
  ASSUME MainsFormed, LineInv, NEW p \in Slots, Task(p)
  PROVE  Typed' /\ TasksOK' /\ ConsoleOK'
<1> USE DEF LineInv
<1>1. CASE PostIncrement(p) \/ PreIncrement(p) \/ ReadMessage(p) \/ StoreMessage(p)
  <2>1. Assigns(p)
    BY <1>1, AssignStep
  <2>2. /\ LocalStep(p) /\ i' \in Nat \cup {User} /\ OpOf(p) \notin {"putc", "reset", "getpid"}
        /\ mem'[p].tail = mem[p].tail /\ mem'[p].buffer = mem[p].buffer
        /\ regs'[p].a0 = regs[p].a0
    BY <2>1 DEF Assigns
  <2> QED
    BY <2>1, <2>2, QuietLine, UserConsole DEF Assigns
<1>2. CASE putc(p)
  BY <1>2, PutcLine, UserConsole
<1>3. CASE Reset(p)
  BY <1>3, ResetLine, ResetStep, UserConsole
<1>4. CASE Jump(p)
  BY <1>4, JumpStep, QuietLine, UserConsole DEF Assignments
<1>5. CASE GetPid(p)
  BY <1>5, GetPidStep, QuietLine, UserConsole DEF Assignments
<1>6. CASE Clone(p)
  BY <1>6, ForkStep, ForkLine, UserConsole DEF CloneStep
<1>7. CASE WriteBegins(p)
  <2>1. /\ TasksAlone /\ i = User /\ i' = 0 /\ UNCHANGED <<current, nr_tasks>>
        /\ current = p /\ p # Kernel!Idle /\ OpOf(p) = "write" /\ console' = Printed(Logged)
    BY <1>7 DEF WriteBegins, At, Log, Calm, TasksAlone, kernel, OpOf, Op, Instr
  <2>2. Typed' /\ TasksOK'
    BY <2>1, AloneLine
  <2>3. console' = <<Logged>>
    BY <2>1, LogPrinted DEF ConsoleOK
  <2>4. mem[p].tail \in Nat
    <3>1. mem[p] \in Memory
      BY DEF Typed
    <3> QED
      BY <3>1 DEF Memory
  <2>5. Writing'
    BY <2>1, <2>3, <2>4 DEF Writing, TasksAlone, OpOf, Logged, Kernel!Idle
  <2> QED
    BY <2>1, <2>2, <2>5 DEF ConsoleOK, User
<1>8. CASE WritePuts(p)
  <2>1. /\ TasksAlone /\ current = p /\ p \in Kernel!Live /\ OpOf(p) = "write"
        /\ UNCHANGED <<current, nr_tasks>> /\ mem[p].tail \in {2, 4}
        /\ i \in 0 .. mem[p].tail - 1 /\ i' = i + 1
        /\ console' \in Seq(Entry) /\ Len(console') = i + 1
        /\ \A k \in 1 .. i + 1 : console'[k] = Shows(k)
    BY <1>8, WritePutsStep
  <2>2. i' \in Nat /\ i' \in 0 .. mem[p].tail /\ i' > 0 /\ i' # User
    BY <2>1 DEF User
  <2>3. Typed' /\ TasksOK'
    BY <2>1, <2>2, AloneLine
  <2>4. p # Kernel!Idle
    BY <2>1, KernelFacts
  <2>5. \A k : Shows(k)' = Shows(k)
    BY <2>1 DEF Shows, TasksAlone
  <2>6. Writing'
    BY <2>1, <2>2, <2>4, <2>5 DEF Writing, TasksAlone, OpOf, Kernel!Idle
  <2> QED
    BY <2>2, <2>3, <2>6 DEF ConsoleOK
<1>9. CASE WriteReturns(p)
  <2>1. Writing /\ current = p
    BY <1>9 DEF ConsoleOK, WriteReturns
  <2>2. /\ LocalStep(p) /\ OpOf(p) = "write" /\ i' = User /\ i # User
        /\ UNCHANGED mem /\ console' = Printed(Logged) /\ i >= mem[p].tail
    BY <1>9, <2>1, WriteReturnsStep DEF Writing
  <2>3. Typed' /\ TasksOK'
    BY <2>2, QuietLine DEF Assignments
  <2>4. mem[p].tail = Len(Line(main)) /\ mem[p].tail \in {2, 4}
    BY <2>2, TailFull
  <2>5. i = mem[p].tail /\ i > 0 /\ i \in Nat
    <3>1. i \in 0 .. mem[p].tail
      BY <2>1 DEF Writing
    <3> DEFINE tail == mem[p].tail
    <3>2. i \in 0 .. tail /\ i >= tail /\ tail \in {2, 4}
      BY <2>2, <2>4, <3>1
    <3> HIDE DEF tail
    <3>3. i = tail /\ i > 0 /\ i \in Nat
      BY <3>2
    <3> QED
      BY <3>3 DEF tail
  <2>6. Ended
    <3>1. console \in Seq(Entry) /\ Len(console) = i /\ console[i] = Shows(i)
      BY <2>1, <2>5 DEF Writing
    <3>2. Last(console) = Shows(i)
      BY <3>1, <2>5 DEF Last
    <3>3. BufferOK(p) /\ i - 1 \in 0 .. mem[p].tail - 1 /\ (i - 1) + 1 = i
      BY <2>4, <2>5 DEF TasksOK
    <3>4. Shows(i).kind = Line(main)[i]
      BY <2>1, <3>3 DEF Shows, BufferOK
    <3>5. Line(main)[i] = "NUL"
      BY <2>4, <2>5, LineShape
    <3>6. console # <<>>
      BY <2>5, <3>1
    <3> QED
      BY <3>2, <3>4, <3>5, <3>6 DEF Ended
  <2>7. console' = <<Logged>>
    BY <2>2, <2>6 DEF Printed
  <2> QED
    BY <2>2, <2>3, <2>7 DEF ConsoleOK, Logged, Kernel!Idle
<1> QED
  BY <1>1, <1>2, <1>3, <1>4, <1>5, <1>6, <1>7, <1>8, <1>9 DEF Task, Write

LEMMA LineStep == ASSUME MainsFormed PROVE LineInv /\ [Next]_vars => LineInv'
<1> SUFFICES ASSUME LineInv, [Next]_vars PROVE LineInv'
  OBVIOUS
<1>1. Tasks!SchedInv'
  BY KernelStep DEF LineInv
<1>2. CASE Boot
  <2>1. TasksAlone /\ UNCHANGED <<i, console>> /\ current = Kernel!Idle
    BY <1>2 DEF Boot, TasksAlone, Kernel!StartKernel
  <2>2. i = User
    BY <2>1 DEF LineInv, ConsoleOK, Writing
  <2> QED
    BY <1>1, <2>1, <2>2, AloneLine, UserConsole DEF LineInv
<1>3. CASE Tick
  <2>1. TasksAlone /\ i = User /\ i' = User /\ console' = Printed(Logged)
    BY <1>3 DEF Tick, TasksAlone, InUserMode, Log
  <2> QED
    BY <1>1, <2>1, AloneLine, UserConsole DEF LineInv
<1>4. CASE Running
  BY <1>1, <1>4, LineTask DEF Running, LineInv
<1>5. CASE UNCHANGED vars
  <2>1. TasksAlone /\ UNCHANGED <<i, console, current, kernel>>
    BY <1>5 DEF vars, kernel, TasksAlone
  <2>2. Typed' /\ TasksOK'
    BY <2>1, AloneLine DEF LineInv, Typed
  <2>3. \A k : Shows(k)' = Shows(k)
    BY <2>1 DEF Shows, TasksAlone
  <2>4. Writing => Writing'
    BY <2>1, <2>3 DEF Writing, OpOf, TasksAlone, Logged, Kernel!Idle
  <2>5. ConsoleOK'
    BY <2>1, <2>4 DEF LineInv, ConsoleOK, Logged, Kernel!Idle
  <2> QED
    BY <1>1, <2>2, <2>5 DEF LineInv
<1> QED
  BY <1>2, <1>3, <1>4, <1>5 DEF Next

LEMMA LineInvariant == ASSUME MainsFormed PROVE Spec => []LineInv
BY LineInit, LineStep, PTL DEF Spec

(* Every task is at an instruction of its text, with no more in its buffer *)
(* than a line, in every program and however it is interrupted.            *)
THEOREM ProgramsTyped == ASSUME MainsFormed PROVE Spec => []TypeOK
<1>1. LineInv => TypeOK
  <2> SUFFICES ASSUME LineInv PROVE TypeOK
    OBVIOUS
  <2>1. \A p \in Slots : pc[p] \in DOMAIN main /\ mem[p].tail \in 0 .. 4
    BY DEF LineInv, Typed, Memory
  <2>2. i \in 0 .. 4 \cup {User}
    <3>1. CASE i = User
      BY <3>1
    <3>2. CASE i # User
      <4>1. i \in 0 .. mem[current].tail /\ current \in Slots
        BY <3>2, KernelFacts DEF LineInv, ConsoleOK, Writing
      <4> QED
        BY <2>1, <4>1
    <3> QED
      BY <3>1, <3>2
  <2> QED
    BY <2>1, <2>2 DEF TypeOK
<1> QED
  BY <1>1, LineInvariant, PTL

(* Lines come out whole: SYS_WRITE puts a buffer on the console that is    *)
(* complete, in order and of the task that runs, and nothing gets between. *)
THEOREM LinesComeOutWhole == ASSUME MainsFormed PROVE Spec => []LinesWhole
<1>1. LineInv => LinesWhole
  <2> SUFFICES ASSUME LineInv PROVE LinesWhole
    OBVIOUS
  <2>1. CASE console \in {<<>>, <<Logged>>}
    BY <2>1 DEF LinesWhole
  <2>2. CASE console \notin {<<>>, <<Logged>>}
    <3>1. Writing /\ i > 0
      BY <2>2 DEF LineInv, ConsoleOK, Writing
    <3>2. /\ console \in Seq(Entry) /\ Len(console) = i
          /\ \A k \in 1 .. i : console[k] = Shows(k)
          /\ i \in 0 .. mem[current].tail /\ BufferOK(current)
      BY <3>1, KernelFacts DEF Writing, LineInv, TasksOK
    <3>3. ASSUME NEW k \in DOMAIN console
          PROVE  /\ console[k].by = current
                 /\ console[k].kind = Line(main)[k]
                 /\ console[k].kind = "pid" => console[k].val = console[k].by
      <4>1. k \in 1 .. i /\ console[k] = Shows(k)
        BY <3>2, <3>3
      <4>2. mem[current].tail \in 0 .. 4
        BY KernelFacts DEF LineInv, Typed, Memory
      <4>3. k - 1 \in 0 .. mem[current].tail - 1 /\ (k - 1) + 1 = k
        BY <3>1, <3>2, <4>1, <4>2
      <4> QED
        BY <3>2, <4>1, <4>3 DEF Shows, BufferOK
    <3>4. 1 \in DOMAIN console
      BY <3>1, <3>2
    <3> QED
      BY <3>3, <3>4 DEF LinesWhole
  <2> QED
    BY <2>1, <2>2
<1> QED
  BY <1>1, LineInvariant, PTL

-----------------------------------------------------------------------------
(* Branches *)

LabelOK(p) ==
  mem[p].tail > 0 => /\ mem[p].buffer[0].val = "U-CHILD"  => p # Root
                     /\ mem[p].buffer[0].val = "U-PARENT" => p = Root

SideOK(p) ==
  /\ BeforeIf(main, pc[p]) => p = Root
  /\ OpOf(p) = "bnez" => (regs[p].a0 = 0 <=> p # Root)
  /\ ChildSide(main, pc[p]) => p # Root
  /\ ParentSide(main, pc[p]) => p = Root
  /\ LabelOK(p)

SideInv == regs[Root].a0 # 0 /\ \A p \in Kernel!Live : SideOK(p)

LEMMA SideInit ==
  ASSUME MainsFormed, InitTasks = 2
  PROVE  Init => SideInv
<1> SUFFICES ASSUME Init PROVE SideInv
  OBVIOUS
<1>1. Kernel!Live = {Root}
  BY DEF Init, Kernel!Init, Kernel!Live, Root
<1>2. Root \in Slots
  BY KernelStarts, KernelFacts DEF Init
<1>3. ~ChildSide(main, 1) /\ Op(main, 1) # "bnez"
  BY TextFacts DEF Init, BranchesFormed
<1>4. pc[Root] = 1 /\ regs[Root].a0 = IdleTask /\ mem[Root].tail = 0
  BY <1>2 DEF Init, Loaded
<1> QED
  BY <1>1, <1>3, <1>4 DEF SideInv, SideOK, LabelOK, OpOf, IdleTask, Root

(* An instruction that is no fork takes a task where it may be. *)
LEMMA LocalSide ==
  ASSUME MainsFormed, LineInv, SideInv, NEW p \in Slots, LocalStep(p), OpOf(p) # "fork",
         OpOf(p) = "bnez" => pc'[p] = pc[p] + IF regs[p].a0 = 0 THEN 1 ELSE main[pc[p]].by,
         p = Root => regs'[p].a0 # 0, LabelOK(p)'
  PROVE  SideInv'
<1> DEFINE k == pc[p]
           t == pc'[p]
<1>1. /\ k \in DOMAIN main /\ main \in Mains /\ main' = main /\ p \in Kernel!Live
      /\ Kernel!Live' = Kernel!Live /\ t \in Follows(main, k) /\ k \in Nat
  BY DEF LineInv, Typed, LocalStep
<1>2. /\ PartWays(main, k, t)
      /\ Op(main, k) = "bnez" => main[k].by \in Nat \ {0, 1}
  BY <1>1, TextFacts DEF BranchesFormed
<1>3. SideOK(p)
  BY <1>1 DEF SideInv
<1>4. BeforeIf(main, t) => p = Root
  BY <1>2, <1>3 DEF PartWays, SideOK
<1>5. Op(main, t) # "bnez"
  BY <1>2 DEF PartWays, OpOf
<1>6. OpOf(p) = "bnez" => /\ t = k + 1 => p # Root
                          /\ t # k + 1 => p = Root
  <2>1. ASSUME OpOf(p) = "bnez", t = k + 1 PROVE regs[p].a0 = 0
    <3>1. SUFFICES ASSUME regs[p].a0 # 0 PROVE FALSE
      OBVIOUS
    <3>2. t = k + main[k].by /\ main[k].by \in Nat \ {0, 1}
      BY <1>2, <2>1, <3>1 DEF OpOf
    <3> QED
      BY <1>1, <2>1, <3>2
  <2>2. ASSUME OpOf(p) = "bnez", t # k + 1 PROVE regs[p].a0 # 0
    BY <2>2
  <2> QED
    BY <1>3, <2>1, <2>2 DEF SideOK
<1>7. ChildSide(main, t) => p # Root
  BY <1>2, <1>3, <1>6 DEF PartWays, SideOK, OpOf
<1>8. ParentSide(main, t) => p = Root
  BY <1>2, <1>3, <1>6 DEF PartWays, SideOK, OpOf
<1>9. SideOK(p)'
  BY <1>1, <1>4, <1>5, <1>7, <1>8 DEF SideOK, OpOf
<1>10. ASSUME NEW q \in Kernel!Live, q # p PROVE SideOK(q)'
  <2>1. /\ pc'[q] = pc[q] /\ regs'[q] = regs[q] /\ mem'[q] = mem[q] /\ SideOK(q)
    BY <1>10, KernelFacts DEF LocalStep, SideInv, LineInv
  <2> QED
    BY <1>1, <2>1 DEF SideOK, LabelOK, OpOf
<1>11. regs'[Root].a0 # 0
  <2>1. CASE p = Root
    BY <2>1
  <2>2. CASE p # Root
    BY <2>2, KernelFacts DEF LocalStep, SideInv, LineInv
  <2> QED
    BY <2>1, <2>2
<1> QED
  BY <1>1, <1>9, <1>10, <1>11 DEF SideInv

LEMMA ForkSide ==
  ASSUME MainsFormed, LineInv, SideInv, NEW p \in Slots, CloneStep(p)
  PROVE  SideInv'
<1> DEFINE k == pc[p]
<1>1. PICK c \in Slots : c = nr_tasks
  BY DEF CloneStep
<1>2. /\ p \in Kernel!Live /\ Kernel!Live' = Kernel!Live \cup {c} /\ c # p /\ c # Root
      /\ pc'[p] = k + 1 /\ pc'[c] = k + 1 /\ regs'[p] = regs[p] /\ regs'[c].a0 = 0
      /\ mem'[p] = mem[p] /\ mem'[c] = mem[p] /\ main' = main
      /\ \A q \in Slots : q # p /\ q # c =>
           pc'[q] = pc[q] /\ regs'[q] = regs[q] /\ mem'[q] = mem[q]
  BY <1>1, ForkAdds DEF CloneStep, LineInv
<1>3. /\ k \in DOMAIN main /\ main \in Mains /\ Op(main, k) = "fork" /\ k + 1 \in Follows(main, k)
  BY DEF LineInv, Typed, CloneStep, OpOf
<1>4. /\ PartWays(main, k, k + 1)
      /\ ~BeforeIf(main, k + 1) /\ ~ParentSide(main, k + 1)
  BY <1>3, TextFacts DEF BranchesFormed
<1>5. mem[p].tail = 0
  BY <1>3, FilledFacts DEF LineInv, TasksOK, BufferOK
<1>6. SideOK(p) /\ regs[Root].a0 # 0 /\ Root \in Slots /\ Kernel!Live \subseteq Slots
  BY <1>2, KernelFacts DEF SideInv, LineInv
<1>7. SideOK(p)'
  BY <1>2, <1>3, <1>4, <1>5, <1>6 DEF SideOK, LabelOK, OpOf, PartWays
<1>8. SideOK(c)'
  BY <1>2, <1>4, <1>5 DEF SideOK, LabelOK, OpOf
<1>9. ASSUME NEW q \in Kernel!Live, q # p, q # c PROVE SideOK(q)'
  <2>1. /\ pc'[q] = pc[q] /\ regs'[q] = regs[q] /\ mem'[q] = mem[q] /\ SideOK(q)
    BY <1>2, <1>6, <1>9 DEF SideInv
  <2> QED
    BY <1>2, <2>1 DEF SideOK, LabelOK, OpOf
<1>10. regs'[Root].a0 # 0
  BY <1>2, <1>6
<1>11. ASSUME NEW q \in Kernel!Live' PROVE SideOK(q)'
  BY <1>2, <1>7, <1>8, <1>9, <1>11
<1> QED
  BY <1>10, <1>11 DEF SideInv

LEMMA SideTask ==
  ASSUME MainsFormed, LineInv, SideInv, NEW p \in Slots, Task(p)
  PROVE  SideInv'
<1>0. /\ Tasks!SchedInv /\ Typed /\ TasksOK /\ ConsoleOK
      /\ p = Root => regs[p].a0 # 0
      /\ p \in Kernel!Live => LabelOK(p)
  BY DEF LineInv, SideInv, SideOK
<1>1. CASE PostIncrement(p) \/ PreIncrement(p) \/ ReadMessage(p) \/ StoreMessage(p)
  <2>1. Assigns(p)
    BY <1>0, <1>1, AssignStep
  <2>2. /\ LocalStep(p) /\ OpOf(p) \notin {"fork", "bnez"} /\ regs'[p].a0 = regs[p].a0
        /\ mem'[p].tail = mem[p].tail /\ mem'[p].buffer = mem[p].buffer
    BY <2>1 DEF Assigns
  <2>3. LabelOK(p)'
    BY <1>0, <2>2 DEF LabelOK, LocalStep
  <2> QED
    BY <1>0, <2>2, <2>3, LocalSide
<1>2. CASE putc(p)
  <2>1. /\ LocalStep(p) /\ OpOf(p) = "putc" /\ UNCHANGED regs
        /\ mem'[p].tail = mem[p].tail + 1 /\ mem[p].tail \in 0 .. 3
        /\ mem'[p].buffer = [mem[p].buffer EXCEPT ![mem[p].tail] = Char(p)]
        /\ Char(p).kind = Line(main)[mem[p].tail + 1]
    BY <1>0, <1>2, PutcLine
  <2>2. mem[p].buffer \in [0 .. BufferSize - 1 -> Character]
    BY <1>0 DEF Typed, Memory
  <2>3. LabelOK(p)'
    <3>1. CASE mem[p].tail = 0
      <4>1. mem'[p].buffer[0] = Char(p)
        BY <2>1, <2>2, <3>1 DEF BufferSize
      <4>2. Char(p).kind = "label"
        BY <2>1, <3>1, LineShape
      <4>3. Char(p).val = main[pc[p]].char
        BY <4>2 DEF Char, Instr
      <4>4. SideOK(p)
        BY <2>1 DEF SideInv, LocalStep
      <4>5. /\ main[pc[p]].char = "U-CHILD"  => ChildSide(main, pc[p])
            /\ main[pc[p]].char = "U-PARENT" => ParentSide(main, pc[p])
        BY <1>0, <2>1, TextFacts DEF BranchesFormed, Typed, OpOf
      <4> QED
        BY <4>1, <4>3, <4>4, <4>5 DEF LabelOK, SideOK
    <3>2. CASE mem[p].tail # 0
      <4>1. mem'[p].buffer[0] = mem[p].buffer[0] /\ mem[p].tail > 0
        BY <2>1, <2>2, <3>2 DEF BufferSize
      <4> QED
        BY <1>0, <2>1, <4>1 DEF LabelOK, LocalStep
    <3> QED
      BY <3>1, <3>2
  <2> QED
    BY <1>0, <2>1, <2>3, LocalSide
<1>3. CASE Reset(p)
  <2>1. /\ LocalStep(p) /\ OpOf(p) = "reset" /\ regs'[p].a0 = mem[p].tail - 1
        /\ mem'[p] = [mem[p] EXCEPT !.tail = 0]
    BY <1>0, <1>3, ResetStep
  <2>2. mem[p].tail \in {2, 4}
    BY <1>0, <2>1, TailFull
  <2>3. regs'[p].a0 # 0
    BY <2>1, <2>2
  <2>4. mem'[p].tail = 0
    BY <1>0, <2>1 DEF Typed, Memory
  <2>5. LabelOK(p)'
    BY <2>4 DEF LabelOK
  <2> QED
    BY <2>1, <2>3, <2>5, LocalSide
<1>4. CASE Jump(p)
  <2>1. /\ LocalStep(p) /\ OpOf(p) # "fork" /\ UNCHANGED <<regs, mem>>
        /\ OpOf(p) = "bnez" => pc'[p] = pc[p] + IF regs[p].a0 = 0 THEN 1 ELSE main[pc[p]].by
    BY <1>0, <1>4, JumpStep
  <2>2. LabelOK(p)'
    BY <1>0, <2>1 DEF LabelOK, LocalStep
  <2> QED
    BY <1>0, <2>1, <2>2, LocalSide
<1>5. CASE GetPid(p)
  <2>1. /\ LocalStep(p) /\ OpOf(p) = "getpid" /\ UNCHANGED mem /\ regs'[p].a0 = p
    BY <1>0, <1>5, GetPidStep
  <2>2. LabelOK(p)'
    BY <1>0, <2>1 DEF LabelOK, LocalStep
  <2> QED
    BY <2>1, <2>2, LocalSide DEF Root
<1>6. CASE Clone(p)
  BY <1>0, <1>6, ForkStep, ForkSide
<1>7. CASE WriteBegins(p) \/ WritePuts(p)
  <2>1. TasksAlone /\ nr_tasks' = nr_tasks
    BY <1>7 DEF WriteBegins, WritePuts, TasksAlone, Calm, kernel
  <2> QED
    BY <2>1 DEF SideInv, SideOK, LabelOK, OpOf, TasksAlone, Kernel!Live
<1>8. CASE WriteReturns(p)
  <2>1. Writing /\ current = p
    BY <1>0, <1>8 DEF ConsoleOK, WriteReturns
  <2>2. /\ LocalStep(p) /\ OpOf(p) = "write" /\ UNCHANGED mem
        /\ regs'[p].a0 = i /\ i >= mem[p].tail
    BY <1>0, <1>8, <2>1, WriteReturnsStep DEF Writing
  <2>3. mem[p].tail \in {2, 4}
    BY <1>0, <2>2, TailFull
  <2>4. regs'[p].a0 # 0
    BY <2>1, <2>2, <2>3 DEF Writing
  <2>5. LabelOK(p)'
    BY <1>0, <2>2 DEF LabelOK, LocalStep
  <2> QED
    BY <2>2, <2>4, <2>5, LocalSide
<1> QED
  BY <1>1, <1>2, <1>3, <1>4, <1>5, <1>6, <1>7, <1>8 DEF Task, Write

LEMMA SideStep ==
  ASSUME MainsFormed
  PROVE  LineInv /\ SideInv /\ [Next]_vars => SideInv'
<1> SUFFICES ASSUME LineInv, SideInv, [Next]_vars PROVE SideInv'
  OBVIOUS
<1>1. CASE Boot \/ Tick \/ UNCHANGED vars
  <2>1. TasksAlone /\ nr_tasks' = nr_tasks
    BY <1>1 DEF Boot, Tick, vars, kernel, TasksAlone, Kernel!StartKernel, Kernel!Tick
  <2> QED
    BY <2>1 DEF SideInv, SideOK, LabelOK, OpOf, TasksAlone, Kernel!Live
<1>2. CASE Running
  BY <1>2, SideTask DEF Running
<1> QED
  BY <1>1, <1>2 DEF Next

(* The child of a fork prints the lines of the child and the parent those  *)
(* of the parent, although SYS_CLONE leaves the parent's a0 as it was.     *)
THEOREM BranchesAreTaken ==
  ASSUME MainsFormed, InitTasks = 2
  PROVE  Spec => []BranchesTaken
<1>1. Spec => []SideInv
  BY LineInvariant, SideInit, SideStep, PTL DEF Spec
<1>2. LineInv /\ SideInv => BranchesTaken
  <2> SUFFICES ASSUME LineInv, SideInv, NEW k \in DOMAIN console, console[k].kind = "label"
               PROVE  /\ console[k].val = "U-CHILD" => console[k].by # Root
                      /\ console[k].val = "U-PARENT" => console[k].by = Root
    BY DEF BranchesTaken
  <2>1. Writing /\ i > 0
    <3>1. CASE console = <<>>
      BY <3>1
    <3>2. CASE console = <<Logged>>
      BY <3>2 DEF Logged
    <3>3. CASE console \notin {<<>>, <<Logged>>}
      BY <3>3 DEF LineInv, ConsoleOK, Writing
    <3> QED
      BY <3>1, <3>2, <3>3
  <2>2. /\ k \in 1 .. i /\ console[k] = Shows(k) /\ i \in 0 .. mem[current].tail
        /\ current \in Slots /\ current \in Kernel!Live /\ mem[current].tail \in 0 .. 4
    BY <2>1, KernelFacts DEF Writing, LineInv, Typed, Memory
  <2>3. k = 1
    <3>1. k - 1 \in 0 .. mem[current].tail - 1 /\ (k - 1) + 1 = k
      BY <2>2
    <3>2. Line(main)[k] = "label"
      BY <2>2, <3>1 DEF Shows, LineInv, TasksOK, BufferOK
    <3>3. mem[current].tail = Filled(main, pc[current])
      BY <2>2 DEF LineInv, TasksOK, BufferOK
    <3>4. Filled(main, pc[current]) \in 0 .. Len(Line(main))
      BY <2>2, FilledFacts DEF LineInv, Typed
    <3>5. Len(Line(main)) \in {2, 4}
      BY LineShape
    <3>6. k \in 1 .. Len(Line(main))
      BY <2>2, <3>3, <3>4, <3>5
    <3> QED
      BY <3>2, <3>5, <3>6, LineShape
  <2>4. LabelOK(current) /\ mem[current].tail > 0
    BY <2>1, <2>2 DEF SideInv, SideOK
  <2> QED
    BY <2>2, <2>3, <2>4 DEF Shows, LabelOK
<1> QED
  BY <1>1, <1>2, LineInvariant, PTL

-----------------------------------------------------------------------------
(* The task table *)

(* The sums of SchedProofs. *)
LEMMA SumSplits ==
  ASSUME NEW f, NEW S, IsFiniteSet(S), \A x \in S : f[x] \in Nat
  PROVE  /\ Tasks!SumOf(f, S) \in Nat
         /\ \A x \in S : Tasks!SumOf(f, S) = f[x] + Tasks!SumOf(f, S \ {x})
<1>1. \A s \in SUBSET S : Tasks!Splits(f, s)
  BY SameFinite, SameAssumption, Tasks!SumSplits
<1> QED
  BY <1>1 DEF Tasks!Splits

LEMMA SumOfNone == ASSUME NEW f PROVE Tasks!SumOf(f, {}) = 0
<1>1. Tasks!IsFiniteSet({})
  BY FS_EmptySet, SameFinite
<1>2. \A s \in SUBSET {} : Tasks!Unfolds(f, s)
  BY <1>1, SameAssumption, Tasks!SumUnfolds
<1> QED
  BY <1>2 DEF Tasks!Unfolds

LEMMA SumMonotone ==
  ASSUME NEW f, NEW g, NEW S, IsFiniteSet(S),
         \A x \in S : f[x] \in Nat /\ g[x] \in Nat /\ f[x] <= g[x]
  PROVE  Tasks!SumOf(f, S) <= Tasks!SumOf(g, S)
BY SameFinite, SameAssumption, Tasks!SumMonotone

LEMMA SumAgrees ==
  ASSUME NEW f, NEW g, NEW S, IsFiniteSet(S), \A x \in S : f[x] \in Nat /\ g[x] = f[x]
  PROVE  Tasks!SumOf(f, S) = Tasks!SumOf(g, S) /\ Tasks!SumOf(f, S) \in Nat
BY SameFinite, SameAssumption, Tasks!SumAgrees

LEMMA SumAdds ==
  ASSUME NEW f, NEW S, IsFiniteSet(S), NEW n, n \notin S,
         \A x \in S \cup {n} : f[x] \in Nat
  PROVE  Tasks!SumOf(f, S \cup {n}) = f[n] + Tasks!SumOf(f, S) /\ Tasks!SumOf(f, S) \in Nat
BY SameFinite, SameAssumption, Tasks!SumAdds

(* How many more tasks a task may become, and all of them together.        *)
ToCome == [p \in Slots |-> Offspring(main, pc[p]) - 1]
FitInv == Tasks!SumOf(ToCome, Kernel!Live) + (nr_tasks - 1) <= Offspring(main, 1)

LEMMA OffspringFacts ==
  ASSUME MainsFormed, NEW m \in Mains, NEW k \in DOMAIN m
  PROVE  /\ Offspring(m, k) \in Nat \ {0}
         /\ \A t \in Follows(m, k) :
              /\ Offspring(m, t) \in Nat \ {0}
              /\ Op(m, k) = "fork" => Offspring(m, k) >= 2 * Offspring(m, t)
              /\ Op(m, k) # "fork" => Offspring(m, k) >= Offspring(m, t)
BY TextFacts DEF ForksFormed

LEMMA ToComeNat ==
  ASSUME MainsFormed, Tasks!SchedInv, Typed
  PROVE  /\ \A p \in Slots : ToCome[p] \in Nat /\ ToCome[p] = Offspring(main, pc[p]) - 1
         /\ IsFiniteSet(Kernel!Live) /\ Kernel!Live \subseteq Slots
         /\ Tasks!SumOf(ToCome, Kernel!Live) \in Nat
<1>1. \A p \in Slots : ToCome[p] \in Nat /\ ToCome[p] = Offspring(main, pc[p]) - 1
  BY OffspringFacts DEF ToCome, Typed
<1>2. Kernel!Live \subseteq Slots /\ nr_tasks \in Nat
  BY KernelFacts
<1>3. IsFiniteSet(Kernel!Live)
  BY <1>2, FS_Interval DEF Kernel!Live
<1>4. Tasks!SumOf(ToCome, Kernel!Live) \in Nat
  <2>1. \A x \in Kernel!Live : ToCome[x] \in Nat
    BY <1>1, <1>2
  <2> QED
    BY <1>3, <2>1, SumSplits
<1> QED
  BY <1>1, <1>2, <1>3, <1>4

LEMMA FitInit ==
  ASSUME MainsFormed, InitTasks = 2
  PROVE  Init => FitInv
<1> SUFFICES ASSUME Init PROVE FitInv
  OBVIOUS
<1>1. Tasks!SchedInv /\ Typed
  BY KernelStarts, LineInit DEF Init, LineInv
<1>2. Kernel!Live = {Root} /\ nr_tasks = 2 /\ Root \in Slots
  BY <1>1, KernelFacts DEF Init, Kernel!Init, Kernel!Live, Root
<1>3. ToCome[Root] = Offspring(main, 1) - 1 /\ ToCome[Root] \in Nat
  BY <1>1, <1>2, ToComeNat DEF Init
<1> DEFINE f == ToCome
<1>4. IsFiniteSet({Root}) /\ \A x \in {Root} : f[x] \in Nat
  BY <1>3, FS_Singleton
<1> HIDE DEF f
<1>5. Tasks!SumOf(f, {Root}) = f[Root] + Tasks!SumOf(f, {Root} \ {Root})
  BY <1>4, SumSplits
<1>6. {Root} \ {Root} = {}
  OBVIOUS
<1>7. Tasks!SumOf(f, {Root}) = f[Root]
  <2>1. Tasks!SumOf(f, {Root}) = f[Root] + Tasks!SumOf(f, {})
    BY <1>5, <1>6, Zenon
  <2>2. Tasks!SumOf(f, {}) = 0 /\ f[Root] \in Nat
    BY <1>4, SumOfNone
  <2> QED
    BY <2>1, <2>2
<1>8. Offspring(main, 1) \in Nat
  BY OffspringFacts, TextFacts DEF Init
<1> QED
  BY <1>2, <1>3, <1>7, <1>8 DEF FitInv, f

(* Without a fork, nobody can become more tasks than before. *)
LEMMA LocalFits ==
  ASSUME MainsFormed, LineInv, LineInv', FitInv, main' = main, nr_tasks' = nr_tasks,
         \A q \in Slots : Offspring(main, pc'[q]) <= Offspring(main, pc[q])
  PROVE  FitInv'
<1>1. /\ \A q \in Slots : ToCome[q] \in Nat /\ ToCome[q] = Offspring(main, pc[q]) - 1
      /\ IsFiniteSet(Kernel!Live) /\ Kernel!Live \subseteq Slots
      /\ Tasks!SumOf(ToCome, Kernel!Live) \in Nat
  BY ToComeNat DEF LineInv
<1> DEFINE g == [q \in Slots |-> Offspring(main, pc'[q]) - 1]
<1>2. ToCome' = g /\ Kernel!Live' = Kernel!Live
  BY DEF ToCome, Kernel!Live
<1>3. \A q \in Slots : g[q] \in Nat /\ g[q] <= ToCome[q]
  <2> SUFFICES ASSUME NEW q \in Slots PROVE g[q] \in Nat /\ g[q] <= ToCome[q]
    OBVIOUS
  <2>1. pc'[q] \in DOMAIN main /\ main \in Mains /\ pc[q] \in DOMAIN main
    BY DEF LineInv, Typed
  <2>2. Offspring(main, pc'[q]) \in Nat \ {0} /\ Offspring(main, pc[q]) \in Nat
    BY <2>1, OffspringFacts
  <2> QED
    BY <1>1, <2>2
<1> DEFINE f == ToCome
<1> HIDE DEF f, g
<1>4. /\ \A x \in Kernel!Live : g[x] \in Nat /\ f[x] \in Nat /\ g[x] <= f[x]
  BY <1>1, <1>3 DEF f
<1>5. Tasks!SumOf(g, Kernel!Live) <= Tasks!SumOf(f, Kernel!Live)
  BY <1>1, <1>4, SumMonotone
<1>6. Tasks!SumOf(g, Kernel!Live) \in Nat
  BY <1>1, <1>4, SumSplits
<1>7. Offspring(main, 1) \in Nat /\ nr_tasks \in Nat
  BY OffspringFacts, TextFacts, KernelFacts DEF LineInv, Typed
<1>8. FitInv' = (Tasks!SumOf(g, Kernel!Live) + (nr_tasks - 1) <= Offspring(main, 1))
  BY <1>2 DEF FitInv
<1> QED
  BY <1>1, <1>5, <1>6, <1>7, <1>8 DEF FitInv, f

LEMMA ForkFits ==
  ASSUME MainsFormed, LineInv, LineInv', FitInv, NEW p \in Slots, CloneStep(p)
  PROVE  FitInv'
<1>1. /\ \A q \in Slots : ToCome[q] \in Nat /\ ToCome[q] = Offspring(main, pc[q]) - 1
      /\ IsFiniteSet(Kernel!Live) /\ Kernel!Live \subseteq Slots
      /\ Tasks!SumOf(ToCome, Kernel!Live) \in Nat
  BY ToComeNat DEF LineInv
<1>2. PICK c \in Slots : c = nr_tasks
  BY DEF CloneStep
<1>3. PICK L : L = Kernel!Live
  OBVIOUS
<1>4. /\ p \in L /\ c \notin L /\ Kernel!Live' = L \cup {c} /\ nr_tasks' = c + 1 /\ main' = main
      /\ c \in Nat
  BY <1>2, <1>3, ForkAdds, KernelFacts DEF CloneStep, LineInv
<1> DEFINE f == ToCome
           g == [q \in Slots |-> Offspring(main, pc'[q]) - 1]
           w == Offspring(main, pc[p])
           v == Offspring(main, pc[p] + 1)
<1>5. ToCome' = g
  BY <1>4 DEF ToCome
<1>6. /\ w \in Nat /\ v \in Nat \ {0} /\ w >= 2 * v
  BY OffspringFacts DEF LineInv, Typed, CloneStep, OpOf
<1>7. /\ f[p] = w - 1 /\ g[p] = v - 1 /\ g[c] = v - 1
      /\ \A q \in L : f[q] \in Nat
      /\ \A q \in L : q # p => g[q] = f[q]
  <2>1. /\ pc'[p] = pc[p] + 1 /\ pc'[c] = pc[p] + 1
        /\ \A q \in Slots : q # p /\ q # c => pc'[q] = pc[q]
    BY <1>2 DEF CloneStep
  <2> QED
    BY <1>1, <1>3, <1>4, <2>1
<1> HIDE DEF f, g, w, v
<1>8. /\ \A q \in L \cup {c} : g[q] \in Nat
  BY <1>6, <1>7
<1> DEFINE S == L \ {p}
           sf == Tasks!SumOf(f, L)
           sg == Tasks!SumOf(g, L \cup {c})
           r  == Tasks!SumOf(g, S)
<1>9. IsFiniteSet(L) /\ IsFiniteSet(S) /\ S \subseteq L
  BY <1>1, <1>3, FS_Subset
<1>10. sf = f[p] + Tasks!SumOf(f, S)
  <2>1. p \in L /\ IsFiniteSet(L) /\ \A q \in L : f[q] \in Nat
    BY <1>4, <1>7, <1>9
  <2>2. \A x \in L : Tasks!SumOf(f, L) = f[x] + Tasks!SumOf(f, L \ {x})
    BY <2>1, SumSplits
  <2> QED
    BY <2>1, <2>2
<1>11. Tasks!SumOf(f, S) = r /\ Tasks!SumOf(f, S) \in Nat
  <2>1. \A x \in S : f[x] \in Nat /\ g[x] = f[x]
    BY <1>7
  <2> HIDE DEF S
  <2> QED
    BY <1>9, <2>1, SumAgrees
<1>12. Tasks!SumOf(g, L) = g[p] + r
  BY <1>4, <1>8, <1>9, SumSplits
<1>13. sg = g[c] + Tasks!SumOf(g, L)
  BY <1>4, <1>8, <1>9, SumAdds
<1> HIDE DEF sf, sg, r
<1>14. sf + (c - 1) <= Offspring(main, 1)
  BY <1>2, <1>3 DEF FitInv, f, sf
<1>15. Offspring(main, 1) \in Nat
  BY OffspringFacts, TextFacts DEF LineInv, Typed
<1>16. sg + c <= Offspring(main, 1)
  <2>1. sg = (v - 1) + ((v - 1) + r) /\ sf = (w - 1) + r /\ r \in Nat
    BY <1>7, <1>10, <1>11, <1>12, <1>13
  <2> QED
    BY <1>4, <1>6, <1>14, <1>15, <2>1
<1>17. Tasks!SumOf(ToCome', Kernel!Live') = sg
  BY <1>4, <1>5 DEF sg
<1>18. sg + (nr_tasks' - 1) <= Offspring(main', 1)
  BY <1>4, <1>16
<1> QED
  BY <1>17, <1>18 DEF FitInv

LEMMA FitStep ==
  ASSUME MainsFormed
  PROVE  LineInv /\ LineInv' /\ FitInv /\ [Next]_vars => FitInv'
<1> SUFFICES ASSUME LineInv, LineInv', FitInv, [Next]_vars PROVE FitInv'
  OBVIOUS
<1>1. \A q \in Slots : Offspring(main, pc[q]) \in Nat
  BY OffspringFacts DEF LineInv, Typed
<1>2. CASE TasksAlone /\ nr_tasks' = nr_tasks
  BY <1>1, <1>2, LocalFits DEF TasksAlone
<1>3. ASSUME NEW p \in Slots, LocalStep(p), OpOf(p) # "fork" PROVE FitInv'
  <2>1. main' = main /\ nr_tasks' = nr_tasks /\ pc'[p] \in Follows(main, pc[p])
    BY <1>3 DEF LocalStep
  <2>2. Offspring(main, pc'[p]) <= Offspring(main, pc[p])
    BY <1>3, <2>1, OffspringFacts DEF LineInv, Typed, OpOf
  <2>3. \A q \in Slots : q # p => Offspring(main, pc'[q]) <= Offspring(main, pc[q])
    BY <1>1, <1>3 DEF LocalStep
  <2> QED
    BY <2>1, <2>2, <2>3, LocalFits
<1>4. CASE Boot \/ Tick \/ UNCHANGED vars
  BY <1>2, <1>4 DEF Boot, Tick, vars, kernel, TasksAlone, Kernel!StartKernel, Kernel!Tick
<1>5. ASSUME NEW p \in Slots, Task(p) PROVE FitInv'
  <2>0. Tasks!SchedInv /\ Typed /\ TasksOK /\ ConsoleOK
    BY DEF LineInv
  <2>1. CASE PostIncrement(p) \/ PreIncrement(p) \/ ReadMessage(p) \/ StoreMessage(p)
    BY <1>3, <2>0, <2>1, AssignStep DEF Assigns
  <2>2. CASE putc(p) \/ Reset(p) \/ Jump(p) \/ GetPid(p)
    BY <1>3, <2>0, <2>2, PutcLine, ResetStep, JumpStep, GetPidStep
  <2>3. CASE Clone(p)
    BY <2>0, <2>3, ForkStep, ForkFits
  <2>4. CASE WriteBegins(p) \/ WritePuts(p)
    BY <1>2, <2>4 DEF WriteBegins, WritePuts, TasksAlone, Calm, kernel
  <2>5. CASE WriteReturns(p)
    <3>1. Writing /\ current = p
      BY <2>0, <2>5 DEF ConsoleOK, WriteReturns
    <3>2. LocalStep(p) /\ OpOf(p) = "write"
      BY <2>0, <2>5, <3>1, WriteReturnsStep DEF Writing
    <3> QED
      BY <1>3, <3>2
  <2> QED
    BY <1>5, <2>1, <2>2, <2>3, <2>4, <2>5 DEF Task, Write
<1> QED
  BY <1>4, <1>5 DEF Next, Running

(* The programs create no more tasks than task[] holds, if no more can     *)
(* come of the first one than there are slots beside idle's.               *)
THEOREM TableSuffices ==
  ASSUME MainsFormed, InitTasks = 2, \A m \in Mains : Offspring(m, 1) < NR_TASKS
  PROVE  Spec => []FitsTable
<1>1. Spec => []FitInv
  BY LineInvariant, FitInit, FitStep, PTL DEF Spec
<1>2. LineInv /\ FitInv => FitsTable
  <2> SUFFICES ASSUME LineInv, FitInv PROVE FitsTable
    OBVIOUS
  <2>1. /\ Tasks!SumOf(ToCome, Kernel!Live) \in Nat
        /\ nr_tasks \in Nat /\ Offspring(main, 1) \in Nat /\ NR_TASKS \in Nat
        /\ Offspring(main, 1) < NR_TASKS
    BY ToComeNat, KernelFacts, OffspringFacts, TextFacts, SameAssumption
       DEF LineInv, Typed, Tasks!SchedAssumption
  <2>2. nr_tasks <= NR_TASKS
    BY <2>1 DEF FitInv
  <2> QED
    BY <2>2 DEF FitsTable, Kernel!TaskTableHoldsAll
<1> QED
  BY <1>1, <1>2, LineInvariant, PTL

-----------------------------------------------------------------------------
(* Counting *)

(* The value of the line that task p is about to print, and whether it is  *)
(* still to be counted: until its last character is on the console.        *)
Full       == 4
Carried(p) == IF mem[p].tail <= 2 THEN regs[p].value ELSE mem[p].buffer[2].val
ToShow(p)  ==
  /\ InLine(main, pc[p]) /\ ~(p = current /\ i = Full)
  /\ Carried(p) # Text

(* global_variable after last has been shown, with nothing on the way; the *)
(* main of PFH1 increments before it prints.                               *)
After(last) == IF main # PFH1 THEN Next1(last) ELSE IF last = -1 THEN 0 ELSE last
Succeeds(v, last) == v = Next1(last) \/ (last = -1 /\ main = PFH1 /\ v = 1)

CountOK(p) ==
  /\ shown[p] \in Int /\ shown[p] >= -1
  /\ Stored(main, pc[p]) => mem[p].placeholder = Text
  /\ ToShow(p) => /\ Carried(p) \in Nat /\ Succeeds(Carried(p), shown[p])
                  /\ mem[p].global_variable = After(Carried(p))
  /\ ~ToShow(p) => mem[p].global_variable = After(shown[p])

CountInv ==
  main # NOTEST => shown \in [Slots -> Int] /\ \A p \in Slots : CountOK(p)

LEMMA CountingOn ==
  ASSUME NEW last \in Int, last >= -1
  PROVE  /\ Next1(last) \in Nat
         /\ main = PFH1 => /\ Succeeds(Next1(After(last)), last)
                           /\ Next1(After(last)) \in Nat
                           /\ After(Next1(After(last))) = Next1(After(last))
         /\ main # PFH1 => /\ Succeeds(After(last), last)
                           /\ After(last) \in Nat
                           /\ After(After(last)) = Next1(After(last))
<1>1. \A x \in Int : x >= -1 => Next1(x) \in Nat
  <2> SUFFICES ASSUME NEW x \in Int, x >= -1 PROVE Next1(x) \in Nat
    OBVIOUS
  <2> QED
    BY UserAssumption DEF Next1
<1>2. CASE main = PFH1
  <2>1. CASE last = -1
    <3>1. After(last) = 0
      BY <1>2, <2>1 DEF After
    <3>2. Next1(0) = 1 \/ (Next1(0) = 0 /\ Next1(-1) = 0)
      <4>1. Wrap \in Nat /\ Wrap >= 1
        BY UserAssumption
      <4>2. CASE Wrap = 1
        BY <4>2 DEF Next1
      <4>3. CASE Wrap >= 2
        BY <4>1, <4>3 DEF Next1
      <4> QED
        BY <4>1, <4>2, <4>3
    <3>3. Next1(0) \in Nat
      BY <1>1
    <3> QED
      BY <1>1, <1>2, <2>1, <3>1, <3>2, <3>3 DEF Succeeds, After
  <2>2. CASE last # -1
    <3>1. After(last) = last
      BY <1>2, <2>2 DEF After
    <3>2. Next1(last) \in Nat
      BY <1>1
    <3>3. After(Next1(last)) = Next1(last)
      BY <1>2, <3>2 DEF After
    <3> QED
      BY <1>2, <3>1, <3>2, <3>3 DEF Succeeds
  <2> QED
    BY <2>1, <2>2
<1>3. CASE main # PFH1
  BY <1>1, <1>3 DEF Succeeds, After
<1> QED
  BY <1>2, <1>3

LEMMA CountInit == ASSUME MainsFormed PROVE Init => CountInv
<1> SUFFICES ASSUME Init, main # NOTEST PROVE shown \in [Slots -> Int] /\ \A p \in Slots : CountOK(p)
  BY DEF CountInv
<1>1. shown \in [Slots -> Int]
  BY DEF Init
<1> SUFFICES ASSUME NEW p \in Slots PROVE CountOK(p)
  BY <1>1
<1>2. /\ pc[p] = 1 /\ mem[p] = Loaded /\ shown[p] = -1
  BY DEF Init
<1>3. ~InLine(main, 1)
  BY TextFacts DEF Init, CountsFormed
<1>4. ~Stored(main, 1)
  BY DEF Stored
<1>5. After(-1) = 0
  BY UserAssumption DEF After, Next1
<1>6. mem[p].global_variable = 0
  BY <1>2 DEF Loaded
<1> QED
  BY <1>2, <1>3, <1>4, <1>5, <1>6 DEF CountOK, ToShow

(* A step of task p in user mode leaves the counting of the others alone.  *)
LEMMA LocalCount ==
  ASSUME CountInv, NEW p \in Slots, LocalStep(p), UNCHANGED shown,
         main # NOTEST => CountOK(p)'
  PROVE  CountInv'
<1> SUFFICES ASSUME main # NOTEST PROVE shown' \in [Slots -> Int] /\ \A q \in Slots : CountOK(q)'
  BY DEF CountInv, LocalStep
<1>1. ASSUME NEW q \in Slots, q # p PROVE CountOK(q)'
  <2>1. /\ pc'[q] = pc[q] /\ regs'[q] = regs[q] /\ mem'[q] = mem[q] /\ shown' = shown
        /\ main' = main /\ q # current /\ q # current'
    BY <1>1 DEF LocalStep
  <2>2. CountOK(q)
    BY DEF CountInv
  <2>3. Carried(q)' = Carried(q)
    BY <2>1 DEF Carried
  <2>4. ToShow(q)' = ToShow(q)
    BY <2>1, <2>3 DEF ToShow
  <2>5. \A v, l : Succeeds(v, l)' = Succeeds(v, l) /\ After(l)' = After(l)
    BY <2>1 DEF Succeeds, After
  <2> QED
    BY <2>1, <2>2, <2>3, <2>4, <2>5 DEF CountOK
<1> QED
  BY <1>1 DEF CountInv

(* Neither do those that compute no value and put no character change what *)
(* task p is about to show.                                                *)
LEMMA BetweenLines ==
  ASSUME MainsFormed, LineInv, CountInv, NEW p \in Slots, LocalStep(p), UNCHANGED shown,
         OpOf(p) \notin Assignments \cup {"putc", "store"}, ~ToShow(p),
         mem'[p].global_variable = mem[p].global_variable,
         mem'[p].placeholder = mem[p].placeholder
  PROVE  CountInv'
<1> SUFFICES ASSUME main # NOTEST PROVE CountOK(p)'
  BY LocalCount
<1>1. ValueOnce(main, pc[p], pc'[p])
  BY TextFacts DEF LineInv, Typed, LocalStep, CountsFormed
<1>2. CountOK(p) /\ main' = main
  BY DEF CountInv, LocalStep
<1>3. ~ToShow(p)'
  BY <1>1, <1>2 DEF ToShow, ValueOnce, OpOf
<1>4. Stored(main, pc'[p]) => Stored(main, pc[p])
  BY <1>1 DEF ValueOnce, OpOf
<1> QED
  BY <1>2, <1>3, <1>4 DEF CountOK, After

(* Each value is the one behind the last, unless it is the message.        *)
LEMMA AssignCounts ==
  ASSUME MainsFormed, LineInv, CountInv, NEW p \in Slots, Assigns(p)
  PROVE  CountInv'
<1>0. LocalStep(p) /\ UNCHANGED shown
  BY DEF Assigns
<1> SUFFICES ASSUME main # NOTEST PROVE CountOK(p)'
  BY <1>0, LocalCount
<1>1. ValueOnce(main, pc[p], pc'[p])
  BY <1>0, TextFacts DEF LineInv, Typed, LocalStep, CountsFormed
<1>2. CountOK(p) /\ main' = main
  BY <1>0 DEF CountInv, LocalStep
<1>3. /\ OpOf(p) = "++counter" => main = PFH1
      /\ OpOf(p) = "global_variable++" => main # PFH1
      /\ OpOf(p) = "message" => Stored(main, pc[p])
  BY TextFacts DEF LineInv, Typed, CountsFormed, OpOf
<1>4. ~ToShow(p)
  BY DEF ToShow, InLine, Assigns, OpOf
<1>5. mem[p].global_variable = After(shown[p]) /\ shown[p] \in Int /\ shown[p] >= -1
  BY <1>2, <1>4 DEF CountOK
<1>6. /\ Stored(main, pc'[p]) => Stored(main, pc[p]) \/ OpOf(p) = "store"
  BY <1>1 DEF ValueOnce, OpOf
<1>7. \A v, l : Succeeds(v, l)' = Succeeds(v, l) /\ After(l)' = After(l)
  BY <1>2 DEF Succeeds, After
<1>8. OpOf(p) # "store" => /\ InLine(main, pc'[p]) /\ Carried(p)' = regs'[p].value
                           /\ i' # Full
  <2> SUFFICES ASSUME OpOf(p) # "store"
               PROVE  /\ InLine(main, pc'[p]) /\ Carried(p)' = regs'[p].value
                      /\ i' # Full
    OBVIOUS
  <2>1. InLine(main, pc'[p])
    BY <1>1 DEF ValueOnce, Assigns, OpOf, Assignments
  <2>2. mem[p].tail = 0
    BY FilledFacts DEF LineInv, Typed, TasksOK, BufferOK, Assigns, OpOf
  <2>3. mem'[p].tail = 0 /\ i' = User
    BY <2>2 DEF Assigns
  <2> QED
    BY <2>1, <2>3 DEF Carried, Full, User
<1>9. CASE OpOf(p) = "global_variable++"
  <2> DEFINE v == mem[p].global_variable
  <2>1. /\ Carried(p)' = v /\ mem'[p].global_variable = Next1(v)
        /\ mem'[p].placeholder = mem[p].placeholder
    BY <1>8, <1>9 DEF Assigns
  <2>2. Succeeds(v, shown[p]) /\ v \in Nat /\ After(v) = Next1(v)
    BY <1>3, <1>5, <1>9, CountingOn
  <2>3. v # Text
    BY <2>2 DEF Text
  <2> HIDE DEF v
  <2>4. ToShow(p)'
    BY <1>2, <1>8, <1>9, <2>1, <2>3 DEF ToShow
  <2> QED
    BY <1>0, <1>2, <1>6, <1>7, <1>9, <2>1, <2>2, <2>4 DEF CountOK
<1>10. CASE OpOf(p) = "++counter"
  <2> DEFINE v == Next1(mem[p].global_variable)
  <2>1. /\ Carried(p)' = v /\ mem'[p].global_variable = v
        /\ mem'[p].placeholder = mem[p].placeholder
    BY <1>8, <1>10 DEF Assigns
  <2>2. Succeeds(v, shown[p]) /\ v \in Nat /\ After(v) = v
    BY <1>3, <1>5, <1>10, CountingOn
  <2>3. v # Text
    BY <2>2 DEF Text
  <2> HIDE DEF v
  <2>4. ToShow(p)'
    BY <1>2, <1>8, <1>10, <2>1, <2>3 DEF ToShow
  <2> QED
    BY <1>0, <1>2, <1>6, <1>7, <1>10, <2>1, <2>2, <2>4 DEF CountOK
<1>11. CASE OpOf(p) = "message"
  <2>1. /\ Carried(p)' = mem[p].placeholder
        /\ mem'[p].global_variable = mem[p].global_variable
        /\ mem'[p].placeholder = mem[p].placeholder
    BY <1>8, <1>11 DEF Assigns
  <2>2. Carried(p)' = Text
    BY <1>2, <1>3, <1>11, <2>1 DEF CountOK
  <2>3. ~ToShow(p)'
    BY <2>2 DEF ToShow
  <2> QED
    BY <1>0, <1>2, <1>5, <1>6, <1>7, <1>11, <2>1, <2>3 DEF CountOK
<1>12. CASE OpOf(p) = "store"
  <2>1. mem'[p].global_variable = mem[p].global_variable /\ mem'[p].placeholder = Text
    BY <1>12 DEF Assigns
  <2>2. ~InLine(main, pc'[p])
    BY <1>1, <1>12 DEF ValueOnce, OpOf, Assignments
  <2>3. ~ToShow(p)'
    BY <1>2, <2>2 DEF ToShow
  <2> QED
    BY <1>0, <1>2, <1>5, <1>7, <2>1, <2>3 DEF CountOK
<1> QED
  BY <1>9, <1>10, <1>11, <1>12 DEF Assigns

(* The value goes from the register into the buffer. *)
LEMMA PutcCounts ==
  ASSUME MainsFormed, LineInv, CountInv, NEW p \in Slots, putc(p)
  PROVE  CountInv'
<1>0. /\ LocalStep(p) /\ OpOf(p) = "putc" /\ i = User /\ i' = User
      /\ UNCHANGED <<regs, shown>>
      /\ mem'[p].tail = mem[p].tail + 1 /\ mem[p].tail \in 0 .. 3
      /\ mem'[p].buffer = [mem[p].buffer EXCEPT ![mem[p].tail] = Char(p)]
      /\ mem'[p].global_variable = mem[p].global_variable
      /\ mem'[p].placeholder = mem[p].placeholder
      /\ Char(p).kind = Line(main)[mem[p].tail + 1]
  BY PutcLine DEF LineInv
<1> SUFFICES ASSUME main # NOTEST PROVE CountOK(p)'
  BY <1>0, LocalCount
<1>1. ValueOnce(main, pc[p], pc'[p])
  BY <1>0, TextFacts DEF LineInv, Typed, LocalStep, CountsFormed
<1>2. CountOK(p) /\ main' = main
  BY <1>0 DEF CountInv, LocalStep
<1>3. InLine(main, pc[p]) /\ InLine(main, pc'[p])
  BY <1>0, <1>1 DEF ValueOnce, OpOf, InLine
<1>4. Stored(main, pc'[p]) => Stored(main, pc[p])
  BY <1>0, <1>1 DEF ValueOnce, OpOf
<1>5. \A v, l : Succeeds(v, l)' = Succeeds(v, l) /\ After(l)' = After(l)
  BY <1>2 DEF Succeeds, After
<1>6. mem[p].buffer \in [0 .. BufferSize - 1 -> Character]
  BY DEF LineInv, Typed, Memory
<1>7. Carried(p)' = Carried(p)
  <2>1. CASE mem[p].tail <= 1
    BY <1>0, <2>1 DEF Carried
  <2>2. CASE mem[p].tail = 2
    <3>1. Char(p).kind = "value"
      BY <1>0, <2>2 DEF Line
    <3>2. Char(p).val = regs[p].value
      BY <3>1 DEF Char
    <3>3. mem'[p].buffer[2] = Char(p)
      BY <1>0, <1>6, <2>2 DEF BufferSize
    <3>4. mem'[p].tail = 3
      BY <1>0, <2>2
    <3> QED
      BY <2>2, <3>2, <3>3, <3>4 DEF Carried
  <2>3. CASE mem[p].tail = 3
    <3>1. mem'[p].buffer[2] = mem[p].buffer[2]
      BY <1>0, <1>6, <2>3 DEF BufferSize
    <3>2. mem'[p].tail = 4
      BY <1>0, <2>3
    <3> QED
      BY <2>3, <3>1, <3>2 DEF Carried
  <2> QED
    BY <1>0, <2>1, <2>2, <2>3
<1>8. ToShow(p)' = ToShow(p)
  BY <1>0, <1>2, <1>3, <1>7 DEF ToShow, User, Full
<1> QED
  BY <1>0, <1>2, <1>4, <1>5, <1>7, <1>8 DEF CountOK

(* A step that leaves the tasks alone, but for the last character of a line. *)
LEMMA AloneCounts ==
  ASSUME CountInv, TasksAlone, UNCHANGED shown, i # Full, i' # Full
  PROVE  CountInv'
<1>1. main' = main /\ pc' = pc /\ mem' = mem /\ regs' = regs /\ shown' = shown
  BY DEF TasksAlone
<1> SUFFICES ASSUME main # NOTEST PROVE shown' \in [Slots -> Int] /\ \A q \in Slots : CountOK(q)'
  BY <1>1 DEF CountInv
<1>2. ASSUME NEW q \in Slots PROVE CountOK(q)'
  <2>1. CountOK(q)
    BY DEF CountInv
  <2>2. Carried(q)' = Carried(q)
    BY <1>1 DEF Carried
  <2>3. ToShow(q)' = ToShow(q)
    BY <1>1, <2>2 DEF ToShow
  <2>4. \A v, l : Succeeds(v, l)' = Succeeds(v, l) /\ After(l)' = After(l)
    BY <1>1 DEF Succeeds, After
  <2> QED
    BY <1>1, <2>1, <2>2, <2>3, <2>4 DEF CountOK
<1> QED
  BY <1>1, <1>2 DEF CountInv

(* The child counts on from what its parent has shown. *)
LEMMA ForkCounts ==
  ASSUME MainsFormed, LineInv, CountInv, NEW p \in Slots, CloneStep(p)
  PROVE  CountInv'
<1>0. main' = main
  BY DEF CloneStep
<1> SUFFICES ASSUME main # NOTEST PROVE shown' \in [Slots -> Int] /\ \A q \in Slots : CountOK(q)'
  BY <1>0 DEF CountInv
<1>1. PICK c \in Slots : c = nr_tasks
  BY DEF CloneStep
<1>2. /\ c # p /\ i = User /\ i' = User /\ OpOf(p) = "fork"
      /\ pc'[p] = pc[p] + 1 /\ pc'[c] = pc[p] + 1 /\ mem'[p] = mem[p] /\ mem'[c] = mem[p]
      /\ shown' = [shown EXCEPT ![c] = shown[p]]
      /\ \A q \in Slots : q # p /\ q # c =>
           pc'[q] = pc[q] /\ regs'[q] = regs[q] /\ mem'[q] = mem[q]
  BY <1>1 DEF CloneStep
<1>3. shown \in [Slots -> Int] /\ \A q \in Slots : CountOK(q)
  BY DEF CountInv
<1>4. /\ shown' \in [Slots -> Int] /\ shown'[c] = shown[p]
      /\ \A q \in Slots : q # c => shown'[q] = shown[q]
  BY <1>2, <1>3
<1>5. ValueOnce(main, pc[p], pc[p] + 1)
  BY TextFacts DEF LineInv, Typed, CloneStep, CountsFormed
<1>6. /\ ~InLine(main, pc[p]) /\ ~InLine(main, pc[p] + 1)
      /\ Stored(main, pc[p] + 1) => Stored(main, pc[p])
  BY <1>2, <1>5 DEF ValueOnce, InLine, OpOf, Assignments
<1>7. /\ shown[p] \in Int /\ shown[p] >= -1
      /\ Stored(main, pc[p]) => mem[p].placeholder = Text
      /\ mem[p].global_variable = After(shown[p])
  BY <1>3, <1>6 DEF CountOK, ToShow
<1>8. \A v, l : Succeeds(v, l)' = Succeeds(v, l) /\ After(l)' = After(l)
  BY <1>0 DEF Succeeds, After
<1>9. ASSUME NEW q \in {p, c} PROVE CountOK(q)'
  <2>1. /\ pc'[q] = pc[p] + 1 /\ mem'[q] = mem[p] /\ shown'[q] = shown[p] /\ q \in Slots
    BY <1>2, <1>4, <1>9
  <2>2. ~ToShow(q)'
    BY <1>0, <1>6, <2>1 DEF ToShow
  <2> QED
    BY <1>0, <1>6, <1>7, <1>8, <2>1, <2>2 DEF CountOK
<1>10. ASSUME NEW q \in Slots, q # p, q # c PROVE CountOK(q)'
  <2>1. /\ pc'[q] = pc[q] /\ regs'[q] = regs[q] /\ mem'[q] = mem[q] /\ shown'[q] = shown[q]
        /\ CountOK(q)
    BY <1>2, <1>3, <1>4, <1>10
  <2>2. Carried(q)' = Carried(q)
    BY <2>1 DEF Carried
  <2>3. ToShow(q)' = ToShow(q)
    BY <1>0, <1>2, <2>1, <2>2 DEF ToShow, User, Full
  <2> QED
    BY <1>0, <1>8, <2>1, <2>2, <2>3 DEF CountOK
<1> QED
  BY <1>4, <1>9, <1>10

(* The last character of a line completes it, and its value is the one the *)
(* task has carried since it computed it.                                  *)
LEMMA LastPut ==
  ASSUME MainsFormed, LineInv, NEW p \in Slots, WritePuts(p), main # NOTEST, i = 3
  PROVE  /\ Ended' /\ Len(console') = 4 /\ console'[1].by = p /\ Value' = Carried(p)
         /\ InLine(main, pc[p]) /\ i' = Full /\ current = p
         /\ Counted' <=> Carried(p) # Text
<1>1. /\ current = p /\ OpOf(p) = "write" /\ mem[p].tail = Len(Line(main))
      /\ i' = i + 1 /\ console' \in Seq(Entry) /\ Len(console') = i + 1
      /\ \A k \in 1 .. i + 1 : console'[k] = Shows(k)
  BY WritePutsStep
<1>2. Line(main)[4] = "NUL" /\ Len(Line(main)) = 4
  BY DEF Line
<1>3. /\ console' \in Seq(Entry) /\ Len(console') = 4 /\ i' = 4 /\ mem[p].tail = 4
      /\ console'[1] = Shows(1) /\ console'[3] = Shows(3) /\ console'[4] = Shows(4)
  BY <1>1, <1>2
<1>4. mem[p].buffer[3].kind = "NUL"
  <2>1. BufferOK(p)
    BY DEF LineInv, TasksOK
  <2>2. 3 \in 0 .. mem[p].tail - 1 /\ 3 + 1 = 4
    BY <1>3
  <2> QED
    BY <1>2, <2>1, <2>2 DEF BufferOK
<1>5. console'[1].by = p /\ console'[3].val = mem[p].buffer[2].val /\ console'[4].kind = "NUL"
  BY <1>1, <1>3, <1>4 DEF Shows
<1>6. Ended'
  <2>1. console' # <<>> /\ Last(console)' = console'[4]
    <3>1. console' # <<>>
      <4>1. SUFFICES ASSUME console' = <<>> PROVE FALSE
        OBVIOUS
      <4>2. Len(console') = 0
        BY <4>1
      <4> QED
        BY <1>3, <4>2
    <3>2. Last(console)' = console'[Len(console')]
      BY DEF Last
    <3> QED
      BY <1>3, <3>1, <3>2
  <2> QED
    BY <1>5, <2>1 DEF Ended
<1>7. Value' = Carried(p)
  BY <1>3, <1>5 DEF Value, Carried
<1>8. Counted' <=> Carried(p) # Text
  BY <1>3, <1>6, <1>7 DEF Counted
<1> QED
  BY <1>1, <1>3, <1>5, <1>6, <1>7, <1>8 DEF InLine, OpOf, Full

LEMMA PutsCount ==
  ASSUME MainsFormed, LineInv, CountInv, NEW p \in Slots, WritePuts(p)
  PROVE  CountInv'
<1>1. /\ TasksAlone /\ current = p /\ UNCHANGED current
      /\ mem[p].tail = Len(Line(main)) /\ i \in 0 .. mem[p].tail - 1 /\ i' = i + 1
      /\ Len(console') = i + 1
      /\ shown' = IF Counted' THEN [shown EXCEPT ![p] = Value'] ELSE shown
  BY WritePutsStep
<1>2. main' = main /\ pc' = pc /\ mem' = mem /\ regs' = regs
  BY <1>1 DEF TasksAlone
<1> SUFFICES ASSUME main # NOTEST PROVE CountInv'
  BY <1>2 DEF CountInv
<1>3. Len(Line(main)) = 4
  BY DEF Line
<1>4. i \in 0 .. 3
  BY <1>1, <1>3
<1>5. CASE i # 3
  <2>1. ~Counted'
    BY <1>1, <1>4, <1>5 DEF Counted
  <2> QED
    BY <1>1, <1>4, <1>5, <2>1, AloneCounts DEF Full
<1>6. CASE i = 3
  <2>1. /\ Value' = Carried(p) /\ InLine(main, pc[p]) /\ i' = Full
        /\ Counted' <=> Carried(p) # Text
    BY <1>6, LastPut
  <2>2. shown \in [Slots -> Int] /\ \A q \in Slots : CountOK(q)
    BY DEF CountInv
  <2>3. ToShow(p) <=> Carried(p) # Text
    BY <1>6, <2>1 DEF ToShow, Full
  <2>4. /\ Counted' => Carried(p) \in Nat
        /\ shown' = IF Counted' THEN [shown EXCEPT ![p] = Carried(p)] ELSE shown
    BY <1>1, <2>1, <2>2, <2>3 DEF CountOK
  <2>5. /\ shown' \in [Slots -> Int] /\ shown'[p] = IF Counted' THEN Carried(p) ELSE shown[p]
        /\ \A q \in Slots : q # p => shown'[q] = shown[q]
    <3>1. CASE Counted'
      BY <2>2, <2>4, <3>1
    <3>2. CASE ~Counted'
      BY <2>2, <2>4, <3>2
    <3> QED
      BY <3>1, <3>2
  <2>6. \A v, l : Succeeds(v, l)' = Succeeds(v, l) /\ After(l)' = After(l)
    BY <1>2 DEF Succeeds, After
  <2>7. CountOK(p)'
    <3>1. ~ToShow(p)'
      BY <1>1, <2>1 DEF ToShow
    <3>2. CASE Counted'
      BY <1>2, <2>1, <2>2, <2>3, <2>4, <2>5, <2>6, <3>1, <3>2 DEF CountOK
    <3>3. CASE ~Counted'
      BY <1>2, <2>1, <2>2, <2>3, <2>5, <2>6, <3>1, <3>3 DEF CountOK
    <3> QED
      BY <3>2, <3>3
  <2>8. ASSUME NEW q \in Slots, q # p PROVE CountOK(q)'
    <3>1. Carried(q)' = Carried(q)
      BY <1>2 DEF Carried
    <3>2. ToShow(q)' = ToShow(q)
      BY <1>1, <1>2, <2>8, <3>1 DEF ToShow
    <3> QED
      BY <1>2, <2>2, <2>5, <2>6, <2>8, <3>1, <3>2 DEF CountOK
  <2> QED
    BY <2>5, <2>7, <2>8 DEF CountInv
<1> QED
  BY <1>5, <1>6

LEMMA CountTask ==
  ASSUME MainsFormed, LineInv, CountInv, NEW p \in Slots, Task(p)
  PROVE  CountInv'
<1>0. Tasks!SchedInv /\ Typed /\ TasksOK /\ ConsoleOK
  BY DEF LineInv
<1>1. CASE PostIncrement(p) \/ PreIncrement(p) \/ ReadMessage(p) \/ StoreMessage(p)
  <2>1. Assigns(p)
    BY <1>0, <1>1, AssignStep
  <2> QED
    BY <2>1, AssignCounts
<1>2. CASE putc(p)
  BY <1>2, PutcCounts
<1>3. CASE Reset(p) \/ Jump(p) \/ GetPid(p)
  <2>1. /\ LocalStep(p) /\ UNCHANGED shown /\ OpOf(p) \in {"reset", "jump", "bnez", "getpid"}
    BY <1>0, <1>3, ResetStep, JumpStep, GetPidStep
  <2>2. /\ mem'[p].global_variable = mem[p].global_variable
        /\ mem'[p].placeholder = mem[p].placeholder
    <3>1. CASE Reset(p)
      <4>1. mem'[p] = [mem[p] EXCEPT !.tail = 0] /\ mem[p] \in Memory
        BY <1>0, <3>1, ResetStep DEF Typed
      <4> QED
        BY <4>1 DEF Memory
    <3>2. CASE Jump(p) \/ GetPid(p)
      BY <1>0, <3>2, JumpStep, GetPidStep
    <3> QED
      BY <1>3, <3>1, <3>2
  <2>3. ~ToShow(p)
    BY <2>1 DEF ToShow, InLine, OpOf
  <2>4. OpOf(p) \notin Assignments \cup {"putc", "store"}
    BY <2>1 DEF Assignments
  <2> QED
    BY <2>1, <2>2, <2>3, <2>4, BetweenLines
<1>4. CASE Clone(p)
  <2>1. CloneStep(p)
    BY <1>0, <1>4, ForkStep
  <2> QED
    BY <2>1, ForkCounts
<1>5. CASE WriteBegins(p)
  <2>1. TasksAlone /\ UNCHANGED shown /\ i = User /\ i' = 0
    BY <1>5 DEF WriteBegins, At, Calm, TasksAlone
  <2> QED
    BY <2>1, AloneCounts DEF User, Full
<1>6. CASE WritePuts(p)
  BY <1>6, PutsCount
<1>7. CASE WriteReturns(p)
  <2>1. Writing /\ current = p
    BY <1>0, <1>7 DEF ConsoleOK, WriteReturns
  <2>2. /\ LocalStep(p) /\ OpOf(p) = "write" /\ UNCHANGED <<mem, shown>> /\ i >= mem[p].tail
    BY <1>0, <1>7, <2>1, WriteReturnsStep DEF Writing
  <2>3. main' = main
    BY <2>2 DEF LocalStep
  <2>4. CASE main = NOTEST
    BY <2>3, <2>4 DEF CountInv
  <2>5. CASE main # NOTEST
    <3>1. mem[p].tail = Len(Line(main)) /\ Len(Line(main)) = 4
      BY <1>0, <2>2, <2>5, TailFull DEF Line
    <3>2. i = Full
      BY <2>1, <2>2, <3>1 DEF Writing, Full
    <3>3. ~ToShow(p)
      BY <2>1, <3>2 DEF ToShow
    <3>4. OpOf(p) \notin Assignments \cup {"putc", "store"}
      BY <2>2 DEF Assignments
    <3> QED
      BY <2>2, <3>3, <3>4, BetweenLines
  <2> QED
    BY <2>4, <2>5
<1> QED
  BY <1>1, <1>2, <1>3, <1>4, <1>5, <1>6, <1>7 DEF Task, Write

LEMMA CountStep ==
  ASSUME MainsFormed
  PROVE  LineInv /\ CountInv /\ [Next]_vars => CountInv'
<1> SUFFICES ASSUME LineInv, CountInv, [Next]_vars PROVE CountInv'
  OBVIOUS
<1>1. CASE Boot
  <2>1. TasksAlone /\ UNCHANGED <<i, shown>> /\ current = Kernel!Idle
    BY <1>1 DEF Boot, TasksAlone, Kernel!StartKernel
  <2>2. i = User
    BY <2>1 DEF LineInv, ConsoleOK, Writing
  <2> QED
    BY <2>1, <2>2, AloneCounts DEF User, Full
<1>2. CASE Tick
  <2>1. TasksAlone /\ UNCHANGED <<i, shown>> /\ i = User
    BY <1>2 DEF Tick, TasksAlone, InUserMode
  <2> QED
    BY <2>1, AloneCounts DEF User, Full
<1>3. CASE Running
  BY <1>3, CountTask DEF Running
<1>4. CASE UNCHANGED vars
  <2>1. main' = main /\ pc' = pc /\ mem' = mem /\ regs' = regs /\ shown' = shown
        /\ i' = i /\ current' = current
    BY <1>4 DEF vars, kernel
  <2> QED
    BY <2>1 DEF CountInv, CountOK, ToShow, Carried, After, Succeeds, Next1
<1> QED
  BY <1>1, <1>2, <1>3, <1>4 DEF Next

(* A value that comes on the console is the one behind the last that the   *)
(* task, or its parent before the fork, has shown.                         *)
THEOREM TasksCountOn == ASSUME MainsFormed PROVE Spec => CountsOn
<1>1. Spec => []CountInv
  BY LineInvariant, CountInit, CountStep, PTL DEF Spec
<1> DEFINE Counts ==
      console' # console /\ Counted' =>
        LET last == shown[console'[1].by] IN
          \/ Value' = Next1(last)
          \/ last = -1 /\ main = PFH1 /\ Value' = 1
<1>2. ASSUME MainsFormed, LineInv, LineInv', CountInv, [Next]_vars, console' # console, Counted'
      PROVE  \/ Value' = Next1(shown[console'[1].by])
             \/ shown[console'[1].by] = -1 /\ main = PFH1 /\ Value' = 1
  <2>1. Len(console') = 4
    BY <1>2 DEF Counted
  <2>2. i' # User
    <3>1. SUFFICES ASSUME i' = User PROVE FALSE
      OBVIOUS
    <3>2. console' \in {<<>>, <<Logged>>}
      BY <1>2, <3>1 DEF LineInv, ConsoleOK, Logged, Kernel!Idle
    <3> QED
      BY <2>1, <3>2
  <2>3. PICK p \in Slots : Task(p)
    <3>1. ~UNCHANGED vars
      BY <1>2 DEF vars
    <3>2. ~Boot
      BY <1>2 DEF Boot
    <3>3. ~Tick
      BY <2>2 DEF Tick, InUserMode
    <3> QED
      BY <1>2, <3>1, <3>2, <3>3 DEF Next, Running
  <2>4. Writing' /\ i' > 0 /\ i' = 4
    <3>1. Writing'
      BY <1>2, <2>2 DEF LineInv, ConsoleOK
    <3>2. i' # 0
      <4>1. SUFFICES ASSUME i' = 0 PROVE FALSE
        OBVIOUS
      <4>2. console' = <<Logged>>
        BY <3>1, <4>1 DEF Writing, Logged, Kernel!Idle
      <4> QED
        BY <2>1, <4>2
    <3>3. i' \in Nat
      BY <1>2, <2>2 DEF LineInv, Typed
    <3>4. i' > 0
      BY <3>2, <3>3
    <3>5. Len(console') = i'
      BY <3>1, <3>4 DEF Writing
    <3> QED
      BY <2>1, <3>1, <3>4, <3>5
  <2>5. WritePuts(p)
    <3>1. ~(PostIncrement(p) \/ PreIncrement(p) \/ ReadMessage(p) \/ StoreMessage(p))
      BY <2>2 DEF PostIncrement, PreIncrement, ReadMessage, StoreMessage, Evaluate, At
    <3>2. ~(putc(p) \/ Reset(p) \/ Jump(p) \/ GetPid(p) \/ Clone(p))
      BY <2>2 DEF putc, Reset, Jump, GetPid, Clone, At
    <3>3. ~(WriteBegins(p) \/ WriteReturns(p))
      BY <2>2, <2>4 DEF WriteBegins, WriteReturns
    <3> QED
      BY <2>3, <3>1, <3>2, <3>3 DEF Task, Write
  <2>6. /\ i \in 0 .. mem[p].tail - 1 /\ i' = i + 1 /\ mem[p].tail \in {2, 4}
        /\ mem[p].tail = Len(Line(main))
    BY <1>2, <2>5, WritePutsStep
  <2>7. i = 3 /\ main # NOTEST
    <3>1. i = 3
      BY <2>4, <2>6
    <3>2. ASSUME main = NOTEST PROVE FALSE
      <4>1. Line(main) = <<"label", "NUL">>
        BY <3>2 DEF Line
      <4>2. mem[p].tail = 2
        BY <2>6, <4>1
      <4>3. i \in 0 .. 1
        BY <2>6, <4>2
      <4> QED
        BY <3>1, <4>3
    <3> QED
      BY <3>1, <3>2
  <2>8. /\ console'[1].by = p /\ Value' = Carried(p) /\ InLine(main, pc[p])
        /\ Carried(p) # Text
    BY <1>2, <2>5, <2>7, LastPut
  <2>9. ToShow(p)
    BY <2>7, <2>8 DEF ToShow, Full
  <2>10. Succeeds(Carried(p), shown[p])
    BY <1>2, <2>7, <2>9 DEF CountInv, CountOK
  <2> QED
    BY <2>8, <2>10 DEF Succeeds
<1>3. MainsFormed /\ LineInv /\ LineInv' /\ CountInv /\ [Next]_vars => [Counts]_vars
  BY <1>2
<1> QED
  BY <1>1, <1>3, LineInvariant, PTL DEF Spec, CountsOn
=============================================================================

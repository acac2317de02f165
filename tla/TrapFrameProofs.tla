-------------------------- MODULE TrapFrameProofs --------------------------
(***************************************************************************)
(* That the contexts of user programs survive the kernel, for any number   *)
(* of tasks, program counters, register values and stack pointers: the     *)
(* invariants the runs of TrapFrame check, by an inductive invariant that  *)
(* says, for each stretch of kernel code and for each task that waits, in  *)
(* which of the four places every part of its context is.                  *)
(***************************************************************************)
EXTENDS TrapFrame, TLAPS

UserWord(w) == w \in Word /\ w.kind = "user"

(* The frame on p's kernel stack will give p its context back, but for sp, *)
(* which is in sscratch while p is in the kernel, and for t0.              *)
FrameHolds(p) ==
  /\ frame[p]["sp"] = kernel(p, 1)
  /\ frame[p]["a0"] = ctx[p].reg["a0"]
  /\ frame[p]["s0"] = ctx[p].reg["s0"]

(* A task that __switch_to left, or that fork made. *)
Parked(p) ==
  LET t == thread[p] IN
  /\ t.sp = kernel(p, 1)
  /\ UserWord(t.sscratch) /\ t.sscratch = ctx[p].reg["sp"]
  /\ t.spp = "u"
  /\ (IF t.ra = "trap_handler" THEN argsepc[p] ELSE t.sepc) = ctx[p].pc
  /\ FrameHolds(p)

(* A task that does not run: the first one before its first instruction,  *)
(* or one that is parked.                                                  *)
OthersWait ==
  \A p \in 1 .. nr_tasks - 1 :
    p # current => IF thread[p].ra = "dummy"
                   THEN p = 1 /\ thread[p] = FirstThread
                   ELSE Parked(p)

(* fork copies the saved sstatus of its parent, saved when that last ran. *)
SavedFromUser == \A p \in 1 .. nr_tasks - 1 : thread[p].spp = "u"

BeforeFirst ==
  phase = "boot" => mode = "s" /\ current = Idle /\ thread[1] = FirstThread

(* The kernel runs for the current task, which came from user mode. *)
InKernel ==
  /\ mode = "s" /\ spp = "u"
  /\ reg["sp"] = kernel(current, 1)
  /\ UserWord(sscratch) /\ sscratch = ctx[current].reg["sp"]
  /\ FrameHolds(current)

InHandler ==
  phase = "handler" =>
    /\ InKernel
    /\ sepc = ctx[current].pc /\ argsepc[current] = ctx[current].pc
    /\ cause = "clone" => nr_tasks < MaxTasks

InReturn == phase = "return" => InKernel /\ sepc = ctx[current].pc

InStart ==
  phase = "start" =>
    /\ spp = "u" /\ sepc = 0
    /\ reg["sp"] = kernel(current, 0) /\ sscratch = UserEnd

InUser ==
  phase = "run" =>
    /\ mode = "u"
    /\ sscratch = kernel(current, 0)
    /\ UserWord(reg["sp"])
    /\ pc = ctx[current].pc
    /\ \A r \in Reg \ {"t0"} : reg[r] = ctx[current].reg[r]

TrapInv ==
  /\ TypeOK
  /\ phase # "boot" => current # Idle
  /\ OthersWait /\ SavedFromUser
  /\ BeforeFirst /\ InHandler /\ InReturn /\ InStart /\ InUser

-----------------------------------------------------------------------------
(* Words, threads and program counters *)

LEMMA Words ==
  /\ Junk \in Word /\ Null \in Word /\ UserEnd \in Word
  /\ \A n \in Nat : Data(n) \in Word /\ UserWord(User(n))
  /\ \A p \in Nat, d \in Int : kernel(p, d) \in Word
BY DEF Word, Junk, Null, UserEnd, Data, User, kernel, UserWord

LEMMA Shifts ==
  ASSUME NEW w \in Word
  PROVE  Push(w) \in Word /\ Pop(w) \in Word
<1>1. /\ Push(w) = [kind |-> w.kind, id |-> w.id, depth |-> w.depth + 1]
      /\ Pop(w) = [kind |-> w.kind, id |-> w.id, depth |-> w.depth - 1]
  BY DEF Word, Push, Pop
<1> QED
  BY <1>1 DEF Word

(* _traps pushes one frame below the top of the stack, and the way back    *)
(* pops it.                                                                *)
LEMMA PushTop == \A p : Push(kernel(p, 0)) = kernel(p, 1)
BY DEF Push, kernel

LEMMA PopFrame == \A p : Pop(kernel(p, 1)) = kernel(p, 0)
BY DEF Pop, kernel

(* _traps tells the kernel's stack pointers and the user's from 0, which   *)
(* is sscratch for the kernel itself.                                      *)
LEMMA NotNull ==
  /\ \A p, d : kernel(p, d) # Null
  /\ \A w : UserWord(w) => w # Null
<1>1. Null.kind = "data"
  BY DEF Null, Data
<1>2. \A p, d : kernel(p, d).kind = "kernel"
  BY DEF kernel
<1> QED
  BY <1>1, <1>2 DEF UserWord

LEMMA NextPc ==
  ASSUME NEW p \in Pcs
  PROVE  After(p) \in Pcs
BY TrapFrameAssumption DEF Pcs, After

LEMMA ThreadType == FirstThread \in Thread /\ 0 \in Pcs
BY Words, TrapFrameAssumption DEF FirstThread, Thread, Pcs

LEMMA FrameType ==
  /\ NoFrame \in [Reg -> Word]
  /\ NoCtx \in [pc : Pcs, reg : [Reg -> Word]]
BY Words, ThreadType DEF NoFrame, NoCtx

LEMMA TaskType ==
  ASSUME TypeOK
  PROVE  /\ current \in Pids \cup {Idle} /\ current \in Nat
         /\ nr_tasks \in Nat /\ nr_tasks > 1
         /\ \A p \in 1 .. nr_tasks - 1 : p \in Pids
BY TrapFrameAssumption DEF TypeOK, Pids, Idle

-----------------------------------------------------------------------------
(* Type correctness *)

LEMMA TrapTypeInit == Init => TypeOK
<1> SUFFICES ASSUME Init PROVE TypeOK
  OBVIOUS
<1>1. reg \in [Reg -> Word]
  <2>1. kernel(Idle, 0) \in Word
    BY Words DEF Idle
  <2>2. reg = [NoFrame EXCEPT !["sp"] = kernel(Idle, 0)]
    BY DEF Init
  <2> QED
    BY <2>1, <2>2, FrameType
<1>2. /\ frame \in [Pids \cup {Idle} -> [Reg -> Word]]
      /\ ctx \in [Pids \cup {Idle} -> [pc : Pcs, reg : [Reg -> Word]]]
  BY FrameType DEF Init
<1>3. /\ argsepc \in [Pids \cup {Idle} -> Pcs]
      /\ thread \in [Pids \cup {Idle} -> Thread]
      /\ pc \in Pcs /\ sepc \in Pcs /\ sscratch \in Word
  BY ThreadType, Words DEF Init
<1>4. current \in 0 .. nr_tasks - 1 /\ nr_tasks \in 2 .. MaxTasks
  BY TrapFrameAssumption DEF Init, Idle
<1> QED
  BY <1>1, <1>2, <1>3, <1>4 DEF Init, TypeOK, Causes

LEMMA TrapTypeStep == TrapInv /\ [Next]_vars => TypeOK'
<1> SUFFICES ASSUME TrapInv, TypeOK, InHandler, InReturn, [Next]_vars PROVE TypeOK'
  BY DEF TrapInv
<1> USE TrapFrameAssumption
<1>0. /\ current \in Pids \cup {Idle} /\ current \in Nat /\ nr_tasks \in Nat
      /\ current \in 0 .. nr_tasks - 1 /\ nr_tasks \in 2 .. MaxTasks
  BY TaskType DEF TypeOK
<1>1. ASSUME NEW r \in UserRegs, NEW w \in Writes(r), UserStep(r, w)
      PROVE  TypeOK'
  <2>1. w \in Word /\ r \in Reg
    BY Words DEF Writes, UserWord, Reg
  <2>2. reg' \in [Reg -> Word] /\ pc' \in Pcs
    BY <1>1, <2>1, NextPc DEF UserStep, TypeOK
  <2>3. ctx' \in [Pids \cup {Idle} -> [pc : Pcs, reg : [Reg -> Word]]]
    BY <1>0, <1>1, <2>2 DEF UserStep, TypeOK
  <2> QED
    BY <1>1, <2>2, <2>3 DEF UserStep, TypeOK, tasks
<1>2. ASSUME NEW c \in Causes, Trap(c) PROVE TypeOK'
  <2> DEFINE fromUser == sscratch # Null
             ksp      == Push(IF fromUser THEN sscratch ELSE reg["sp"])
  <2>1. ksp \in Word
    BY Shifts DEF TypeOK, Reg
  <2>2. reg' \in [Reg -> Word] /\ sscratch' \in Word
    BY <1>2, <2>1, Words DEF Trap, TypeOK, Reg
  <2>3. [reg EXCEPT !["t0"] = sscratch, !["sp"] = ksp] \in [Reg -> Word]
    BY <2>1 DEF TypeOK
  <2>4. frame' \in [Pids \cup {Idle} -> [Reg -> Word]]
    BY <1>2, <2>3 DEF Trap, TypeOK
  <2> QED
    BY <1>2, <2>2, <2>4 DEF Trap, TypeOK, tasks
<1>3. CASE HandleRetry
  BY <1>0, <1>3 DEF HandleRetry, TypeOK, tasks
<1>4. ASSUME NEW n \in Pids \cup UserData \cup {0}, HandleResult(n)
      PROVE  TypeOK'
  <2>1. Data(n) \in Word
    BY Words DEF Pids
  <2>2. frame' \in [Pids \cup {Idle} -> [Reg -> Word]]
    BY <1>4, <2>1 DEF HandleResult, TypeOK
  <2>3. ctx' \in [Pids \cup {Idle} -> [pc : Pcs, reg : [Reg -> Word]]]
    BY <1>0, <1>4, <2>1, NextPc DEF HandleResult, TypeOK
  <2> QED
    BY <1>0, <1>4, <2>2, <2>3, NextPc DEF HandleResult, TypeOK, tasks
<1>5. CASE HandleOther
  <2>1. ctx' \in [Pids \cup {Idle} -> [pc : Pcs, reg : [Reg -> Word]]]
    BY <1>0, <1>5, NextPc DEF HandleOther, TypeOK
  <2> QED
    BY <1>0, <1>5, <2>1, NextPc DEF HandleOther, TypeOK, tasks
<1>6. CASE HandleClone
  <2> DEFINE c == nr_tasks
  <2>1. nr_tasks < MaxTasks
    BY <1>6 DEF HandleClone, InHandler
  <2>2. c \in Pids \cup {Idle} /\ current \in Pids \cup {Idle} /\ c \in Nat
    BY <1>0, <2>1 DEF Pids
  <2>3. kernel(c, reg["sp"].depth) \in Word /\ Data(0) \in Word
    BY <2>2, Words DEF TypeOK, Reg, Word
  <2>4. [frame[current] EXCEPT !["a0"] = Data(0),
                               !["sp"] = kernel(c, reg["sp"].depth)]
          \in [Reg -> Word]
    BY <1>0, <2>3 DEF TypeOK
  <2>5. frame' \in [Pids \cup {Idle} -> [Reg -> Word]]
    BY <1>6, <2>4 DEF HandleClone, TypeOK
  <2>6. [thread[current] EXCEPT !.ra = "ret_from_fork",
           !.sp = kernel(c, reg["sp"].depth),
           !.sscratch = ChildSscratch(c), !.sepc = After(sepc)] \in Thread
    <3>1. thread[current] \in Thread /\ After(sepc) \in Pcs /\ sscratch \in Word
      BY <1>0, NextPc DEF TypeOK
    <3> QED
      BY <2>3, <3>1 DEF Thread, ChildSscratch
  <2>7. thread' \in [Pids \cup {Idle} -> Thread]
    BY <1>6, <2>6 DEF HandleClone, TypeOK
  <2>8. argsepc' \in [Pids \cup {Idle} -> Pcs]
    BY <1>0, <1>6 DEF HandleClone, TypeOK
  <2>9. ctx' \in [Pids \cup {Idle} -> [pc : Pcs, reg : [Reg -> Word]]]
    <3> DEFINE new == [pc |-> After(ctx[current].pc),
                       reg |-> [ctx[current].reg EXCEPT !["a0"] = Data(0)]]
    <3>1. new \in [pc : Pcs, reg : [Reg -> Word]]
      BY <1>0, <2>3, NextPc DEF TypeOK
    <3>2. ctx' = [ctx EXCEPT ![c] = new, ![current].pc = After(@)]
      BY <1>6 DEF HandleClone
    <3> QED
      BY <1>0, <3>1, <3>2, NextPc DEF TypeOK
  <2>10. sepc' \in Pcs
    BY <1>0, <1>6, NextPc DEF HandleClone, TypeOK
  <2>11. current' \in 0 .. nr_tasks' - 1 /\ nr_tasks' \in 2 .. MaxTasks
    BY <1>0, <1>6, <2>1 DEF HandleClone
  <2>12. UNCHANGED <<mode, cause, reg, pc, sscratch, spp>> /\ phase' = "return"
    BY <1>6 DEF HandleClone
  <2> QED
    BY <2>5, <2>7, <2>8, <2>9, <2>10, <2>11, <2>12 DEF TypeOK
<1>7. ASSUME NEW q \in Pids, SwitchTo(q), phase' \in {"start", "return"}
      PROVE  TypeOK'
  <2>1. q \in Pids \cup {Idle} /\ q \in 0 .. nr_tasks - 1 /\ thread[q] \in Thread
    BY <1>0, <1>7 DEF SwitchTo, Candidates, TypeOK
  <2>2. Saved \in Thread
    BY DEF Saved, Thread, TypeOK, Reg
  <2>3. thread' \in [Pids \cup {Idle} -> Thread]
    BY <1>7, <2>2 DEF SwitchTo, TypeOK
  <2>4. reg' \in [Reg -> Word] /\ sscratch' \in Word /\ sepc' \in Pcs
        /\ spp' \in {"u", "s"}
    BY <1>7, <2>1, Words DEF SwitchTo, NextStatus, TypeOK, Thread
  <2> QED
    BY <1>0, <1>7, <2>1, <2>3, <2>4 DEF SwitchTo, TypeOK
<1>8. CASE Return
  <2> DEFINE f   == frame[reg["sp"].id]
             ksp == Pop(f["sp"])
  <2>1. f \in [Reg -> Word]
    BY <1>0, <1>8 DEF Return, InReturn, InKernel, kernel, TypeOK
  <2>2. ksp \in Word
    BY <2>1, Shifts DEF Reg
  <2>3. reg' \in [Reg -> Word] /\ sscratch' \in Word
    BY <1>8, <2>1, <2>2 DEF Return, TypeOK
  <2> QED
    BY <1>0, <1>8, <2>3 DEF Return, TypeOK, tasks
<1>9. CASE Start
  <2>1. reg' \in [Reg -> Word] /\ sscratch' \in Word
    BY <1>9 DEF Start, TypeOK, Reg
  <2>2. [pc |-> 0, reg |-> [reg' EXCEPT !["sp"] = UserEnd]]
          \in [pc : Pcs, reg : [Reg -> Word]]
    BY <2>1, Words, ThreadType
  <2>3. ctx' \in [Pids \cup {Idle} -> [pc : Pcs, reg : [Reg -> Word]]]
    BY <1>9, <2>2 DEF Start, TypeOK
  <2> QED
    BY <1>0, <1>9, <2>1, <2>3 DEF Start, TypeOK, tasks
<1>10. CASE UNCHANGED vars
  BY <1>10 DEF TypeOK, vars, hart, tasks
<1>11. \A q : SwitchTo(q) => phase' \in {"start", "return"}
  BY DEF SwitchTo
<1> QED
  BY <1>1, <1>2, <1>3, <1>4, <1>5, <1>6, <1>7, <1>8, <1>9, <1>10, <1>11
     DEF Next, StartKernel, HandleSwitch

-----------------------------------------------------------------------------
(* The inductive invariant *)

LEMMA TrapInit == Init => TrapInv
<1> SUFFICES ASSUME Init PROVE TrapInv
  OBVIOUS
<1>1. TypeOK
  BY TrapTypeInit
<1>2. \A p \in 1 .. nr_tasks - 1 : p = 1 /\ thread[p] = FirstThread
  BY TrapFrameAssumption DEF Init, Pids
<1>3. OthersWait /\ SavedFromUser /\ thread[1] = FirstThread
  BY <1>2 DEF OthersWait, SavedFromUser, FirstThread, Init
<1> QED
  BY <1>1, <1>3 DEF Init, TrapInv, BeforeFirst, InHandler, InReturn, InStart, InUser

(* What the current task does in its own frame and context leaves the      *)
(* tasks that wait as they are.                                            *)
LEMMA WaitKept ==
  ASSUME OthersWait, SavedFromUser,
         UNCHANGED <<nr_tasks, current, thread>>,
         \A p \in 1 .. nr_tasks - 1 :
           p # current => /\ frame'[p] = frame[p]
                          /\ argsepc'[p] = argsepc[p]
                          /\ ctx'[p] = ctx[p]
  PROVE  OthersWait' /\ SavedFromUser'
<1>1. \A p \in 1 .. nr_tasks - 1 : p # current /\ Parked(p) => Parked(p)'
  BY DEF Parked, FrameHolds
<1>2. OthersWait'
  BY <1>1 DEF OthersWait
<1> QED
  BY <1>2 DEF SavedFromUser

LEMMA UserStepInv ==
  ASSUME TrapInv, TypeOK', NEW r \in UserRegs, NEW w \in Writes(r), UserStep(r, w)
  PROVE  TrapInv'
<1>1. /\ phase = "run" /\ mode = "u" /\ reg' = [reg EXCEPT ![r] = w]
      /\ pc' = After(pc)
      /\ ctx' = [ctx EXCEPT ![current] = [pc |-> pc', reg |-> reg']]
      /\ UNCHANGED <<phase, mode, cause, sepc, sscratch, spp, current, nr_tasks,
                     thread, frame, argsepc>>
  BY DEF UserStep, tasks
<1>2. current \in Pids \cup {Idle} /\ r \in Reg
  BY TaskType, TrapFrameAssumption DEF TrapInv, Reg
<1>3. OthersWait' /\ SavedFromUser'
  BY <1>1, WaitKept DEF TrapInv, TypeOK
<1>4. ctx'[current].pc = pc' /\ ctx'[current].reg = reg'
  BY <1>1, <1>2 DEF TrapInv, TypeOK
<1>5. UserWord(reg'["sp"])
  <2>1. CASE r = "sp"
    BY <1>1, <1>2, <2>1, Words, TrapFrameAssumption DEF Writes, TrapInv, TypeOK
  <2>2. CASE r # "sp"
    BY <1>1, <2>2 DEF TrapInv, TypeOK, InUser, Reg
  <2> QED
    BY <2>1, <2>2
<1>6. InUser'
  BY <1>1, <1>4, <1>5 DEF TrapInv, InUser
<1> QED
  BY <1>1, <1>3, <1>6 DEF TrapInv, BeforeFirst, InHandler, InReturn, InStart

LEMMA TrapEntryInv ==
  ASSUME TrapInv, TypeOK', NEW c \in Causes, Trap(c)
  PROVE  TrapInv'
<1>1. /\ phase = "run" /\ InUser /\ current # Idle
  BY DEF Trap, TrapInv
<1>2. current \in Pids /\ sscratch # Null
  BY <1>1, TaskType, NotNull DEF InUser, TrapInv
<1>3. /\ c = "clone" => nr_tasks < MaxTasks
      /\ cause' = c /\ mode' = "s" /\ spp' = mode /\ sepc' = pc
      /\ sscratch' = reg["sp"]
      /\ frame' = [frame EXCEPT ![current] =
                     [reg EXCEPT !["t0"] = sscratch, !["sp"] = Push(sscratch)]]
      /\ argsepc' = [argsepc EXCEPT ![current] = pc]
      /\ reg' = [reg EXCEPT !["sp"] = Push(sscratch), !["t0"] = Junk, !["a0"] = Junk]
      /\ phase' = "handler"
      /\ UNCHANGED <<pc, current, nr_tasks, thread, ctx>>
  BY <1>2 DEF Trap, tasks
<1>4. Push(sscratch) = kernel(current, 1)
  BY <1>1, PushTop DEF InUser
<1>5. OthersWait' /\ SavedFromUser'
  BY <1>3, WaitKept DEF TrapInv, TypeOK
<1>6. FrameHolds(current)' /\ reg'["sp"] = kernel(current, 1)
  BY <1>1, <1>2, <1>3, <1>4 DEF FrameHolds, InUser, TrapInv, TypeOK, Reg
<1>7. InHandler'
  BY <1>1, <1>2, <1>3, <1>6 DEF InHandler, InKernel, InUser, TrapInv, TypeOK, Reg
<1> QED
  BY <1>1, <1>3, <1>5, <1>7 DEF TrapInv, BeforeFirst, InReturn, InStart, InUser

LEMMA RetryInv ==
  ASSUME TrapInv, TypeOK', HandleRetry
  PROVE  TrapInv'
<1>1. /\ phase = "handler" /\ phase' = "return" /\ sepc' = argsepc[current]
      /\ UNCHANGED <<mode, cause, reg, pc, sscratch, spp, current, nr_tasks,
                     thread, frame, argsepc, ctx>>
  BY DEF HandleRetry, tasks
<1>2. OthersWait' /\ SavedFromUser'
  BY <1>1, WaitKept DEF TrapInv, TypeOK
<1>3. InReturn'
  BY <1>1 DEF TrapInv, InHandler, InReturn, InKernel, FrameHolds
<1> QED
  BY <1>1, <1>2, <1>3 DEF TrapInv, BeforeFirst, InHandler, InStart, InUser

(* The two ways to skip the instruction: with a result in a0, and without. *)
LEMMA SkipInv ==
  ASSUME TrapInv, TypeOK',
         phase = "handler", phase' = "return", sepc' = After(argsepc[current]),
         UNCHANGED <<mode, cause, reg, pc, sscratch, spp, current, nr_tasks,
                     thread, argsepc>>,
         \A p \in 1 .. nr_tasks - 1 :
           p # current => frame'[p] = frame[p] /\ ctx'[p] = ctx[p],
         frame'[current]["sp"] = frame[current]["sp"],
         frame'[current]["s0"] = frame[current]["s0"],
         frame'[current]["a0"] = ctx'[current].reg["a0"],
         ctx'[current].pc = After(ctx[current].pc),
         \A r \in {"sp", "s0"} : ctx'[current].reg[r] = ctx[current].reg[r]
  PROVE  TrapInv'
<1>1. OthersWait' /\ SavedFromUser'
  BY WaitKept DEF TrapInv
<1>2. InReturn'
  BY DEF TrapInv, InHandler, InReturn, InKernel, FrameHolds
<1> QED
  BY <1>1, <1>2 DEF TrapInv, BeforeFirst, InHandler, InStart, InUser

LEMMA ResultInv ==
  ASSUME TrapInv, TypeOK', NEW n, HandleResult(n)
  PROVE  TrapInv'
<1>1. /\ phase = "handler" /\ phase' = "return" /\ sepc' = After(argsepc[current])
      /\ frame' = [frame EXCEPT ![current]["a0"] = Data(n)]
      /\ ctx' = [ctx EXCEPT ![current].pc = After(@), ![current].reg["a0"] = Data(n)]
      /\ UNCHANGED <<mode, cause, reg, pc, sscratch, spp, current, nr_tasks,
                     thread, argsepc>>
  BY DEF HandleResult, tasks
<1>2. /\ current \in Pids \cup {Idle}
      /\ frame[current] \in [Reg -> Word]
      /\ ctx[current] \in [pc : Pcs, reg : [Reg -> Word]]
  BY TaskType DEF TrapInv, TypeOK
<1>3. /\ frame'[current] = [frame[current] EXCEPT !["a0"] = Data(n)]
      /\ ctx'[current] = [ctx[current] EXCEPT !.pc = After(@), !.reg["a0"] = Data(n)]
      /\ \A p \in 1 .. nr_tasks - 1 :
           p # current => frame'[p] = frame[p] /\ ctx'[p] = ctx[p]
  BY <1>1, <1>2, TaskType DEF TrapInv, TypeOK
<1>4. /\ ctx'[current].pc = After(ctx[current].pc)
      /\ ctx'[current].reg = [ctx[current].reg EXCEPT !["a0"] = Data(n)]
  BY <1>2, <1>3
<1>5. /\ frame'[current]["a0"] = Data(n) /\ ctx'[current].reg["a0"] = Data(n)
      /\ frame'[current]["sp"] = frame[current]["sp"]
      /\ frame'[current]["s0"] = frame[current]["s0"]
      /\ \A r \in {"sp", "s0"} : ctx'[current].reg[r] = ctx[current].reg[r]
  BY <1>2, <1>3, <1>4 DEF Reg
<1> QED
  BY <1>1, <1>3, <1>4, <1>5, SkipInv

LEMMA OtherInv ==
  ASSUME TrapInv, TypeOK', HandleOther
  PROVE  TrapInv'
<1>1. /\ phase = "handler" /\ phase' = "return" /\ sepc' = After(argsepc[current])
      /\ ctx' = [ctx EXCEPT ![current].pc = After(@)]
      /\ UNCHANGED <<mode, cause, reg, pc, sscratch, spp, current, nr_tasks,
                     thread, argsepc, frame>>
  BY DEF HandleOther, tasks
<1>2. current \in Pids \cup {Idle} /\ ctx[current] \in [pc : Pcs, reg : [Reg -> Word]]
  BY TaskType DEF TrapInv, TypeOK
<1>3. /\ ctx'[current] = [ctx[current] EXCEPT !.pc = After(@)]
      /\ \A p \in 1 .. nr_tasks - 1 : p # current => ctx'[p] = ctx[p]
  BY <1>1, <1>2, TaskType DEF TrapInv, TypeOK
<1>4. ctx'[current].pc = After(ctx[current].pc) /\ ctx'[current].reg = ctx[current].reg
  BY <1>2, <1>3
<1> QED
  BY <1>1, <1>3, <1>4, SkipInv DEF TrapInv, InHandler, InKernel, FrameHolds

(* fork: the child waits with a copy of everything, but a0 and its stack. *)
LEMMA CloneInv ==
  ASSUME TrapInv, TypeOK', HandleClone
  PROVE  TrapInv'
<1>0. PICK c : c = nr_tasks
  OBVIOUS
<1>1. /\ phase = "handler" /\ phase' = "return" /\ sepc' = After(argsepc[current])
      /\ nr_tasks' = nr_tasks + 1
      /\ argsepc' = [argsepc EXCEPT ![c] = argsepc[current]]
      /\ UNCHANGED <<mode, cause, reg, pc, sscratch, spp, current>>
  BY <1>0 DEF HandleClone
<1>2. InKernel /\ sepc = ctx[current].pc /\ argsepc[current] = ctx[current].pc
      /\ nr_tasks < MaxTasks /\ current # Idle
  BY DEF HandleClone, TrapInv, InHandler
<1>3. /\ current \in Pids /\ c \in Pids /\ c # current /\ c # 1 /\ nr_tasks \in Nat
      /\ current \in 1 .. nr_tasks - 1 /\ thread[current] \in Thread
      /\ frame[current] \in [Reg -> Word] /\ reg["sp"].depth = 1
      /\ ctx[current] \in [pc : Pcs, reg : [Reg -> Word]]
  <2>1. reg["sp"].depth = 1
    BY <1>2 DEF InKernel, kernel
  <2>2. current \in 0 .. nr_tasks - 1 /\ nr_tasks \in 2 .. MaxTasks
    BY DEF TrapInv, TypeOK
  <2>3. /\ current \in Pids /\ c \in Pids /\ c # current /\ c # 1 /\ nr_tasks \in Nat
        /\ current \in 1 .. nr_tasks - 1
    BY <1>0, <1>2, <2>2, TrapFrameAssumption DEF Pids, Idle
  <2> QED
    BY <2>1, <2>3 DEF TrapInv, TypeOK
<1>4. /\ frame'[c] = [frame[current] EXCEPT !["a0"] = Data(0), !["sp"] = kernel(c, 1)]
      /\ \A p \in Pids : p # c => frame'[p] = frame[p]
  BY <1>0, <1>3 DEF HandleClone, TrapInv, TypeOK
<1>5. /\ frame'[c]["sp"] = kernel(c, 1) /\ frame'[c]["a0"] = Data(0)
      /\ frame'[c]["s0"] = frame[current]["s0"]
  BY <1>3, <1>4 DEF Reg
<1>6. /\ thread'[c] = [thread[current] EXCEPT
                         !.ra = "ret_from_fork", !.sp = kernel(c, 1),
                         !.sscratch = sscratch, !.sepc = After(sepc)]
      /\ \A p \in Pids : p # c => thread'[p] = thread[p]
  BY <1>0, <1>3 DEF HandleClone, ChildSscratch, TrapInv, TypeOK
<1>7. /\ thread'[c].ra = "ret_from_fork" /\ thread'[c].sp = kernel(c, 1)
      /\ thread'[c].sscratch = sscratch /\ thread'[c].sepc = After(sepc)
      /\ thread'[c].spp = thread[current].spp
  BY <1>3, <1>6 DEF Thread
<1>8. /\ ctx'[c] = [pc |-> After(ctx[current].pc),
                    reg |-> [ctx[current].reg EXCEPT !["a0"] = Data(0)]]
      /\ ctx'[current] = [ctx[current] EXCEPT !.pc = After(@)]
      /\ \A p \in Pids : p # c /\ p # current => ctx'[p] = ctx[p]
  <2> DEFINE new == [pc |-> After(ctx[current].pc),
                     reg |-> [ctx[current].reg EXCEPT !["a0"] = Data(0)]]
  <2>1. ctx' = [ctx EXCEPT ![c] = new, ![current].pc = After(@)]
    BY <1>0 DEF HandleClone
  <2> HIDE DEF new
  <2>2. /\ ctx'[c] = new
        /\ ctx'[current] = [ctx[current] EXCEPT !.pc = After(@)]
        /\ \A p \in Pids : p # c /\ p # current => ctx'[p] = ctx[p]
    BY <1>3, <2>1 DEF TrapInv, TypeOK
  <2> QED
    BY <2>2 DEF new
<1>9. /\ ctx'[c].pc = After(ctx[current].pc) /\ ctx'[c].reg["a0"] = Data(0)
      /\ ctx'[c].reg["s0"] = ctx[current].reg["s0"]
      /\ ctx'[c].reg["sp"] = ctx[current].reg["sp"]
      /\ ctx'[current].pc = After(ctx[current].pc)
      /\ ctx'[current].reg = ctx[current].reg
  BY <1>3, <1>8 DEF Reg
<1>10. Parked(c)'
  <2>1. thread[current].spp = "u"
    BY <1>3 DEF TrapInv, SavedFromUser
  <2>2. frame[current]["s0"] = ctx[current].reg["s0"]
        /\ UserWord(sscratch) /\ sscratch = ctx[current].reg["sp"]
    BY <1>2 DEF InKernel, FrameHolds
  <2> QED
    BY <1>1, <1>2, <1>5, <1>7, <1>9, <2>1, <2>2 DEF Parked, FrameHolds
<1>11. ASSUME NEW p \in 1 .. nr_tasks - 1, p # current
       PROVE  IF thread[p].ra = "dummy" THEN p = 1 /\ thread'[p] = FirstThread
                                        ELSE Parked(p)'
  <2>1. p \in Pids /\ p # c
    BY <1>0, <1>2, <1>3, TrapFrameAssumption DEF Pids
  <2>2. thread'[p] = thread[p] /\ frame'[p] = frame[p] /\ argsepc'[p] = argsepc[p]
        /\ ctx'[p] = ctx[p]
    BY <1>1, <1>4, <1>6, <1>8, <1>11, <2>1 DEF TrapInv, TypeOK
  <2>3. IF thread[p].ra = "dummy" THEN p = 1 /\ thread[p] = FirstThread ELSE Parked(p)
    BY <1>11 DEF TrapInv, OthersWait
  <2> QED
    BY <2>2, <2>3 DEF Parked, FrameHolds
<1>12. 1 .. nr_tasks' - 1 = (1 .. nr_tasks - 1) \cup {c}
  BY <1>0, <1>1, <1>3
<1>13. \A p \in 1 .. nr_tasks - 1 : p \in Pids /\ p # c
  BY <1>0, <1>2, <1>3, TrapFrameAssumption DEF Pids
<1>14. OthersWait'
  BY <1>1, <1>6, <1>7, <1>10, <1>11, <1>12, <1>13 DEF OthersWait
<1>15. SavedFromUser'
  BY <1>1, <1>3, <1>6, <1>7, <1>12, <1>13 DEF SavedFromUser, TrapInv
<1>16. FrameHolds(current)'
  BY <1>1, <1>2, <1>3, <1>4, <1>9 DEF FrameHolds, InKernel
<1>17. InReturn'
  BY <1>1, <1>2, <1>9, <1>16 DEF InReturn, InKernel
<1> QED
  BY <1>1, <1>2, <1>14, <1>15, <1>17
     DEF TrapInv, BeforeFirst, InHandler, InStart, InUser

(* __switch_to: the task that leaves is parked, unless it is the idle one, *)
(* and what was parked for the task that comes is in the registers again.  *)
LEMMA SwitchInv ==
  ASSUME TrapInv, TypeOK', NEW q \in Pids, SwitchTo(q),
         phase = "boot" \/ phase = "handler"
  PROVE  TrapInv'
<1> DEFINE t == thread[q]
<1>0. PICK o : o = current
  OBVIOUS
<1>1. /\ q \in 1 .. nr_tasks - 1 /\ q # current /\ current' = q
      /\ thread' = [thread EXCEPT ![current] = Saved]
      /\ reg' = [reg EXCEPT !["sp"] = t.sp, !["s0"] = t.s0, !["t0"] = Junk]
      /\ sscratch' = t.sscratch /\ spp' = t.spp
      /\ sepc' = IF t.ra = "trap_handler" THEN argsepc[q] ELSE t.sepc
      /\ phase' = IF t.ra = "dummy" THEN "start" ELSE "return"
      /\ UNCHANGED <<mode, cause, pc, nr_tasks, frame, argsepc, ctx>>
  BY DEF SwitchTo, Candidates, NextStatus
<1>2. /\ current \in Pids \cup {Idle} /\ nr_tasks \in Nat
      /\ q # Idle /\ \A p \in 1 .. nr_tasks - 1 : p \in Pids
  BY TaskType DEF TrapInv, Pids, Idle
<1>3. /\ thread'[current] = Saved
      /\ \A p \in Pids : p # current => thread'[p] = thread[p]
      /\ reg'["sp"] = t.sp
  BY <1>1, <1>2 DEF TrapInv, TypeOK, Reg
<1>4. IF t.ra = "dummy" THEN q = 1 /\ t = FirstThread ELSE Parked(q)
  BY <1>1 DEF TrapInv, OthersWait
<1>5. current \in 1 .. nr_tasks - 1 => phase = "handler" /\ InKernel
                                       /\ argsepc[current] = ctx[current].pc
  BY DEF TrapInv, BeforeFirst, InHandler, Idle
<1>6. o \in 1 .. nr_tasks - 1 => Parked(o)'
  BY <1>0, <1>1, <1>3, <1>5 DEF Saved, Parked, InKernel, FrameHolds
<1>7. Saved.ra = "trap_handler"
  BY DEF Saved
<1>8. ASSUME NEW p \in 1 .. nr_tasks - 1, p # current, p # q
      PROVE  IF thread'[p].ra = "dummy" THEN p = 1 /\ thread'[p] = FirstThread
                                        ELSE Parked(p)'
  <2>1. IF thread[p].ra = "dummy" THEN p = 1 /\ thread[p] = FirstThread ELSE Parked(p)
    BY <1>8 DEF TrapInv, OthersWait
  <2> QED
    BY <1>1, <1>2, <1>3, <1>8, <2>1 DEF Parked, FrameHolds
<1>9. OthersWait'
  BY <1>0, <1>1, <1>3, <1>6, <1>7, <1>8 DEF OthersWait
<1>10. SavedFromUser'
  <2>1. current \in 1 .. nr_tasks - 1 => Saved.spp = "u"
    BY <1>5 DEF Saved, InKernel
  <2> QED
    BY <1>1, <1>2, <1>3, <2>1 DEF SavedFromUser, TrapInv
<1>11. mode = "s"
  BY DEF TrapInv, BeforeFirst, InHandler, InKernel
<1>12. InReturn'
  BY <1>1, <1>3, <1>4, <1>11 DEF InReturn, InKernel, Parked, FrameHolds
<1>13. InStart'
  BY <1>1, <1>3, <1>4 DEF InStart, FirstThread
<1> QED
  BY <1>1, <1>2, <1>9, <1>10, <1>12, <1>13
     DEF TrapInv, BeforeFirst, InHandler, InUser

(* __ret_from_fork: sp, in sscratch until now, comes back from there. *)
LEMMA ReturnInv ==
  ASSUME TrapInv, TypeOK', Return
  PROVE  TrapInv'
<1>1. /\ phase = "return" /\ InKernel /\ sepc = ctx[current].pc /\ current # Idle
  BY DEF Return, TrapInv, InReturn
<1>2. /\ current \in Pids /\ sscratch # Null
      /\ frame[current] \in [Reg -> Word] /\ reg["sp"].id = current
  BY <1>1, TaskType, NotNull DEF InKernel, TrapInv, TypeOK, kernel
<1>3. Pop(frame[current]["sp"]) = kernel(current, 0)
  BY <1>1, PopFrame DEF InKernel, FrameHolds
<1>4. /\ reg' = [frame[current] EXCEPT !["t0"] = sscratch, !["sp"] = sscratch]
      /\ sscratch' = kernel(current, 0)
      /\ mode' = "u" /\ pc' = sepc /\ phase' = "run"
      /\ UNCHANGED <<current, nr_tasks, thread, frame, argsepc, ctx>>
  BY <1>1, <1>2, <1>3 DEF Return, InKernel, tasks
<1>5. /\ reg'["sp"] = sscratch
      /\ reg'["a0"] = frame[current]["a0"] /\ reg'["s0"] = frame[current]["s0"]
  BY <1>2, <1>4 DEF Reg
<1>6. InUser'
  BY <1>1, <1>4, <1>5 DEF InUser, InKernel, FrameHolds, Reg
<1>7. OthersWait' /\ SavedFromUser'
  BY <1>4, WaitKept DEF TrapInv
<1> QED
  BY <1>1, <1>4, <1>6, <1>7 DEF TrapInv, BeforeFirst, InHandler, InReturn, InStart

LEMMA StartInv ==
  ASSUME TrapInv, TypeOK', Start
  PROVE  TrapInv'
<1>1. /\ phase = "start" /\ InStart /\ current # Idle
  BY DEF Start, TrapInv
<1>2. /\ reg' = [reg EXCEPT !["t0"] = sscratch, !["sp"] = sscratch]
      /\ sscratch' = kernel(current, 0)
      /\ mode' = "u" /\ pc' = 0 /\ phase' = "run"
      /\ ctx' = [ctx EXCEPT ![current] =
                   [pc |-> 0, reg |-> [reg' EXCEPT !["sp"] = UserEnd]]]
      /\ UNCHANGED <<current, nr_tasks, thread, frame, argsepc>>
  BY <1>1 DEF Start, InStart, tasks
<1>3. /\ current \in Pids \cup {Idle} /\ reg \in [Reg -> Word] /\ reg' \in [Reg -> Word]
  BY TaskType DEF TrapInv, TypeOK
<1>4. /\ ctx'[current].pc = 0
      /\ ctx'[current].reg = [reg' EXCEPT !["sp"] = UserEnd]
      /\ \A p \in 1 .. nr_tasks - 1 : p # current => ctx'[p] = ctx[p]
  BY <1>2, <1>3, TaskType DEF TrapInv, TypeOK
<1>5. reg'["sp"] = UserEnd /\ UserWord(UserEnd)
  BY <1>1, <1>2, <1>3, Words DEF InStart, UserEnd, Reg
<1>6. InUser'
  BY <1>2, <1>3, <1>4, <1>5 DEF InUser, Reg
<1>7. OthersWait' /\ SavedFromUser'
  BY <1>2, <1>4, WaitKept DEF TrapInv
<1> QED
  BY <1>1, <1>2, <1>6, <1>7 DEF TrapInv, BeforeFirst, InHandler, InReturn, InStart

LEMMA TrapStep == TrapInv /\ [Next]_vars => TrapInv'
<1> SUFFICES ASSUME TrapInv, [Next]_vars PROVE TrapInv'
  OBVIOUS
<1>0. TypeOK'
  BY TrapTypeStep
<1>1. ASSUME NEW r \in UserRegs, NEW w \in Writes(r), UserStep(r, w) PROVE TrapInv'
  BY <1>0, <1>1, UserStepInv
<1>2. ASSUME NEW c \in Causes, Trap(c) PROVE TrapInv'
  BY <1>0, <1>2, TrapEntryInv
<1>3. CASE HandleRetry
  BY <1>0, <1>3, RetryInv
<1>4. ASSUME NEW n, HandleResult(n) PROVE TrapInv'
  BY <1>0, <1>4, ResultInv
<1>5. CASE HandleOther
  BY <1>0, <1>5, OtherInv
<1>6. CASE HandleClone
  BY <1>0, <1>6, CloneInv
<1>7. ASSUME NEW q \in Pids, StartKernel(q) \/ HandleSwitch(q) PROVE TrapInv'
  BY <1>0, <1>7, SwitchInv DEF StartKernel, HandleSwitch
<1>8. CASE Return
  BY <1>0, <1>8, ReturnInv
<1>9. CASE Start
  BY <1>0, <1>9, StartInv
<1>10. CASE UNCHANGED vars
  BY <1>10 DEF vars, hart, tasks, TrapInv, TypeOK, OthersWait, SavedFromUser, Parked,
               FrameHolds, BeforeFirst, InHandler, InReturn, InKernel, InStart, InUser
<1> QED
  BY <1>1, <1>2, <1>3, <1>4, <1>5, <1>6, <1>7, <1>8, <1>9, <1>10 DEF Next

LEMMA TrapInvariant == Spec => []TrapInv
BY TrapInit, TrapStep, PTL DEF Spec

-----------------------------------------------------------------------------
(* Every variable keeps its type, whatever the user programs put in their  *)
(* registers and however many of them there are.                           *)
THEOREM TrapTypeCorrect == Spec => []TypeOK
<1>1. TrapInv => TypeOK
  BY DEF TrapInv
<1> QED
  BY <1>1, TrapInvariant, PTL

(* A task that runs again finds its program counter, its stack pointer and *)
(* its registers, but for t0, through any sequence of traps, switches and  *)
(* forks.                                                                  *)
THEOREM ContextsSurvive == Spec => []ContextKept
<1>1. TrapInv => ContextKept
  BY DEF TrapInv, InUser, ContextKept, UserMode
<1> QED
  BY <1>1, TrapInvariant, PTL

(* In user mode sscratch always points to the top of the kernel stack of   *)
(* the task that runs: the next trap pushes its frame there.               *)
THEOREM KernelStacksReady == Spec => []KernelStackReady
<1>1. TrapInv => KernelStackReady
  BY DEF TrapInv, InUser, KernelStackReady, UserMode
<1> QED
  BY <1>1, TrapInvariant, PTL

(* Every way out of the kernel leads to user mode. *)
THEOREM NoUserInSupervisor == Spec => []UserStaysUser
<1>1. TrapInv => UserStaysUser
  BY DEF TrapInv, InUser, UserStaysUser
<1> QED
  BY <1>1, TrapInvariant, PTL
=============================================================================

----------------------------- MODULE NestedTrap -----------------------------
(***************************************************************************)
(* SYS_WRITE reads the buffer of the user program in supervisor mode.  If  *)
(* a page of it is absent, the load faults inside the kernel, and _traps   *)
(* runs a second time, on top of trap_handler.                             *)
(*                                                                         *)
(* _traps looks at sscratch to find out where it comes from.  While a task *)
(* is in the kernel sscratch holds its user stack pointer and is never 0,  *)
(* so the second trap, too, takes the path of _traps_umode: it exchanges   *)
(* the stacks and pushes its frame on the stack of the user program.       *)
(***************************************************************************)
EXTENDS Integers

CONSTANTS
  Pages,      \* the buffer covers the pages 1 .. Pages
  StackPages  \* states of the page of the user stack to consider

NestedAssumption ==
  Pages \in Nat \ {0} /\ StackPages \subseteq {"absent", "shared", "writable"}

Buffer == 1 .. Pages
Stack  == 0                         \* the page of the user stack
Kernel == -1                        \* an address of the kernel
NoAddress == -2
Depths == 0 .. 3                    \* bound on the frames of one stack

VARIABLES
  mode, pc,                         \* of the hart, see the actions
  sp, sscratch,                     \* a stack and the frames on it
  spp, sepc, scause, stval,         \* the other CSRs; spp is sstatus.SPP
  frame,      \* frame[s][d]: arguments of the trap_handler whose frame it is
  page,       \* page[v]: the state of a page of the user program
  i, last     \* the loop of SYS_WRITE: pages i .. last are still to be read

csrs == <<spp, sepc, scause, stval>>
vars == <<mode, pc, sp, sscratch, csrs, frame, page, i, last>>

On(s, d) == [stack |-> s, depth |-> d]
Push(w)  == [w EXCEPT !.depth = @ + 1]
Unpopped(w) == w
Pop(w)   == [w EXCEPT !.depth = @ - 1]

Init ==
  /\ mode = "u" /\ pc = "user"
  /\ sp = On("user", 0) /\ sscratch = On("kernel", 0)
  /\ spp = "u" /\ sepc = "user" /\ scause = "ecall" /\ stval = NoAddress
  /\ frame = [s \in {"user", "kernel"} |->
                [d \in Depths |-> [scause |-> "ecall", sepc |-> "user"]]]
  /\ \E f \in [Buffer -> {"absent", "writable"}], s \in StackPages :
       page = [v \in Buffer \cup {Stack} |-> IF v = Stack THEN s ELSE f[v]]
  /\ i = 1 /\ last = 0

-----------------------------------------------------------------------------
(* A trap of the hart at pc, for the address va. *)
Trap(cause, va) ==
  /\ scause' = cause /\ stval' = va /\ sepc' = pc
  /\ spp' = mode /\ mode' = "s"
  /\ pc' = "_traps"
  /\ UNCHANGED <<sp, sscratch, frame, page>>

(* The user program writes a part of its buffer. *)
Ecall ==
  /\ mode = "u" /\ pc = "user"
  /\ i' \in Buffer /\ last' \in i' .. Pages
  /\ Trap("ecall", NoAddress)

(* _traps: the stacks are exchanged, sscratch being no null pointer. *)
SwapStacks ==
  /\ pc = "_traps"
  /\ sp' = Push(sscratch) /\ sscratch' = sp
  /\ pc' = "push"
  /\ UNCHANGED <<mode, csrs, frame, page, i, last>>

Writable(w) == w.stack = "kernel" \/ page[Stack] = "writable"

(* The frame is stored, and trap_handler is called with what the CSRs hold *)
(* by then; or the store faults.                                           *)
PushFrame ==
  /\ mode = "s" /\ pc = "push" /\ Writable(sp)
  /\ frame' = [frame EXCEPT ![sp.stack][sp.depth] = [scause |-> scause, sepc |-> sepc]]
  /\ pc' = "trap_handler"
  /\ UNCHANGED <<mode, sp, sscratch, csrs, page, i, last>>

PushFaults ==
  /\ mode = "s" /\ pc = "push" /\ ~Writable(sp)
  /\ Trap("page_fault", Stack) /\ UNCHANGED <<i, last>>

Regs == frame[sp.stack][sp.depth]
Handles(cause) == mode = "s" /\ pc = "trap_handler" /\ Regs.scause = cause

(* syscall: the loop of SYS_WRITE, one page of the buffer after the other. *)
Read ==
  /\ Handles("ecall") /\ i <= last /\ page[i] # "absent"
  /\ i' = i + 1
  /\ UNCHANGED <<mode, pc, sp, sscratch, csrs, frame, page, last>>

ReadFaults ==
  /\ Handles("ecall") /\ i <= last /\ page[i] = "absent"
  /\ Trap("page_fault", i) /\ UNCHANGED <<i, last>>

Return(to) == sepc' = to /\ pc' = "sret" /\ UNCHANGED <<spp, scause, stval>>
SyscallDone ==
  /\ Handles("ecall") /\ i > last
  /\ Return("user")
  /\ UNCHANGED <<mode, sp, sscratch, frame, page, i, last>>

(* do_page_fault: a page of the program is loaded or copied; for any other *)
(* address there is no VMA, and Err() does not return.                     *)
FaultAddress == stval              \* csr_read(stval)
Forgotten(v) == page
Provided(v) == [page EXCEPT ![v] = "writable"]
PageFault ==
  /\ Handles("page_fault") /\ FaultAddress # Kernel
  /\ page' = Provided(FaultAddress)
  /\ Return(Regs.sepc)
  /\ UNCHANGED <<mode, sp, sscratch, frame, i, last>>

Err ==
  /\ Handles("page_fault") /\ FaultAddress = Kernel
  /\ pc' = "Err"
  /\ UNCHANGED <<mode, sp, sscratch, csrs, frame, page, i, last>>

(* The end of _traps: the frame is popped, the stacks exchanged again, and *)
(* sret goes to the mode in SPP and sets SPP to user mode.                 *)
Sret ==
  /\ pc = "sret"
  /\ sp' = sscratch /\ sscratch' = Pop(sp)
  /\ mode' = spp /\ spp' = "u"
  /\ pc' = sepc
  /\ UNCHANGED <<sepc, scause, stval, frame, page, i, last>>

(* No code of the kernel can be fetched in user mode. *)
FetchFaults ==
  /\ mode = "u" /\ pc # "user"
  /\ Trap("page_fault", Kernel) /\ UNCHANGED <<i, last>>

InTrap ==
  \/ SwapStacks \/ PushFrame \/ PushFaults \/ Read \/ ReadFaults \/ SyscallDone
  \/ PageFault \/ Err \/ Sret \/ FetchFaults
Next == Ecall \/ InTrap

Spec == Init /\ [][Next]_vars /\ WF_vars(InTrap)

-----------------------------------------------------------------------------
(* Every variable has its type; no stack holds more frames than the bound. *)
TypeOK ==
  /\ mode \in {"u", "s"} /\ spp \in {"u", "s"}
  /\ \A w \in {sp, sscratch} : w.stack \in {"user", "kernel"} /\ w.depth \in Depths
  /\ sp.stack # sscratch.stack

(* After any number of faults in the kernel, a user program that goes on   *)
(* finds its own stack pointer, the top of its kernel stack in sscratch    *)
(* and what it asked for written.                                          *)
UserGoesOn ==
  mode = "u" /\ pc = "user" =>
    i > last /\ sp = On("user", 0) /\ sscratch = On("kernel", 0)

(* Every SYS_WRITE returns, if the page of the user stack is there to take *)
(* the frame.  If not, the store of the frame faults in its turn, the      *)
(* second trap_handler is called with the CSRs of the third trap, whose    *)
(* sret has left user mode in SPP: the kernel goes on in user mode, and    *)
(* ends in Err().                                                          *)
WriteBegins  == pc = "_traps" /\ scause = "ecall" /\ page[Stack] = "writable"
WriteEnds    == mode = "u" /\ pc = "user"
WriteReturns == WriteBegins ~> WriteEnds
=============================================================================

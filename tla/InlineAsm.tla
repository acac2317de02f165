------------------------------ MODULE InlineAsm ------------------------------
(***************************************************************************)
(* The inline assembly that makes the calls of the system: sbi_ecall of    *)
(* sbi.c, from the kernel to the firmware, and the system calls of the     *)
(* programs in printf (user/printf.c), getpid and fork (user/main.c).      *)
(* Operands are moved into the argument registers one after the other, and *)
(* where they are before is the compiler's choice: a move may overwrite    *)
(* one that is still to be read.                                           *)
(*                                                                         *)
(* Of the eight operands of sbi_ecall, of which the last five are 0 in     *)
(* every call, the first four are modelled.                                *)
(***************************************************************************)
EXTENDS Integers, Sequences, Functions

CONSTANTS
  Registers,   \* the registers to consider, of arguments and others
  UserBuild,   \* those the build of the programs may use for operands
  Char, Time   \* values of a call: a character, the time of the next timer

InlineAsmAssumption == UserBuild \subseteq Registers

VARIABLES
  asm,         \* the block and the values of its operands
  place,       \* place[o]: the register the compiler has chosen for o
  reg,         \* the registers of the hart
  step         \* index of the next instruction

vars == <<asm, place, reg, step>>

-----------------------------------------------------------------------------
(* The extension, the function and the arguments of the kernel's calls.    *)
(* The last one is in sbi.c for whoever wants to stop the machine.         *)
sbi_set_timer == [eid |-> "TIME", fid |-> "0", arg0 |-> Time, arg1 |-> "0"]
sbi_debug_console_write_byte ==
  [eid |-> "DBCN", fid |-> "2", arg0 |-> Char, arg1 |-> "0"]
sbi_system_reset == [eid |-> "SRST", fid |-> "0", arg0 |-> "type", arg1 |-> "reason"]

(* struct sbiret: where the firmware answers. *)
sbiret == <<<<"error", "a0">>, <<"value", "a1">>>>

NoExtension == {"a0", "a1", "a2", "a3", "a4", "a5", "a6"}
Clobbers == {"a0", "a1", "a2", "a3", "a4", "a5", "a6", "a7"}
sbi_ecall(values) ==
  [moves   |-> <<<<"a7", "eid">>, <<"a6", "fid">>, <<"a0", "arg0">>, <<"a1", "arg1">>>>,
   values  |-> values,
   results |-> sbiret,
   allowed |-> Registers \ Clobbers]

(* The programs: the number of a system call is a constant of its          *)
(* instruction, and no block names the registers it overwrites.            *)
SYS == {"SYS_WRITE", "SYS_GETPID", "SYS_CLONE"}
write ==
  [moves   |-> <<<<"a7", "SYS_WRITE">>, <<"a0", "fd">>, <<"a1", "buffer">>, <<"a2", "tail">>>>,
   values  |-> [fd |-> "1", buffer |-> "&buffer", tail |-> "tail"],
   results |-> <<<<"syscall_ret", "a0">>>>,
   allowed |-> UserBuild]

Call(number) ==
  [moves   |-> <<<<"a7", number>>>>,
   values  |-> [o \in {} |-> ""],
   results |-> <<<<"ret", "a0">>>>,
   allowed |-> UserBuild]
getpid == Call("SYS_GETPID")
fork   == Call("SYS_CLONE")

Operands == DOMAIN asm.values
Outputs  == {asm.results[k][1] : k \in DOMAIN asm.results}

-----------------------------------------------------------------------------
(* Operands are in registers of their own before the block, and so are     *)
(* results behind it; a result may take the register of an operand.        *)
Init ==
  /\ asm \in {sbi_ecall(sbi_set_timer), sbi_ecall(sbi_debug_console_write_byte),
             sbi_ecall(sbi_system_reset), write, getpid, fork}
  /\ \E in \in Injection(Operands, asm.allowed), res \in Injection(Outputs, asm.allowed) :
       place = [o \in Operands \cup Outputs |-> IF o \in Operands THEN in[o] ELSE res[o]]
  /\ reg = [r \in Registers |->
              LET held == {o \in Operands : place[o] = r}
              IN  IF held = {} THEN "other" ELSE asm.values[CHOOSE o \in held : TRUE]]
  /\ step = 1

Moved(source) == IF source \in SYS THEN source ELSE reg[place[source]]
Move ==
  /\ step \in DOMAIN asm.moves
  /\ LET m == asm.moves[step] IN reg' = [reg EXCEPT ![m[1]] = Moved(m[2])]
  /\ step' = step + 1
  /\ UNCHANGED <<asm, place>>

Ecall ==
  /\ step = Len(asm.moves) + 1
  /\ reg' = [r \in Registers |->
               LET told == {k \in DOMAIN asm.results : asm.results[k][2] = r}
               IN  IF told = {} THEN reg[r] ELSE asm.results[CHOOSE k \in told : TRUE][1]]
  /\ step' = step + 1
  /\ UNCHANGED <<asm, place>>

Answered == Len(asm.moves) + 1 + Len(asm.results)
WriteBack ==
  /\ step \in Len(asm.moves) + 2 .. Answered
  /\ LET res == asm.results[step - Len(asm.moves) - 1] IN
       reg' = [reg EXCEPT ![place[res[1]]] = reg[res[2]]]
  /\ step' = step + 1
  /\ UNCHANGED <<asm, place>>

Next == Move \/ Ecall \/ WriteBack

Spec == Init /\ [][Next]_vars

-----------------------------------------------------------------------------
(* What the theorem asks of the hardware and of the build of the programs: *)
(* the compiler has not put an operand of write() where an earlier move    *)
(* would overwrite it.                                                     *)
ArgumentRegisters ==
  /\ Clobbers \subseteq Registers
  /\ UserBuild \cap {"a7", "a0", "a1"} = {}

(* Whatever registers the compiler takes for the operands, the callee      *)
(* finds every argument in the register it looks in, and every result of   *)
(* the block is what the callee has answered (sbi.c:10-25, printf.c:295,   *)
(* main.c:8 and 18).                                                       *)
CallsFaithful ==
  /\ step = Len(asm.moves) + 1 =>
       \A k \in DOMAIN asm.moves :
         LET m == asm.moves[k] IN
         reg[m[1]] = IF m[2] \in Operands THEN asm.values[m[2]] ELSE m[2]
  /\ step > Answered => \A o \in Outputs : reg[place[o]] = o
=============================================================================

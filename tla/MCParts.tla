------------------------------ MODULE MCParts ------------------------------
(***************************************************************************)
(* One instance for TLC of seven parts of the system that do not interact: *)
(* Format, FilePage, VmaList, PageTable, NestedTrap, Boot and InlineAsm.   *)
(* The initial state chooses the part that runs; the variables of the      *)
(* others stay Off.                                                        *)
(***************************************************************************)
EXTENDS Integers, Sequences

CONSTANTS
  IntBits, LongBits, Calls,                             \* see Format
  PGSIZE, NPages, NFrames, Vmas,                        \* see FilePage
  MaxTasks, MaxNodes, Images, StackArea, Addresses,      \* see VmaList
  Radix, UserPages, KernelPages, KernelEntry(_), UserFrames,
    VmaRights, MaxSpaces, MaxTables,                       \* see PageTable
  BufferPages, StackPages,                              \* see NestedTrap
  RamPages, SbiPages, Layouts, ArrayPages, TableSpan, Areas, \* see Boot
  Registers, UserBuild, Char, Time                      \* see InlineAsm

VARIABLES
  part,
  call, fmt, vl, flags, out, stored,
  vma, table, ram,
  ramdisk, mmap, node, used, nr_tasks, cursor,
  root, tables,
  mode, pc, sp, sscratch, spp, sepc, scause, stval, frame, page, i, last,
  size, at, pcs, sps, roots, early, swapper, mapped, free,
  asm, place, reg, step

(* A part that has theorems comes with them, for PartsProofs.              *)
Text   == INSTANCE MCFormat
File   == INSTANCE FilePage
List   == INSTANCE MCVmaList
Walk   == INSTANCE PageTableProofs WITH
  MaxTasks <- MaxSpaces, Frames <- UserFrames, Rights <- VmaRights, ram <- tables
Nested == INSTANCE NestedTrap WITH Pages <- BufferPages
Start  == INSTANCE BootProofs WITH satp <- roots
Call   == INSTANCE InlineAsm

textVars   == <<call, fmt, vl, flags, out, stored>>
fileVars   == <<vma, table, ram>>
listVars   == <<ramdisk, mmap, node, used, nr_tasks, cursor>>
walkVars   == <<root, tables>>
nestedVars == <<mode, pc, sp, sscratch, spp, sepc, scause, stval, frame, page, i, last>>
bootVars   == <<size, at, pcs, sps, roots, early, swapper, mapped, free>>
asmVars    == <<asm, place, reg, step>>
vars == <<part, textVars, fileVars, listVars, walkVars, nestedVars, bootVars, asmVars>>

ASSUME PartsAssumption ==
  /\ Text!FormatAssumption /\ File!FilePageAssumption
  /\ List!VmaListAssumption /\ Walk!PageTableAssumption
  /\ Nested!NestedAssumption /\ Start!BootAssumption
  /\ Call!InlineAsmAssumption

(* What the theorems ask beyond that holds of these values, too.           *)
ASSUME TheoremsApply ==
  Start!RamSuffices /\ Call!ArgumentRegisters /\ List!AreasApart

(* So does what those about UserProgram ask of the text of every main: it  *)
(* is formed, and no more tasks come of it than task[] holds beside idle.  *)
User == INSTANCE UserMain
ASSUME ProgramsFormed ==
  \A m \in User!AllMains : User!Formed(m) /\ User!Offspring(m, 1) < 9

(* Values of the constants: those of the MC modules of the parts. *)
TextData == INSTANCE MCFormat WITH Calls <- {}
FileData == INSTANCE MCFilePage WITH Vmas <- {}
ListData == INSTANCE MCVmaList WITH Images <- {}, StackArea <- {}
BootData == INSTANCE MCBoot WITH Layouts <- {}, satp <- roots
AllCalls   == TextData!AllCalls
AllVmas    == FileData!AllVmas
Programs   == ListData!Programs
Stack      == ListData!Stack
Kernels    == BootData!Kernels
KernelImage(g) == [ppn |-> 100 + g,
                   perm |-> IF g = 4 THEN {"V", "R", "X"} ELSE {"V", "R", "W"}]

Off == "off"
TextOff == call = Off /\ fmt = Off /\ vl = Off /\ flags = Off /\ out = Off /\ stored = Off
FileOff == vma = Off /\ table = Off /\ ram = Off
ListOff == ramdisk = Off /\ mmap = Off /\ node = Off /\ used = Off /\ nr_tasks = Off /\ cursor = Off
WalkOff == root = Off /\ tables = Off
NestedOff ==
  /\ mode = Off /\ pc = Off /\ sp = Off /\ sscratch = Off /\ spp = Off /\ sepc = Off
  /\ scause = Off /\ stval = Off /\ frame = Off /\ page = Off /\ i = Off /\ last = Off
BootOff ==
  /\ size = Off /\ at = Off /\ pcs = Off /\ sps = Off /\ roots = Off /\ early = Off
  /\ swapper = Off /\ mapped = Off /\ free = Off
AsmOff == asm = Off /\ place = Off /\ reg = Off /\ step = Off

Init ==
  \/ part = "format" /\ Text!Init
     /\ FileOff /\ ListOff /\ WalkOff /\ NestedOff /\ BootOff /\ AsmOff
  \/ part = "file" /\ File!Init
     /\ TextOff /\ ListOff /\ WalkOff /\ NestedOff /\ BootOff /\ AsmOff
  \/ part = "list" /\ List!Init
     /\ TextOff /\ FileOff /\ WalkOff /\ NestedOff /\ BootOff /\ AsmOff
  \/ part = "walk" /\ Walk!Init
     /\ TextOff /\ FileOff /\ ListOff /\ NestedOff /\ BootOff /\ AsmOff
  \/ part = "nested" /\ Nested!Init
     /\ TextOff /\ FileOff /\ ListOff /\ WalkOff /\ BootOff /\ AsmOff
  \/ part = "boot" /\ Start!Init
     /\ TextOff /\ FileOff /\ ListOff /\ WalkOff /\ NestedOff /\ AsmOff
  \/ part = "asm" /\ Call!Init
     /\ TextOff /\ FileOff /\ ListOff /\ WalkOff /\ NestedOff /\ BootOff

Next ==
  \/ part = "format" /\ Text!Next
     /\ UNCHANGED <<part, fileVars, listVars, walkVars, nestedVars, bootVars, asmVars>>
  \/ part = "file" /\ File!Next
     /\ UNCHANGED <<part, textVars, listVars, walkVars, nestedVars, bootVars, asmVars>>
  \/ part = "list" /\ List!Next
     /\ UNCHANGED <<part, textVars, fileVars, walkVars, nestedVars, bootVars, asmVars>>
  \/ part = "walk" /\ Walk!Next
     /\ UNCHANGED <<part, textVars, fileVars, listVars, nestedVars, bootVars, asmVars>>
  \/ part = "nested" /\ Nested!Next
     /\ UNCHANGED <<part, textVars, fileVars, listVars, walkVars, bootVars, asmVars>>
  \/ part = "boot" /\ Start!Next
     /\ UNCHANGED <<part, textVars, fileVars, listVars, walkVars, nestedVars, asmVars>>
  \/ part = "asm" /\ Call!Next
     /\ UNCHANGED <<part, textVars, fileVars, listVars, walkVars, nestedVars, bootVars>>

Kernel ==
  part = "nested" /\ Nested!InTrap
    /\ UNCHANGED <<part, textVars, fileVars, listVars, walkVars, bootVars, asmVars>>

Spec == Init /\ [][Next]_vars /\ WF_vars(Kernel)

-----------------------------------------------------------------------------
(* The properties of the parts: each is stated in its own module, about    *)
(* the code that module names.                                             *)

(* printk and printf print what C's printf is to print, and read no format *)
(* behind its end.                                                         *)
TextExpected == part = "format" => Text!NeverPastEnd /\ Text!TextExpected

(* A demand-loaded page of a file as linked holds the bytes of its segment. *)
FileBytesLoaded == part = "file" => File!FileBytesLoaded

(* Filling a page touches no other frame but for the bytes of a short      *)
(* segment that lie behind its page.                                       *)
FillsConfined == [][part = "file" => File!OthersKept]_vars

(* The VMA lists are well linked and disjoint throughout a fork. *)
WellLinked == part = "list" => List!WellLinked

(* find_vma finds the segment of an address in every generation. *)
FindsSegment == part = "list" => List!FindsSegment

(* No table page but the kernel's is shared by two tasks. *)
TablesPrivate == part = "walk" => Walk!TablesPrivate

(* The page tables implement AddressSpaces. *)
AddressSpaces ==
  /\ part = "walk" => Walk!Walks!Init
  /\ [][part = "walk" => Walk!Walks!Next \/ UNCHANGED Walk!Walks!vars]_vars

(* A user program goes on unharmed after faults inside SYS_WRITE, and no   *)
(* stack holds more frames than the bound.                                 *)
UserGoesOn == part = "nested" => Nested!TypeOK /\ Nested!UserGoesOn

(* The kernel reaches all code and memory it uses while it boots. *)
NeverLost == part = "boot" => Start!NeverLost

(* The boot leaves every free page mapped where the kernel looks for it. *)
FreePagesUsable == part = "boot" => Start!FreePagesUsable

(* The inline assembly of sbi_ecall and printf passes on what it is given. *)
CallsFaithful == part = "asm" => Call!CallsFaithful

(* SYS_WRITE returns if the page of the user stack is writable. *)
WriteReturns == part = "nested" /\ Nested!WriteBegins ~> part = "nested" /\ Nested!WriteEnds
=============================================================================

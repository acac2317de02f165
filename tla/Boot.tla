-------------------------------- MODULE Boot --------------------------------
(***************************************************************************)
(* The boot, from _start (head.S) to start_kernel: the kernel is linked at *)
(* high addresses and loaded at physical ones, moves from the one to the   *)
(* other in relocate, sets up the page allocator while the early page      *)
(* table is in use, makes its final table from pages of that allocator and *)
(* turns to it.  No fault can be handled in the boot: the accesses of each *)
(* step are part of its guard, Lands, and the boot stops where they fail.  *)
(*                                                                         *)
(* Pages are numbered from PHY_START, and an address is a page in one of   *)
(* two spaces: "phys", where it has its physical address, and "high",      *)
(* PA2VA_OFFSET above.                                                     *)
(***************************************************************************)
EXTENDS Integers, FiniteSets

CONSTANTS
  RamPages,   \* PHY_SIZE; the code maps as many pages from _stext on
  SbiPages,   \* OPENSBI_SIZE: the kernel begins behind them
  Layouts,    \* sizes the linker may give text, rodata, data and bss
  ArrayPages, \* pages of buddy.bitmap and buddy.ref_cnt, behind the kernel
  TableSpan,  \* pages a leaf table maps
  Areas       \* memory areas of the program: one page each for its VMA

BootAssumption ==
  /\ {RamPages, SbiPages, ArrayPages, Areas} \subseteq Nat
  /\ TableSpan \in Nat \ {0}
  /\ \A s \in Layouts : {s.text, s.rodata, s.data, s.bss} \subseteq Nat \ {0}

VARIABLES
  size,       \* the layout of this kernel
  at,         \* the code the hart is about to execute
  pcs, sps,   \* the spaces pc and sp point into
  satp,       \* translations the hart may use: before a fence also the old one
  early,      \* early_pgtbl: the spaces it maps, each by a 1 GiB entry
  swapper,    \* swapper_pg_dir: entry of each high page; no rights, no entry
  mapped,     \* the next page setup_vm_final maps
  free        \* the lowest free page, which alloc_page returns

vars == <<size, at, pcs, sps, satp, early, swapper, mapped, free>>

(* vmlinux.lds: _stext, _srodata, _sdata, _sbss and _ekernel. *)
Stext   == SbiPages
Srodata == Stext + size.text
Sdata   == Srodata + size.rodata
Sbss    == Sdata + size.data
Ekernel == Sbss + size.bss

NoEntry == [page |-> 0, rights |-> {}]
High    == 0 .. SbiPages + RamPages - 1      \* high pages the kernel ever maps

Init ==
  /\ size \in Layouts
  /\ at = "_start" /\ pcs = "phys" /\ sps = "none"
  /\ satp = {"bare"}
  /\ early = {} /\ swapper = [g \in High |-> NoEntry]
  /\ mapped = Stext /\ free = 0

-----------------------------------------------------------------------------
(* Access <<space, page, right>> under a translation. *)
Reaches(root, a) ==
  CASE root = "bare"    -> a[1] = "phys"
    [] root = "early"   -> a[1] \in early
    [] root = "swapper" -> /\ a[1] = "high" /\ a[2] \in High
                           /\ swapper[a[2]].page = a[2]
                           /\ a[3] \in swapper[a[2]].rights

(* The linked addresses of data are high; code finds its symbols relative  *)
(* to pc, and the boot stack is the first page of bss.  The kernel reads   *)
(* its format strings in rodata, and its data and bss, which it writes.    *)
Write(space, pages) == {space} \X pages \X {"W"}
Stack    == {<<sps, Sbss, "W">>}
Kernel(space) ==
  ({space} \X (Srodata .. Ekernel - 1) \X {"R"}) \cup Write(space, Sdata .. Ekernel - 1)
Arrays   == Write("high", Ekernel .. Ekernel + ArrayPages - 1)

(* create_mapping's table pages: one for the middle level, one per leaf.    *)
LeafOf(g) == g \div TableSpan
NewTables(g) ==
  (IF mapped = Stext THEN 1 ELSE 0)
    + (IF mapped = Stext \/ LeafOf(g) # LeafOf(g - 1) THEN 1 ELSE 0)
Reserved == Ekernel + ArrayPages             \* buddy_init: up to free_page_start

Accesses ==
  CASE at = "setup_vm"       -> Stack \cup Kernel(pcs)
    [] at = "buddy_init"     -> Stack \cup Kernel("high") \cup Arrays
    [] at = "setup_vm_final" -> Stack \cup Kernel(pcs) \cup Arrays
                                  \cup Write("high", Reserved .. free + NewTables(mapped) - 1)
    [] at = "task_init"      -> Stack \cup Kernel(pcs) \cup Arrays
                                  \cup Write("high", free .. free + 2 + Areas)
    [] at = "sfence.vma"     -> Stack
    [] at = "start_kernel"   -> Stack \cup Kernel(pcs)
    [] OTHER                 -> {}

Lands ==
  /\ \A root \in satp, a \in Accesses : a[2] < RamPages /\ Reaches(root, a)
  /\ \A root \in satp, g \in Stext .. Srodata - 1 : Reaches(root, <<pcs, g, "X">>)

Does(here, next) == at = here /\ Lands /\ at' = next

-----------------------------------------------------------------------------
Start ==                             \* la sp, boot_stack_top
  /\ Does("_start", "setup_vm")
  /\ sps' = pcs
  /\ UNCHANGED <<size, pcs, satp, early, swapper, mapped, free>>

OnlyHigh == {"high"}
EarlyMap == {"phys", "high"}         \* the indices of PHY_START and VM_START
SetupVm ==
  /\ Does("setup_vm", "relocate")
  /\ early' = EarlyMap
  /\ UNCHANGED <<size, pcs, sps, satp, swapper, mapped, free>>

(* relocate: ra and sp are moved; the ret behind the write of satp is still *)
(* fetched at its physical address.                                         *)
Relocate ==
  /\ Does("relocate", "ret")
  /\ sps' = "high" /\ satp' = {"early"}
  /\ UNCHANGED <<size, pcs, early, swapper, mapped, free>>

Ret ==
  /\ Does("ret", "buddy_init")
  /\ pcs' = "high"
  /\ UNCHANGED <<size, sps, satp, early, swapper, mapped, free>>

(* mm_init: buddy_alloc(1) takes every page below free_page_start. *)
BuddyInit ==
  /\ Does("buddy_init", "setup_vm_final")
  /\ free' = Reserved
  /\ UNCHANGED <<size, pcs, sps, satp, early, swapper, mapped>>

(* setup_vm_final: one round of create_mapping's loop, for the three ranges *)
(* one after the other.                                                     *)
KernelTwice == Sdata + RamPages - (Ekernel - Stext)
MappedEnd == Stext + RamPages
Rights(g) ==
  IF g < Srodata THEN {"X", "R"} ELSE IF g < Sdata THEN {"R"} ELSE {"W", "R"}
MapPage ==
  /\ mapped < MappedEnd
  /\ Does("setup_vm_final", "setup_vm_final")
  /\ swapper' = [swapper EXCEPT ![mapped] = [page |-> mapped, rights |-> Rights(mapped)]]
  /\ free' = free + NewTables(mapped)
  /\ mapped' = mapped + 1
  /\ UNCHANGED <<size, pcs, sps, satp, early>>

WriteSatp ==
  /\ mapped = MappedEnd
  /\ Does("setup_vm_final", "sfence.vma")
  /\ satp' = {"early", "swapper"}
  /\ UNCHANGED <<size, pcs, sps, early, swapper, mapped, free>>

Fence ==
  /\ Does("sfence.vma", "task_init")
  /\ satp' = {"swapper"}
  /\ UNCHANGED <<size, pcs, sps, early, swapper, mapped, free>>

(* task_init: pages for idle, task 1, its root table and its areas. *)
TaskInit ==
  /\ Does("task_init", "start_kernel")
  /\ free' = free + 3 + Areas
  /\ UNCHANGED <<size, pcs, sps, satp, early, swapper, mapped>>

StartKernel ==                       \* stvec and the first timer are set
  /\ Does("start_kernel", "schedule")
  /\ UNCHANGED <<size, pcs, sps, satp, early, swapper, mapped, free>>

Next ==
  \/ Start \/ SetupVm \/ Relocate \/ Ret \/ BuddyInit \/ MapPage \/ WriteSatp
  \/ Fence \/ TaskInit \/ StartKernel

Spec == Init /\ [][Next]_vars

-----------------------------------------------------------------------------
(* What the theorems ask of the machine: memory holds the firmware, the    *)
(* kernel, the arrays of the allocator, the table pages of setup_vm_final  *)
(* and the pages task_init takes.                                          *)
RamSuffices ==
  LET leaves == LeafOf(SbiPages + RamPages - 1) - LeafOf(SbiPages) + 1
  IN  \A s \in Layouts :
        SbiPages + s.text + s.rodata + s.data + s.bss + ArrayPages
          + 1 + leaves + 3 + Areas <= RamPages

(* Whatever the sizes of its sections, the kernel reaches the next         *)
(* instruction and all memory it needs at every point of the boot: before  *)
(* and after each write of satp, and with the tables it makes meanwhile.   *)
NeverLost == at # "schedule" => Lands

(* After the boot every page that alloc_page may yet return is mapped at   *)
(* the address the kernel computes for it, to be read and written: the     *)
(* three ranges of setup_vm_final leave no gap and reach the end of memory *)
(* the allocator knows.  No page is writable and executable.               *)
FreePagesUsable ==
  at = "schedule" =>
    /\ \A f \in free .. RamPages - 1, r \in {"R", "W"} :
         \A root \in satp : Reaches(root, <<"high", f, r>>)
    /\ \A g \in High : ~({"W", "X"} \subseteq swapper[g].rights)
=============================================================================

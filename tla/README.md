# A verification development for ZJU-OS

ZJU-OS is a small RISC-V kernel (Sv39 paging, one hart, machine services from
OpenSBI). It boots one user program, which can print, ask for its pid and
fork; timer interrupts switch between the tasks; memory is filled on demand
and shared copy-on-write after a fork. This directory holds TLA+ modules of
the kernel, TLC configurations that check them on small instances, and proofs
that TLAPS checks. Paths below without a directory are under
`src/arch/riscv/kernel/`.

## 1. Inventory

| Component | State | Operations | Talks to | Hard about it | What makes it correct |
|---|---|---|---|---|---|
| Copy-on-write memory (`trap.c`, `proc.c`, `mm.c`) | page tables, VMA lists, `buddy.ref_cnt`, page contents, the TLB | `do_page_fault`, `page_cow`, `change_perm`, `do_fork_cow` | page allocator, page-table walk, user programs | sharing decided by a counter; cached translations; `pte_entry_ret` clears W as a side effect; page-aligned VMA ends | private memories, no writable shared frame, counts that cover the entries, faults that resolve, coherent TLB |
| Scheduler (`proc.c`) | `current`, `nr_tasks`, `task[]`, `counter`, `priority` | `do_timer`, `schedule`, `switch_to`, fork's copy of the task | trap entry, fork | slices are dealt out only when all are used up, while forks add tasks; array size | slices used up before a switch, bounded waiting, no starvation, table never overrun |
| Trap entry and context switch (`entry.S`, `trap.c`) | registers, `sepc`/`sscratch`/`sstatus`, frames on kernel stacks, `thread_struct` | `_traps`, `__ret_from_fork`, `__dummy`, `__switch_to`, `syscall` | everything | a context is spread over four places, a task can leave the kernel by three paths, and a trap may hit the kernel itself | a task finds its context again, the right kernel stack, user mode |
| Page allocator (`mm.c`) | `buddy.bitmap`, `buddy.ref_cnt` | `buddy_init`, `alloc_page(s)`, `get_page`, `put_page`, `free_pages`, `kfree` | all users of pages | stale nodes below a block, merging, pfn 0 as failure, pages that are not cleared | disjoint blocks, an exact tree |
| Page-table walk (`vm.c`, `trap.c`) | three-level tables | `create_mapping`, `check_load`, `pte_entry_ret`, `change_perm` | allocator | tables made on the way, tasks share the kernel's part only | one address space per task |
| File pages (`trap.c` 130-161) | one new page | copy from the program image | VMA | first, middle and last page, offsets, a copy longer than its page | page = the bytes of the segment, no other page touched but by a short segment that crosses its page |
| VMA lists, program loading (`proc.c`, `trap.c`) | doubly linked list | `load_program`, `do_mmap`, `add_mmap`, `find_vma` | fork, faults | a child starts with its parent's links; order is reversed at each fork | well-linked lists, every address finds its segment |
| Boot (`head.S`, `vm.c`, `mm.c`, `src/init`) | early and final page tables, `satp`, pc and sp | `setup_vm`, `relocate`, `mm_init`, `setup_vm_final`, `task_init`, `start_kernel` | allocator | no fault can be handled; addresses change under the running code | every access of the boot lands; free pages are mapped afterwards |
| Clock, SBI (`clock.c`, `sbi.c`) | registers | `clock_set_next_event`, `sbi_ecall` | firmware | operands moved into registers in turn | arguments and results arrive |
| `printk` (`src/lib/printk.c`) | `struct fmt_flags`, the pointer into the format | `vprintfmt`, `strtol`, `print_dec_int`, `puts_wo_nl` | SBI | state carried from one conversion to the next; widths, signs, conversions of width | text = value, no reading past the format |
| User library and programs (`src/user`) | `buffer`, `tail`, `global_variable`, `placeholder` | `printf`, `getpid`, `fork`, the `main` functions | system calls | a buffer without a limit, forked with the program; interrupts anywhere | whole lines, counting on, right branches |
| `rand`, `memset`, the other constants of `elf.h`, makefiles; `dummy`, `test` (dead code) | | | | | |

Of the 5938 lines of C in the repository 3408 are `src/include/elf.h`, a copy of
the C library's header of which `load_program` uses a dozen definitions.

How they interact: everything enters through `_traps`. `trap_handler` calls
`do_timer` (scheduler), `do_page_fault` (memory) or `syscall`, which calls
`do_fork_cow`: it makes a task (scheduler), copies VMAs and shares pages
(memory) and builds the child's frame and `thread_struct` (context). All of
them get pages from the allocator. Interrupts are off from `_traps` to
`sret`, so a handler is never preempted; the interleaving is that of user
instructions, traps and task switches, plus the TLB, which may cache or drop
a translation at any time.

## 2. Modules

| Module | Models | Kind |
|---|---|---|
| `CowFork` | copy-on-write memory | detailed |
| `ProcMem` | what fork promises: private memories. It is the eager `do_fork`, still in `trap.c` but no longer called | abstract, implemented by `CowFork` |
| `MCCowFork` | VMA lists for TLC | instances |
| `CowForkProofs` | theorems about `CowFork` | proofs |
| `Sched` | scheduler | detailed |
| `SchedProofs` | theorems about `Sched` | proofs |
| `TrapFrame` | trap entry and context switch | detailed |
| `TrapFrameProofs` | theorems about `TrapFrame` | proofs |
| `NestedTrap` | page faults of the kernel while it serves SYS_WRITE | detailed |
| `Buddy` | page allocator | detailed |
| `PageAllocator` | disjoint counted blocks, lowest first | abstract, implemented by `Buddy` |
| `BuddyProofs` | theorems about `Buddy` | proofs |
| `PageTable` | three-level tables of all tasks | detailed |
| `AddressSpaces` | one function from pages to entries per task | abstract, implemented by `PageTable` |
| `PageTableProofs` | theorems about `PageTable` | proofs |
| `FilePage`, `MCFilePage` | the bytes of a demand-loaded page; segments for TLC | detailed |
| `VmaList`, `MCVmaList` | linked lists of areas, built from an ELF image and copied by forks; images for TLC | detailed |
| `Boot`, `MCBoot` | from `_start` to the first `schedule()`; layouts for TLC | detailed |
| `BootProofs` | theorems about `Boot` | proofs |
| `Format`, `MCFormat` | `vprintfmt`; calls for TLC with the text C prescribes for them | algorithm with its reference |
| `InlineAsm` | the inline assembly of the calls to firmware and kernel | detailed |
| `UserMain` | the text of the programs of `main.c`, and what the theorems ask of it | data |
| `UserProgram`, `MCUserProgram` | those programs run by `Sched`'s tasks, over one console; their bounds for TLC | composes `Sched` |
| `UserProgramProofs` | theorems about `UserProgram` | proofs |
| `MCParts` | one instance of the seven modules that share no state | instances |
| `PartsProofs` | the theorems about those modules, for the instance `MCParts` checks; the proofs about `FilePage`, `NestedTrap`, `InlineAsm` and `VmaList` themselves | proofs |

### CowFork

| Variable | In the code |
|---|---|
| `current`, `nr_tasks` | the same; `task[0]` (idle) has no user memory and is left out |
| `pgd[p][g]` | the leaf entry the walk of `task[p]->pgd` reaches for virtual page g; frame 0 is a clear V bit |
| `mm[p]` | the list `task[p]->mm.mmap`, head first |
| `tlb[g]` | what the hart has cached for the running task |
| `ref_cnt[f]`, `mem[f]` | `buddy.ref_cnt` and the contents of a frame given to a user page |
| `kernel` | "running"; "spinning" in `Err()`; "null" once `alloc_page` has returned NULL to a caller that does not look |

Each path through `do_page_fault` is an action: `FaultNoVma`, `FaultAbsent`
(anonymous or file page), `FaultUnshare` (`change_perm`), `FaultCopy`
(`page_cow`), `FaultIgnored` (nothing to do, the instruction faults again),
and the out-of-frames variants. `Fork` is all of `do_fork_cow`, including the
loop that visits one page too many when `vm_end` is page-aligned
(`ForkRange`) and the order of the copied list. `SwitchTo` is `switch_to`
with the fence of `__switch_to`. `Store`, `CacheEntry` and `EvictEntry` are
the user program and the hart. The hart caches valid entries only. RISC-V also
lets it cache that an entry was invalid, and `do_page_fault` does not fence after it
has mapped an absent page: the access may then fault again, which
`FaultIgnored` or `change_perm` answers without harm, until the hart drops the entry.

Frames that hold kernel objects (task pages, VMAs, page tables) are counted by
the objects that exist (`KernelObjects`), not named. `alloc_page` takes the lowest free frame, which
is what `Buddy` is proved to do. Page contents are values: what the boot
left, page n of the program file, or a stored number.

### Sched

`Tick` is a timer interrupt in a user program up to the end of `do_timer`:
charge one tick, and if the slice is used up, `schedule()`, refill included.
`StartKernel` is the call of `schedule()` in `start_kernel`: idle runs with
`sstatus.SIE` clear (`head.S:41` is commented out) and is left for good.
`Fork` is what `do_fork_cow` does to the table: a copy of the parent's
`task_struct`, slice included. `waited` is a history variable.

### TrapFrame

Four registers stand for the 32, one for each way they are treated: `sp`,
`t0` (scratch of the entry code), `a0` (overwritten by C code, carries
results) and `s0` (kept by C code and `__switch_to`). `Trap` is the hardware
and `_traps` up to the call of `trap_handler`; `HandleRetry`, `HandleResult`,
`HandleOther`, `HandleClone` and `HandleSwitch` are the ways through
`trap_handler`; `Return` is `__ret_from_fork`, which is also the end of
`_traps`; `Start` is `__dummy`; `StartKernel` is the first switch. `ctx` is a
history variable: the context the task must find when it runs again, written
by the user's own instructions, system-call results and fork.

### Buddy

`bitmap` and `ref_cnt` are the arrays of the code; the loops of
`buddy_alloc` and `buddy_free` are recursive functions over the nodes of the
tree. `PutPage` is called for held pages only, as its only caller does.
`FreePages` shows that `kfree` of a page with its initial count does nothing.

### NestedTrap

The trap path of one task, one action per block of `_traps`, with everything
that a second trap overwrites: `sepc`, `scause`, `stval`, `SPP`, `sscratch`.
A page of the user's buffer that is absent makes `ReadFaults` a trap in
supervisor mode. `_traps` decides by `sscratch` which stack to use, and
`sscratch` is never 0 while a task is in the kernel: the second frame is
pushed on the user's stack, above its stack pointer. That is harmless as long
as the page of the user stack is present and writable: the frames are popped
in the opposite order. If the page is absent or shared, the store of the frame
faults in its turn, `trap_handler` is called with the CSRs of the third trap
and `sret` returns in user mode to code of the kernel: the system ends in
`Err()`. `WriteReturns` therefore speaks of a writable stack page, which a
program that has just formatted its line has, unless it was forked in between.

### PageTable, FilePage, VmaList

`PageTable` has tables as functions from indices to entries. Tables are
made by `create_mapping` during faults and forks, and `pte_entry_ret` and
`change_perm` walk without looking at V, as in the code. `Fork` shares the pages of the
parent one after the other, in ascending order; `do_fork_cow` goes area by area,
which numbers the child's tables differently and changes nothing else. A fresh table page is
taken to be empty: `kalloc` does not clear it, and `CowFork`'s
`FreshFramesClean` says why it is.

`FilePage` has physical memory byte by byte, because one of the four copies
may run past its page, and the four cases of `do_page_fault` as actions.
`FillsConfined` says for every segment what a fill may change outside the page
it was given: nothing, except that a segment of less than a page that crosses
a page boundary spills the bytes behind it (`Spilled`) into the next frame,
whoever owns that. `FileBytesLoaded` says what a program then reads, for the
segments the copies are right for (`AsLinked`).
`VmaList` has the nodes with their links. `load_program` is in `Init`: one
area per `PT_LOAD` header, in a table of headers surrounded by bytes that look
like headers. A fork takes as many steps as it copies nodes.

### Boot

One action per function on the way to `start_kernel`; `MapPage` is one round of
`create_mapping` in `setup_vm_final`. Each action is guarded by `Lands`: the
pages it fetches, reads and writes (`Accesses`: text, the format strings in
rodata, data and bss, the stack, the allocator's arrays and the pages it hands
out) must be reached with the right needed under every translation the hart may use, before a fence the old one as well as the new.
An access that would not land stops the boot, which `NeverLost` forbids.

### Format

One action per round of the loop in `vprintfmt`; `strtol` and `print_dec_int`
are operators. `MCFormat` spells conversions from records and states, from
the same records, the text C's `printf` prints. `TextExpected` compares the two
over all flags, widths and precisions, behind a conversion that sets every
flag, and demands of every string of up to four format characters that the
loop never steps over the end (`NeverPastEnd`).

### UserProgram

The programs of `main.c` are sequences of instructions (`UserMain`): `getpid`,
evaluation of the value, `putc` of each part of the line, the system call, the
reset of `tail`, `fork`, branches. `Kernel` is an instance of `Sched`: its actions
are steps of this module, so a timer interrupt, a fork and a slice act on the
same table. SYS_WRITE prints one character per step, and the kernel's own log
lines (one for each trap and system call, `printk`) go to the same console.
`shown` and `ran` are history variables.

### InlineAsm

The moves of an `asm` block, one step each, from registers chosen by the
compiler: any that the block does not list as overwritten. `sbi_ecall` lists
all argument registers it uses, so every choice is right. The blocks of
`printf`, `getpid` and `fork` list none; they are right for the registers the
build (`-O0`, values in `a2`-`a5`) takes, and would not be for any. `getpid.c`
holds an older `main` with the same blocks.

### MCParts

`Format`, `FilePage`, `VmaList`, `PageTable`, `NestedTrap`, `Boot` and
`InlineAsm` share no variable. The initial state chooses one of them (`part`)
and the variables of the others stay `Off`. A part with a module of proofs is an
instance of that module, so that `PartsProofs` can cite its theorems; `TheoremsApply`
has TLC check that the values of the run meet what they assume, and
`ProgramsFormed` that the mains of `UserMain` do. Each property of `MCParts` is that of the
part's module, restricted to the states of that part.

## 3. Runs

| Run | Instance | Shows |
|---|---|---|
| `cow_program` | 2 pages, file segment and stack, parent and child, 12 frames | `TypeOK`; `RefCountExact` (when no VMA ends where another lies, no frame leaks); `TlbCoherent`; `FaultResolved`; `PrivateMemory`, the refinement of `ProcMem` |
| `cow_meeting` | two segments meet inside a page, the second ends where the stack begins; 3 tasks, 13 frames | the page counted twice is harmless to safety: `RefCountCovers`, `PrivateMemory`, until frames run out, which they do in every way there is. (`RefCountExact` fails here: the frame of the stack is counted once too often and is never recognised as unshared again) |
| `cow_family` | 1 page, 4 tasks, 21 frames, exactly what eager forks would need | `SoleWriter`, `NeverOutOfFrames`, `FreshFramesClean` |
| `sched_program` | 1 to 4 user tasks, slices of 1 to 4 | `BoundedWait` (two slices of each other task), `SwitchesAtSliceEnd`, `RunningHasTime`, `EveryTaskRuns` |
| `sched_table` | the real `NR_TASKS` of 9, 10 tasks | violation, see findings |
| `trap_tasks` | parent and child, two program counters, `sp` and `s0` written | `ContextKept` |
| `trap_family` | 3 user tasks, `sp` written | `KernelStackReady`, `UserStaysUser`, with grandchildren and siblings |
| `trap_t0`, `trap_fork` | smallest instances | violations, see findings |
| `buddy_tree` | 8 frames, 1 reserved, counts up to 2 | `LongestExact`; `DisjointBlocks`, the refinement of `PageAllocator` |
| `programs` | every `main` of `main.c`, up to 8 user tasks | `LinesWhole`: no line is mixed with another; `CountsOn`: none lost, repeated or counted by another task; `BranchesTaken`, although SYS_CLONE gives the parent no result; `FitsTable`: `FORK3` fills `task[]` exactly; `EveryTaskPrints` |
| `parts`: boot | 81 layouts of the kernel | `NeverLost`, `FreePagesUsable` |
| `parts`: format | 5-bit int, 6-bit long; 7,380 formats of up to four characters, all conversions | `TextExpected` |
| `parts`: file | all segments within four 4-byte pages that have up to 11 bytes in the file: short ones across a boundary, ends on a boundary | `FileBytesLoaded`, for those `AsLinked`; `FillsConfined`, for all |
| `parts`: list | 64 images, 5 generations | `WellLinked` in the middle of forks, `FindsSegment` |
| `parts`: walk | 3-bit addresses, 2 user tasks | `TablesPrivate`; `AddressSpaces`, the refinement |
| `parts`: nested | buffer of 3 pages, stack page in each state | `UserGoesOn`, `WriteReturns` |
| `parts`: asm | 12 registers, three calls of `sbi_ecall` and the three blocks of the programs | `CallsFaithful` |

Why the bounds are enough. A page of two bytes (`CowFork`) lets VMAs begin and end at a
page boundary or inside a page, and meet in one page; the code treats no
other cases. Two pages give one that is shared and one that is not, and
page-table growth. Three or four tasks give a child, a sibling and a
grandchild: a frame with three users, of which any may fault first. Two
stored values distinguish the writers. In `sched_program` priorities differ
only between runs of Init, since a child has its parent's. In `buddy_tree`
blocks of all four sizes exist and merge over three levels. The safety
properties of `CowFork` do not depend on the bounds at all (section 4).

In `programs` the counters wrap at 4 and a line has four characters: every
task prints several lines between wraps. Programs with one or two tasks are
interrupted anywhere, without limit; `FORK3` with its eight tasks is
interrupted 4 times, at forks and at the beginning of lines, where the order of
the forks is decided. In `parts`, pages of 4 bytes have a first, a middle and a
last page and all offsets; tables with 2 entries make a walk of three
levels that shares its lower tables or not; kernels of sections of 1 to 3
pages meet leaf tables of 8 pages at every offset; at depth 3 the nested traps
have gone through every combination of stacks. Of the eight operands of
`sbi_ecall` the last four are always 0 and left out: they are moved like the
first four. Integers of 5 and 6 bits have the sign bits and the widening of
32 and 64.

`CHECK_DEADLOCK FALSE` is set for `CowFork`, where `Err()` spins with
interrupts off and a NULL page ends the model, and for `MCParts`, most of whose
parts finish: a call is formatted, a boot ends in `schedule()`, all pages are
loaded.

Fairness. `Sched` assumes `WF(StartKernel)`, because the boot is
straight-line code, and `WF(Tick)`, because `head.S` sets the first timer,
`trap_handler` sets the next one at every tick before it calls `do_timer`,
and S-mode interrupts are always taken in user mode. `UserProgram` assumes the
same of the boot, `WF(Running)`, because the hart executes instructions, and
`SF(Tick)`: ticks are disabled while SYS_WRITE runs in the kernel, but stay
pending. A tick comes 10,000,000 cycles behind the last one (`clock.c`), so
that the program has taken a step (`ran`). `NestedTrap` assumes `WF(InTrap)`:
a kernel that has something to execute does so. Forks are not fair: a program
need not fork.

### Findings

* `sched_table`: nothing compares `nr_tasks` with `NR_TASKS`; the ninth user task
  is stored behind `task[]` (`trap.c:373`; `proc.h:9` says `NR_TASKS` limits
  the number of threads).
* `trap_t0`: every trap changes the user's `t0` (`entry.S:10` and `:97`;
  `entry.S:8` says that 32 registers are saved).
* `trap_fork`: the parent's `a0` is not set after `SYS_CLONE` (`trap.c:91`);
  when it held 0 the parent takes the child's branch (`user/main.c:67`). The
  programs in `src/user` are spared, as `BranchesTaken` shows: the first task is
  entered with the address of the idle task in `a0`, and `printf` leaves the
  positive number of characters it has printed.

### What the code does otherwise than one may expect

Met while modelling; the models have these behaviours and the properties leave
room for them, because no line of the repository claims the opposite, except
of `vm_pgoff`.

* `printk` and `printf` differ from C: `%.3d` of -5 is `-05`; precision 0 of the
  value 0 honours no width; `LONG_MIN` is printed without width or flags; `%u`
  of an int with its sign bit set is sign-extended. `MCFormat`'s `Differs` lists
  them.
* `do_page_fault` takes the bytes of a segment from the offset of `vm_start` in its
  page (`trap.c:137`, `:141`, `:151`). `vm_pgoff`, which `proc.h:31` says is the
  offset in the file, is stored and never read: a segment behind the first page
  of its file gets bytes of that page. The two agree for a file of one segment
  as the linker makes it, which `AsLinked` asks for.
* A segment whose bytes end on a page boundary gets one byte of its last page
  (`trap.c:152`), and a short one that crosses a boundary is copied past the end
  of its frame (`trap.c:138`). Nothing in the makefiles forbids them.
  `MCFilePage` has both kinds: `FillsConfined` holds for them, and
  `FileBytesLoaded` asks for `AsLinked`, which leaves them out.
* Memory behind the file bytes of a segment is not cleared: the last page gets
  the byte of the image behind them (`trap.c:152`), pages further on get whole
  pages of the image (`trap.c:157`). `FileBytesLoaded` says nothing about that
  memory, and `UserProgram` (`Loaded`) assumes that `tail` and the counters,
  which lie there, are zero at first, as C has it.
* A segment of a page or more that begins on a page boundary gets no byte of its
  first page: the first copy has length 0, and the middle copies begin at the
  second page (`trap.c:144`). Segments of the file the linker makes begin behind
  the ELF headers, inside a page.
* `setup_vm_final` maps as many pages as there is memory, beginning behind the
  firmware: the last pages it maps lie behind the end of memory (`vm.c:49`).
  The allocator never hands them out.

## 4. Proofs

All theorems are checked by tlapm, for every value of the constants that
satisfies the module's `ASSUME` and the hypotheses named below. TLC evaluates
those hypotheses on the values of the runs (`LayoutsCovered` in `MCCowFork`,
`TheoremsApply` and `ProgramsFormed` in `MCParts`), so each one is met by a program or machine the
runs check.

### Copy-on-write memory (`CowForkProofs`)

The inductive invariant is `CowInv`: `TypeOK`, `RefCountCovers`, `SoleWriter`,
`TlbCoherent`, and that slots of tasks that do not exist have no entries and
no VMAs. They need each other: `SoleWriter` survives `change_perm` only
because a count of 1 means one entry (`RefCountCovers`); `RefCountCovers`
survives a new mapping only because a free frame has no entries; the child's
table must be empty before a fork for the count of its entries to be the
number of visits; and the TLB is coherent after a change of an entry because
the faulting page's cached entry is one the handler fences or one that was
not valid. `VisitsCover` is the central lemma: do_fork_cow's loop calls
`get_page` at least once for each entry it copies, whatever the VMAs overlap.
From it follow `TypeCorrect`, `CountsCover`, `WritersAlone` and
`FencesSuffice`. The assumption is `CowForkAssumption`; it says among other
things that segments are readable, which lets `page_cow` read through the
user's mapping.

`FramesFresh` is `FreshFramesClean`: a frame no one holds is as the boot left
it, so `kalloc` may do without clearing pages. A store goes to a frame with an
entry, which by `CowInv` has a count; and a count never falls back to 0,
because `page_cow` gives up a page only while its count is above 1.

`ForkIsPrivate` is the refinement of `ProcMem`, step by step: `FaultSeen` (a
fault changes no task's memory as it sees it), `StoreSeen`, `ForkSeen`. It
adds `ListInv` to the invariant: every list is the program's or its reverse,
and every entry lies in the range of a VMA. The hypothesis `OneSource` says
that segments which touch the same page fill it alike; without it the content
of the page depends on which address is touched first. `FaultsServed` needs
`OneRights`, that they also grant the same rights: the entry has the rights of
the first VMA that faulted, for good (`cow_meeting` is a program for which
`FaultResolved` fails). The linker script of the user programs gives both: its
`--nmagic` output has all sections in one segment with all rights, and
the stack, which is anonymous, lies far above.

`CountsExact` and `FramesNeverRunOut` need `RangesApart`: the loop of
`do_fork_cow` visits no page for two VMAs, that is, no VMA ends on a page
where another begins. Then `VisitsExact` turns the inequality of `VisitsCover`
into an equality. `FramesNeverRunOut` counts: frames in use are no more than
entries (`UsedCounted`: the frames of the entries are all of them), entries
and kernel objects of live tasks are among those an eager fork of
`MaxTasks - 1` tasks would have, and a request of a fault, a copy or a fork
adds to these without leaving that set (`Room`). A copy is asked for only
while two entries share a frame, so entries outnumber frames then. The
hypothesis `FramesSuffice` is the size of that set; `cow_family` checks the
theorem with exactly that many frames.

### Scheduler (`SchedProofs`)

`SchedInv` adds to `TypeOK` that live tasks have a slice of at least
`PRIORITY_MIN` ticks: it is why the recursive call in `schedule()` ends after
one refill. It gives `SchedTypeCorrect`, `RunningTaskHasTime` and
`SliceEndSwitches`.

`WaitIsBounded` is `BoundedWait`. The inductive invariant `WaitInv` bounds what
a task has waited by what the others have used up: `waited[p]` plus the time
left to the others is at most one turn of each of them, and one more while p
has time left itself. It is about sums over sets of tasks, so the proof begins
with what it needs of `MapThenSumSet`: how a sum splits, grows and compares.
These facts are proved from the least set for which one would fail, by
well-foundedness of strict inclusion, because the induction theorems of the
library cannot be instantiated.

### Traps (`TrapFrameProofs`, `PartsProofs`)

`TrapInv` says of each stretch of kernel code where the context of the current
task is (frame, `sscratch`, `sepc`, `argsepc`), and of each waiting task that
`thread_struct` and frame hold its own (`Parked`, or `FirstThread` before the
first run). `ContextsSurvive`, `KernelStacksReady`, `NoUserInSupervisor` and
`TrapTypeCorrect` are the invariants of `trap_tasks` and `trap_family`, for any
number of tasks, program counters and values. A child's saved `sstatus` is its
parent's of the last time that one was switched out, which
`SavedFromUser` keeps from user mode.

`NestedInv` lists the levels a trap can be at, with the stack and the CSRs of
each: the system call, a fault of a read on top of it, a fault of the push of
that frame, and the way to `Err()` it opens. `FramesBounded` (no more than two
frames on either stack), `ProgramsGoOn` and `WritableStackSuffices` hold for
buffers of any number of pages.

### File pages (`PartsProofs`)

The four ways of the code to fill a page are one operation with different
numbers, `Load`: n bytes at an offset of the page from a place in the file
(`StepLoads`). `Filled` says what it leaves in memory, `Serves` that these are all
bytes of the segment on that page; both are arithmetic with quotients and
remainders of the page size. `FillsStayConfined` holds for every segment: the first copy goes at most
`Spilled` bytes behind its page, which is less than a page (`SpillShort`), the
others stay in theirs, and from there `Copied` reaches every byte of memory.
`FileBytesLoaded` has `AsLinked` as its hypothesis, which excludes the
segments section 3 names, among them those that spill; for the others it is
inductive by itself over `FileInv`, since a load then changes no frame but its
own (`LoadKeeps`, `BytesStep`).

### Boot (`BootProofs`)

`BootInv` says for each point of the boot which translations may be in force,
where pc and sp point, which pages are mapped with which rights, and how many
pages the tables have used. `BootNeverLost` and `BootLeavesPages` follow for every
size of the kernel's sections. `RamSuffices` is the only hypothesis: memory
holds the firmware, the kernel, the arrays of the allocator, the tables and
the pages of `task_init`.

### Page allocator (`BuddyProofs`)

The inductive invariant is `BuddyInv`: the array is a `Tree`, and the frames
with users are the first frames of the blocks given out (`Counted`). `Tree` asks
of every inner node one of two things: its value follows from those of its
children, as `buddy_alloc` and `buddy_free` compute it; or it is 0 above two whole
children, where a block was taken and what is below was left as it was. `TakenTree` and
`FreedTree` show that taking a whole node and giving a taken one back keep this
and add or remove that one block, by comparing each node of the new array with its
position: on the path to the root, beside it, or elsewhere.

Four groups of lemmas carry the proof. The numbers: the sizes of nodes are the
divisors of `SIZE`, each the double of the next (`SizesHalve`, `SizesApart`;
`BuddyAssumption` says that no odd number but 1 divides `SIZE`). The shape: the
frames of two nodes are apart unless one is above the other (`Laminar`), and
every aligned range of such a size is a node (`EveryBlock`). The recursive
functions: `Recursion` gives a function for any recursion that descends in rank,
and the `CHOOSE` that TLA+ makes of a recursive definition is
shown to be one (`TakenIs`, `FreedIs`, `DescendIs`, `TakenAtIs`, `BootedIs`). What the
loops find: the way down from a node that knows of room ends at the first free
block (`DescendFinds`), the way up from the first frame of a block at the node
it was taken at (`TakenAtFinds`), and at boot the k-th `buddy_alloc(1)` takes
frame k - 1 (`NextFrame`).

`NothingForgotten` is `LongestExact` (`BitmapExact`). `PromiseKept` is the refinement
of `PageAllocator`, one lemma per action (`AllocMaps`, `FailMaps`, `GetMaps`,
`PutMaps`): the blocks the abstract allocator may give out are the free nodes
(`FreeBlocksAre`), and what is free below the root is counted there
(`FreeAbove`), so a request fails only if there is none. The only
assumption is `BuddyAssumption`: any power of two of frames, any number of them taken
at boot. `CowFork`'s use of the lowest free frame rests on this theorem.

### Page tables (`PageTableProofs`)

The invariant `WalkInv` gives every table one owner: `own` names, for each table
that has been handed out, the task and the one or two indices by which walks
come to it (`Shape`). The kernel's half of the root is the exception, owned by
`swapper_pg_dir` and the same for all. So an entry written for one page
(`EntryWritten`) is seen in no other page and, outside the kernel's half, by no
other task; a table made on the way is in nobody's walk (`MidMade`, `LeafMade`); and a
new root, a copy of `swapper_pg_dir`, brings the kernel's tables along
and no others (`RootCopied`). These say what `create_mapping`, `pte_entry_ret` and
`change_perm` do to all walks at once (`MappingCreated`, `RightsChanged`).
`WalkInv` also says that kernel pages are seen as `setup_vm_final` mapped them.

The two loops, of `setup_vm_final` and of `do_fork_cow`, are functions of a
page number; `Counting` (what holds at 0 and is kept from k to k + 1 holds up to
n, for a set in place of a predicate) takes the place of the induction
theorem that cannot be instantiated. `TablesStayPrivate` is `TablesPrivate`;
`WalksAreFunctions` is the refinement of `AddressSpaces`, one lemma per action
(`AbsentStep`, `UnshareStep`, `CopyStep`, `ForkViews`). The only assumption is
`PageTableAssumption`.

### VMA lists (`PartsProofs`)

`ListInv` says that each list is a sequence of nodes handed out: its head is
`mmap`, each node links to the next and back, each has the task's mm, and
none is on another list. `Prepended` adds one node in front
(`PrependedIsList`), during `load_program` (`FirstIsList`) and in every round
of a fork; `WalkIsList` shows that the bounded walk of `WellLinked` meets
exactly that sequence. `ListsWellLinked` is `WellLinked`.

`FindInv` adds what the lists hold: the areas of the program (`LoadedAreas`:
`load_program` makes one of each `PT_LOAD` header), and in the middle of a fork the
child has those of the first j nodes of its parent (`CopiedUpTo`), where the
loop of `do_fork_cow` stands. `SegmentsFound` is `FindsSegment`; it
assumes `AreasApart`, that no address lies in two areas of a program,
since the order of the list changes with each generation.

### Inline assembly (`PartsProofs`)

`CallsArrive` holds for every choice of registers: `AsmInv` says which
argument registers are loaded after each move, and that the operands still to
be moved are untouched. `ArgumentRegisters` is what the build must give:
`sbi_ecall` lists the registers it overwrites, so nothing is asked of it; the
block of `write` in `printf.c` lists none, and its operands must not lie in `a7`, `a0` or
`a1` (`-O0` takes `a2` to `a5`).

### User programs (`UserProgramProofs`)

The theorems hold for every set `Mains` of programs that are `Formed`
(`MainsFormed`), any number of tasks, any `Wrap` and any ticks. `Formed` looks
at one instruction and those that may follow it at a time: how many characters of
its line a program has in its buffer there (`Filled`), whether it holds its pid
(`KnowsPid`), on which side of the `if` it is (`ChildSide`, `ParentSide`), whether
a value is computed and not yet shown (`InLine`), and how many tasks may
still come of it (`Offspring`). TLC evaluates it for all six mains of
`main.c`. The scheduler's part of each invariant is `SchedInv`: a step of
`UserProgram` is one of `Sched` or leaves its variables alone (`KernelStep`).

`LineInv` ties each task's memory to its position: its buffer holds the first
`Filled` characters of a line in order, with its own pid; and the console holds, while
SYS_WRITE is at `i`, the first i characters of the buffer of the current task
(`ConsoleOK`). A task may be interrupted between any two of its steps, but no
other task writes its buffer and the kernel does not leave SYS_WRITE half-way.
`ProgramsTyped` (`TypeOK`) and `LinesComeOutWhole` (`LinesWhole`) follow.

`BranchesAreTaken` adds `SideInv`: the first task's `a0` is never 0, from the
address of the idle task at its start to the number of characters `printf`
leaves, and a task before the `if` behind a fork is the first one, or a child with
0. `TableSuffices` adds `FitInv`: the tasks there are and those that may still come
of them (a sum over all tasks) are no more than may come of the first; a fork
turns `Offspring` of one task into that of two, half as much each.

`TasksCountOn` is `CountsOn`. `CountInv` says what each task's variable holds in
terms of the value it has shown last: the one behind it, or, while a computed
value is on its way through the register, the buffer and the console
(`Carried`, `ToShow`), the one behind that. The child of a fork takes over its
parent's variable and what it has shown; a fork never comes while a value is
on its way (`ValueOnce`).

### The parts (`PartsProofs`)

`ProgramsGoOn`, `KernelNeverLost`, `FreePagesMapped`, `TablesKeptPrivate` and
`TablesAreFunctions` carry what is proved of each part to the properties of
`MCParts`, the module the run checks: the part that runs takes a step of its own,
all others stay `Off`.

### Only model-checked

* `EveryTaskRuns`, `EveryTaskPrints` and `WriteReturns`: liveness and ENABLED
  are out of the prover's reach.
* `TextExpected` of `Format`: the text that recursive operators compute for every
  flag, width and number is a fact about the structure of text.

## 5. Not modelled, and why

* What happens after a NULL page is used, or after `task[]` is overrun: the
  models stop there or say that it happens.
* `put_page` of a page nobody holds and `kfreerange`: nobody calls them so.
* `dummy`, `check_cow`, `csr_change`, `test`: dead code.
* The sequence `rand` produces (the first priority is any value of its range in
  `Sched`), `memset` but for what `buddy_init` clears, the bit patterns of
  page-table entries and instructions, the firmware.
* The types of `elf.h` no code uses, makefiles and `uapp.S`: no behaviour.
* Composition of `CowFork` with `UserProgram`: the programs see private
  memories, which is what `PrivateMemory` shows of `CowFork`.

## 6. Plan

Done: all components but those of section 5, and the proofs of the safety properties
of `CowFork`, `Sched`, `TrapFrame`, `NestedTrap`, `FilePage`, `Boot`, `Buddy`,
`PageTable`, `VmaList`, `InlineAsm` and `UserProgram`. What is left to TLC is
named at the end of section 4; whoever extends the project may replace `CowFork`'s
private memories in `UserProgram` by an instance of `ProcMem`, so that the programs'
variables are those of the memory model.

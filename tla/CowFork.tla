------------------------------ MODULE CowFork ------------------------------
(***************************************************************************)
(* Demand paging and copy-on-write fork: do_page_fault, do_fork_cow and    *)
(* the page-table and reference-count helpers they call (trap.c, mm.c).    *)
(*                                                                         *)
(* One hart runs the kernel.  A trap handler runs with sstatus.SIE clear   *)
(* and is never preempted, so each handler is one action; what interleaves *)
(* are the loads, stores and system calls of the user programs, and the    *)
(* hart's own use of its TLB: it may keep an entry it has cached until an  *)
(* sfence.vma, which is what makes the placement of the kernel's fences    *)
(* matter.                                                                 *)
(*                                                                         *)
(* A page-table entry is [frame, perm]; frame 0 stands for a clear V bit   *)
(* (pfn 0 is reserved at boot, buddy_alloc returns it for "no memory").    *)
(* perm holds the R, W, X bits: U and V are set in every user entry.       *)
(* The three-level walk is abstracted: a task's table is the function from *)
(* virtual pages to the leaf entries it computes.                          *)
(***************************************************************************)
EXTENDS Integers, FiniteSets, Sequences, SequencesExt

CONSTANTS
  PGSIZE,       \* bytes in a page
  NPages,       \* user virtual pages are 0 .. NPages - 1
  TableSpan,    \* entries of one page table (512 in Sv39)
  MaxFrame,     \* the page frames left free by the boot are 1 .. MaxFrame
  MaxTasks,     \* bound on nr_tasks: user programs fork no further than this
  LoadedVmas,   \* the VMA list load_program builds, head of the list first
  Data          \* values a user store can write

Perms  == {"R", "W", "X"}
Pages  == 0 .. NPages - 1
Frames == 1 .. MaxFrame
Pids   == 1 .. MaxTasks - 1

Vma == [vm_start : Nat, vm_end : Nat, flags : SUBSET Perms, anon : BOOLEAN]
Pte == [frame : Frames \cup {0}, perm : SUBSET Perms]

(* The segments the linker emits are readable, so page_cow, which copies a *)
(* page through the user's own mapping, never faults.                      *)
ASSUME CowForkAssumption ==
  /\ PGSIZE \in Nat \ {0}
  /\ NPages \in Nat \ {0}
  /\ TableSpan \in Nat \ {0}
  /\ MaxFrame \in Nat
  /\ MaxTasks \in Nat /\ MaxTasks > 1
  /\ LoadedVmas \in Seq(Vma)
  /\ \A k \in 1 .. Len(LoadedVmas) : "R" \in LoadedVmas[k].flags
  /\ Data \subseteq Nat

(* Page contents: what the boot left in the frame, page n of the program   *)
(* file, or a value stored by a user program.                              *)
Contents  == [kind : {"boot", "file", "user"}, tag : Int]
Boot      == [kind |-> "boot", tag |-> 0]
File(n)   == [kind |-> "file", tag |-> n]
Stored(d) == [kind |-> "user", tag |-> d]

VARIABLES
  current,    \* the running task
  nr_tasks,   \* task[1] .. task[nr_tasks - 1] are in use
  pgd,        \* pgd[p][g]: the leaf entry of task p's table for page g
  mm,         \* mm[p]: task p's list of VMAs
  tlb,        \* the translations of the running task the hart has cached
  ref_cnt,    \* buddy.ref_cnt of the frames given to user pages
  mem,        \* mem[f]: what frame f holds
  kernel      \* "running", or why the kernel no longer makes progress

vars == <<current, nr_tasks, pgd, mm, tlb, ref_cnt, mem, kernel>>

-----------------------------------------------------------------------------
(* Page tables and the TLB *)

NoPte    == [frame |-> 0, perm |-> {}]
Valid(e) == e.frame # 0
NoMap    == [g \in Pages |-> NoPte]

(* sfence.vma zero, zero: every cached translation is dropped. *)
Forgotten == tlb
SfenceVma == NoMap

PageOf(a) == a \div PGSIZE

Present(p) == {g \in Pages : Valid(pgd[p][g])}

(* The entry the hart uses for an access: a cached one if there is one. *)
Translate(g) == IF Valid(tlb[g]) THEN tlb[g] ELSE pgd[current][g]

Writable(e) == [e EXCEPT !.perm = @ \cup {"W"}]

(* pte_entry_ret clears bit 2 of the entry it returns and stores back. *)
WrongBit(e) == [e EXCEPT !.perm = @ \ {"X"}]
ReadOnly(e) == [e EXCEPT !.perm = @ \ {"W"}]

-----------------------------------------------------------------------------
(* VMAs *)

Holds(v, a) == v.vm_start <= a /\ a < v.vm_end

(* find_vma: the first VMA of the list that holds address a, or none. *)
HasVma(l, a) == \E k \in 1 .. Len(l) : Holds(l[k], a)
find_vma(l, a) ==
  l[CHOOSE k \in 1 .. Len(l) :
      /\ Holds(l[k], a)
      /\ \A j \in 1 .. k - 1 : ~Holds(l[j], a)]

(* The pages do_fork_cow visits for a VMA.  The loop runs while            *)
(* addr <= PGROUNDDOWN(vm_end), so a page-aligned vm_end adds the page     *)
(* after the VMA.                                                          *)
LastPageMissed(v) ==
  {g \in Pages : PageOf(v.vm_start) <= g /\ g < PageOf(v.vm_end)}
ForkRange(v) ==
  {g \in Pages : PageOf(v.vm_start) <= g /\ g <= PageOf(v.vm_end)}

Addresses == 0 .. NPages * PGSIZE - 1

(* What the theorems ask of the way a program is laid out, where segments  *)
(* meet inside a page: that both fill the page alike (the page is one page *)
(* of the file, whichever segment is touched first), that both grant the   *)
(* same rights; and that the loop of fork visits no page twice.            *)
Touches(v, g) == \E a \in Addresses : PageOf(a) = g /\ Holds(v, a)
Fill(v, g)    == IF v.anon THEN Boot ELSE File(g - PageOf(v.vm_start))
OneSource(l) ==
  \A j, k \in 1 .. Len(l), g \in Pages :
    Touches(l[j], g) /\ Touches(l[k], g) => Fill(l[j], g) = Fill(l[k], g)
OneRights(l) ==
  \A j, k \in 1 .. Len(l), g \in Pages :
    Touches(l[j], g) /\ Touches(l[k], g) => l[j].flags = l[k].flags
RangesApart(l) ==
  \A j, k \in 1 .. Len(l) : j # k => ForkRange(l[j]) \cap ForkRange(l[k]) = {}

-----------------------------------------------------------------------------
(* Page frames.  buddy_alloc(1) descends to the left whenever the left     *)
(* half has room, so alloc_page takes the lowest free frame.  The frames   *)
(* kalloc gives to kernel objects keep their count of 1 for good and no    *)
(* user entry maps them: they are counted by the objects that exist, and   *)
(* ref_cnt tells only of the frames given to user pages.                   *)

(* Page-table pages (PTE and PMD level) the walk needs to reach pages S. *)
LowerTables(S) ==
  ({"PTE"} \X {g \div TableSpan : g \in S})
    \cup ({"PMD"} \X {g \div (TableSpan * TableSpan) : g \in S})
Tables(S) == Cardinality(LowerTables(S))

(* A forked task owns its task page, a root table and its VMAs; those of   *)
(* task 1 were allocated at boot.  Every task owns its lower tables.       *)
Objects(p) == IF p = 1 THEN {} ELSE ({"task", "root"} \X {0}) \cup ({"VMA"} \X (1 .. Len(mm[p])))
KernelObjects ==
  UNION {{p} \X (LowerTables(Present(p)) \cup Objects(p)) : p \in 1 .. nr_tasks - 1}
KernelFrames == Cardinality(KernelObjects)

Unused == {f \in Frames : ref_cnt[f] = 0}

Available == Cardinality(Unused) - KernelFrames

LowestFree == {f \in Unused : \A h \in Unused : f <= h}

(* get_page, n times, on a frame with count c: a frame nobody holds stays. *)
CountForgotten(c, n) == c
GetPage(c, n) == IF c = 0 THEN 0 ELSE c + n

(* put_page: page_ref_dec does not go below zero; at zero the frame is     *)
(* handed back to the buddy allocator, that is, it is free again.          *)
PutForgotten(c) == c
PutPage(c) == IF c > 0 THEN c - 1 ELSE 0

(* get_page_refcnt(...) == 1: no other entry maps the frame. *)
NeverAlone(c) == FALSE
OnlyUser(c) == c = 1

-----------------------------------------------------------------------------
Init ==
  /\ current = 1
  /\ nr_tasks = 2
  /\ pgd = [p \in Pids |-> NoMap]
  /\ mm = [p \in Pids |-> IF p = 1 THEN LoadedVmas ELSE <<>>]
  /\ tlb = NoMap
  /\ ref_cnt = [f \in Frames |-> 0]
  /\ mem = [f \in Frames |-> Boot]
  /\ kernel = "running"

(* schedule() scans task[1] .. task[nr_tasks - 1]. *)
ScanTooFar == 1 .. nr_tasks
Runnable   == 1 .. nr_tasks - 1

(* The scheduler runs another task; __switch_to loads satp and fences. *)
SwitchTo(q) ==
  /\ kernel = "running"
  /\ q \in Runnable /\ q # current
  /\ current' = q
  /\ tlb' = SfenceVma
  /\ UNCHANGED <<nr_tasks, pgd, mm, ref_cnt, mem, kernel>>

(* The hart caches a valid entry of the running task's table, on an access *)
(* or on a speculative walk, and may drop a cached one at any time.        *)
CacheEntry(g) ==
  /\ kernel = "running"
  /\ Valid(pgd[current][g])
  /\ tlb' = [tlb EXCEPT ![g] = pgd[current][g]]
  /\ UNCHANGED <<current, nr_tasks, pgd, mm, ref_cnt, mem, kernel>>

EvictEntry(g) ==
  /\ kernel = "running"
  /\ tlb' = [tlb EXCEPT ![g] = NoPte]
  /\ UNCHANGED <<current, nr_tasks, pgd, mm, ref_cnt, mem, kernel>>

(* A user store that translates.  (Loads change nothing.) *)
Store(g, d) ==
  /\ kernel = "running"
  /\ "W" \in Translate(g).perm
  /\ mem' = [mem EXCEPT ![Translate(g).frame] = Stored(d)]
  /\ UNCHANGED <<current, nr_tasks, pgd, mm, tlb, ref_cnt, kernel>>

-----------------------------------------------------------------------------
(* do_page_fault.  Faults(a, acc) is what the hardware checks before it    *)
(* traps; each of the actions below is one path through the handler.       *)

Faults(a, acc) ==
  /\ kernel = "running"
  /\ acc \notin Translate(PageOf(a)).perm

(* No VMA: Err() prints and spins with interrupts off. *)
FaultNoVma(a, acc) ==
  /\ Faults(a, acc)
  /\ ~HasVma(mm[current], a)
  /\ kernel' = "spinning"
  /\ UNCHANGED <<current, nr_tasks, pgd, mm, tlb, ref_cnt, mem>>

(* Tables the walk of create_mapping has to allocate to reach page g. *)
NewTables(g) == Tables(Present(current) \cup {g}) - Tables(Present(current))

(* A VMA but no entry: get a frame, fill it from the file unless the VMA   *)
(* is anonymous (an anonymous frame is used as it is), and map it with the *)
(* rights of the VMA, allocating the page tables the walk is missing.      *)
AbsentFault(a, acc) ==
  /\ Faults(a, acc)
  /\ HasVma(mm[current], a)
  /\ ~Valid(pgd[current][PageOf(a)])

FaultAbsent(a, acc) ==
  LET g == PageOf(a)
      v == find_vma(mm[current], a)
  IN
  /\ AbsentFault(a, acc)
  /\ Available >= 1 + NewTables(g)
  /\ \E f \in LowestFree :
       /\ pgd' = [pgd EXCEPT ![current][g] = [frame |-> f, perm |-> v.flags]]
       /\ ref_cnt' = [ref_cnt EXCEPT ![f] = 1]
       /\ mem' = IF v.anon THEN mem
                 ELSE [mem EXCEPT ![f] = File(g - PageOf(v.vm_start))]
  /\ UNCHANGED <<current, nr_tasks, mm, tlb, kernel>>

(* An entry without W in a writable VMA: a copy-on-write page. *)
CowFault(a, acc) ==
  /\ Faults(a, acc)
  /\ HasVma(mm[current], a)
  /\ Valid(pgd[current][PageOf(a)])
  /\ "W" \in find_vma(mm[current], a).flags
  /\ "W" \notin pgd[current][PageOf(a)].perm

(* The frame is not shared (any more): change_perm sets W and fences. *)
FaultUnshare(a, acc) ==
  LET g == PageOf(a) IN
  /\ CowFault(a, acc)
  /\ OnlyUser(ref_cnt[pgd[current][g].frame])
  /\ pgd' = [pgd EXCEPT ![current][g] = Writable(@)]
  /\ tlb' = SfenceVma
  /\ UNCHANGED <<current, nr_tasks, mm, ref_cnt, mem, kernel>>

(* The frame is shared: page_cow copies it through the user's own          *)
(* translation, drops one reference, maps the copy writable and fences.    *)
FaultCopy(a, acc) ==
  LET g   == PageOf(a)
      old == pgd[current][g].frame
  IN
  /\ CowFault(a, acc)
  /\ ~OnlyUser(ref_cnt[old])
  /\ Available >= 1
  /\ \E f \in LowestFree :
       /\ mem' = [mem EXCEPT ![f] = mem[Translate(g).frame]]
       /\ ref_cnt' = [ref_cnt EXCEPT ![f] = 1, ![old] = PutPage(ref_cnt[old])]
       /\ pgd' = [pgd EXCEPT ![current][g] =
                    [frame |-> f, perm |-> @.perm \cup {"W"}]]
  /\ tlb' = SfenceVma
  /\ UNCHANGED <<current, nr_tasks, mm, kernel>>

(* A page that is mapped and not copy-on-write: the handler does nothing   *)
(* and the faulting instruction is executed again.                         *)
FaultIgnored(a, acc) ==
  /\ Faults(a, acc)
  /\ HasVma(mm[current], a)
  /\ Valid(pgd[current][PageOf(a)])
  /\ ~CowFault(a, acc)
  /\ UNCHANGED vars

-----------------------------------------------------------------------------
(* do_fork_cow, reached from syscall() with SYS_CLONE.  The child gets a   *)
(* task page, a root table, a copy of each VMA (add_mmap prepends, so the  *)
(* list is reversed) and the page tables for the pages it shares.  For     *)
(* every VMA and every page of its range with a valid entry, W is cleared  *)
(* in the parent (pte_entry_ret), the frame is counted once more           *)
(* (get_page) and the entry is copied to the child.                        *)

Shared(p) ==
  {g \in Present(p) : \E k \in 1 .. Len(mm[p]) : g \in ForkRange(mm[p][k])}

(* The (VMA, page) pairs for which the loop calls get_page on frame f. *)
Visits(p, f) ==
  {kg \in (1 .. Len(mm[p])) \X Pages :
     /\ kg[2] \in ForkRange(mm[p][kg[1]])
     /\ pgd[p][kg[2]].frame = f}

ForkNeed(p) == 2 + Len(mm[p]) + Tables(Shared(p))

Fork ==
  LET p == current
      c == nr_tasks
  IN
  /\ kernel = "running"
  /\ nr_tasks < MaxTasks
  /\ Available >= ForkNeed(p)
  /\ pgd' = [pgd EXCEPT
       ![p] = [g \in Pages |-> IF g \in Shared(p) THEN ReadOnly(pgd[p][g])
                                                  ELSE pgd[p][g]],
       ![c] = [g \in Pages |-> IF g \in Shared(p) THEN ReadOnly(pgd[p][g])
                                                  ELSE NoPte]]
  /\ mm' = [mm EXCEPT ![c] = Reverse(mm[p])]
  /\ ref_cnt' = [f \in Frames |-> GetPage(ref_cnt[f], Cardinality(Visits(p, f)))]
  /\ nr_tasks' = nr_tasks + 1
  /\ tlb' = SfenceVma
  /\ UNCHANGED <<current, mem, kernel>>

-----------------------------------------------------------------------------
(* alloc_page returns NULL when the allocator is exhausted and no caller   *)
(* looks: what the kernel does from then on is not modelled.               *)

AbsentOutOfFrames(a, acc) ==
  /\ AbsentFault(a, acc)
  /\ Available < 1 + NewTables(PageOf(a))
  /\ kernel' = "null"
  /\ UNCHANGED <<current, nr_tasks, pgd, mm, tlb, ref_cnt, mem>>

CopyOutOfFrames(a, acc) ==
  /\ CowFault(a, acc)
  /\ ~OnlyUser(ref_cnt[pgd[current][PageOf(a)].frame])
  /\ Available < 1
  /\ kernel' = "null"
  /\ UNCHANGED <<current, nr_tasks, pgd, mm, tlb, ref_cnt, mem>>

ForkOutOfFrames ==
  /\ kernel = "running"
  /\ nr_tasks < MaxTasks
  /\ Available < ForkNeed(current)
  /\ kernel' = "null"
  /\ UNCHANGED <<current, nr_tasks, pgd, mm, tlb, ref_cnt, mem>>

PageFault(a, acc) ==
  \/ FaultNoVma(a, acc)
  \/ FaultAbsent(a, acc)
  \/ AbsentOutOfFrames(a, acc)
  \/ FaultUnshare(a, acc)
  \/ FaultCopy(a, acc)
  \/ CopyOutOfFrames(a, acc)
  \/ FaultIgnored(a, acc)

Next ==
  \/ \E q \in Pids : SwitchTo(q)
  \/ \E g \in Pages : CacheEntry(g)
  \/ \E g \in Pages : EvictEntry(g)
  \/ \E g \in Pages, d \in Data : Store(g, d)
  \/ \E a \in Addresses, acc \in Perms : PageFault(a, acc)
  \/ Fork
  \/ ForkOutOfFrames

Spec == Init /\ [][Next]_vars

-----------------------------------------------------------------------------
(* Invariants *)

(* Every variable has its type: in particular schedule() never picks a     *)
(* slot of task[] past nr_tasks - 1.                                       *)
TypeOK ==
  /\ nr_tasks \in 2 .. MaxTasks
  /\ current \in 1 .. nr_tasks - 1
  /\ pgd \in [Pids -> [Pages -> Pte]]
  /\ mm \in [Pids -> Seq(Vma)]
  /\ tlb \in [Pages -> Pte]
  /\ ref_cnt \in [Frames -> Nat]
  /\ mem \in [Frames -> Contents]
  /\ kernel \in {"running", "spinning", "null"}

(* The entries, of all tasks' tables t, that map frame f. *)
MappedBy(t, f) == {pg \in Pids \X Pages : t[pg[1]][pg[2]].frame = f}

(* No frame is mapped by more entries than its reference count says: a     *)
(* frame is never freed by put_page, nor made writable by change_perm,     *)
(* under another entry that still uses it.                                 *)
RefCountCovers ==
  \A f \in Frames : Cardinality(MappedBy(pgd, f)) <= ref_cnt[f]

(* Copy-on-write: an entry with W is the only entry that maps its frame,   *)
(* whatever forks, faults and switches came before.                        *)
SoleWriter ==
  \A p, q \in Pids, g, h \in Pages :
    /\ Valid(pgd[p][g])
    /\ "W" \in pgd[p][g].perm
    /\ pgd[q][h].frame = pgd[p][g].frame
    => q = p /\ h = g

(* What the hart has cached for the running task never grants more than    *)
(* its table: the same frame, and no right the table does not give.  It is *)
(* the fences of do_fork_cow, page_cow and __switch_to that keep this.     *)
TlbCoherent ==
  \A g \in Pages : Valid(tlb[g]) =>
    /\ tlb[g].frame = pgd[current][g].frame
    /\ tlb[g].perm \subseteq pgd[current][g].perm

(* When no VMA ends on the page another VMA lies on, the count is exact: a *)
(* frame has one reference per entry.  So no frame is leaked, and the last *)
(* user of a frame is recognised as such by do_page_fault.                 *)
RefCountExact ==
  \A f \in Frames : ref_cnt[f] = Cardinality(MappedBy(pgd, f))

(* What an eager fork of MaxTasks - 1 tasks would need: a frame for every  *)
(* page of the program and a full set of page tables in every task, and    *)
(* the kernel objects of every task but the first.                         *)
ProgramPages ==
  {g \in Pages : \E k \in 1 .. Len(LoadedVmas) : g \in ForkRange(LoadedVmas[k])}
FramesSuffice ==
  MaxFrame >= (MaxTasks - 1) * (Cardinality(ProgramPages) + Tables(ProgramPages))
                + (MaxTasks - 2) * (2 + Len(LoadedVmas))

(* The free frames suffice: copy-on-write and the kernel objects of forks  *)
(* never need more than an eager fork of MaxTasks - 1 tasks would, however *)
(* forks, faults and switches alternate.                                   *)
NeverOutOfFrames == kernel # "null"

(* Every frame alloc_page can still hand out is as the boot left it: the   *)
(* clearing of pages is commented out in kalloc (mm.c), whose callers take *)
(* it for granted that a new page table has no valid entry.  It holds      *)
(* because no frame is ever handed out twice, put_page notwithstanding.    *)
FreshFramesClean == \A f \in Unused : mem[f] = Boot

(* A fault the handler serves is served for good: if the VMA grants the    *)
(* access, the instruction that faulted goes through when it is repeated,  *)
(* with the table and the cached translations the handler leaves behind.   *)
FaultServed(a, acc) ==
  /\ FaultAbsent(a, acc) \/ FaultUnshare(a, acc) \/ FaultCopy(a, acc)
  /\ acc \in find_vma(mm[current], a).flags
  => acc \in Translate(PageOf(a)).perm'
FaultResolved == [][\A a \in Addresses, acc \in Perms : FaultServed(a, acc)]_vars

-----------------------------------------------------------------------------
(* do_fork_cow is indistinguishable from the eager do_fork. *)

Image == [g \in Pages |->
  LET fileVmas == {k \in 1 .. Len(LoadedVmas) :
                     ~LoadedVmas[k].anon /\ Touches(LoadedVmas[k], g)}
  IN  IF fileVmas = {} THEN Boot
      ELSE File(g - PageOf(LoadedVmas[CHOOSE k \in fileVmas : TRUE].vm_start))]

View(p, g) == IF Valid(pgd[p][g]) THEN mem[pgd[p][g].frame] ELSE Image[g]

Private == INSTANCE ProcMem WITH
  Stores <- {Stored(d) : d \in Data},
  memory <- [p \in Pids |-> [g \in Pages |->
               IF p < nr_tasks THEN View(p, g) ELSE Image[g]]]

(* Each task finds in its memory what its own stores put there, and what   *)
(* its parent had stored before the fork.                                  *)
PrivateMemory == Private!Spec
=============================================================================

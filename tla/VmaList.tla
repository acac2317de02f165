------------------------------- MODULE VmaList -------------------------------
(***************************************************************************)
(* The lists of memory areas as the kernel keeps them: nodes with vm_next, *)
(* vm_prev and vm_mm, built by load_program and do_mmap (proc.c) from the  *)
(* program headers, and copied node by node by do_fork_cow with add_mmap   *)
(* (trap.c), one node per step of its loop.                                *)
(*                                                                         *)
(* Nodes are numbered as kalloc hands them out.                            *)
(***************************************************************************)
EXTENDS Integers, Sequences, SequencesExt

CONSTANTS
  MaxTasks,    \* bound: tasks are 1 .. MaxTasks - 1
  MaxNodes,    \* bound: nodes
  Images,      \* contents of _sramdisk to consider, see Elf64_Image
  StackArea,   \* the area of the stack, below USER_END
  Addresses    \* addresses a fault may name

PT_TYPES == 0 .. 8                  \* PT_NULL .. PT_NUM
PT_LOAD  == 1
Null    == 0
Nodes   == 1 .. MaxNodes
Pids    == 1 .. MaxTasks - 1

(* PF_X, PF_W and PF_R become VM_EXEC, VM_WRITE and VM_READ. *)
PF == {"X", "W", "R"}
Elf64_Phdr == [p_type : PT_TYPES, p_flags : SUBSET PF,
               p_paddr : Nat, p_memsz : Nat]
Area(phdr) == [vm_start |-> phdr.p_paddr, vm_end |-> phdr.p_paddr + phdr.p_memsz,
               vm_flags |-> phdr.p_flags]

(* The program headers begin at e_phoff, counted in headers here; what is  *)
(* before and behind them in the image may look like headers, too.         *)
Elf64_Ehdr  == [e_phoff : Nat \ {0}, e_phnum : Nat]
Elf64_Image == {r \in [ehdr : Elf64_Ehdr, phdr : Seq(Elf64_Phdr)] :
                  r.ehdr.e_phoff + r.ehdr.e_phnum <= Len(r.phdr) + 1}

VARIABLES
  ramdisk,   \* _sramdisk
  mmap,      \* mmap[p]: the head of task p's list
  node,      \* node[n]: area and links of node n
  used,      \* number of nodes handed out
  nr_tasks,
  cursor     \* do_fork_cow's loop: <<parent, vma>>, or <<0, Null>> outside it

vars == <<ramdisk, mmap, node, used, nr_tasks, cursor>>

Free == [area |-> StackArea, vm_next |-> Null, vm_prev |-> Null, vm_mm |-> 0]

-----------------------------------------------------------------------------
(* add_mmap, and the same lines in do_mmap: node n with area a becomes the *)
(* head of list p.  l is [head, node].                                     *)
BackLink(nodes, prev, n) ==
  IF prev = Null THEN nodes ELSE [nodes EXCEPT ![prev].vm_prev = n]
Prepended(l, p, n, a) ==
  LET prev == l.head[p] IN
  [head |-> [l.head EXCEPT ![p] = n],
   node |-> [BackLink(l.node, prev, n) EXCEPT
               ![n] = [area |-> a, vm_next |-> prev, vm_prev |-> Null, vm_mm |-> p]]]

(* load_program: one area for each PT_LOAD header, then the stack. *)
Loaded(r) ==
  LET seen[k \in 0 .. r.ehdr.e_phnum] ==   \* the areas of the first k headers
        IF k = 0 THEN <<>>
        ELSE LET phdr == r.phdr[r.ehdr.e_phoff + k - 1] IN
             IF phdr.p_type = PT_LOAD THEN Append(seen[k - 1], Area(phdr)) ELSE seen[k - 1]
  IN  Append(seen[r.ehdr.e_phnum], StackArea)

VmaListAssumption ==
  /\ MaxTasks \in Nat \ {0, 1} /\ MaxNodes \in Nat
  /\ Images \subseteq Elf64_Image
  /\ \A r \in Images : Len(Loaded(r)) \in 1 .. MaxNodes

(* No page has been handed out: task_init does not set mm.mmap, it is zero  *)
(* because the page of the task has never been written (FreshFramesClean). *)
NoLists == [head |-> [p \in Pids |-> Null], node |-> [n \in Nodes |-> Free]]
FirstLists(areas) ==
  LET built[k \in 0 .. Len(areas)] ==
        IF k = 0 THEN NoLists ELSE Prepended(built[k - 1], 1, k, areas[k])
  IN  built[Len(areas)]

Init ==
  /\ ramdisk \in Images
  /\ LET areas == Loaded(ramdisk)
         l == FirstLists(areas)
     IN  mmap = l.head /\ node = l.node /\ used = Len(areas)
  /\ nr_tasks = 2
  /\ cursor = <<0, Null>>

(* do_fork_cow of task p begins: the child's mm is copied with the task    *)
(* page, then its list is emptied.                                         *)
CopiedHead(p) == mmap[p]
ChildHead(p)  == Null
ForkBegins(p) ==
  /\ cursor[1] = 0 /\ nr_tasks < MaxTasks
  /\ mmap' = [mmap EXCEPT ![nr_tasks] = ChildHead(p)]
  /\ cursor' = <<p, mmap[p]>>
  /\ UNCHANGED <<ramdisk, node, used, nr_tasks>>

(* One round: a new node, a copy of the parent's, is put at the head.      *)
LastReached(n) == n = Null \/ node[n].vm_next = Null
AllCopied(n) == n = Null
ForkCopies ==
  LET n == used + 1
      l == Prepended([head |-> mmap, node |-> node], nr_tasks, n, node[cursor[2]].area)
  IN
  /\ cursor[1] # 0 /\ ~AllCopied(cursor[2])
  /\ n \in Nodes
  /\ used' = n /\ mmap' = l.head /\ node' = l.node
  /\ cursor' = <<cursor[1], node[cursor[2]].vm_next>>
  /\ UNCHANGED <<ramdisk, nr_tasks>>

ForkEnds ==
  /\ cursor[1] # 0 /\ AllCopied(cursor[2])
  /\ nr_tasks' = nr_tasks + 1
  /\ cursor' = <<0, Null>>
  /\ UNCHANGED <<ramdisk, mmap, node, used>>

Next == (\E p \in 1 .. nr_tasks - 1 : ForkBegins(p)) \/ ForkCopies \/ ForkEnds

Spec == Init /\ [][Next]_vars

-----------------------------------------------------------------------------
(* The nodes one meets from the head on, at most MaxNodes of them. *)
Walk(p) ==
  LET step[k \in 0 .. MaxNodes] ==
        IF k = 0 THEN <<>>
        ELSE LET w == step[k - 1]
                 n == IF w = <<>> THEN mmap[p] ELSE node[Last(w)].vm_next
             IN  IF n = Null THEN w ELSE Append(w, n)
  IN  step[MaxNodes]

(* find_vma of task p: the first area in list order, or none. *)
Holds(a, x) == a.vm_start <= x /\ x < a.vm_end
find_vma(p, x) ==
  LET w    == Walk(p)
      hits == {k \in 1 .. Len(w) : Holds(node[w[k]].area, x)}
  IN  {node[w[k]].area : k \in {k \in hits : \A j \in hits : k <= j}}

(* The lists are well linked at every point of a fork: vm_prev is the      *)
(* inverse of vm_next, every node belongs to the mm it is reached from,    *)
(* and no node is on two lists ("DEEP COPY", trap.c:340).                  *)
WellLinked ==
  \A p \in 1 .. nr_tasks - (IF cursor[1] = 0 THEN 1 ELSE 0) :
    LET w == Walk(p) IN
    \A k \in 1 .. Len(w) :
      /\ node[w[k]].vm_mm = p
      /\ node[w[k]].vm_prev = (IF k = 1 THEN Null ELSE w[k - 1])

(* The areas of the program r. *)
Indices(ehdr) == ehdr.e_phoff .. ehdr.e_phoff + ehdr.e_phnum - 1
Segments(r) == {Area(r.phdr[k]) : k \in {k \in Indices(r.ehdr) : r.phdr[k].p_type = PT_LOAD}}
ProgramAreas(r) == Segments(r) \cup {StackArea}

(* What the linker sees to: no address lies in two of them. *)
AreasApart ==
  \A r \in Images : \A a, b \in ProgramAreas(r), x \in Addresses :
    Holds(a, x) /\ Holds(b, x) => a = b

(* Whatever address faults, and however many forks a task is away from the *)
(* first one (each reverses the list), find_vma returns the area of the    *)
(* segment the program has there, or none.                                 *)
FindsSegment ==
  \A p \in 1 .. nr_tasks - 1, x \in Addresses :
    find_vma(p, x) = {a \in ProgramAreas(ramdisk) : Holds(a, x)}
=============================================================================

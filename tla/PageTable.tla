------------------------------ MODULE PageTable ------------------------------
(***************************************************************************)
(* Three-level page tables: create_mapping and setup_vm_final (vm.c),      *)
(* check_load, pte_entry_ret, change_perm and what do_page_fault, page_cow *)
(* and do_fork_cow (trap.c) do with them.  Every task has a root table     *)
(* that starts as a copy of swapper_pg_dir: the tables of the kernel's     *)
(* half are shared by all tasks, those of the user's half must not be.     *)
(*                                                                         *)
(* A table has Radix entries (512 in Sv39) of a page number and the bits   *)
(* V R W X U.  Page numbers of tables are given out in sequence; a table   *)
(* from kalloc has no valid entry (CowFork!FreshFramesClean).              *)
(***************************************************************************)
EXTENDS Integers, FiniteSets

CONSTANTS
  Radix,         \* entries of a table
  UserPages, KernelPages,  \* virtual page numbers
  KernelEntry(_),\* what setup_vm_final maps a kernel page to
  Frames,        \* page numbers of user pages
  Rights,        \* rights VMAs grant: sets of "R", "W" and "X"
  MaxTasks,      \* bound on the number of forks
  MaxTables      \* bound: table pages

Indices == 0 .. Radix - 1
Span    == Radix * Radix * Radix \* virtual pages: 0 .. Span - 1
Tasks   == 0 .. MaxTasks - 1
Swapper == 0                     \* swapper_pg_dir as the table of no task

NoEntry  == [ppn |-> 0, perm |-> {}]
Valid(e) == "V" \in e.perm
NoTable  == [i \in Indices |-> NoEntry]

(* The user's and the kernel's pages differ in the index of the root table: *)
(* USER_END and VM_START are multiples of the span of a root entry.         *)
VPN2(g) == g \div (Radix * Radix)
VPN1(g) == (g \div Radix) % Radix
VPN0(g) == g % Radix

VARIABLES
  root,      \* root[t]: the number of task t's root table, 0: no such task
  ram        \* the tables, by number, and the number of the next one

vars == <<root, ram>>

-----------------------------------------------------------------------------
(* kalloc of a table, entered at index i of table n. *)
WithTable(m, n, i) ==
  [tab  |-> [m.tab EXCEPT ![n][i] = [ppn |-> m.next, perm |-> {"V"}]],
   next |-> m.next + 1]

(* create_mapping for one page: tables the walk lacks are made. *)
Reached(m, n, i) == IF Valid(m.tab[n][i]) THEN m ELSE WithTable(m, n, i)
create_mapping(m, pgd, g, e) ==
  LET m2  == Reached(m, pgd, VPN2(g))
      pmd == m2.tab[pgd][VPN2(g)].ppn
      m1  == Reached(m2, pmd, VPN1(g))
      pte == m1.tab[pmd][VPN1(g)].ppn
  IN  [m1 EXCEPT !.tab[pte][VPN0(g)] = e]

(* The place of the entry for page g: <<table, index>>.  pte_entry_ret and *)
(* change_perm walk there without looking at V.                            *)
Place(m, pgd, g) ==
  LET pmd == m.tab[pgd][VPN2(g)].ppn IN <<m.tab[pmd][VPN1(g)].ppn, VPN0(g)>>

check_load(m, pgd, g) ==
  IF ~Valid(m.tab[pgd][VPN2(g)]) THEN NoEntry
  ELSE LET pmd == m.tab[pgd][VPN2(g)].ppn IN
       IF ~Valid(m.tab[pmd][VPN1(g)]) THEN NoEntry
       ELSE LET e == m.tab[m.tab[pmd][VPN1(g)].ppn][VPN0(g)] IN
            IF Valid(e) THEN e ELSE NoEntry

WithPerm(m, pgd, g, perm) ==
  [m EXCEPT !.tab[Place(m, pgd, g)[1]][Place(m, pgd, g)[2]].perm = perm]
pte_entry_ret(m, pgd, g) == WithPerm(m, pgd, g, check_load(m, pgd, g).perm \ {"W"})
change_perm(m, pgd, g) == WithPerm(m, pgd, g, check_load(m, pgd, g).perm \cup {"W"})

Present(m, pgd) == {g \in UserPages : Valid(check_load(m, pgd, g))}

(* The bound MaxTables is a guard of every action that makes tables. *)
Fits(m) == m.next <= MaxTables + 1

-----------------------------------------------------------------------------
(* setup_vm_final maps the kernel, task_init copies the root for task 1. *)
Empty == [tab |-> [n \in 1 .. MaxTables |-> NoTable], next |-> 2]
KernelTables ==
  LET made[k \in 0 .. Span] ==   \* the kernel's pages below k
        IF k = 0 THEN Empty
        ELSE IF k - 1 \in KernelPages
          THEN create_mapping(made[k - 1], 1, k - 1, KernelEntry(k - 1))
          ELSE made[k - 1]
  IN  made[Span]

PageTableAssumption ==
  /\ Radix \in Nat \ {0} /\ MaxTasks \in Nat \ {0, 1} /\ MaxTables \in Nat
  /\ UserPages \cup KernelPages \subseteq 0 .. Span - 1
  /\ \A g \in UserPages, h \in KernelPages : VPN2(g) # VPN2(h)
  /\ \A h \in KernelPages : Valid(KernelEntry(h))
  /\ KernelTables.next <= MaxTables

(* A root table for a new task: every byte of swapper_pg_dir. *)
ParentsRoot(m, pgd) == m.tab[pgd]
SwapperRoot(m, pgd) == m.tab[root[Swapper]]
WithRoot(m, table) == [tab |-> [m.tab EXCEPT ![m.next] = table], next |-> m.next + 1]

Init ==
  /\ root = [t \in Tasks |-> IF t = Swapper THEN 1
                             ELSE IF t = 1 THEN KernelTables.next ELSE 0]
  /\ ram = WithRoot(KernelTables, KernelTables.tab[1])

(* do_page_fault, no entry: the frame f from alloc_page is mapped. *)
FaultAbsent(t, g, f, perm) ==
  LET m == create_mapping(ram, root[t], g, [ppn |-> f, perm |-> perm \cup {"U", "V"}])
  IN
  /\ g \notin Present(ram, root[t])
  /\ Fits(m) /\ ram' = m
  /\ UNCHANGED root

(* do_page_fault, last user of the frame: pte_entry_ret, then change_perm. *)
FaultUnshare(t, g) ==
  /\ g \in Present(ram, root[t])
  /\ ram' = change_perm(pte_entry_ret(ram, root[t], g), root[t], g)
  /\ UNCHANGED root

(* page_cow: the entry is overwritten with the copy in frame f; its rights *)
(* were read before pte_entry_ret took W away.                             *)
FaultCopy(t, g, f) ==
  LET e == [ppn |-> f, perm |-> check_load(ram, root[t], g).perm \cup {"W"}] IN
  /\ g \in Present(ram, root[t])
  /\ ram' = create_mapping(pte_entry_ret(ram, root[t], g), root[t], g, e)
  /\ UNCHANGED root

(* do_fork_cow: for every page the parent has, clear W and map the same    *)
(* entry for the child.                                                    *)
ReadFirst(m, p, c, g) ==
  create_mapping(pte_entry_ret(m, p, g), c, g, check_load(m, p, g))
Share(m, p, c, g) ==
  LET m2 == pte_entry_ret(m, p, g) IN create_mapping(m2, c, g, check_load(m2, p, g))
ShareAll(p, c) ==
  LET done[k \in 0 .. Span] ==   \* the pages below k
        IF k = 0 THEN WithRoot(ram, SwapperRoot(ram, p))
        ELSE IF k - 1 \in Present(ram, p) THEN Share(done[k - 1], p, c, k - 1)
        ELSE done[k - 1]
  IN  done[Span]
Fork(t, c) ==
  LET p  == root[t]
      c0 == ram.next
  IN
  /\ c \in Tasks /\ root[c] = 0 /\ \A b \in 1 .. c - 1 : root[b] # 0
  /\ ram.next + 1 + 2 * Cardinality(Present(ram, p)) <= MaxTables
  /\ root' = [root EXCEPT ![c] = c0]
  /\ ram' = ShareAll(p, c0)

Next ==
  \E t \in Tasks \ {Swapper} :
    /\ root[t] # 0
    /\ \/ \E g \in UserPages, f \in Frames :
            \/ \E perm \in Rights : FaultAbsent(t, g, f, perm)
            \/ FaultCopy(t, g, f)
       \/ \E g \in UserPages : FaultUnshare(t, g)
       \/ \E c \in Tasks : Fork(t, c)

Spec == Init /\ [][Next]_vars

-----------------------------------------------------------------------------
(* The tables the valid entries of table n point to, and those below the   *)
(* root of task t.                                                         *)
Below(n)  == {ram.tab[n][i].ppn : i \in {i \in Indices : Valid(ram.tab[n][i])}}
Tables(t) == Below(root[t]) \cup UNION {Below(n) : n \in Below(root[t])}
Live == {t \in Tasks : root[t] # 0}

(* Tasks have no tables in common but the kernel's own: what one task maps *)
(* or makes read-only for itself is never an entry another one walks over. *)
TablesPrivate ==
  \A t, u \in Live : t # u =>
    Tables(t) \cap Tables(u) = Tables(Swapper)

(* The walks behave like one function per task. *)
Walks == INSTANCE AddressSpaces WITH
  exists <- Live,
  space  <- [t \in Tasks |-> IF root[t] = 0 THEN NoEntry ELSE
               [g \in UserPages \cup KernelPages |-> check_load(ram, root[t], g)]]
AddressSpaces == Walks!Spec
=============================================================================

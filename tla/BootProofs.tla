----------------------------- MODULE BootProofs -----------------------------
(***************************************************************************)
(* Theorems about Boot, for every size of the memory, of the firmware and  *)
(* of the kernel's sections, provided that the memory holds what the boot  *)
(* puts there.                                                             *)
(***************************************************************************)
EXTENDS Boot, TLAPS

Before  == {"_start", "setup_vm", "relocate", "ret", "buddy_init"}
Managed == {"setup_vm_final", "sfence.vma", "task_init", "start_kernel", "schedule"}

(* Where the hart runs and finds its stack, and what translates.           *)
Spaces ==
  /\ pcs = IF at \in {"_start", "setup_vm", "relocate", "ret"} THEN "phys" ELSE "high"
  /\ sps = CASE at = "_start" -> "none"
             [] at \in {"setup_vm", "relocate"} -> "phys"
             [] OTHER -> "high"
  /\ satp = CASE at \in {"_start", "setup_vm", "relocate"} -> {"bare"}
              [] at \in {"ret", "buddy_init", "setup_vm_final"} -> {"early"}
              [] at = "sfence.vma" -> {"early", "swapper"}
              [] OTHER -> {"swapper"}
  /\ at \notin {"_start", "setup_vm"} => early = EarlyMap

(* The final table holds the pages setup_vm_final has come to.             *)
TableGrown ==
  /\ mapped \in Stext .. MappedEnd
  /\ at \in Before => mapped = Stext
  /\ at \in Managed \ {"setup_vm_final"} => mapped = MappedEnd
  /\ swapper = [g \in High |-> IF Stext <= g /\ g < mapped
                               THEN [page |-> g, rights |-> Rights(g)] ELSE NoEntry]

(* The pages alloc_page has handed out: to the arrays, the tables, tasks.  *)
TablePages == IF mapped = Stext THEN 0 ELSE 2 + LeafOf(mapped - 1) - LeafOf(Stext)
PagesTaken ==
  at \in Managed =>
    free = Reserved + TablePages
             + (IF at \in {"start_kernel", "schedule"} THEN 3 + Areas ELSE 0)

BootInv ==
  /\ size \in Layouts
  /\ at \in Before \cup Managed
  /\ Spaces /\ TableGrown /\ PagesTaken

-----------------------------------------------------------------------------
(* The layout *)

(* The order of the kernel's symbols, all of them pages of memory.         *)
LEMMA LayoutOrder ==
  ASSUME BootAssumption, size \in Layouts
  PROVE  /\ Stext \in Nat /\ Srodata \in Nat /\ Sdata \in Nat /\ Sbss \in Nat
         /\ Ekernel \in Nat /\ Reserved \in Nat
         /\ Stext < Srodata /\ Srodata < Sdata /\ Sdata < Sbss /\ Sbss < Ekernel
         /\ Ekernel <= Reserved
         /\ Reserved = SbiPages + size.text + size.rodata + size.data + size.bss
                         + ArrayPages
BY DEF BootAssumption, Stext, Srodata, Sdata, Sbss, Ekernel, Reserved

LEMMA LeafStep ==
  ASSUME BootAssumption, NEW g \in Nat
  PROVE  /\ LeafOf(g) \in Nat
         /\ LeafOf(g) = LeafOf(g - 1) \/ LeafOf(g) = LeafOf(g - 1) + 1
<1> DEFINE n == TableSpan
           q == g \div n
           r == (g - 1) \div n
<1>1. n \in Nat /\ n > 0
  BY DEF BootAssumption
<1>2. q \in Nat /\ n * q <= g /\ g < n * q + n
  BY <1>1
<1>3. q = r \/ q = r + 1
  <2>1. r \in Int /\ n * r <= g - 1 /\ g - 1 < n * r + n
    BY <1>1
  <2>2. q >= r
    <3>1. SUFFICES ASSUME q + 1 <= r PROVE FALSE
      BY <1>2, <2>1
    <3>2. n * (q + 1) <= n * r /\ n * (q + 1) = n * q + n
      BY <1>1, <1>2, <2>1, <3>1
    <3> QED
      BY <1>1, <1>2, <2>1, <3>2
  <2>3. q <= r + 1
    <3>1. SUFFICES ASSUME r + 2 <= q PROVE FALSE
      BY <1>2, <2>1
    <3>2. n * (r + 2) <= n * q /\ n * (r + 2) = n * r + n + n
      BY <1>1, <1>2, <2>1, <3>1
    <3> QED
      BY <1>1, <1>2, <2>1, <3>2
  <2> QED
    BY <1>2, <2>1, <2>2, <2>3
<1> QED
  BY <1>2, <1>3 DEF LeafOf

LEMMA LeafMonotone ==
  ASSUME BootAssumption, NEW a \in Nat, NEW b \in Nat, a <= b
  PROVE  LeafOf(a) \in Nat /\ LeafOf(b) \in Nat /\ LeafOf(a) <= LeafOf(b)
<1> DEFINE n == TableSpan
           q == a \div n
           r == b \div n
<1>1. n \in Nat /\ n > 0
  BY DEF BootAssumption
<1>2. q \in Nat /\ r \in Nat /\ n * q <= a /\ b < n * r + n
  BY <1>1
<1>3. q <= r
  <2>1. SUFFICES ASSUME r + 1 <= q PROVE FALSE
    BY <1>2
  <2>2. n * (r + 1) <= n * q /\ n * (r + 1) = n * r + n
    BY <1>1, <1>2, <2>1
  <2> QED
    BY <1>1, <1>2, <2>2
<1> QED
  BY <1>2, <1>3 DEF LeafOf

(* The tables of setup_vm_final and the pages of task_init are in memory.  *)
LEMMA PagesInRam ==
  ASSUME BootAssumption, RamSuffices, BootInv
  PROVE  /\ RamPages \in Nat /\ Areas \in Nat /\ ArrayPages \in Nat
         /\ Reserved + TablePages + 3 + Areas <= RamPages
         /\ TablePages \in Nat
         /\ mapped < MappedEnd => Reserved + TablePages + NewTables(mapped) <= RamPages
         /\ mapped < MappedEnd => NewTables(mapped) \in Nat
<1>1. size \in Layouts /\ mapped \in Stext .. MappedEnd
  BY DEF BootInv, TableGrown
<1>2. RamPages \in Nat /\ Areas \in Nat /\ ArrayPages \in Nat /\ SbiPages \in Nat
  BY DEF BootAssumption
<1> DEFINE last == SbiPages + RamPages - 1
           all == 2 + LeafOf(last) - LeafOf(SbiPages)
<1>3. Reserved + all + 3 + Areas <= RamPages
      /\ Reserved \in Nat /\ Stext = SbiPages /\ MappedEnd = last + 1
  <2>1. /\ Reserved \in Nat
        /\ Reserved = SbiPages + size.text + size.rodata + size.data + size.bss
                         + ArrayPages
    BY <1>1, LayoutOrder
  <2>2. last \in Int /\ MappedEnd = last + 1 /\ Stext = SbiPages
    BY <1>2 DEF MappedEnd, Stext
  <2>3. SbiPages + size.text + size.rodata + size.data + size.bss + ArrayPages
          + 1 + (LeafOf(last) - LeafOf(SbiPages) + 1) + 3 + Areas <= RamPages
    BY <1>1 DEF RamSuffices
  <2>4. {size.text, size.rodata, size.data, size.bss} \subseteq Nat
    BY <1>1 DEF BootAssumption
  <2>5. LeafOf(last) \in Int /\ LeafOf(SbiPages) \in Int
    BY <1>2, <2>2 DEF LeafOf, BootAssumption
  <2> QED
    BY <1>2, <2>1, <2>2, <2>3, <2>4, <2>5
<1>4. RamPages > 0 /\ last \in Nat /\ all \in Nat /\ all >= 2
  <2>1. CASE RamPages > 0
    <3>1. last \in Nat /\ SbiPages <= last
      BY <1>2, <2>1
    <3>2. LeafOf(SbiPages) \in Nat /\ LeafOf(last) \in Nat /\ LeafOf(SbiPages) <= LeafOf(last)
      BY <1>2, <3>1, LeafMonotone
    <3> QED
      BY <2>1, <3>1, <3>2
  <2>2. CASE RamPages = 0
    <3>1. LeafOf(last) \in Int /\ LeafOf(SbiPages) \in Nat
      BY <1>2, LeafStep DEF LeafOf, BootAssumption
    <3>2. LeafOf(SbiPages) = LeafOf(last) \/ LeafOf(SbiPages) = LeafOf(last) + 1
      <4>1. last = SbiPages - 1
        BY <1>2, <2>2
      <4>2. LeafOf(SbiPages) = LeafOf(SbiPages - 1) \/ LeafOf(SbiPages) = LeafOf(SbiPages - 1) + 1
        BY <1>2, LeafStep
      <4> QED
        BY <4>1, <4>2
    <3>3. Ekernel > 0 /\ Ekernel <= Reserved
      BY <1>1, <1>3, LayoutOrder
    <3> QED
      BY <1>2, <1>3, <2>2, <3>1, <3>2, <3>3
  <2> QED
    BY <1>2, <2>1, <2>2
<1>5. TablePages \in Nat /\ TablePages <= all
  <2>1. CASE mapped = Stext
    BY <1>4, <2>1 DEF TablePages
  <2>2. CASE mapped # Stext
    <3>1. mapped - 1 \in Nat /\ SbiPages <= mapped - 1 /\ mapped - 1 <= last
      BY <1>1, <1>2, <1>3, <1>4, <2>2
    <3>2. /\ LeafOf(mapped - 1) \in Nat /\ LeafOf(last) \in Nat /\ LeafOf(SbiPages) \in Nat
          /\ LeafOf(mapped - 1) <= LeafOf(last)
          /\ LeafOf(SbiPages) <= LeafOf(mapped - 1)
      BY <1>2, <1>4, <3>1, LeafMonotone
    <3> QED
      BY <1>3, <2>2, <3>2 DEF TablePages
  <2> QED
    BY <2>1, <2>2
<1>6. ASSUME mapped < MappedEnd
      PROVE  NewTables(mapped) \in Nat /\ TablePages + NewTables(mapped) <= all
  <2>1. mapped \in Nat /\ mapped <= last /\ SbiPages <= mapped
    BY <1>1, <1>2, <1>3, <1>4, <1>6
  <2>2. LeafOf(mapped) \in Nat /\ LeafOf(last) \in Nat /\ LeafOf(mapped) <= LeafOf(last)
        /\ LeafOf(SbiPages) \in Nat /\ LeafOf(SbiPages) <= LeafOf(mapped)
    BY <1>2, <1>4, <2>1, LeafMonotone
  <2>3. CASE mapped = Stext
    BY <1>4, <2>3 DEF TablePages, NewTables
  <2>4. CASE mapped # Stext
    <3>1. mapped > 0 /\ mapped - 1 \in Nat
      BY <1>2, <1>3, <2>1, <2>4
    <3>2. LeafOf(mapped - 1) \in Nat
      BY <3>1, LeafStep
    <3>3. LeafOf(mapped) = LeafOf(mapped - 1) \/ LeafOf(mapped) = LeafOf(mapped - 1) + 1
      BY <2>1, <3>1, LeafStep
    <3> QED
      BY <1>3, <2>2, <2>4, <3>2, <3>3 DEF TablePages, NewTables
  <2> QED
    BY <2>3, <2>4
<1> HIDE DEF last, all
<1> QED
  BY <1>2, <1>3, <1>4, <1>5, <1>6

-----------------------------------------------------------------------------
(* The accesses of every step *)

(* They are reads of pages of memory behind the kernel's text and writes   *)
(* behind its read-only data, at the addresses the hart runs at.           *)
LEMMA AccessPlace ==
  ASSUME BootAssumption, RamSuffices, BootInv, NEW a \in Accesses
  PROVE  /\ a[1] \in {"phys", "high"}
         /\ a[2] \in Srodata .. RamPages - 1
         /\ a[3] \in {"R", "W"}
         /\ a[3] = "W" => Sdata <= a[2]
         /\ at = "setup_vm" => a[1] = "phys"
         /\ at \in {"sfence.vma", "task_init", "start_kernel"} => a[1] = "high"
<1> DEFINE Place(s, x) ==
             /\ x[1] = s /\ x[2] \in Srodata .. RamPages - 1
             /\ x[3] \in {"R", "W"} /\ (x[3] = "W" => Sdata <= x[2])
<1>1. /\ Srodata \in Nat /\ Sdata \in Nat /\ Srodata < Sdata /\ Sbss \in Nat /\ Ekernel \in Nat /\ Reserved \in Nat
      /\ Sdata < Sbss /\ Sbss < Ekernel /\ Ekernel <= Reserved
      /\ Reserved = Ekernel + ArrayPages
  BY LayoutOrder DEF BootInv, Reserved
<1>2. /\ RamPages \in Nat /\ Areas \in Nat /\ ArrayPages \in Nat /\ TablePages \in Nat
      /\ Reserved + TablePages + 3 + Areas <= RamPages
  BY PagesInRam
<1>3. \A x \in Stack : Place(sps, x)
  BY <1>1, <1>2 DEF Stack
<1>4. ASSUME NEW s, NEW x \in Kernel(s) PROVE Place(s, x)
  BY <1>1, <1>2 DEF Kernel, Write
<1>5. \A x \in Arrays : Place("high", x)
  BY <1>1, <1>2 DEF Arrays, Write
<1>6. ASSUME at = "setup_vm_final",
             NEW x \in Write("high", Reserved .. free + NewTables(mapped) - 1)
      PROVE  Place("high", x)
  <2>1. mapped \in Stext .. MappedEnd /\ free = Reserved + TablePages
    BY <1>1, <1>2, <1>6 DEF BootInv, TableGrown, PagesTaken, Managed
  <2>2. mapped <= MappedEnd /\ MappedEnd \in Int
    BY <2>1, <1>2 DEF MappedEnd, Stext, BootAssumption
  <2>3. NewTables(mapped) \in Nat /\ Reserved + TablePages + NewTables(mapped) <= RamPages
    <3>1. CASE mapped < MappedEnd
      BY <3>1, PagesInRam
    <3>2. CASE mapped = MappedEnd
      <4>1. mapped # Stext /\ mapped \in Nat
        BY <1>1, <1>2, <2>1, <3>2 DEF MappedEnd, Stext, BootAssumption
      <4> QED
        BY <1>1, <1>2, <4>1 DEF NewTables
    <3> QED
      BY <2>1, <2>2, <3>1, <3>2
  <2> QED
    BY <1>1, <1>2, <1>6, <2>1, <2>3 DEF Write
<1>7. ASSUME at = "task_init", NEW x \in Write("high", free .. free + 2 + Areas)
      PROVE  Place("high", x)
  <2>1. free = Reserved + TablePages
    BY <1>1, <1>2, <1>7 DEF BootInv, PagesTaken, Managed
  <2> QED
    BY <1>1, <1>2, <1>7, <2>1 DEF Write
<1> HIDE DEF Place
<1>8. /\ at = "setup_vm" => pcs = "phys" /\ sps = "phys"
      /\ at \in Managed \cup {"buddy_init"} => pcs = "high" /\ sps = "high"
  BY DEF BootInv, Spaces, Managed
<1>9. at = "setup_vm" => Place("phys", a)
  BY <1>3, <1>4, <1>8 DEF Accesses
<1>10. at \in {"buddy_init", "setup_vm_final", "sfence.vma", "task_init", "start_kernel"}
         => Place("high", a)
  BY <1>3, <1>4, <1>5, <1>6, <1>7, <1>8 DEF Accesses, Managed
<1>11. at \in {"setup_vm", "buddy_init", "setup_vm_final", "sfence.vma", "task_init",
               "start_kernel"}
  BY DEF Accesses
<1> QED
  BY <1>9, <1>10, <1>11 DEF Place

LEMMA BootLands ==
  ASSUME BootAssumption, RamSuffices, BootInv, at # "schedule"
  PROVE  Lands
<1>1. /\ Stext \in Nat /\ Srodata \in Nat /\ Sdata \in Nat /\ Reserved \in Nat
      /\ Stext < Srodata /\ Srodata < Sdata /\ Sdata < Reserved
  BY LayoutOrder DEF BootInv
<1>2. RamPages \in Nat /\ Reserved <= RamPages
  <2>1. /\ RamPages \in Nat /\ Areas \in Nat /\ TablePages \in Nat
        /\ Reserved + TablePages + 3 + Areas <= RamPages
    BY PagesInRam
  <2> QED
    BY <1>1, <2>1
<1>3. SbiPages \in Nat /\ MappedEnd = SbiPages + RamPages /\ Stext = SbiPages
  BY DEF BootAssumption, MappedEnd, Stext
<1>4. ASSUME mapped = MappedEnd, NEW g \in Srodata .. RamPages - 1, NEW r \in {"R", "W"},
             r = "W" => Sdata <= g
      PROVE  Reaches("swapper", <<"high", g, r>>)
  <2>1. g \in High /\ Stext <= g /\ g < mapped
    BY <1>1, <1>2, <1>3, <1>4 DEF High
  <2>2. swapper[g] = [page |-> g, rights |-> IF g < Sdata THEN {"R"} ELSE {"W", "R"}]
    BY <1>1, <1>4, <2>1 DEF BootInv, TableGrown, Rights
  <2>3. g < Sdata => r # "W"
    BY <1>1, <1>2, <1>4
  <2>4. swapper[g].page = g /\ r \in swapper[g].rights
    BY <1>4, <2>2, <2>3
  <2> QED
    BY <2>1, <2>4 DEF Reaches
<1>5. ASSUME mapped = MappedEnd, NEW g \in Stext .. Srodata - 1
      PROVE  Reaches("swapper", <<"high", g, "X">>)
  <2>1. g \in High /\ Stext <= g /\ g < mapped
    BY <1>1, <1>2, <1>3, <1>5 DEF High
  <2>2. swapper[g] = [page |-> g, rights |-> {"X", "R"}]
    BY <1>1, <1>5, <2>1 DEF BootInv, TableGrown, Rights
  <2> QED
    BY <1>5, <2>1, <2>2 DEF Reaches
<1>6. ASSUME NEW root \in satp, NEW a \in Accesses
      PROVE  a[2] < RamPages /\ Reaches(root, a)
  <2>1. a[2] < RamPages
    BY <1>1, <1>2, AccessPlace
  <2>2. CASE at = "setup_vm"
    <3>1. root = "bare" /\ a[1] = "phys"
      BY <2>2, AccessPlace DEF BootInv, Spaces
    <3> QED
      BY <2>1, <3>1 DEF Reaches
  <2>3. CASE root = "early"
    <3>1. early = {"phys", "high"}
      BY <2>3 DEF BootInv, Spaces, EarlyMap
    <3> QED
      BY <2>1, <2>3, <3>1, AccessPlace DEF Reaches
  <2>4. CASE at \in {"sfence.vma", "task_init", "start_kernel"} /\ root = "swapper"
    <3>1. mapped = MappedEnd
      BY <2>4 DEF BootInv, TableGrown, Managed
    <3>2. Reaches("swapper", <<"high", a[2], a[3]>>)
      BY <1>4, <3>1, AccessPlace
    <3>3. a[1] = "high"
      BY <2>4, AccessPlace
    <3> QED
      BY <2>1, <2>4, <3>2, <3>3 DEF Reaches
  <2>5. at \in {"setup_vm", "buddy_init", "setup_vm_final", "sfence.vma", "task_init",
                "start_kernel"}
    BY DEF Accesses
  <2>6. at \in {"buddy_init", "setup_vm_final"} => root = "early"
    BY DEF BootInv, Spaces
  <2>7. at = "sfence.vma" => root \in {"early", "swapper"}
    BY DEF BootInv, Spaces
  <2>8. at \in {"task_init", "start_kernel"} => root = "swapper"
    BY DEF BootInv, Spaces
  <2> QED
    BY <2>2, <2>3, <2>4, <2>5, <2>6, <2>7, <2>8
<1>7. ASSUME NEW root \in satp, NEW g \in Stext .. Srodata - 1
      PROVE  Reaches(root, <<pcs, g, "X">>)
  <2>1. CASE at \in {"_start", "setup_vm", "relocate"}
    <3>1. root = "bare" /\ pcs = "phys"
      BY <2>1 DEF BootInv, Spaces
    <3> QED
      BY <3>1 DEF Reaches
  <2>2. CASE root = "early"
    <3>1. early = {"phys", "high"} /\ pcs \in {"phys", "high"}
      BY <2>2 DEF BootInv, Spaces, EarlyMap
    <3> QED
      BY <2>2, <3>1 DEF Reaches
  <2>3. CASE at \in {"sfence.vma", "task_init", "start_kernel"} /\ root = "swapper"
    <3>1. mapped = MappedEnd /\ pcs = "high"
      BY <2>3 DEF BootInv, TableGrown, Managed, Spaces
    <3> QED
      BY <1>5, <2>3, <3>1
  <2>4. /\ at \in {"ret", "buddy_init", "setup_vm_final"} => root = "early"
        /\ at = "sfence.vma" => root \in {"early", "swapper"}
        /\ at \in {"task_init", "start_kernel"} => root = "swapper"
    BY DEF BootInv, Spaces
  <2> QED
    BY <2>1, <2>2, <2>3, <2>4 DEF BootInv, Before, Managed
<1> QED
  BY <1>6, <1>7 DEF Lands

-----------------------------------------------------------------------------
(* The invariant *)

LEMMA BootInit == ASSUME BootAssumption, RamSuffices PROVE Init => BootInv
<1> SUFFICES ASSUME Init PROVE BootInv
  OBVIOUS
<1>1. size \in Layouts /\ at = "_start" /\ mapped = Stext
  BY DEF Init
<1>2. Spaces
  BY DEF Init, Spaces
<1>3. Stext \in Nat /\ RamPages \in Nat /\ MappedEnd = Stext + RamPages
  BY DEF BootAssumption, Stext, MappedEnd
<1>4. TableGrown
  <2>1. \A g \in High : g \in Int
    BY DEF High
  <2>2. swapper = [g \in High |-> IF Stext <= g /\ g < mapped
                                  THEN [page |-> g, rights |-> Rights(g)] ELSE NoEntry]
    BY <1>1, <1>3, <2>1 DEF Init
  <2>3. mapped \in Stext .. MappedEnd
    BY <1>1, <1>3
  <2> QED
    BY <1>1, <2>2, <2>3 DEF TableGrown, Before, Managed
<1>5. PagesTaken
  BY <1>1 DEF PagesTaken, Managed
<1> QED
  BY <1>1, <1>2, <1>4, <1>5 DEF BootInv, Before

LEMMA BootStep ==
  ASSUME BootAssumption, RamSuffices
  PROVE  BootInv /\ [Next]_vars => BootInv'
<1> SUFFICES ASSUME BootInv, [Next]_vars PROVE BootInv'
  OBVIOUS
<1> USE DEF Does
<1>1. /\ Stext \in Nat /\ RamPages \in Nat /\ MappedEnd = Stext + RamPages
      /\ Reserved \in Nat /\ Areas \in Nat
  BY LayoutOrder DEF BootInv, BootAssumption, Stext, MappedEnd
<1>2. /\ TablePages \in Nat
      /\ mapped < MappedEnd => NewTables(mapped) \in Nat
  BY PagesInRam
<1>3. ASSUME UNCHANGED size
      PROVE  /\ size' \in Layouts /\ Reserved' = Reserved
             /\ \A g \in High : Rights(g)' = Rights(g)
  <2>1. Srodata' = Srodata /\ Sdata' = Sdata
    BY <1>3 DEF Sdata, Srodata
  <2>2. \A g \in High : Rights(g)' = Rights(g)
    BY <2>1 DEF Rights
  <2> QED
    BY <1>3, <2>2 DEF BootInv, Reserved, Ekernel, Sbss, Sdata, Srodata
<1>4. ASSUME UNCHANGED <<size, mapped, swapper>>,
             at' \in Before => mapped = Stext,
             at' \in Managed \ {"setup_vm_final"} => mapped = MappedEnd
      PROVE  TableGrown'
  BY <1>3, <1>4 DEF BootInv, TableGrown
<1>5. ASSUME UNCHANGED <<size, mapped, free>>, at' \in Managed \ {"start_kernel", "schedule"},
             at \in Managed \ {"start_kernel", "schedule"}
      PROVE  PagesTaken'
  BY <1>3, <1>5 DEF BootInv, PagesTaken, TablePages, Managed
<1>6. mapped \in Stext .. MappedEnd /\ (at \in Before => mapped = Stext)
  BY DEF BootInv, TableGrown
<1>7. CASE Start \/ SetupVm \/ Relocate \/ Ret
  <2>1. /\ UNCHANGED <<size, mapped, swapper>>
        /\ at \in Before /\ at' \in Before
    BY <1>7 DEF Start, SetupVm, Relocate, Ret, Before
  <2>2. TableGrown'
    BY <1>4, <1>6, <2>1 DEF Before, Managed
  <2>3. PagesTaken'
    BY <2>1 DEF PagesTaken, Before, Managed
  <2>4. Spaces'
    BY <1>7 DEF Start, SetupVm, Relocate, Ret, BootInv, Spaces, EarlyMap
  <2> QED
    BY <1>3, <2>1, <2>2, <2>3, <2>4 DEF BootInv
<1>8. CASE BuddyInit
  <2>1. /\ UNCHANGED <<size, mapped, swapper>>
        /\ at = "buddy_init" /\ at' = "setup_vm_final" /\ free' = Reserved
    BY <1>8 DEF BuddyInit
  <2>2. TableGrown'
    BY <1>4, <2>1 DEF Before, Managed
  <2>3. mapped = Stext
    BY <1>6, <2>1 DEF Before
  <2>4. PagesTaken'
    BY <1>1, <1>3, <2>1, <2>3 DEF PagesTaken, TablePages
  <2>5. Spaces'
    BY <1>8 DEF BuddyInit, BootInv, Spaces, EarlyMap
  <2> QED
    BY <1>3, <2>1, <2>2, <2>4, <2>5 DEF BootInv, Managed
<1>9. CASE MapPage
  <2>1. /\ UNCHANGED size
        /\ at = "setup_vm_final" /\ at' = "setup_vm_final"
        /\ mapped < MappedEnd /\ mapped' = mapped + 1
        /\ free' = free + NewTables(mapped)
        /\ swapper' = [swapper EXCEPT ![mapped] = [page |-> mapped, rights |-> Rights(mapped)]]
    BY <1>9 DEF MapPage
  <2>2. mapped \in Nat /\ mapped \in High /\ mapped' \in Stext .. MappedEnd
    BY <1>1, <1>6, <2>1 DEF High, BootAssumption, Stext
  <2>3. swapper' = [g \in High |-> IF Stext <= g /\ g < mapped'
                                   THEN [page |-> g, rights |-> Rights(g)] ELSE NoEntry]
    <3>1. swapper = [g \in High |-> IF Stext <= g /\ g < mapped
                                    THEN [page |-> g, rights |-> Rights(g)] ELSE NoEntry]
      BY DEF BootInv, TableGrown
    <3>2. \A g \in High : g \in Int
      BY DEF High
    <3>3. ASSUME NEW g \in High
          PROVE  swapper'[g] = IF Stext <= g /\ g < mapped'
                               THEN [page |-> g, rights |-> Rights(g)] ELSE NoEntry
      <4>1. CASE g = mapped
        BY <1>1, <1>6, <2>1, <2>2, <3>1, <4>1
      <4>2. CASE g # mapped
        <5>1. swapper'[g] = swapper[g]
          BY <2>1, <3>1, <4>2
        <5>2. g < mapped' <=> g < mapped
          BY <2>1, <2>2, <3>2, <4>2
        <5> QED
          BY <3>1, <5>1, <5>2
      <4> QED
        BY <4>1, <4>2
    <3>4. swapper' = [g \in High |-> swapper'[g]]
      BY <2>1, <3>1
    <3> QED
      BY <3>3, <3>4
  <2>4. TableGrown'
    <3>1. \A g \in High : Rights(g)' = Rights(g)
      BY <1>3, <2>1
    <3>2. swapper' = [g \in High |-> IF Stext <= g /\ g < mapped'
                                     THEN [page |-> g, rights |-> Rights(g)'] ELSE NoEntry]
      BY <2>3, <3>1
    <3> QED
      BY <2>1, <2>2, <3>2 DEF TableGrown, Before, Managed
  <2>5. free = Reserved + TablePages
    BY <1>1, <1>2, <2>1 DEF BootInv, PagesTaken, Managed
  <2>6. TablePages' = TablePages + NewTables(mapped)
    <3>1. TablePages' = 2 + LeafOf(mapped) - LeafOf(Stext)
      BY <1>1, <1>6, <2>1, <2>2 DEF TablePages
    <3>2. LeafOf(mapped) \in Nat /\ LeafOf(Stext) \in Nat
      BY <1>1, <2>2, LeafStep
    <3>3. CASE mapped = Stext
      BY <3>1, <3>2, <3>3 DEF TablePages, NewTables
    <3>4. CASE mapped # Stext
      <4>1. mapped - 1 \in Nat
        BY <1>1, <1>6, <2>2, <3>4
      <4>2. LeafOf(mapped - 1) \in Nat
        BY <4>1, LeafStep
      <4>3. LeafOf(mapped) = LeafOf(mapped - 1) \/ LeafOf(mapped) = LeafOf(mapped - 1) + 1
        BY <2>2, LeafStep
      <4> QED
        BY <3>1, <3>2, <3>4, <4>2, <4>3 DEF TablePages, NewTables
    <3> QED
      BY <3>3, <3>4
  <2>7. PagesTaken'
    <3>1. NewTables(mapped) \in Nat
      BY <1>2, <2>1
    <3>2. free' = Reserved + TablePages' + 0
      BY <1>1, <1>2, <2>1, <2>5, <2>6, <3>1
    <3> QED
      BY <1>3, <2>1, <3>2 DEF PagesTaken
  <2>8. Spaces'
    BY <1>9 DEF MapPage, BootInv, Spaces
  <2> QED
    BY <1>3, <2>1, <2>4, <2>7, <2>8 DEF BootInv, Managed
<1>10. CASE WriteSatp \/ Fence
  <2>1. /\ UNCHANGED <<size, mapped, swapper, free>>
        /\ at \in {"setup_vm_final", "sfence.vma"} /\ at' \in {"sfence.vma", "task_init"}
    BY <1>10 DEF WriteSatp, Fence
  <2>2. mapped = MappedEnd
    BY <1>10 DEF WriteSatp, Fence, BootInv, TableGrown, Managed
  <2>3. TableGrown'
    BY <1>4, <2>1, <2>2 DEF Before, Managed
  <2>4. PagesTaken'
    BY <1>5, <2>1 DEF Managed
  <2>5. Spaces'
    BY <1>10 DEF WriteSatp, Fence, BootInv, Spaces
  <2> QED
    BY <1>3, <2>1, <2>3, <2>4, <2>5 DEF BootInv, Managed
<1>11. CASE TaskInit \/ StartKernel
  <2>1. /\ UNCHANGED <<size, mapped, swapper>>
        /\ at \in {"task_init", "start_kernel"} /\ at' \in {"start_kernel", "schedule"}
    BY <1>11 DEF TaskInit, StartKernel
  <2>2. mapped = MappedEnd
    BY <2>1 DEF BootInv, TableGrown, Managed
  <2>3. TableGrown'
    BY <1>4, <2>1, <2>2 DEF Before, Managed
  <2>4. PagesTaken'
    <3>1. Reserved' = Reserved /\ TablePages' = TablePages
      BY <1>3, <2>1 DEF TablePages
    <3>2. CASE TaskInit
      <4>1. free = Reserved + TablePages /\ free' = free + 3 + Areas /\ at' = "start_kernel"
        BY <1>1, <1>2, <3>2 DEF TaskInit, BootInv, PagesTaken, Managed
      <4>2. free' = Reserved + TablePages + (3 + Areas)
        BY <1>1, <1>2, <4>1
      <4> QED
        BY <3>1, <4>1, <4>2 DEF PagesTaken
    <3>3. CASE StartKernel
      BY <3>1, <3>3 DEF StartKernel, BootInv, PagesTaken, Managed
    <3> QED
      BY <1>11, <3>2, <3>3
  <2>5. Spaces'
    BY <1>11 DEF TaskInit, StartKernel, BootInv, Spaces
  <2> QED
    BY <1>3, <2>1, <2>3, <2>4, <2>5 DEF BootInv, Managed
<1>12. CASE UNCHANGED vars
  <2>1. UNCHANGED <<size, at, pcs, sps, satp, early, swapper, mapped, free>>
    BY <1>12 DEF vars
  <2>2. TableGrown'
    BY <1>4, <2>1 DEF BootInv, TableGrown
  <2>3. PagesTaken'
    BY <1>3, <2>1 DEF BootInv, PagesTaken, TablePages
  <2> QED
    BY <1>3, <2>1, <2>2, <2>3 DEF BootInv, Spaces
<1> QED
  BY <1>7, <1>8, <1>9, <1>10, <1>11, <1>12 DEF Next

LEMMA BootInvariant ==
  ASSUME BootAssumption, RamSuffices
  PROVE  Spec => []BootInv
BY BootInit, BootStep, PTL DEF Spec

(* What the invariant says of the end of the boot. *)
LEMMA BootDone ==
  ASSUME BootAssumption, RamSuffices, BootInv
  PROVE  FreePagesUsable
<1> SUFFICES ASSUME at = "schedule" PROVE FreePagesUsable
  BY DEF FreePagesUsable
<1>1. /\ Stext \in Nat /\ Srodata \in Nat /\ Sdata \in Nat /\ Reserved \in Nat
      /\ Stext < Srodata /\ Srodata < Sdata /\ Sdata < Reserved
  BY LayoutOrder DEF BootInv
<1>2. /\ RamPages \in Nat /\ Areas \in Nat /\ SbiPages \in Nat /\ TablePages \in Nat
      /\ MappedEnd = SbiPages + RamPages /\ Stext = SbiPages
  BY PagesInRam DEF BootAssumption, MappedEnd, Stext
<1>3. /\ mapped = MappedEnd /\ satp = {"swapper"}
      /\ free = Reserved + TablePages + (3 + Areas)
      /\ swapper = [g \in High |-> IF Stext <= g /\ g < mapped
                                   THEN [page |-> g, rights |-> Rights(g)] ELSE NoEntry]
  BY <1>1, <1>2 DEF BootInv, TableGrown, Spaces, PagesTaken, Managed
<1>4. ASSUME NEW f \in free .. RamPages - 1, NEW r \in {"R", "W"}, NEW root \in satp
      PROVE  Reaches(root, <<"high", f, r>>)
  <2>1. f \in High /\ Sdata <= f /\ Stext <= f /\ f < mapped
    BY <1>1, <1>2, <1>3 DEF High
  <2>2. swapper[f] = [page |-> f, rights |-> {"W", "R"}]
    BY <1>1, <1>3, <2>1 DEF Rights, High
  <2> QED
    BY <1>3, <2>1, <2>2 DEF Reaches
<1>5. ASSUME NEW g \in High PROVE ~({"W", "X"} \subseteq swapper[g].rights)
  BY <1>3 DEF Rights, NoEntry
<1> QED
  BY <1>4, <1>5 DEF FreePagesUsable

-----------------------------------------------------------------------------
(* However large the memory, the firmware and the kernel's sections are:   *)
(* if they fit, no instruction of the boot is fetched, no stack, symbol,   *)
(* array, table or task page is accessed, where no translation leads.      *)
THEOREM BootNeverLost ==
  ASSUME BootAssumption, RamSuffices
  PROVE  Spec => []NeverLost
<1>1. BootInv => NeverLost
  BY BootLands DEF NeverLost
<1> QED
  BY <1>1, BootInvariant, PTL

(* And every page alloc_page has left is readable and writable where the   *)
(* kernel computes its address, in a table without writable code.          *)
THEOREM BootLeavesPages ==
  ASSUME BootAssumption, RamSuffices
  PROVE  Spec => []FreePagesUsable
<1>1. BootInv => FreePagesUsable
  BY BootDone
<1> QED
  BY <1>1, BootInvariant, PTL
=============================================================================

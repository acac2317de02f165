--------------------------- MODULE CowForkProofs ---------------------------
(***************************************************************************)
(* Theorems about CowFork, for every value of its constants.               *)
(***************************************************************************)
EXTENDS CowFork, FiniteSetTheorems, SequenceTheorems, TLAPS

-----------------------------------------------------------------------------
(* Facts about the operators *)

(* A set of natural numbers that is not empty has a least element. *)
LEMMA LeastElement ==
  ASSUME NEW S \in SUBSET Nat, S # {}
  PROVE  \E x \in S : \A y \in S : x <= y
<1>1. IsWellFoundedOn(OpToRel(<, Nat), Nat)
  BY NatLessThanWellFounded
<1>2. PICK x \in S : \A y \in S : ~ (<<y, x>> \in OpToRel(<, Nat))
  BY <1>1, WFMin
<1>3. \A y \in S : ~ (y < x)
  BY <1>2 DEF OpToRel
<1> QED
  BY <1>3

(* do_page_fault rounds an address of the user space down to a page of it. *)
LEMMA PageOfType ==
  ASSUME NEW a \in Addresses
  PROVE  PageOf(a) \in Pages
<1>1. PGSIZE \in Nat /\ PGSIZE > 0 /\ NPages \in Nat /\ NPages > 0
  BY CowForkAssumption
<1>2. a \in Nat /\ a < NPages * PGSIZE
  BY <1>1 DEF Addresses
<1> DEFINE q == a \div PGSIZE
<1>3. q \in Nat
  BY <1>1, <1>2
<1>4. PGSIZE * q <= a
  BY <1>1, <1>2
<1>5. q < NPages
  <2>1. SUFFICES ASSUME q >= NPages PROVE FALSE
    BY <1>1, <1>3
  <2>2. PGSIZE * q >= PGSIZE * NPages
    BY <1>1, <1>3, <2>1
  <2> QED
    BY <1>1, <1>2, <1>3, <1>4, <2>2
<1> QED
  BY <1>1, <1>3, <1>5 DEF PageOf, Pages

(* The list add_mmap builds in the child is a list of VMAs again. *)
LEMMA ReverseType ==
  ASSUME NEW S, NEW s \in Seq(S)
  PROVE  Reverse(s) \in Seq(S)
BY DEF Reverse

(* A VMA find_vma returns is one of the list and holds the address. *)
LEMMA FindVma ==
  ASSUME NEW l \in Seq(Vma), NEW a, HasVma(l, a)
  PROVE  /\ find_vma(l, a) \in Vma
         /\ Holds(find_vma(l, a), a)
<1> DEFINE K == {k \in 1 .. Len(l) : Holds(l[k], a)}
<1>1. K \in SUBSET Nat /\ K # {}
  BY DEF HasVma
<1>2. PICK k \in K : \A j \in K : k <= j
  BY <1>1, LeastElement
<1>3. /\ k \in 1 .. Len(l)
      /\ Holds(l[k], a)
      /\ \A j \in 1 .. k - 1 : ~Holds(l[j], a)
  BY <1>2
<1> QED
  BY <1>3 DEF find_vma

(* The entry the hart uses is an entry. *)
LEMMA TranslateType ==
  ASSUME TypeOK, NEW g \in Pages
  PROVE  Translate(g) \in Pte
BY CowForkAssumption DEF TypeOK, Translate, Pids

LEMMA CurrentType == TypeOK => current \in Pids
BY CowForkAssumption DEF TypeOK, Pids

LEMMA RightsType ==
  ASSUME NEW e \in Pte
  PROVE  /\ Writable(e) \in Pte
         /\ Writable(e).frame = e.frame
         /\ ReadOnly(e) \in Pte
         /\ ReadOnly(e).frame = e.frame
         /\ ReadOnly(e).perm = e.perm \ {"W"}
<1>1. /\ Writable(e) = [frame |-> e.frame, perm |-> e.perm \cup {"W"}]
      /\ ReadOnly(e) = [frame |-> e.frame, perm |-> e.perm \ {"W"}]
  BY DEF Writable, ReadOnly, Pte
<1>2. /\ e.perm \cup {"W"} \in SUBSET Perms
      /\ e.perm \ {"W"} \in SUBSET Perms
  BY DEF Pte, Perms
<1> QED
  BY <1>1, <1>2 DEF Pte

LEMMA ContentsType ==
  /\ Boot \in Contents
  /\ \A n \in Int : File(n) \in Contents
  /\ \A d \in Data : Stored(d) \in Contents
BY CowForkAssumption DEF Boot, File, Stored, Contents

LEMMA NoMapType == NoMap \in [Pages -> Pte] /\ SfenceVma \in [Pages -> Pte]
BY DEF NoMap, SfenceVma, NoPte, Pte

-----------------------------------------------------------------------------
(* Type correctness *)

LEMMA TypeInit == Init => TypeOK
<1> SUFFICES ASSUME Init PROVE TypeOK
  OBVIOUS
<1> USE CowForkAssumption, NoMapType, ContentsType DEF Init
<1>1. mm \in [Pids -> Seq(Vma)]
  OBVIOUS
<1> QED
  BY <1>1 DEF TypeOK

LEMMA TypeStep == TypeOK /\ [Next]_vars => TypeOK'
<1> SUFFICES ASSUME TypeOK, [Next]_vars PROVE TypeOK'
  OBVIOUS
<1> USE CowForkAssumption, NoMapType
<1>0. current \in Pids
  BY DEF TypeOK, Pids
<1>1. ASSUME NEW q \in Pids, SwitchTo(q) PROVE TypeOK'
  BY <1>1 DEF SwitchTo, Runnable, TypeOK
<1>2. ASSUME NEW g \in Pages, CacheEntry(g) PROVE TypeOK'
  BY <1>0, <1>2 DEF CacheEntry, TypeOK
<1>3. ASSUME NEW g \in Pages, EvictEntry(g) PROVE TypeOK'
  BY <1>3 DEF EvictEntry, TypeOK, NoPte, Pte
<1>4. ASSUME NEW g \in Pages, NEW d \in Data, Store(g, d) PROVE TypeOK'
  BY <1>4, ContentsType DEF Store, TypeOK
<1>5. ASSUME NEW a \in Addresses, NEW acc \in Perms, PageFault(a, acc)
      PROVE  TypeOK'
  <2> DEFINE g == PageOf(a)
  <2>1. g \in Pages /\ g \in Int
    BY PageOfType DEF Pages
  <2>2. CASE FaultNoVma(a, acc)
    BY <2>2 DEF FaultNoVma, TypeOK
  <2>3. CASE FaultAbsent(a, acc)
    <3> DEFINE v == find_vma(mm[current], a)
    <3>1. v \in Vma
      BY <1>0, <2>3, FindVma DEF FaultAbsent, AbsentFault, TypeOK
    <3>2. PICK f \in LowestFree :
            /\ pgd' = [pgd EXCEPT ![current][g] = [frame |-> f, perm |-> v.flags]]
            /\ ref_cnt' = [ref_cnt EXCEPT ![f] = 1]
            /\ mem' = IF v.anon THEN mem
                      ELSE [mem EXCEPT ![f] = File(g - PageOf(v.vm_start))]
      BY <2>3 DEF FaultAbsent
    <3>3. f \in Frames
      BY DEF LowestFree, Unused
    <3>4. [frame |-> f, perm |-> v.flags] \in Pte
      BY <3>1, <3>3 DEF Pte, Vma
    <3>5. pgd' \in [Pids -> [Pages -> Pte]]
      BY <1>0, <2>1, <3>2, <3>4 DEF TypeOK
    <3>6. ref_cnt' \in [Frames -> Nat]
      BY <3>2 DEF TypeOK
    <3>7. g - PageOf(v.vm_start) \in Int
      BY <2>1, <3>1 DEF PageOf, Vma
    <3>8. mem' \in [Frames -> Contents]
      BY <3>2, <3>7, ContentsType DEF TypeOK
    <3> QED
      BY <2>3, <3>5, <3>6, <3>8 DEF FaultAbsent, TypeOK
  <2>4. CASE AbsentOutOfFrames(a, acc)
    BY <2>4 DEF AbsentOutOfFrames, TypeOK
  <2>5. CASE FaultUnshare(a, acc)
    <3>1. Writable(pgd[current][g]) \in Pte
      BY <1>0, <2>1, RightsType DEF TypeOK
    <3>2. pgd' \in [Pids -> [Pages -> Pte]]
      BY <1>0, <2>1, <2>5, <3>1 DEF FaultUnshare, TypeOK
    <3> QED
      BY <2>5, <3>2 DEF FaultUnshare, TypeOK
  <2>6. CASE FaultCopy(a, acc)
    <3> DEFINE old == pgd[current][g].frame
    <3>1. PICK f \in LowestFree :
            /\ mem' = [mem EXCEPT ![f] = mem[Translate(g).frame]]
            /\ ref_cnt' = [ref_cnt EXCEPT ![f] = 1, ![old] = PutPage(ref_cnt[old])]
            /\ pgd' = [pgd EXCEPT ![current][g] =
                         [frame |-> f, perm |-> @.perm \cup {"W"}]]
      BY <2>6 DEF FaultCopy
    <3>2. f \in Frames
      BY DEF LowestFree, Unused
    <3>3. [frame |-> f, perm |-> pgd[current][g].perm \cup {"W"}] \in Pte
      BY <1>0, <2>1, <3>2 DEF TypeOK, Pte, Perms
    <3>4. pgd' \in [Pids -> [Pages -> Pte]]
      BY <1>0, <2>1, <3>1, <3>3 DEF TypeOK
    <3>5. ref_cnt' \in [Frames -> Nat]
      <4>1. old \in Frames
        BY <1>0, <2>1, <2>6 DEF FaultCopy, CowFault, Valid, TypeOK, Pte
      <4>2. PutPage(ref_cnt[old]) \in Nat
        BY <4>1 DEF PutPage, TypeOK
      <4> QED
        BY <3>1, <4>1, <4>2 DEF TypeOK
    <3>6. Translate(g).frame \in Frames
      BY <1>0, <2>1, <2>6, TranslateType
         DEF FaultCopy, CowFault, Translate, Valid, TypeOK, Pte
    <3>7. mem' \in [Frames -> Contents]
      BY <3>1, <3>6 DEF TypeOK
    <3> QED
      BY <2>6, <3>4, <3>5, <3>7 DEF FaultCopy, TypeOK
  <2>7. CASE CopyOutOfFrames(a, acc)
    BY <2>7 DEF CopyOutOfFrames, TypeOK
  <2>8. CASE FaultIgnored(a, acc)
    BY <2>8 DEF FaultIgnored, vars, TypeOK
  <2> QED
    BY <1>5, <2>2, <2>3, <2>4, <2>5, <2>6, <2>7, <2>8 DEF PageFault
<1>6. CASE Fork
  <2>1. nr_tasks \in Pids /\ nr_tasks + 1 \in 2 .. MaxTasks
    BY <1>6 DEF Fork, Pids, TypeOK
  <2>2. \A g \in Pages : /\ pgd[current][g] \in Pte
                         /\ ReadOnly(pgd[current][g]) \in Pte
                         /\ NoPte \in Pte
    BY <1>0, RightsType DEF TypeOK, NoPte, Pte
  <2>3. pgd' \in [Pids -> [Pages -> Pte]]
    BY <1>0, <1>6, <2>1, <2>2 DEF Fork, TypeOK
  <2>4. mm' \in [Pids -> Seq(Vma)]
    BY <1>0, <1>6, <2>1, ReverseType DEF Fork, TypeOK
  <2>5. ref_cnt' \in [Frames -> Nat]
    <3>1. ASSUME NEW f \in Frames
          PROVE  Cardinality(Visits(current, f)) \in Nat
      <4>1. IsFiniteSet(1 .. Len(mm[current])) /\ IsFiniteSet(Pages)
        BY <1>0, FS_Interval DEF TypeOK, Pages
      <4>2. IsFiniteSet((1 .. Len(mm[current])) \X Pages)
        BY <4>1, FS_Product
      <4>3. IsFiniteSet(Visits(current, f))
        BY <4>2, FS_Subset DEF Visits
      <4> QED
        BY <4>3, FS_CardinalityType
    <3> QED
      BY <1>6, <3>1 DEF Fork, TypeOK, GetPage
  <2>6. current' \in 1 .. nr_tasks' - 1
    BY <1>6, <2>1 DEF Fork, TypeOK
  <2>7. nr_tasks' \in 2 .. MaxTasks /\ tlb' \in [Pages -> Pte]
    BY <1>6, <2>1 DEF Fork
  <2> QED
    BY <1>6, <2>3, <2>4, <2>5, <2>6, <2>7 DEF Fork, TypeOK
<1>7. CASE ForkOutOfFrames
  BY <1>7 DEF ForkOutOfFrames, TypeOK
<1>8. CASE UNCHANGED vars
  BY <1>8 DEF vars, TypeOK
<1> QED
  BY <1>1, <1>2, <1>3, <1>4, <1>5, <1>6, <1>7, <1>8 DEF Next

(* Every variable has its type in every reachable state: the frame numbers *)
(* of do_page_fault and do_fork_cow are frames, the scheduler picks a task *)
(* that exists, whatever the number of pages, frames and tasks.            *)
THEOREM TypeCorrect == Spec => []TypeOK
BY TypeInit, TypeStep, PTL DEF Spec

-----------------------------------------------------------------------------
(* Frames and the entries that map them *)

LEMMA EntriesFinite ==
  ASSUME NEW S \in SUBSET (Pids \X Pages)
  PROVE  IsFiniteSet(S) /\ Cardinality(S) \in Nat
<1>1. IsFiniteSet(Pids) /\ IsFiniteSet(Pages)
  BY CowForkAssumption, FS_Interval DEF Pids, Pages
<1>2. IsFiniteSet(Pids \X Pages)
  BY <1>1, FS_Product
<1> QED
  BY <1>2, FS_Subset, FS_CardinalityType

(* No entry maps a frame alloc_page may return. *)
LEMMA UnusedUnmapped ==
  ASSUME TypeOK, RefCountCovers, NEW f \in Unused
  PROVE  MappedBy(pgd, f) = {}
<1>1. f \in Frames /\ ref_cnt[f] = 0
  BY DEF Unused
<1>2. MappedBy(pgd, f) \in SUBSET (Pids \X Pages)
  BY DEF MappedBy
<1>3. Cardinality(MappedBy(pgd, f)) <= 0
  BY <1>1 DEF RefCountCovers
<1>4. IsFiniteSet(MappedBy(pgd, f)) /\ Cardinality(MappedBy(pgd, f)) \in Nat
  BY <1>2, EntriesFinite
<1> QED
  BY <1>3, <1>4, FS_EmptySet

(* A mapped frame has a count; with a count of 1 it has one entry only. *)
LEMMA MappedCounted ==
  ASSUME TypeOK, RefCountCovers,
         NEW p \in Pids, NEW g \in Pages, Valid(pgd[p][g])
  PROVE  /\ pgd[p][g].frame \in Frames
         /\ ref_cnt[pgd[p][g].frame] > 0
         /\ ref_cnt[pgd[p][g].frame] = 1 =>
              MappedBy(pgd, pgd[p][g].frame) = {<<p, g>>}
<1> DEFINE f == pgd[p][g].frame
<1>1. f \in Frames
  BY DEF Valid, TypeOK, Pte
<1>2. <<p, g>> \in MappedBy(pgd, f)
  BY DEF MappedBy
<1>3. IsFiniteSet(MappedBy(pgd, f)) /\ Cardinality(MappedBy(pgd, f)) \in Nat
  BY EntriesFinite DEF MappedBy
<1>4. Cardinality(MappedBy(pgd, f)) > 0
  BY <1>2, <1>3, FS_EmptySet
<1>5. Cardinality(MappedBy(pgd, f)) <= ref_cnt[f] /\ ref_cnt[f] \in Nat
  BY <1>1 DEF RefCountCovers, TypeOK
<1>6. ASSUME ref_cnt[f] = 1 PROVE MappedBy(pgd, f) = {<<p, g>>}
  <2>1. Cardinality(MappedBy(pgd, f)) = 1
    BY <1>3, <1>4, <1>5, <1>6
  <2>2. PICK x : MappedBy(pgd, f) = {x}
    BY <1>3, <2>1, FS_Singleton
  <2> QED
    BY <1>2, <2>2
<1> QED
  BY <1>1, <1>3, <1>4, <1>5, <1>6

(* A frame nobody mapped is put into one entry, with a count of 1; the     *)
(* frame that entry mapped, if any, loses one from its count: counts that  *)
(* cover the entries, or are exact, stay so.                               *)
LEMMA FreshFrame ==
  ASSUME TypeOK, RefCountCovers,
         NEW p \in Pids, NEW g \in Pages, NEW f \in Unused, NEW e \in Pte,
         e.frame = f,
         pgd' = [pgd EXCEPT ![p][g] = e],
         ref_cnt' \in [Frames -> Nat],
         ref_cnt'[f] = 1,
         \A k \in Frames \ {f} :
           ref_cnt'[k] = IF k = pgd[p][g].frame THEN PutPage(ref_cnt[k])
                                                ELSE ref_cnt[k]
  PROVE  RefCountCovers' /\ (RefCountExact => RefCountExact')
<1> SUFFICES ASSUME NEW k \in Frames
             PROVE  /\ Cardinality(MappedBy(pgd', k)) <= ref_cnt'[k]
                    /\ ref_cnt[k] = Cardinality(MappedBy(pgd, k)) =>
                         ref_cnt'[k] = Cardinality(MappedBy(pgd', k))
  BY DEF RefCountCovers, RefCountExact
<1>0. \A q \in Pids, h \in Pages :
        pgd'[q][h] = IF q = p /\ h = g THEN e ELSE pgd[q][h]
  BY DEF TypeOK
<1>1. MappedBy(pgd', k) = (MappedBy(pgd, k) \ {<<p, g>>})
                              \cup (IF f = k THEN {<<p, g>>} ELSE {})
  BY <1>0 DEF MappedBy
<1>2. IsFiniteSet(MappedBy(pgd, k)) /\ Cardinality(MappedBy(pgd, k)) \in Nat
  BY EntriesFinite DEF MappedBy
<1>3. Cardinality(MappedBy(pgd, k)) <= ref_cnt[k] /\ ref_cnt[k] \in Nat
  BY DEF RefCountCovers, TypeOK
<1>4. CASE k = f
  <2>1. MappedBy(pgd', k) = {<<p, g>>}
    BY <1>1, <1>4, UnusedUnmapped
  <2>2. Cardinality({<<p, g>>}) = 1
    BY FS_Singleton
  <2>3. Cardinality(MappedBy(pgd', k)) = 1
    BY <2>1, <2>2, Zenon
  <2> QED
    BY <1>4, <2>3
<1>5. CASE k # f /\ k = pgd[p][g].frame
  <2>1. MappedBy(pgd', k) = MappedBy(pgd, k) \ {<<p, g>>}
    BY <1>1, <1>5
  <2>2. <<p, g>> \in MappedBy(pgd, k)
    BY <1>5 DEF MappedBy
  <2>3. Cardinality(MappedBy(pgd, k) \ {<<p, g>>})
          = Cardinality(MappedBy(pgd, k)) - 1
    BY <1>2, <2>2, FS_RemoveElement
  <2>5. Cardinality(MappedBy(pgd', k)) = Cardinality(MappedBy(pgd, k)) - 1
    BY <2>1, <2>3, Zenon
  <2>4. Cardinality(MappedBy(pgd, k)) > 0
    BY <1>2, <2>2, FS_EmptySet
  <2> QED
    BY <1>2, <1>3, <1>5, <2>4, <2>5 DEF PutPage
<1>6. CASE k # f /\ k # pgd[p][g].frame
  <2>1. MappedBy(pgd', k) = MappedBy(pgd, k)
    BY <1>1, <1>6 DEF MappedBy
  <2> QED
    BY <1>3, <1>6, <2>1
<1> QED
  BY <1>4, <1>5, <1>6

(* The entries a fork of task p into slot c adds for frame f. *)
NewEntries(p, c, f) == {c} \X {g \in Shared(p) : pgd[p][g].frame = f}

(* do_fork_cow calls get_page at least once for every entry it adds. *)
LEMMA VisitsCover ==
  ASSUME TypeOK, NEW p \in Pids, NEW c \in Pids, NEW f \in Frames
  PROVE  /\ IsFiniteSet(NewEntries(p, c, f))
         /\ Cardinality(NewEntries(p, c, f)) \in Nat
         /\ Cardinality(Visits(p, f)) \in Nat
         /\ Cardinality(NewEntries(p, c, f)) <= Cardinality(Visits(p, f))
<1> DEFINE N == NewEntries(p, c, f)
           V == Visits(p, f)
           vma(g) == CHOOSE k \in 1 .. Len(mm[p]) : g \in ForkRange(mm[p][k])
           w == [x \in N |-> <<vma(x[2]), x[2]>>]
<1>1. \A x \in N : /\ x = <<c, x[2]>>
                   /\ x[2] \in Shared(p)
                   /\ pgd[p][x[2]].frame = f
  BY DEF NewEntries
<1>2. \A g \in Shared(p) : /\ g \in Pages
                           /\ vma(g) \in 1 .. Len(mm[p])
                           /\ g \in ForkRange(mm[p][vma(g)])
  BY DEF Shared, Present
<1>3. w \in [N -> V]
  BY <1>1, <1>2 DEF Visits
<1>4. \A x, y \in N : w[x] = w[y] => x = y
  BY <1>1
<1>5. w \in Injection(N, V)
  BY <1>3, <1>4 DEF Injection, IsInjective
<1>6. IsFiniteSet(V)
  <2>1. IsFiniteSet(1 .. Len(mm[p])) /\ IsFiniteSet(Pages)
    BY CowForkAssumption, FS_Interval DEF TypeOK, Pages
  <2>2. IsFiniteSet((1 .. Len(mm[p])) \X Pages)
    BY <2>1, FS_Product
  <2> QED
    BY <2>2, FS_Subset DEF Visits
<1> HIDE DEF N, V, w
<1>7. IsFiniteSet(N) /\ Cardinality(N) <= Cardinality(V)
  BY <1>5, <1>6, FS_Injection
<1> QED
  BY <1>6, <1>7, FS_CardinalityType DEF N, V

(* What do_fork_cow leaves in the tables: at most the entries there were,  *)
(* and the child's; nothing else changes but the W bits.                   *)
LEMMA ForkTables ==
  ASSUME TypeOK, Fork
  PROVE  /\ current \in Pids /\ nr_tasks \in Pids /\ nr_tasks # current
         /\ \A g \in Pages :
              /\ pgd'[current][g].frame = pgd[current][g].frame
              /\ pgd'[nr_tasks][g].frame =
                   IF g \in Shared(current) THEN pgd[current][g].frame ELSE 0
              /\ "W" \in pgd'[current][g].perm =>
                   "W" \in pgd[current][g].perm /\ g \notin Shared(current)
              /\ "W" \notin pgd'[nr_tasks][g].perm
         /\ \A q \in Pids \ {current, nr_tasks} : pgd'[q] = pgd[q]
<1> DEFINE p == current
           c == nr_tasks
           S == Shared(p)
<1>1. p \in Pids /\ c \in Pids /\ c # p
  BY CowForkAssumption DEF Fork, TypeOK, Pids
<1>2. \A g \in Pages : pgd[p][g] \in Pte
  BY <1>1 DEF TypeOK
<1>3. /\ \A g \in Pages :
           pgd'[p][g] = IF g \in S THEN ReadOnly(pgd[p][g]) ELSE pgd[p][g]
      /\ \A g \in Pages :
           pgd'[c][g] = IF g \in S THEN ReadOnly(pgd[p][g]) ELSE NoPte
      /\ \A q \in Pids \ {p, c} : pgd'[q] = pgd[q]
  BY <1>1 DEF Fork, TypeOK
<1> HIDE DEF S
<1>4. ASSUME NEW g \in Pages
      PROVE  /\ pgd'[p][g].frame = pgd[p][g].frame
             /\ pgd'[c][g].frame = IF g \in S THEN pgd[p][g].frame ELSE 0
             /\ "W" \in pgd'[p][g].perm => "W" \in pgd[p][g].perm /\ g \notin S
             /\ "W" \notin pgd'[c][g].perm
  <2>1. CASE g \in S
    <3>1. /\ ReadOnly(pgd[p][g]).frame = pgd[p][g].frame
          /\ "W" \notin ReadOnly(pgd[p][g]).perm
      BY <1>2, RightsType
    <3>2. /\ pgd'[p][g] = ReadOnly(pgd[p][g])
          /\ pgd'[c][g] = ReadOnly(pgd[p][g])
      BY <1>3, <2>1
    <3> QED
      BY <2>1, <3>1, <3>2, Zenon
  <2>2. CASE g \notin S
    BY <1>3, <2>2 DEF NoPte
  <2> QED
    BY <2>1, <2>2
<1> QED
  BY <1>1, <1>3, <1>4 DEF S

LEMMA ForkCovers ==
  ASSUME TypeOK, RefCountCovers, Fork
  PROVE  RefCountCovers'
<1> SUFFICES ASSUME NEW f \in Frames
             PROVE  Cardinality(MappedBy(pgd', f)) <= ref_cnt'[f]
  BY DEF RefCountCovers
<1> DEFINE p == current
           c == nr_tasks
           M == MappedBy(pgd, f)
           N == NewEntries(p, c, f)
<1>1. p \in Pids /\ c \in Pids
  BY ForkTables
<1>2. IsFiniteSet(M) /\ Cardinality(M) \in Nat
  BY EntriesFinite DEF MappedBy
<1>3. /\ IsFiniteSet(N) /\ Cardinality(N) \in Nat
      /\ Cardinality(Visits(p, f)) \in Nat
      /\ Cardinality(N) <= Cardinality(Visits(p, f))
  BY <1>1, VisitsCover
<1>4. Cardinality(M) <= ref_cnt[f] /\ ref_cnt[f] \in Nat
  BY DEF RefCountCovers, TypeOK
<1>5. ref_cnt'[f] = GetPage(ref_cnt[f], Cardinality(Visits(p, f)))
  BY DEF Fork
<1>6. MappedBy(pgd', f) \subseteq M \cup N
  <2> SUFFICES ASSUME NEW q \in Pids, NEW g \in Pages, pgd'[q][g].frame = f
               PROVE  <<q, g>> \in M \cup N
    BY DEF MappedBy
  <2>1. f # 0
    BY DEF Frames
  <2>2. CASE q = c
    BY <1>1, <2>1, <2>2, ForkTables DEF NewEntries, MappedBy
  <2>3. CASE q = p /\ q # c
    BY <1>1, <2>3, ForkTables DEF MappedBy
  <2>4. CASE q \notin {p, c}
    BY <1>1, <2>4, ForkTables DEF MappedBy
  <2> QED
    BY <2>2, <2>3, <2>4
<1>7. ASSUME NEW x \in N PROVE <<p, x[2]>> \in M
  BY <1>1 DEF NewEntries, MappedBy, Shared, Present
<1> HIDE DEF M, N
<1>8. /\ IsFiniteSet(M \cup N)
      /\ Cardinality(M \cup N) \in Nat
      /\ Cardinality(M \cup N) <= Cardinality(M) + Cardinality(N)
  <2>1. IsFiniteSet(M \cup N)
    BY <1>2, <1>3, FS_Union
  <2>2. IsFiniteSet(M \cap N)
    BY <1>2, FS_Subset
  <2>3. Cardinality(M \cup N) \in Nat /\ Cardinality(M \cap N) \in Nat
    BY <2>1, <2>2, FS_CardinalityType
  <2>4. Cardinality(M \cup N)
          = Cardinality(M) + Cardinality(N) - Cardinality(M \cap N)
    BY <1>2, <1>3, FS_Union
  <2> QED
    BY <1>2, <1>3, <2>1, <2>3, <2>4
<1>9. /\ Cardinality(MappedBy(pgd', f)) \in Nat
      /\ Cardinality(MappedBy(pgd', f)) <= Cardinality(M \cup N)
  BY <1>6, <1>8, FS_Subset, FS_CardinalityType
<1>10. CASE ref_cnt[f] = 0
  <2>1. M = {}
    BY <1>2, <1>4, <1>10, FS_EmptySet
  <2>2. M \cup N = {}
    BY <1>7, <2>1
  <2>3. Cardinality(M \cup N) = 0
    BY <2>2, FS_EmptySet
  <2> QED
    BY <1>5, <1>9, <1>10, <2>3 DEF GetPage
<1>11. CASE ref_cnt[f] # 0
  BY <1>2, <1>3, <1>4, <1>5, <1>8, <1>9, <1>11 DEF GetPage
<1> QED
  BY <1>10, <1>11

-----------------------------------------------------------------------------
(* The copy-on-write invariant *)

CowInv == TypeOK /\ RefCountCovers /\ SoleWriter /\ TlbCoherent

LEMMA CowInit == Init => CowInv
<1> SUFFICES ASSUME Init PROVE CowInv
  OBVIOUS
<1>1. TypeOK
  BY TypeInit
<1>2. \A p \in Pids, g \in Pages : ~Valid(pgd[p][g])
  BY DEF Init, NoMap, NoPte, Valid
<1>3. RefCountCovers
  <2> SUFFICES ASSUME NEW f \in Frames
               PROVE  Cardinality(MappedBy(pgd, f)) <= ref_cnt[f]
    BY DEF RefCountCovers
  <2>1. MappedBy(pgd, f) = {}
    BY <1>2 DEF MappedBy, Frames, Valid
  <2>2. Cardinality(MappedBy(pgd, f)) = 0
    BY <2>1, FS_EmptySet, Zenon
  <2> QED
    BY <2>2 DEF Init
<1>4. SoleWriter
  BY <1>2 DEF SoleWriter
<1>5. TlbCoherent
  <2>1. \A g \in Pages : ~Valid(tlb[g])
    BY DEF Init, NoMap, NoPte, Valid
  <2> QED
    BY <2>1 DEF TlbCoherent
<1> QED
  BY <1>1, <1>3, <1>4, <1>5 DEF CowInv

(* The two handlers that map a frame from alloc_page. *)
LEMMA MapsFresh ==
  ASSUME CowInv, NEW a \in Addresses, NEW acc \in Perms,
         FaultAbsent(a, acc) \/ FaultCopy(a, acc), TypeOK'
  PROVE  \E f \in Unused, e \in Pte :
           /\ e.frame = f
           /\ pgd' = [pgd EXCEPT ![current][PageOf(a)] = e]
           /\ ref_cnt'[f] = 1
           /\ \A k \in Frames \ {f} :
                ref_cnt'[k] = IF k = pgd[current][PageOf(a)].frame
                              THEN PutPage(ref_cnt[k]) ELSE ref_cnt[k]
<1> DEFINE g == PageOf(a)
<1>1. current \in Pids /\ g \in Pages /\ pgd[current][g] \in Pte
  BY PageOfType, CurrentType DEF CowInv, TypeOK
<1>2. CASE FaultAbsent(a, acc)
  <2> DEFINE v == find_vma(mm[current], a)
  <2>1. PICK f \in LowestFree :
          /\ pgd' = [pgd EXCEPT ![current][g] = [frame |-> f, perm |-> v.flags]]
          /\ ref_cnt' = [ref_cnt EXCEPT ![f] = 1]
    BY <1>2 DEF FaultAbsent
  <2>2. v \in Vma
    BY <1>1, <1>2, FindVma DEF FaultAbsent, AbsentFault, CowInv, TypeOK
  <2>3. f \in Unused /\ f \in Frames
    BY DEF LowestFree, Unused
  <2>4. [frame |-> f, perm |-> v.flags] \in Pte
    BY <2>2, <2>3 DEF Pte, Vma
  <2>5. pgd[current][g].frame \notin Frames
    BY <1>2 DEF FaultAbsent, AbsentFault, Valid, Frames
  <2>6. /\ ref_cnt'[f] = 1
        /\ \A k \in Frames \ {f} : ref_cnt'[k] = ref_cnt[k]
    BY <2>1, <2>3 DEF CowInv, TypeOK
  <2> USE <2>3, <2>4
  <2> WITNESS f \in Unused, [frame |-> f, perm |-> v.flags] \in Pte
  <2> QED
    BY <2>1, <2>5, <2>6
<1>3. CASE FaultCopy(a, acc)
  <2> DEFINE old == pgd[current][g].frame
             e(f) == [frame |-> f, perm |-> pgd[current][g].perm \cup {"W"}]
  <2>1. PICK f \in LowestFree :
          /\ ref_cnt' = [ref_cnt EXCEPT ![f] = 1, ![old] = PutPage(ref_cnt[old])]
          /\ pgd' = [pgd EXCEPT ![current][g] =
                       [frame |-> f, perm |-> @.perm \cup {"W"}]]
    BY <1>3 DEF FaultCopy
  <2>2. f \in Unused /\ f \in Frames /\ ref_cnt[f] = 0
    BY DEF LowestFree, Unused
  <2>3. e(f) \in Pte
    BY <1>1, <2>2 DEF Pte, Perms
  <2>4. /\ old \in Frames
        /\ old # f
    BY <1>1, <1>3, <2>2, MappedCounted DEF FaultCopy, CowFault, CowInv
  <2>5. /\ ref_cnt'[f] = 1
        /\ \A k \in Frames \ {f} :
             ref_cnt'[k] = IF k = old THEN PutPage(ref_cnt[k]) ELSE ref_cnt[k]
    BY <2>1, <2>2, <2>4 DEF CowInv, TypeOK
  <2>6. pgd' = [pgd EXCEPT ![current][g] = e(f)]
    BY <2>1
  <2> USE <2>2, <2>3
  <2> WITNESS f \in Unused, e(f) \in Pte
  <2> QED
    BY <2>5, <2>6
<1> QED
  BY <1>2, <1>3

LEMMA CoversStep == CowInv /\ [Next]_vars /\ TypeOK' => RefCountCovers'
<1> SUFFICES ASSUME CowInv, [Next]_vars, TypeOK' PROVE RefCountCovers'
  OBVIOUS
<1> USE DEF CowInv
<1>1. ASSUME UNCHANGED <<pgd, ref_cnt>> PROVE RefCountCovers'
  BY <1>1 DEF RefCountCovers
<1>2. ASSUME NEW q \in Pids, SwitchTo(q) PROVE RefCountCovers'
  BY <1>1, <1>2 DEF SwitchTo
<1>3. ASSUME NEW g \in Pages, CacheEntry(g) PROVE RefCountCovers'
  BY <1>1, <1>3 DEF CacheEntry
<1>4. ASSUME NEW g \in Pages, EvictEntry(g) PROVE RefCountCovers'
  BY <1>1, <1>4 DEF EvictEntry
<1>5. ASSUME NEW g \in Pages, NEW d \in Data, Store(g, d) PROVE RefCountCovers'
  BY <1>1, <1>5 DEF Store
<1>6. ASSUME NEW a \in Addresses, NEW acc \in Perms, PageFault(a, acc)
      PROVE  RefCountCovers'
  <2> DEFINE g == PageOf(a)
  <2>1. current \in Pids /\ g \in Pages
    BY PageOfType, CurrentType
  <2>2. CASE FaultAbsent(a, acc) \/ FaultCopy(a, acc)
    <3>1. PICK f \in Unused, e \in Pte :
            /\ e.frame = f
            /\ pgd' = [pgd EXCEPT ![current][g] = e]
            /\ ref_cnt'[f] = 1
            /\ \A k \in Frames \ {f} :
                 ref_cnt'[k] = IF k = pgd[current][g].frame
                               THEN PutPage(ref_cnt[k]) ELSE ref_cnt[k]
      BY <2>2, MapsFresh
    <3>2. ref_cnt' \in [Frames -> Nat]
      BY DEF TypeOK
    <3> QED
      BY <2>1, <3>1, <3>2, FreshFrame
  <2>3. CASE FaultUnshare(a, acc)
    <3>1. pgd[current][g] \in Pte
      BY <2>1 DEF TypeOK
    <3>2. \A q \in Pids, h \in Pages : pgd'[q][h].frame = pgd[q][h].frame
      BY <2>1, <2>3, <3>1, RightsType DEF FaultUnshare, TypeOK
    <3>3. \A f : MappedBy(pgd', f) = MappedBy(pgd, f)
      BY <3>2 DEF MappedBy
    <3>4. UNCHANGED ref_cnt
      BY <2>3 DEF FaultUnshare
    <3> QED
      BY <3>3, <3>4, Zenon DEF RefCountCovers
  <2>4. CASE \/ FaultNoVma(a, acc)
             \/ AbsentOutOfFrames(a, acc)
             \/ CopyOutOfFrames(a, acc)
             \/ FaultIgnored(a, acc)
    BY <1>1, <2>4
       DEF FaultNoVma, AbsentOutOfFrames, CopyOutOfFrames, FaultIgnored, vars
  <2> QED
    BY <1>6, <2>2, <2>3, <2>4 DEF PageFault
<1>7. CASE Fork
  BY <1>7, ForkCovers
<1>8. CASE ForkOutOfFrames \/ UNCHANGED vars
  BY <1>1, <1>8 DEF ForkOutOfFrames, vars
<1> QED
  BY <1>2, <1>3, <1>4, <1>5, <1>6, <1>7, <1>8 DEF Next

LEMMA SoleWriterStep == CowInv /\ [Next]_vars /\ TypeOK' => SoleWriter'
<1> SUFFICES ASSUME CowInv, [Next]_vars, TypeOK' PROVE SoleWriter'
  OBVIOUS
<1> USE DEF CowInv
<1>1. ASSUME UNCHANGED pgd PROVE SoleWriter'
  BY <1>1 DEF SoleWriter, Valid
<1>2. ASSUME NEW a \in Addresses, NEW acc \in Perms, PageFault(a, acc)
      PROVE  SoleWriter'
  <2> DEFINE g == PageOf(a)
  <2>1. current \in Pids /\ g \in Pages
    BY PageOfType, CurrentType
  <2>2. CASE FaultAbsent(a, acc) \/ FaultCopy(a, acc)
    <3>1. PICK f \in Unused, e \in Pte :
            /\ e.frame = f
            /\ pgd' = [pgd EXCEPT ![current][g] = e]
      BY <2>2, MapsFresh
    <3>2. \A q \in Pids, h \in Pages :
            pgd'[q][h] = IF q = current /\ h = g THEN e ELSE pgd[q][h]
      BY <2>1, <3>1 DEF TypeOK
    <3>3. ASSUME NEW q \in Pids, NEW h \in Pages PROVE pgd[q][h].frame # f
      <4>1. <<q, h>> \notin MappedBy(pgd, f)
        BY UnusedUnmapped
      <4> QED
        BY <4>1 DEF MappedBy
    <3> QED
      BY <3>1, <3>2, <3>3 DEF SoleWriter, Valid
  <2>3. CASE FaultUnshare(a, acc)
    <3> DEFINE e == Writable(pgd[current][g])
               f == pgd[current][g].frame
    <3>1. pgd[current][g] \in Pte /\ Valid(pgd[current][g])
      BY <2>1, <2>3 DEF TypeOK, FaultUnshare, CowFault
    <3>2. e \in Pte /\ e.frame = f
      BY <3>1, RightsType
    <3>3. \A q \in Pids, h \in Pages :
            pgd'[q][h] = IF q = current /\ h = g THEN e ELSE pgd[q][h]
      BY <2>1, <2>3 DEF FaultUnshare, TypeOK
    <3>4. MappedBy(pgd, f) = {<<current, g>>}
      BY <2>1, <2>3, <3>1, MappedCounted DEF FaultUnshare, OnlyUser
    <3>5. ASSUME NEW q \in Pids, NEW h \in Pages, pgd[q][h].frame = f
          PROVE  q = current /\ h = g
      <4>1. <<q, h>> \in MappedBy(pgd, f)
        BY <3>5 DEF MappedBy
      <4> QED
        BY <3>4, <4>1
    <3>6. \A q \in Pids, h \in Pages :
            /\ pgd'[q][h].frame = pgd[q][h].frame
            /\ ~(q = current /\ h = g) => pgd'[q][h] = pgd[q][h]
      BY <3>2, <3>3
    <3> QED
      BY <3>5, <3>6 DEF SoleWriter, Valid
  <2>4. CASE \/ FaultNoVma(a, acc)
             \/ AbsentOutOfFrames(a, acc)
             \/ CopyOutOfFrames(a, acc)
             \/ FaultIgnored(a, acc)
    BY <1>1, <2>4
       DEF FaultNoVma, AbsentOutOfFrames, CopyOutOfFrames, FaultIgnored, vars
  <2> QED
    BY <1>2, <2>2, <2>3, <2>4 DEF PageFault
<1>3. CASE Fork
  <2> SUFFICES ASSUME NEW p \in Pids, NEW q \in Pids,
                      NEW g \in Pages, NEW h \in Pages,
                      Valid(pgd'[p][g]),
                      "W" \in pgd'[p][g].perm,
                      pgd'[q][h].frame = pgd'[p][g].frame
               PROVE  q = p /\ h = g
    BY DEF SoleWriter, Valid
  <2>1. p # nr_tasks
    BY <1>3, ForkTables
  <2>2. /\ Valid(pgd[p][g])
        /\ "W" \in pgd[p][g].perm
        /\ pgd'[p][g].frame = pgd[p][g].frame
        /\ p = current => g \notin Shared(current)
    BY <1>3, <2>1, ForkTables DEF Valid
  <2>3. CASE q # nr_tasks
    <3>1. pgd'[q][h].frame = pgd[q][h].frame
      BY <1>3, <2>3, ForkTables
    <3>2. pgd[q][h].frame = pgd[p][g].frame
      BY <2>2, <3>1
    <3> QED
      BY <2>2, <3>2 DEF SoleWriter
  <2>4. CASE q = nr_tasks
    <3>1. h \in Shared(current) /\ pgd[current][h].frame = pgd[p][g].frame
      BY <1>3, <2>2, <2>4, ForkTables DEF Valid
    <3>2. current = p /\ h = g
      BY <1>3, <2>2, <3>1, ForkTables DEF SoleWriter
    <3> QED
      BY <2>2, <3>1, <3>2
  <2> QED
    BY <2>3, <2>4
<1>4. CASE \/ \E q \in Pids : SwitchTo(q)
           \/ \E g \in Pages : CacheEntry(g) \/ EvictEntry(g)
           \/ \E g \in Pages, d \in Data : Store(g, d)
           \/ ForkOutOfFrames
           \/ UNCHANGED vars
  BY <1>1, <1>4
     DEF SwitchTo, CacheEntry, EvictEntry, Store, ForkOutOfFrames, vars
<1> QED
  BY <1>2, <1>3, <1>4 DEF Next

LEMMA TlbStep == CowInv /\ [Next]_vars /\ TypeOK' => TlbCoherent'
<1> SUFFICES ASSUME CowInv, [Next]_vars, TypeOK' PROVE TlbCoherent'
  OBVIOUS
<1> USE DEF CowInv
<1>0. current \in Pids
  BY CurrentType
<1>1. ASSUME tlb' = SfenceVma PROVE TlbCoherent'
  BY <1>1 DEF TlbCoherent, SfenceVma, NoMap, NoPte, Valid
<1>2. ASSUME UNCHANGED <<current, pgd, tlb>> PROVE TlbCoherent'
  BY <1>2 DEF TlbCoherent, Valid
<1>3. ASSUME NEW g \in Pages, CacheEntry(g) PROVE TlbCoherent'
  BY <1>0, <1>3 DEF CacheEntry, TlbCoherent, Valid, TypeOK
<1>4. ASSUME NEW g \in Pages, EvictEntry(g) PROVE TlbCoherent'
  BY <1>4 DEF EvictEntry, TlbCoherent, Valid, TypeOK, NoPte
<1>5. ASSUME NEW a \in Addresses, NEW acc \in Perms, FaultAbsent(a, acc)
      PROVE  TlbCoherent'
  <2> DEFINE g == PageOf(a)
  <2>1. PICK e : pgd' = [pgd EXCEPT ![current][g] = e]
    BY <1>5, MapsFresh
  <2>2. g \in Pages /\ ~Valid(pgd[current][g])
    BY <1>5, PageOfType DEF FaultAbsent, AbsentFault
  <2>3. ~Valid(tlb[g])
    BY <2>2 DEF TlbCoherent, Valid
  <2>4. \A h \in Pages \ {g} : pgd'[current][h] = pgd[current][h]
    BY <1>0, <2>1 DEF TypeOK
  <2>5. UNCHANGED <<current, tlb>>
    BY <1>5 DEF FaultAbsent
  <2> QED
    BY <2>3, <2>4, <2>5 DEF TlbCoherent, Valid
<1>6. ASSUME NEW a \in Addresses, NEW acc \in Perms, PageFault(a, acc)
      PROVE  TlbCoherent'
  <2>1. CASE FaultUnshare(a, acc) \/ FaultCopy(a, acc)
    BY <1>1, <2>1 DEF FaultUnshare, FaultCopy
  <2>2. CASE \/ FaultNoVma(a, acc)
             \/ AbsentOutOfFrames(a, acc)
             \/ CopyOutOfFrames(a, acc)
             \/ FaultIgnored(a, acc)
    BY <1>2, <2>2
       DEF FaultNoVma, AbsentOutOfFrames, CopyOutOfFrames, FaultIgnored, vars
  <2> QED
    BY <1>5, <1>6, <2>1, <2>2 DEF PageFault
<1>7. CASE Fork \/ \E q \in Pids : SwitchTo(q)
  BY <1>1, <1>7 DEF Fork, SwitchTo
<1>8. CASE \/ \E g \in Pages, d \in Data : Store(g, d)
           \/ ForkOutOfFrames
           \/ UNCHANGED vars
  BY <1>2, <1>8 DEF Store, ForkOutOfFrames, vars
<1> QED
  BY <1>3, <1>4, <1>6, <1>7, <1>8 DEF Next

LEMMA CowInvariant == Spec => []CowInv
<1>1. CowInv /\ [Next]_vars => CowInv'
  BY TypeStep, CoversStep, SoleWriterStep, TlbStep DEF CowInv
<1> QED
  BY CowInit, <1>1, PTL DEF Spec

(* page_cow's put_page never frees, and change_perm never makes writable,  *)
(* a frame that another entry still maps.                                  *)
THEOREM CountsCover == Spec => []RefCountCovers
BY CowInvariant, PTL DEF CowInv

(* Copy-on-write fork: whoever may write to a frame is alone on it, for    *)
(* every program, number of tasks, pages and frames.                       *)
THEOREM WritersAlone == Spec => []SoleWriter
BY CowInvariant, PTL DEF CowInv

(* The fences of do_fork_cow, page_cow, change_perm and __switch_to are    *)
(* enough: no right taken away in a table survives in the TLB.             *)
THEOREM FencesSuffice == Spec => []TlbCoherent
BY CowInvariant, PTL DEF CowInv

-----------------------------------------------------------------------------
(* Frames are not used a second time *)

(* put_page runs on a frame with at least two references, so no handler    *)
(* takes a count to zero.                                                  *)
LEMMA CountsStayPositive ==
  ASSUME CowInv, [Next]_vars, TypeOK', NEW f \in Frames, ref_cnt[f] # 0
  PROVE  ref_cnt'[f] # 0
<1> USE DEF CowInv
<1>1. ASSUME NEW a \in Addresses, NEW acc \in Perms, PageFault(a, acc)
      PROVE  ref_cnt'[f] # 0
  <2> DEFINE g == PageOf(a)
  <2>1. current \in Pids /\ g \in Pages
    BY PageOfType, CurrentType
  <2>2. CASE FaultAbsent(a, acc) \/ FaultCopy(a, acc)
    <3>1. PICK k \in Unused :
            \A h \in Frames \ {k} :
              ref_cnt'[h] = IF h = pgd[current][g].frame
                            THEN PutPage(ref_cnt[h]) ELSE ref_cnt[h]
      BY <2>2, MapsFresh
    <3>2. f # k
      BY <3>1 DEF Unused
    <3>3. CASE f = pgd[current][g].frame
      <4>1. ~OnlyUser(ref_cnt[f])
        BY <2>2, <3>3
           DEF FaultAbsent, AbsentFault, FaultCopy, Valid, Frames
      <4>2. ref_cnt[f] \in Nat
        BY DEF TypeOK
      <4> QED
        BY <3>1, <3>2, <3>3, <4>1, <4>2 DEF OnlyUser, PutPage
    <3> QED
      BY <3>1, <3>2, <3>3
  <2>3. CASE \/ FaultUnshare(a, acc)
             \/ FaultNoVma(a, acc)
             \/ AbsentOutOfFrames(a, acc)
             \/ CopyOutOfFrames(a, acc)
             \/ FaultIgnored(a, acc)
    BY <2>3 DEF FaultUnshare, FaultNoVma, AbsentOutOfFrames,
                CopyOutOfFrames, FaultIgnored, vars
  <2> QED
    BY <1>1, <2>2, <2>3 DEF PageFault
<1>2. CASE Fork
  <2>1. Cardinality(Visits(current, f)) \in Nat
    BY CurrentType, VisitsCover
  <2>2. ref_cnt'[f] = GetPage(ref_cnt[f], Cardinality(Visits(current, f)))
    BY <1>2 DEF Fork
  <2>3. ref_cnt[f] \in Nat
    BY DEF TypeOK
  <2> QED
    BY <2>1, <2>2, <2>3 DEF GetPage
<1>3. CASE UNCHANGED ref_cnt
  BY <1>3
<1> QED
  BY <1>1, <1>2, <1>3
     DEF Next, SwitchTo, CacheEntry, EvictEntry, Store, ForkOutOfFrames, vars

(* A store goes to a frame that is counted, never to a free one, whatever  *)
(* the TLB has kept.                                                       *)
LEMMA StoresCounted ==
  ASSUME CowInv, NEW g \in Pages, NEW f \in Frames, Translate(g).frame = f
  PROVE  ref_cnt[f] # 0
<1> USE DEF CowInv
<1>1. pgd[current][g].frame = f
  BY DEF Translate, TlbCoherent
<1>2. Valid(pgd[current][g])
  BY <1>1 DEF Valid, Frames
<1>3. ref_cnt[f] \in Nat
  BY DEF TypeOK
<1> QED
  BY <1>1, <1>2, <1>3, CurrentType, MappedCounted

LEMMA CleanStep ==
  CowInv /\ FreshFramesClean /\ [Next]_vars /\ TypeOK' => FreshFramesClean'
<1> SUFFICES ASSUME CowInv, FreshFramesClean, [Next]_vars, TypeOK',
                    NEW f \in Frames, ref_cnt'[f] = 0
             PROVE  mem'[f] = Boot
  BY DEF FreshFramesClean, Unused
<1> USE DEF CowInv
<1>1. ref_cnt[f] = 0 /\ mem[f] = Boot
  BY CountsStayPositive DEF FreshFramesClean, Unused
<1>2. ASSUME NEW g \in Pages, NEW d \in Data, Store(g, d)
      PROVE  mem'[f] = Boot
  <2>1. Translate(g).frame # f
    BY <1>1, StoresCounted
  <2> QED
    BY <1>1, <1>2, <2>1 DEF Store, TypeOK
<1>3. ASSUME NEW a \in Addresses, NEW acc \in Perms, PageFault(a, acc)
      PROVE  mem'[f] = Boot
  <2>1. CASE FaultAbsent(a, acc) \/ FaultCopy(a, acc)
    <3>1. PICK k \in LowestFree :
            /\ \/ \E c : mem' = [mem EXCEPT ![k] = c]
               \/ mem' = mem
            /\ ref_cnt'[k] = 1
      <4>1. CASE FaultAbsent(a, acc)
        BY <4>1 DEF FaultAbsent, LowestFree, Unused, TypeOK
      <4>2. CASE FaultCopy(a, acc)
        <5> DEFINE old == pgd[current][PageOf(a)].frame
        <5>1. PICK k \in LowestFree :
                /\ mem' = [mem EXCEPT ![k] = mem[Translate(PageOf(a)).frame]]
                /\ ref_cnt' = [ref_cnt EXCEPT ![k] = 1,
                                              ![old] = PutPage(ref_cnt[old])]
          BY <4>2 DEF FaultCopy
        <5>2. k \in Frames /\ ref_cnt[k] = 0
          BY DEF LowestFree, Unused
        <5>3. old # k
          BY <4>2, <5>2, CurrentType, PageOfType, MappedCounted
             DEF FaultCopy, CowFault
        <5>4. ref_cnt'[k] = 1
          BY <5>1, <5>2, <5>3 DEF TypeOK
        <5> QED
          BY <5>1, <5>4
      <4> QED
        BY <2>1, <4>1, <4>2
    <3>2. f # k
      BY <3>1
    <3> QED
      BY <1>1, <3>1, <3>2 DEF TypeOK
  <2>2. CASE \/ FaultUnshare(a, acc)
             \/ FaultNoVma(a, acc)
             \/ AbsentOutOfFrames(a, acc)
             \/ CopyOutOfFrames(a, acc)
             \/ FaultIgnored(a, acc)
    BY <1>1, <2>2 DEF FaultUnshare, FaultNoVma, AbsentOutOfFrames,
                      CopyOutOfFrames, FaultIgnored, vars
  <2> QED
    BY <1>3, <2>1, <2>2 DEF PageFault
<1>4. CASE UNCHANGED mem
  BY <1>1, <1>4
<1> QED
  BY <1>2, <1>3, <1>4
     DEF Next, SwitchTo, CacheEntry, EvictEntry, Fork, ForkOutOfFrames, vars

(* No page alloc_page hands out was in use before: kalloc need not clear   *)
(* it, for any number of tasks, pages and frames.                          *)
THEOREM FramesFresh == Spec => []FreshFramesClean
<1>1. Init => FreshFramesClean
  BY DEF Init, FreshFramesClean, Unused
<1>2. CowInv /\ CowInv' /\ FreshFramesClean /\ [Next]_vars => FreshFramesClean'
  BY CleanStep DEF CowInv
<1> QED
  BY CowInvariant, <1>1, <1>2, PTL DEF Spec

-----------------------------------------------------------------------------
(* VMAs and the pages that are mapped for them *)

LEMMA PageOfMonotone ==
  ASSUME NEW a \in Nat, NEW b \in Nat, a <= b
  PROVE  PageOf(a) \in Nat /\ PageOf(b) \in Nat /\ PageOf(a) <= PageOf(b)
<1> DEFINE n == PGSIZE
           q == a \div n
           r == b \div n
<1>1. n \in Nat /\ n > 0
  BY CowForkAssumption
<1>2. q \in Nat /\ r \in Nat
  BY <1>1
<1>3. n * q <= a /\ b < n * r + n
  BY <1>1
<1>4. q <= r
  <2>1. SUFFICES ASSUME r + 1 <= q PROVE FALSE
    BY <1>2
  <2>2. n * (r + 1) <= n * q
    BY <1>1, <1>2, <2>1
  <2>3. n * (r + 1) = n * r + n
    BY <1>1, <1>2
  <2> QED
    BY <1>1, <1>2, <1>3, <2>2, <2>3
<1> QED
  BY <1>2, <1>4 DEF PageOf

(* The page of an address a VMA holds is one its fork visits. *)
LEMMA HeldInRange ==
  ASSUME NEW v \in Vma, NEW a \in Addresses, Holds(v, a)
  PROVE  PageOf(a) \in ForkRange(v) /\ Touches(v, PageOf(a))
<1>1. v.vm_start \in Nat /\ v.vm_end \in Nat /\ a \in Nat
  BY CowForkAssumption DEF Vma, Addresses
<1>2. v.vm_start <= a /\ a <= v.vm_end
  BY <1>1 DEF Holds
<1>3. PageOf(v.vm_start) <= PageOf(a) /\ PageOf(a) <= PageOf(v.vm_end)
  BY <1>1, <1>2, PageOfMonotone
<1> QED
  BY <1>3, PageOfType DEF ForkRange, Touches

(* add_mmap prepends: a list copied twice is the list. *)
LEMMA ReverseLen ==
  ASSUME NEW S, NEW s \in Seq(S)
  PROVE  /\ Len(Reverse(s)) = Len(s)
         /\ \A k \in 1 .. Len(s) : /\ Len(s) - k + 1 \in 1 .. Len(s)
                                   /\ Reverse(s)[k] = s[Len(s) - k + 1]
BY DEF Reverse

LEMMA ReverseTwice ==
  ASSUME NEW S, NEW s \in Seq(S)
  PROVE  Reverse(Reverse(s)) = s
<1> DEFINE r == Reverse(s)
<1>1. r \in Seq(S) /\ Len(r) = Len(s)
  BY ReverseType, ReverseLen
<1>2. Reverse(r) \in Seq(S) /\ Len(Reverse(r)) = Len(s)
  BY <1>1, ReverseType, ReverseLen
<1>3. ASSUME NEW k \in 1 .. Len(s) PROVE Reverse(r)[k] = s[k]
  <2>1. Len(s) - k + 1 \in 1 .. Len(s) /\ Len(s) - (Len(s) - k + 1) + 1 = k
    OBVIOUS
  <2>2. Reverse(r)[k] = r[Len(s) - k + 1]
    BY <1>1, ReverseLen
  <2> QED
    BY <2>1, <2>2, ReverseLen
<1> HIDE DEF r
<1>4. Reverse(r) = s
  BY <1>2, <1>3, SeqEqual
<1> QED
  BY <1>4 DEF r

(* The list of every task is the program's or the same list reversed, what *)
(* is mapped lies in the range of a VMA, and tasks that do not exist have  *)
(* nothing mapped.                                                         *)
ListsKept ==
  \A p \in Pids : mm[p] \in {LoadedVmas, Reverse(LoadedVmas)} \/ p >= nr_tasks
RangesCover ==
  \A p \in Pids, g \in Pages :
    Valid(pgd[p][g]) => /\ p < nr_tasks
                        /\ \E k \in 1 .. Len(mm[p]) : g \in ForkRange(mm[p][k])
MappedOnly ==
  \A p \in Pids, g \in Pages : pgd[p][g].perm # {} => Valid(pgd[p][g])
ListInv == ListsKept /\ RangesCover /\ MappedOnly

LEMMA VmaOfProgram ==
  ASSUME NEW l \in {LoadedVmas, Reverse(LoadedVmas)}
  PROVE  /\ Len(l) = Len(LoadedVmas)
         /\ \A k \in 1 .. Len(l) : \E j \in 1 .. Len(LoadedVmas) : l[k] = LoadedVmas[j]
<1>1. LoadedVmas \in Seq(Vma)
  BY CowForkAssumption
<1>2. Len(Reverse(LoadedVmas)) = Len(LoadedVmas)
      /\ \A k \in 1 .. Len(LoadedVmas) :
           /\ Len(LoadedVmas) - k + 1 \in 1 .. Len(LoadedVmas)
           /\ Reverse(LoadedVmas)[k] = LoadedVmas[Len(LoadedVmas) - k + 1]
  BY <1>1, ReverseLen
<1> QED
  BY <1>2

(* What do_fork_cow leaves of the rights. *)
LEMMA ForkRights ==
  ASSUME TypeOK, Fork, NEW g \in Pages
  PROVE  /\ pgd'[current][g].perm = IF g \in Shared(current)
                                     THEN pgd[current][g].perm \ {"W"}
                                     ELSE pgd[current][g].perm
         /\ pgd'[nr_tasks][g].perm = IF g \in Shared(current)
                                     THEN pgd[current][g].perm \ {"W"} ELSE {}
<1> DEFINE p == current
           c == nr_tasks
           S == Shared(p)
<1>1. p \in Pids /\ c \in Pids /\ c # p
  BY CowForkAssumption DEF Fork, TypeOK, Pids
<1>2. pgd[p][g] \in Pte
  BY <1>1 DEF TypeOK
<1>3. /\ pgd'[p][g] = IF g \in S THEN ReadOnly(pgd[p][g]) ELSE pgd[p][g]
      /\ pgd'[c][g] = IF g \in S THEN ReadOnly(pgd[p][g]) ELSE NoPte
  BY <1>1 DEF Fork, TypeOK
<1>4. ReadOnly(pgd[p][g]).perm = pgd[p][g].perm \ {"W"} /\ NoPte.perm = {}
  BY <1>2, RightsType DEF NoPte
<1> HIDE DEF S
<1>5. CASE g \in S
  BY <1>3, <1>4, <1>5 DEF S
<1>6. CASE g \notin S
  BY <1>3, <1>4, <1>6 DEF S
<1> QED
  BY <1>5, <1>6

(* So a VMA find_vma returns is one of the program. *)
LEMMA FoundInProgram ==
  ASSUME TypeOK, ListInv, NEW a, HasVma(mm[current], a)
  PROVE  \E j \in 1 .. Len(LoadedVmas) :
           find_vma(mm[current], a) = LoadedVmas[j] /\ Holds(LoadedVmas[j], a)
<1> DEFINE l == mm[current]
           K == {k \in 1 .. Len(l) : Holds(l[k], a)}
<1>0. current \in Pids /\ current < nr_tasks
  BY CurrentType DEF TypeOK
<1>1. l \in {LoadedVmas, Reverse(LoadedVmas)} /\ l \in Seq(Vma)
  BY <1>0 DEF ListInv, ListsKept, TypeOK
<1>2. K \in SUBSET Nat /\ K # {}
  BY <1>1 DEF HasVma
<1>3. PICK k \in K : \A j \in K : k <= j
  BY <1>2, LeastElement
<1>4. \E i \in 1 .. Len(l) : find_vma(l, a) = l[i] /\ Holds(l[i], a)
  <2>1. /\ k \in 1 .. Len(l) /\ Holds(l[k], a)
        /\ \A j \in 1 .. k - 1 : ~Holds(l[j], a)
    BY <1>1, <1>3
  <2> QED
    BY <2>1 DEF find_vma
<1> QED
  BY <1>1, <1>4, VmaOfProgram

LEMMA ListInit == Init => ListInv
BY CowForkAssumption
   DEF Init, ListInv, ListsKept, RangesCover, MappedOnly, NoMap, NoPte, Valid, Pids

LEMMA ListStep == CowInv /\ ListInv /\ [Next]_vars /\ TypeOK' => ListInv'
<1> SUFFICES ASSUME CowInv, ListInv, [Next]_vars, TypeOK' PROVE ListInv'
  OBVIOUS
<1> USE DEF CowInv
<1>0. current \in Pids /\ current < nr_tasks
  BY CurrentType DEF TypeOK
<1>1. ASSUME UNCHANGED <<nr_tasks, pgd, mm>> PROVE ListInv'
  BY <1>1 DEF ListInv, ListsKept, RangesCover, MappedOnly, Valid
<1>2. ASSUME NEW a \in Addresses, NEW acc \in Perms, PageFault(a, acc) PROVE ListInv'
  <2> DEFINE g == PageOf(a)
  <2>0. g \in Pages
    BY PageOfType
  <2>1. ASSUME UNCHANGED <<nr_tasks, mm>>, HasVma(mm[current], a),
               NEW e, e.frame # 0, pgd' = [pgd EXCEPT ![current][g] = e]
        PROVE  ListInv'
    <3>1. ListsKept'
      BY <2>1 DEF ListInv, ListsKept
    <3>2. \E k \in 1 .. Len(mm[current]) : g \in ForkRange(mm[current][k])
      <4>1. mm[current] \in Seq(Vma)
        BY <1>0 DEF TypeOK
      <4>2. PICK k \in 1 .. Len(mm[current]) : Holds(mm[current][k], a)
        BY <2>1 DEF HasVma
      <4> QED
        BY <4>1, <4>2, HeldInRange
    <3>3. \A p \in Pids, h \in Pages :
            p # current \/ h # g => pgd'[p][h] = pgd[p][h]
      BY <2>1 DEF TypeOK
    <3>4. RangesCover'
      BY <1>0, <2>1, <3>2, <3>3 DEF ListInv, RangesCover, Valid
    <3>5. MappedOnly'
      BY <1>0, <2>0, <2>1, <3>3 DEF ListInv, MappedOnly, Valid, TypeOK
    <3> QED
      BY <3>1, <3>4, <3>5 DEF ListInv
  <2>2. CASE FaultAbsent(a, acc)
    <3>1. PICK f \in Frames :
            pgd' = [pgd EXCEPT ![current][g] =
                      [frame |-> f, perm |-> find_vma(mm[current], a).flags]]
      BY <2>2 DEF FaultAbsent, LowestFree, Unused
    <3> DEFINE e == [frame |-> f, perm |-> find_vma(mm[current], a).flags]
    <3>2. e.frame # 0 /\ pgd' = [pgd EXCEPT ![current][g] = e]
      BY <3>1 DEF Frames
    <3>3. UNCHANGED <<nr_tasks, mm>> /\ HasVma(mm[current], a)
      BY <2>2 DEF FaultAbsent, AbsentFault
    <3> HIDE DEF e
    <3> QED
      BY <2>1, <3>2, <3>3
  <2>3. CASE FaultUnshare(a, acc)
    <3>1. Writable(pgd[current][g]).frame # 0
      BY <1>0, <2>0, <2>3, RightsType DEF FaultUnshare, CowFault, Valid, TypeOK
    <3>2. pgd' = [pgd EXCEPT ![current][g] = Writable(pgd[current][g])]
      BY <1>0, <2>0, <2>3 DEF FaultUnshare, TypeOK
    <3> QED
      BY <2>1, <2>3, <3>1, <3>2 DEF FaultUnshare, CowFault
  <2>4. CASE FaultCopy(a, acc)
    <3>1. PICK f \in Frames :
            pgd' = [pgd EXCEPT ![current][g] =
                      [frame |-> f, perm |-> pgd[current][g].perm \cup {"W"}]]
      BY <1>0, <2>0, <2>4 DEF FaultCopy, LowestFree, Unused, TypeOK
    <3> DEFINE e == [frame |-> f, perm |-> pgd[current][g].perm \cup {"W"}]
    <3>2. e.frame # 0 /\ pgd' = [pgd EXCEPT ![current][g] = e]
      BY <3>1 DEF Frames
    <3>3. UNCHANGED <<nr_tasks, mm>> /\ HasVma(mm[current], a)
      BY <2>4 DEF FaultCopy, CowFault
    <3> HIDE DEF e
    <3> QED
      BY <2>1, <3>2, <3>3
  <2>5. CASE UNCHANGED <<nr_tasks, pgd, mm>>
    BY <1>1, <2>5
  <2> QED
    BY <1>2, <2>2, <2>3, <2>4, <2>5
       DEF PageFault, FaultNoVma, AbsentOutOfFrames, CopyOutOfFrames, FaultIgnored, vars
<1>3. CASE Fork
  <2>1. PICK c : c = nr_tasks
    OBVIOUS
  <2>2. /\ c \in Pids /\ c # current /\ nr_tasks' = c + 1 /\ c \in Nat
        /\ mm' = [mm EXCEPT ![c] = Reverse(mm[current])]
        /\ mm[current] \in Seq(Vma)
        /\ mm[current] \in {LoadedVmas, Reverse(LoadedVmas)}
    BY <1>0, <1>3, <2>1, ForkTables DEF Fork, TypeOK, ListInv, ListsKept
  <2>3. /\ mm'[c] = Reverse(mm[current])
        /\ \A p \in Pids : p # c => mm'[p] = mm[p]
    BY <2>2 DEF TypeOK
  <2>4. mm'[c] \in {LoadedVmas, Reverse(LoadedVmas)}
    BY <2>2, <2>3, ReverseTwice, CowForkAssumption
  <2>5. ListsKept'
    BY <2>1, <2>2, <2>3, <2>4 DEF ListInv, ListsKept, Pids
  <2>6. \A p \in Pids, g \in Pages :
          Valid(pgd'[p][g]) => p < c \/ (p = c /\ g \in Shared(current))
    <3>1. \A g \in Pages : Valid(pgd'[c][g]) => g \in Shared(current)
      BY <1>3, <2>1, ForkTables DEF Valid
    <3>2. \A g \in Pages : Valid(pgd'[current][g]) = Valid(pgd[current][g])
      BY <1>3, ForkTables DEF Valid
    <3>3. \A p \in Pids : p # c /\ p # current => pgd'[p] = pgd[p]
      BY <1>3, <2>1 DEF Fork, TypeOK
    <3> QED
      BY <1>0, <2>1, <3>1, <3>2, <3>3 DEF ListInv, RangesCover
  <2>7. ASSUME NEW p \in Pids, NEW g \in Pages, Valid(pgd'[p][g]), p # c
        PROVE  \E k \in 1 .. Len(mm[p]) : g \in ForkRange(mm[p][k])
    <3>1. CASE p = current
      BY <1>3, <2>7, <3>1, ForkTables DEF Valid, ListInv, RangesCover
    <3>2. CASE p # current
      BY <1>3, <2>1, <2>7, <3>2 DEF Fork, TypeOK, ListInv, RangesCover
    <3> QED
      BY <3>1, <3>2
  <2>8. \A g \in Shared(current) :
          \E k \in 1 .. Len(mm'[c]) : g \in ForkRange(mm'[c][k])
    <3> TAKE g \in Shared(current)
    <3>1. PICK k \in 1 .. Len(mm[current]) : g \in ForkRange(mm[current][k])
      BY DEF Shared
    <3> DEFINE j == Len(mm[current]) - k + 1
    <3>2. j \in 1 .. Len(mm[current]) /\ Len(mm[current]) - j + 1 = k
      BY <2>2
    <3>3. Len(mm'[c]) = Len(mm[current]) /\ mm'[c][j] = mm[current][k]
      BY <2>2, <2>3, <3>2, ReverseLen
    <3> QED
      BY <3>1, <3>2, <3>3
  <2>9. RangesCover'
    BY <2>2, <2>3, <2>6, <2>7, <2>8 DEF RangesCover, Pids
  <2>10. MappedOnly'
    <3> SUFFICES ASSUME NEW p \in Pids, NEW g \in Pages, pgd'[p][g].perm # {}
                 PROVE  pgd'[p][g].frame # 0
      BY DEF MappedOnly, Valid
    <3>1. CASE p = current
      <4>1. pgd[current][g].perm # {}
        BY <1>3, <3>1, ForkRights
      <4> QED
        BY <1>0, <1>3, <3>1, <4>1, ForkTables DEF ListInv, MappedOnly, Valid
    <3>2. CASE p = c
      <4>1. g \in Shared(current)
        BY <1>3, <2>1, <3>2, ForkRights
      <4> QED
        BY <1>3, <2>1, <3>2, <4>1, ForkTables DEF Shared, Present, Valid
    <3>3. CASE p # current /\ p # c
      BY <1>3, <2>1, <3>3, ForkTables DEF ListInv, MappedOnly, Valid
    <3> QED
      BY <3>1, <3>2, <3>3
  <2> QED
    BY <2>5, <2>9, <2>10 DEF ListInv
<1>4. CASE ForkOutOfFrames
  BY <1>1, <1>4 DEF ForkOutOfFrames
<1>5. ASSUME NEW g \in Pages, CacheEntry(g) \/ EvictEntry(g) PROVE ListInv'
  BY <1>1, <1>5 DEF CacheEntry, EvictEntry
<1>6. ASSUME NEW g \in Pages, NEW d \in Data, Store(g, d) PROVE ListInv'
  BY <1>1, <1>6 DEF Store
<1>7. ASSUME NEW q \in Pids, SwitchTo(q) PROVE ListInv'
  BY <1>1, <1>7 DEF SwitchTo
<1>8. CASE UNCHANGED vars
  BY <1>1, <1>8 DEF vars
<1> QED
  BY <1>2, <1>3, <1>4, <1>5, <1>6, <1>7, <1>8 DEF Next

LEMMA ListInvariant == Spec => [](CowInv /\ ListInv /\ FreshFramesClean)
<1>1. CowInv /\ CowInv' /\ ListInv /\ [Next]_vars => ListInv'
  BY ListStep DEF CowInv
<1> QED
  BY CowInvariant, FramesFresh, ListInit, <1>1, PTL DEF Spec

-----------------------------------------------------------------------------
(* do_fork_cow implements the eager fork *)

(* What the mapping to ProcMem makes of the state. *)
Seen(p, g) == IF p < nr_tasks THEN View(p, g) ELSE Image[g]
Memory == [p \in Pids |-> [g \in Pages |-> Seen(p, g)]]
Values == {Stored(d) : d \in Data}

(* A page that is filled on demand looks as it did before. *)
LEMMA ImageFilled ==
  ASSUME OneSource(LoadedVmas), NEW j \in 1 .. Len(LoadedVmas), NEW g \in Pages,
         Touches(LoadedVmas[j], g)
  PROVE  Image[g] = Fill(LoadedVmas[j], g)
<1> DEFINE L == LoadedVmas
           fileVmas == {k \in 1 .. Len(L) : ~L[k].anon /\ Touches(L[k], g)}
<1>1. Image[g] = IF fileVmas = {} THEN Boot
                 ELSE File(g - PageOf(L[CHOOSE k \in fileVmas : TRUE].vm_start))
  BY DEF Image
<1>2. \A k \in fileVmas : Fill(L[k], g) = File(g - PageOf(L[k].vm_start))
                          /\ Fill(L[k], g) = Fill(L[j], g)
  BY DEF Fill, OneSource
<1>3. \A n, m : Boot # File(n)
  BY DEF Boot, File
<1>4. CASE fileVmas = {}
  <2>1. L[j].anon
    BY <1>4
  <2> QED
    BY <1>1, <1>4, <2>1 DEF Fill
<1>5. CASE fileVmas # {}
  <2>1. (CHOOSE k \in fileVmas : TRUE) \in fileVmas
    BY <1>5
  <2> HIDE DEF fileVmas
  <2> QED
    BY <1>1, <1>2, <1>5, <2>1
<1> QED
  BY <1>4, <1>5

(* The steps of Memory: nothing changes unless a frame it is seen through  *)
(* does.                                                                   *)
LEMMA MemorySame ==
  ASSUME \A p \in Pids, g \in Pages : Seen(p, g)' = Seen(p, g)
  PROVE  Memory' = Memory
BY DEF Memory

(* In a step that changes one frame, or none, whoever maps another frame   *)
(* sees what he saw.                                                       *)
LEMMA SeenKept ==
  ASSUME UNCHANGED nr_tasks, NEW p \in Pids, NEW g \in Pages, NEW f,
         pgd'[p][g].frame = pgd[p][g].frame,
         pgd[p][g].frame # f,
         \A h \in Frames : h # f => mem'[h] = mem[h],
         pgd \in [Pids -> [Pages -> Pte]]
  PROVE  Seen(p, g)' = Seen(p, g)
<1>1. pgd[p][g].frame \in Frames \cup {0}
  BY DEF Pte
<1>2. Valid(pgd[p][g])' = Valid(pgd[p][g])
  BY DEF Valid
<1>3. Valid(pgd[p][g]) => mem'[pgd[p][g].frame] = mem[pgd[p][g].frame]
  BY <1>1 DEF Valid
<1>4. View(p, g)' = View(p, g)
  BY <1>2, <1>3 DEF View
<1> QED
  BY <1>4 DEF Seen

LEMMA StoreSeen ==
  ASSUME CowInv, ListInv, NEW g \in Pages, NEW d \in Data, Store(g, d)
  PROVE  Memory' = [Memory EXCEPT ![current][g] = Stored(d)]
<1> USE DEF CowInv
<1> DEFINE f == Translate(g).frame
<1>1. /\ current \in Pids /\ current < nr_tasks /\ pgd \in [Pids -> [Pages -> Pte]]
      /\ mem \in [Frames -> Contents]
  BY CurrentType DEF TypeOK
<1>2. /\ "W" \in Translate(g).perm /\ mem' = [mem EXCEPT ![f] = Stored(d)]
      /\ UNCHANGED <<current, nr_tasks, pgd, mm, tlb, ref_cnt, kernel>>
  BY DEF Store
<1>3. pgd[current][g].frame = f /\ "W" \in pgd[current][g].perm
  BY <1>2 DEF Translate, TlbCoherent
<1>4. Valid(pgd[current][g]) /\ f \in Frames
  BY <1>1, <1>3 DEF ListInv, MappedOnly, Valid, Pte
<1>5. ASSUME NEW p \in Pids, NEW h \in Pages, p # current \/ h # g
      PROVE  Seen(p, h)' = Seen(p, h)
  <2>1. pgd[p][h].frame # f
    BY <1>1, <1>3, <1>4, <1>5 DEF SoleWriter
  <2> QED
    BY <1>1, <1>2, <2>1, SeenKept
<1>6. Seen(current, g)' = Stored(d)
  BY <1>1, <1>2, <1>3, <1>4 DEF Seen, View, Valid
<1>7. Memory' = [p \in Pids |-> [h \in Pages |-> IF p = current /\ h = g
                                                 THEN Stored(d) ELSE Seen(p, h)]]
  BY <1>5, <1>6, <1>2 DEF Memory
<1> QED
  BY <1>1, <1>7 DEF Memory

(* A fault shows nothing: not the page it fills, nor the one it copies.    *)
LEMMA FaultSeen ==
  ASSUME OneSource(LoadedVmas), CowInv, ListInv, FreshFramesClean,
         NEW a \in Addresses, NEW acc \in Perms, PageFault(a, acc)
  PROVE  Memory' = Memory /\ UNCHANGED <<current, nr_tasks>>
<1> USE DEF CowInv
<1> DEFINE g == PageOf(a)
<1>1. /\ current \in Pids /\ current < nr_tasks /\ pgd \in [Pids -> [Pages -> Pte]]
      /\ mem \in [Frames -> Contents] /\ g \in Pages
  BY CurrentType, PageOfType DEF TypeOK
<1>2. ASSUME UNCHANGED <<nr_tasks, mem>>,
             \A p \in Pids, h \in Pages : pgd'[p][h].frame = pgd[p][h].frame
      PROVE  Memory' = Memory
  BY <1>2, MemorySame DEF Seen, View, Valid
<1>3. ASSUME UNCHANGED nr_tasks, NEW f \in Unused, NEW r,
             pgd' = [pgd EXCEPT ![current][g] = [frame |-> f, perm |-> r]],
             \A h \in Frames : h # f => mem'[h] = mem[h],
             mem'[f] = View(current, g)
      PROVE  Memory' = Memory
  <2>1. ASSUME NEW p \in Pids, NEW h \in Pages, pgd[p][h].frame = f PROVE FALSE
    <3>1. <<p, h>> \in MappedBy(pgd, f)
      BY <2>1 DEF MappedBy
    <3> QED
      BY <3>1, UnusedUnmapped
  <2>2. \A p \in Pids, h \in Pages : p # current \/ h # g => pgd'[p][h] = pgd[p][h]
    BY <1>1, <1>3
  <2>3. ASSUME NEW p \in Pids, NEW h \in Pages, p # current \/ h # g
        PROVE  Seen(p, h)' = Seen(p, h)
    <3>1. pgd[p][h].frame # f /\ pgd'[p][h].frame = pgd[p][h].frame
      BY <2>1, <2>2, <2>3
    <3> QED
      BY <1>1, <1>3, <3>1, SeenKept
  <2>4. pgd'[current][g].frame = f /\ f \in Frames
    BY <1>1, <1>3 DEF Unused
  <2>5. UNCHANGED current
    BY DEF PageFault, FaultNoVma, FaultAbsent, AbsentOutOfFrames, FaultUnshare,
           FaultCopy, CopyOutOfFrames, FaultIgnored, vars
  <2>6. \A p \in Pids : p = current => Seen(p, g)' = Seen(p, g)
    BY <1>1, <1>3, <2>4, <2>5 DEF Seen, View, Valid, Frames
  <2> QED
    BY <2>3, <2>6, MemorySame
<1>4. CASE FaultAbsent(a, acc)
  <2> DEFINE v == find_vma(mm[current], a)
  <2>1. PICK f \in LowestFree :
          /\ pgd' = [pgd EXCEPT ![current][g] = [frame |-> f, perm |-> v.flags]]
          /\ mem' = IF v.anon THEN mem
                    ELSE [mem EXCEPT ![f] = File(g - PageOf(v.vm_start))]
    BY <1>4 DEF FaultAbsent
  <2>2. HasVma(mm[current], a) /\ ~Valid(pgd[current][g]) /\ UNCHANGED <<current, nr_tasks>>
    BY <1>4 DEF FaultAbsent, AbsentFault
  <2>3. PICK j \in 1 .. Len(LoadedVmas) : v = LoadedVmas[j] /\ Holds(LoadedVmas[j], a)
    BY <2>2, FoundInProgram
  <2>4. f \in Unused /\ f \in Frames
    BY DEF LowestFree, Unused
  <2>5. mem'[f] = Fill(v, g) /\ \A h \in Frames : h # f => mem'[h] = mem[h]
    BY <1>1, <2>1, <2>4 DEF FreshFramesClean, Fill
  <2>6. Touches(LoadedVmas[j], g)
    BY <2>3 DEF Touches
  <2>7. View(current, g) = Fill(v, g)
    BY <1>1, <2>2, <2>3, <2>6, ImageFilled DEF View
  <2> QED
    BY <1>3, <2>1, <2>2, <2>4, <2>5, <2>7
<1>5. CASE FaultUnshare(a, acc)
  <2>1. /\ pgd' = [pgd EXCEPT ![current][g] = Writable(pgd[current][g])]
        /\ UNCHANGED <<current, nr_tasks, mem>>
    BY <1>1, <1>5 DEF FaultUnshare
  <2>2. Writable(pgd[current][g]).frame = pgd[current][g].frame
    BY <1>1, RightsType
  <2> QED
    BY <1>1, <1>2, <2>1, <2>2
<1>6. CASE FaultCopy(a, acc)
  <2>1. PICK f \in LowestFree :
          /\ mem' = [mem EXCEPT ![f] = mem[Translate(g).frame]]
          /\ pgd' = [pgd EXCEPT ![current][g] =
                       [frame |-> f, perm |-> pgd[current][g].perm \cup {"W"}]]
    BY <1>1, <1>6 DEF FaultCopy
  <2>2. Valid(pgd[current][g]) /\ UNCHANGED <<current, nr_tasks>>
    BY <1>6 DEF FaultCopy, CowFault
  <2>3. Translate(g).frame = pgd[current][g].frame
    BY <1>1 DEF Translate, TlbCoherent
  <2>4. f \in Unused /\ f \in Frames
    BY DEF LowestFree, Unused
  <2>5. mem'[f] = View(current, g) /\ \A h \in Frames : h # f => mem'[h] = mem[h]
    BY <1>1, <2>1, <2>2, <2>3, <2>4 DEF View
  <2> QED
    BY <1>3, <2>1, <2>2, <2>4, <2>5
<1>7. CASE UNCHANGED <<current, nr_tasks, pgd, mem>>
  BY <1>2, <1>7
<1> QED
  BY <1>4, <1>5, <1>6, <1>7
     DEF PageFault, FaultNoVma, AbsentOutOfFrames, CopyOutOfFrames, FaultIgnored, vars,
         FaultAbsent, FaultUnshare, FaultCopy

(* The child sees what its parent saw, through entries it shares or, where *)
(* nothing is mapped, in the file.                                         *)
LEMMA ForkSeen ==
  ASSUME CowInv, ListInv, Fork
  PROVE  Memory' = [Memory EXCEPT ![nr_tasks] = Memory[current]]
<1> USE DEF CowInv
<1>0. PICK c : c = nr_tasks
  OBVIOUS
<1>1. /\ current \in Pids /\ current < nr_tasks /\ c \in Pids /\ c # current
      /\ nr_tasks' = c + 1 /\ c \in Nat /\ UNCHANGED <<current, mem>>
      /\ pgd \in [Pids -> [Pages -> Pte]]
  BY <1>0, CurrentType, ForkTables DEF TypeOK, Fork
<1>2. \A g \in Pages : Valid(pgd[current][g]) => g \in Shared(current)
  BY <1>1 DEF ListInv, RangesCover, Shared, Present
<1>3. ASSUME NEW p \in Pids, NEW g \in Pages
      PROVE  Seen(p, g)' = IF p = c THEN Seen(current, g) ELSE Seen(p, g)
  <2>1. CASE p = c
    <3>1. pgd'[c][g].frame = pgd[current][g].frame
      BY <1>0, <1>1, <1>2, ForkTables DEF Valid
    <3> QED
      BY <1>0, <1>1, <2>1, <3>1 DEF Seen, View, Valid
  <2>2. CASE p # c
    <3>1. pgd'[p][g].frame = pgd[p][g].frame
      BY <1>0, <1>1, <2>2, ForkTables
    <3>2. p < nr_tasks' <=> p < nr_tasks
      BY <1>0, <1>1, <2>2 DEF Pids
    <3> QED
      BY <1>0, <1>1, <2>2, <3>1, <3>2 DEF Seen, View, Valid
  <2> QED
    BY <2>1, <2>2
<1>4. Memory' = [p \in Pids |-> [g \in Pages |-> IF p = c THEN Seen(current, g)
                                                 ELSE Seen(p, g)]]
  BY <1>3 DEF Memory
<1> QED
  BY <1>0, <1>1, <1>4 DEF Memory

LEMMA MemoryInit == Init => Memory = [p \in Pids |-> Image]
<1> SUFFICES ASSUME Init PROVE Memory = [p \in Pids |-> Image]
  OBVIOUS
<1>1. \A p \in Pids, g \in Pages : Seen(p, g) = Image[g]
  BY DEF Init, Seen, View, NoMap, NoPte, Valid
<1>2. Image = [g \in Pages |-> Image[g]]
  BY DEF Image
<1> QED
  BY <1>1, <1>2 DEF Memory

(* Every step is a step of the eager fork or of a store, or shows nothing. *)
LEMMA PrivateStep ==
  OneSource(LoadedVmas) /\ CowInv /\ ListInv /\ FreshFramesClean /\ [Next]_vars
    => [Private!Next]_(Private!vars)
<1> SUFFICES ASSUME OneSource(LoadedVmas), CowInv, ListInv, FreshFramesClean, [Next]_vars
             PROVE  Private!Next \/ UNCHANGED <<current, nr_tasks, Memory>>
  BY DEF Private!vars, Memory, Seen
<1>0. Private!Pids = Pids
  BY DEF Private!Pids, Pids
<1>1. ASSUME NEW q \in Pids, SwitchTo(q) PROVE Private!Next
  <2>1. Memory' = Memory
    BY <1>1 DEF SwitchTo, Memory, Seen, View
  <2> QED
    BY <1>0, <1>1, <2>1
       DEF SwitchTo, Runnable, Private!Next, Private!SwitchTo, Memory, Seen
<1>2. ASSUME NEW g \in Pages, NEW d \in Data, Store(g, d) PROVE Private!Next
  <2>1. Memory' = [Memory EXCEPT ![current][g] = Stored(d)]
    BY <1>2, StoreSeen
  <2>2. UNCHANGED <<current, nr_tasks>>
    BY <1>2 DEF Store
  <2>3. Private!Store(g, Stored(d))
    BY <2>1, <2>2 DEF Private!Store, Memory, Seen
  <2> QED
    BY <2>3 DEF Private!Next
<1>3. CASE Fork
  <2>1. Memory' = [Memory EXCEPT ![nr_tasks] = Memory[current]]
    BY <1>3, ForkSeen
  <2>2. Private!Fork
    BY <1>3, <2>1 DEF Fork, Private!Fork, Memory, Seen
  <2> QED
    BY <2>2 DEF Private!Next
<1>4. ASSUME NEW a \in Addresses, NEW acc \in Perms, PageFault(a, acc)
      PROVE  UNCHANGED <<current, nr_tasks, Memory>>
  BY <1>4, FaultSeen
<1>5. ASSUME UNCHANGED <<current, nr_tasks, pgd, mem>>
      PROVE  UNCHANGED <<current, nr_tasks, Memory>>
  BY <1>5 DEF Memory, Seen, View
<1>6. ASSUME NEW g \in Pages, CacheEntry(g) \/ EvictEntry(g)
      PROVE  UNCHANGED <<current, nr_tasks, Memory>>
  BY <1>5, <1>6 DEF CacheEntry, EvictEntry
<1>7. CASE ForkOutOfFrames
  BY <1>5, <1>7 DEF ForkOutOfFrames
<1>8. CASE UNCHANGED vars
  BY <1>5, <1>8 DEF vars
<1> QED
  BY <1>1, <1>2, <1>3, <1>4, <1>6, <1>7, <1>8 DEF Next

(* do_fork_cow, demand paging and the copies on write keep the promise of  *)
(* the eager fork: every task has a memory of its own, for every program   *)
(* whose segments agree on the pages they share.                           *)
THEOREM ForkIsPrivate == ASSUME OneSource(LoadedVmas) PROVE Spec => PrivateMemory
<1>1. Init => Private!Init
  BY MemoryInit DEF Init, Private!Init, Private!Pids, Pids, Memory, Seen
<1>2. CowInv /\ ListInv /\ FreshFramesClean /\ [Next]_vars
        => [Private!Next]_(Private!vars)
  BY PrivateStep
<1> QED
  BY <1>1, <1>2, ListInvariant, PTL DEF Spec, PrivateMemory, Private!Spec

-----------------------------------------------------------------------------
(* A fault is served for good *)

(* An entry gives what every VMA on its page grants, but for W: where      *)
(* segments with different rights meet in a page, the first that is        *)
(* touched decides, so they must not.                                      *)
RightsKept ==
  \A p \in Pids, g \in Pages, j \in 1 .. Len(LoadedVmas) :
    Valid(pgd[p][g]) /\ Touches(LoadedVmas[j], g) =>
      LoadedVmas[j].flags \ {"W"} \subseteq pgd[p][g].perm

LEMMA RightsStep ==
  OneRights(LoadedVmas) /\ CowInv /\ ListInv /\ RightsKept /\ [Next]_vars => RightsKept'
<1> SUFFICES ASSUME OneRights(LoadedVmas), CowInv, ListInv, RightsKept, [Next]_vars
             PROVE  RightsKept'
  OBVIOUS
<1> USE DEF CowInv
<1>0. current \in Pids /\ pgd \in [Pids -> [Pages -> Pte]]
  BY CurrentType DEF TypeOK
<1>1. ASSUME UNCHANGED pgd PROVE RightsKept'
  BY <1>1 DEF RightsKept, Valid
<1>2. ASSUME NEW a \in Addresses, NEW acc \in Perms, PageFault(a, acc) PROVE RightsKept'
  <2> DEFINE g == PageOf(a)
  <2>0. g \in Pages
    BY PageOfType
  <2>1. ASSUME NEW e, pgd' = [pgd EXCEPT ![current][g] = e],
               \A j \in 1 .. Len(LoadedVmas) :
                 Touches(LoadedVmas[j], g) => LoadedVmas[j].flags \ {"W"} \subseteq e.perm
        PROVE  RightsKept'
    <3> SUFFICES ASSUME NEW p \in Pids, NEW h \in Pages, NEW j \in 1 .. Len(LoadedVmas),
                        Valid(pgd'[p][h]), Touches(LoadedVmas[j], h)
                 PROVE  LoadedVmas[j].flags \ {"W"} \subseteq pgd'[p][h].perm
      BY DEF RightsKept, Valid
    <3>1. CASE p = current /\ h = g
      BY <1>0, <2>1, <3>1
    <3>2. CASE p # current \/ h # g
      <4>1. pgd'[p][h] = pgd[p][h]
        BY <1>0, <2>1, <3>2
      <4> QED
        BY <4>1 DEF RightsKept, Valid
    <3> QED
      BY <3>1, <3>2
  <2>2. CASE FaultAbsent(a, acc)
    <3> DEFINE v == find_vma(mm[current], a)
    <3>1. HasVma(mm[current], a)
      BY <2>2 DEF FaultAbsent, AbsentFault
    <3>2. PICK i \in 1 .. Len(LoadedVmas) : v = LoadedVmas[i] /\ Holds(LoadedVmas[i], a)
      BY <3>1, FoundInProgram
    <3>3. Touches(LoadedVmas[i], g)
      BY <3>2 DEF Touches
    <3>4. PICK f : pgd' = [pgd EXCEPT ![current][g] = [frame |-> f, perm |-> v.flags]]
      BY <2>2 DEF FaultAbsent
    <3>5. \A j \in 1 .. Len(LoadedVmas) :
            Touches(LoadedVmas[j], g) => LoadedVmas[j].flags = v.flags
      BY <2>0, <3>2, <3>3 DEF OneRights
    <3> DEFINE e == [frame |-> f, perm |-> v.flags]
    <3>6. \A j \in 1 .. Len(LoadedVmas) :
            Touches(LoadedVmas[j], g) => LoadedVmas[j].flags \ {"W"} \subseteq e.perm
      BY <3>5
    <3>7. pgd' = [pgd EXCEPT ![current][g] = e]
      BY <3>4
    <3> HIDE DEF e
    <3> QED
      BY <2>1, <3>6, <3>7
  <2>3. CASE FaultUnshare(a, acc)
    <3> DEFINE e == Writable(pgd[current][g])
    <3>1. Valid(pgd[current][g]) /\ pgd' = [pgd EXCEPT ![current][g] = e]
      BY <1>0, <2>3 DEF FaultUnshare, CowFault
    <3>2. e.perm = pgd[current][g].perm \cup {"W"}
      BY <1>0, <2>0 DEF Writable, Pte
    <3> HIDE DEF e
    <3> QED
      BY <1>0, <2>0, <2>1, <3>1, <3>2 DEF RightsKept
  <2>4. CASE FaultCopy(a, acc)
    <3>1. PICK f : pgd' = [pgd EXCEPT ![current][g] =
                             [frame |-> f, perm |-> pgd[current][g].perm \cup {"W"}]]
      BY <1>0, <2>0, <2>4 DEF FaultCopy
    <3> DEFINE e == [frame |-> f, perm |-> pgd[current][g].perm \cup {"W"}]
    <3>2. Valid(pgd[current][g]) /\ pgd' = [pgd EXCEPT ![current][g] = e]
      BY <2>4, <3>1 DEF FaultCopy, CowFault
    <3>3. e.perm = pgd[current][g].perm \cup {"W"}
      OBVIOUS
    <3> HIDE DEF e
    <3> QED
      BY <1>0, <2>0, <2>1, <3>2, <3>3 DEF RightsKept
  <2>5. CASE UNCHANGED pgd
    BY <1>1, <2>5
  <2> QED
    BY <1>2, <2>2, <2>3, <2>4, <2>5
       DEF PageFault, FaultNoVma, AbsentOutOfFrames, CopyOutOfFrames, FaultIgnored, vars
<1>3. CASE Fork
  <2> SUFFICES ASSUME NEW p \in Pids, NEW g \in Pages, NEW j \in 1 .. Len(LoadedVmas),
                      Valid(pgd'[p][g]), Touches(LoadedVmas[j], g)
               PROVE  LoadedVmas[j].flags \ {"W"} \subseteq pgd'[p][g].perm
    BY DEF RightsKept, Valid
  <2>1. CASE p = current \/ p = nr_tasks
    <3>1. Valid(pgd[current][g]) /\ (p = current \/ g \in Shared(current))
      BY <1>3, <2>1, ForkTables DEF Valid
    <3>2. pgd[current][g].perm \ {"W"} \subseteq pgd'[p][g].perm
      BY <1>3, <2>1, <3>1, ForkRights
    <3> QED
      BY <1>0, <3>1, <3>2 DEF RightsKept
  <2>2. CASE p # current /\ p # nr_tasks
    BY <1>3, <2>2, ForkTables DEF RightsKept, Valid
  <2> QED
    BY <2>1, <2>2
<1>4. CASE ForkOutOfFrames \/ UNCHANGED vars
  BY <1>1, <1>4 DEF ForkOutOfFrames, vars
<1>5. ASSUME NEW g \in Pages, CacheEntry(g) \/ EvictEntry(g) PROVE RightsKept'
  BY <1>1, <1>5 DEF CacheEntry, EvictEntry
<1>6. ASSUME NEW g \in Pages, NEW d \in Data, Store(g, d) PROVE RightsKept'
  BY <1>1, <1>6 DEF Store
<1>7. ASSUME NEW q \in Pids, SwitchTo(q) PROVE RightsKept'
  BY <1>1, <1>7 DEF SwitchTo
<1> QED
  BY <1>2, <1>3, <1>4, <1>5, <1>6, <1>7 DEF Next

LEMMA ServedStep ==
  ASSUME CowInv, ListInv, RightsKept, NEW a \in Addresses, NEW acc \in Perms
  PROVE  FaultServed(a, acc)
<1> USE DEF CowInv
<1> DEFINE g == PageOf(a)
           v == find_vma(mm[current], a)
<1>0. /\ current \in Pids /\ pgd \in [Pids -> [Pages -> Pte]] /\ g \in Pages
      /\ tlb \in [Pages -> Pte]
  BY CurrentType, PageOfType DEF TypeOK
<1>1. ASSUME FaultAbsent(a, acc), acc \in v.flags PROVE acc \in Translate(g).perm'
  <2>1. PICK f : pgd' = [pgd EXCEPT ![current][g] = [frame |-> f, perm |-> v.flags]]
    BY <1>1 DEF FaultAbsent
  <2>2. ~Valid(pgd[current][g]) /\ UNCHANGED <<current, tlb>>
    BY <1>1 DEF FaultAbsent, AbsentFault
  <2>3. ~Valid(tlb[g])
    BY <1>0, <2>2 DEF TlbCoherent, Valid
  <2>4. pgd'[current][g].perm = v.flags
    BY <1>0, <2>1
  <2>5. Translate(g)' = pgd'[current][g]
    BY <2>2, <2>3 DEF Translate, Valid
  <2> QED
    BY <1>1, <2>4, <2>5
<1>2. ASSUME FaultUnshare(a, acc) \/ FaultCopy(a, acc), acc \in v.flags
      PROVE  acc \in Translate(g).perm'
  <2>1. /\ HasVma(mm[current], a) /\ Valid(pgd[current][g]) /\ tlb' = SfenceVma
        /\ UNCHANGED current
    BY <1>2 DEF FaultUnshare, FaultCopy, CowFault
  <2>2. PICK j \in 1 .. Len(LoadedVmas) : v = LoadedVmas[j] /\ Holds(LoadedVmas[j], a)
    BY <2>1, FoundInProgram
  <2>3. v.flags \ {"W"} \subseteq pgd[current][g].perm
    BY <1>0, <2>1, <2>2 DEF RightsKept, Touches
  <2>4. pgd'[current][g].perm = pgd[current][g].perm \cup {"W"}
    <3>1. CASE FaultUnshare(a, acc)
      <4>1. pgd'[current][g] = Writable(pgd[current][g])
        BY <1>0, <3>1 DEF FaultUnshare
      <4> QED
        BY <1>0, <4>1 DEF Writable, Pte
    <3>2. CASE FaultCopy(a, acc)
      BY <1>0, <3>2 DEF FaultCopy
    <3> QED
      BY <1>2, <3>1, <3>2
  <2>5. Translate(g)' = pgd'[current][g]
    BY <1>0, <2>1 DEF Translate, SfenceVma, NoMap, NoPte, Valid
  <2> QED
    BY <1>2, <2>3, <2>4, <2>5
<1> QED
  BY <1>1, <1>2 DEF FaultServed

(* An instruction that faulted on an access its VMA grants goes through    *)
(* when it is repeated: no fault is handled for ever.                      *)
THEOREM FaultsServed == ASSUME OneRights(LoadedVmas) PROVE Spec => FaultResolved
<1>1. Init => RightsKept
  BY DEF Init, RightsKept, NoMap, NoPte, Valid
<1>2. CowInv /\ ListInv /\ RightsKept /\ [Next]_vars => RightsKept'
  BY RightsStep
<1>3. CowInv /\ ListInv /\ RightsKept 
        => \A a \in Addresses, acc \in Perms : FaultServed(a, acc)
  BY ServedStep
<1> QED
  BY <1>1, <1>2, <1>3, ListInvariant, PTL DEF Spec, FaultResolved

-----------------------------------------------------------------------------
(* Exact counts *)

(* Where the ranges the loop of do_fork_cow visits are apart, it calls     *)
(* get_page once for every entry it adds.                                  *)
LEMMA VisitsExact ==
  ASSUME TypeOK, ListInv, RangesApart(LoadedVmas),
         NEW p \in Pids, p < nr_tasks, NEW c \in Pids, NEW f \in Frames
  PROVE  Cardinality(NewEntries(p, c, f)) = Cardinality(Visits(p, f))
<1> DEFINE N == NewEntries(p, c, f)
           V == Visits(p, f)
           w == [x \in V |-> <<c, x[2]>>]
           l == mm[p]
<1>1. l \in {LoadedVmas, Reverse(LoadedVmas)} /\ LoadedVmas \in Seq(Vma)
  BY CowForkAssumption DEF ListInv, ListsKept, TypeOK, Pids
<1>2. ASSUME NEW j \in 1 .. Len(l), NEW k \in 1 .. Len(l), NEW g,
             g \in ForkRange(l[j]), g \in ForkRange(l[k])
      PROVE  j = k
  <2> DEFINE n == Len(LoadedVmas)
  <2>1. Len(l) = n /\ n \in Nat
    BY <1>1, ReverseLen
  <2>2. CASE l = LoadedVmas
    BY <1>2, <2>2 DEF RangesApart
  <2>3. CASE l = Reverse(LoadedVmas)
    <3>1. /\ n - j + 1 \in 1 .. n /\ l[j] = LoadedVmas[n - j + 1]
          /\ n - k + 1 \in 1 .. n /\ l[k] = LoadedVmas[n - k + 1]
      BY <1>1, <2>1, <2>3, ReverseLen
    <3>2. ForkRange(LoadedVmas[n - j + 1]) \cap ForkRange(LoadedVmas[n - k + 1]) # {}
      BY <1>2, <3>1
    <3>3. n - j + 1 = n - k + 1
      BY <3>1, <3>2 DEF RangesApart
    <3> QED
      BY <2>1, <3>3
  <2> QED
    BY <1>1, <2>2, <2>3
<1>3. \A x \in V : /\ x[1] \in 1 .. Len(l) /\ x[2] \in Pages
                   /\ x = <<x[1], x[2]>>
                   /\ x[2] \in ForkRange(l[x[1]])
                   /\ pgd[p][x[2]].frame = f
  BY DEF Visits
<1>4. w \in [V -> N]
  <2> SUFFICES ASSUME NEW x \in V PROVE <<c, x[2]>> \in N
    OBVIOUS
  <2>1. x[2] \in Present(p)
    BY <1>3 DEF Present, Valid, Frames
  <2> QED
    BY <1>3, <2>1 DEF NewEntries, Shared
<1>5. ASSUME NEW x \in V, NEW y \in V, w[x] = w[y] PROVE x = y
  <2>1. x[2] = y[2]
    BY <1>5
  <2>2. x[1] = y[1]
    BY <1>2, <1>3, <2>1
  <2> QED
    BY <1>3, <2>1, <2>2
<1>6. w \in Injection(V, N)
  BY <1>4, <1>5 DEF Injection, IsInjective
<1>7. /\ IsFiniteSet(N) /\ Cardinality(N) \in Nat /\ Cardinality(V) \in Nat
      /\ Cardinality(N) <= Cardinality(V)
  BY VisitsCover
<1> HIDE DEF N, V, w
<1>8. Cardinality(V) <= Cardinality(N)
  BY <1>6, <1>7, FS_Injection
<1> QED
  BY <1>7, <1>8 DEF N, V

LEMMA ForkExact ==
  ASSUME TypeOK, ListInv, RangesApart(LoadedVmas), RefCountExact, Fork
  PROVE  RefCountExact'
<1> SUFFICES ASSUME NEW f \in Frames
             PROVE  ref_cnt'[f] = Cardinality(MappedBy(pgd', f))
  BY DEF RefCountExact
<1> DEFINE p == current
           c == nr_tasks
           M == MappedBy(pgd, f)
           N == NewEntries(p, c, f)
<1>1. p \in Pids /\ c \in Pids /\ p < nr_tasks
  BY ForkTables DEF TypeOK
<1>2. IsFiniteSet(M) /\ Cardinality(M) \in Nat
  BY EntriesFinite DEF MappedBy
<1>3. /\ IsFiniteSet(N) /\ Cardinality(N) \in Nat
      /\ Cardinality(N) = Cardinality(Visits(p, f))
  BY <1>1, VisitsCover, VisitsExact
<1>4. ref_cnt[f] = Cardinality(M)
  BY DEF RefCountExact
<1>5. ref_cnt'[f] = GetPage(ref_cnt[f], Cardinality(Visits(p, f)))
  BY DEF Fork
<1>6. f # 0
  BY DEF Frames
<1>7. \A g \in Pages : pgd[c][g].frame # f
  BY <1>1, <1>6 DEF ListInv, RangesCover, Valid, Pids
<1>8. \A g \in Pages : pgd'[c][g].frame = f <=> <<c, g>> \in N
  BY <1>1, <1>6, ForkTables DEF NewEntries, Shared, Present
<1>9. \A q \in Pids \ {c}, g \in Pages : pgd'[q][g].frame = pgd[q][g].frame
  BY <1>1, ForkTables
<1>10. MappedBy(pgd', f) = M \cup N /\ M \cap N = {}
  <2>1. N \subseteq {c} \X Pages
    BY DEF NewEntries, Shared, Present
  <2>2. M \cap N = {}
    BY <1>7, <2>1 DEF MappedBy
  <2>3. ASSUME NEW q \in Pids, NEW g \in Pages
        PROVE  pgd'[q][g].frame = f <=> <<q, g>> \in M \cup N
    <3>1. CASE q = c
      BY <1>7, <1>8, <3>1 DEF MappedBy
    <3>2. CASE q # c
      BY <1>9, <2>1, <3>2 DEF MappedBy
    <3> QED
      BY <3>1, <3>2
  <2>4. M \cup N \in SUBSET (Pids \X Pages)
    BY <1>1, <2>1 DEF MappedBy
  <2>5. MappedBy(pgd', f) \in SUBSET (Pids \X Pages)
    BY DEF MappedBy
  <2>6. ASSUME NEW x \in Pids \X Pages
        PROVE  x \in MappedBy(pgd', f) <=> x \in M \cup N
    <3>1. PICK q \in Pids, g \in Pages : x = <<q, g>>
      OBVIOUS
    <3>2. <<q, g>> \in MappedBy(pgd', f) <=> pgd'[q][g].frame = f
      BY DEF MappedBy
    <3> QED
      BY <2>3, <3>1, <3>2
  <2> QED
    BY <2>2, <2>4, <2>5, <2>6
<1>11. ASSUME NEW x \in N PROVE <<p, x[2]>> \in M
  BY <1>1 DEF NewEntries, MappedBy, Shared, Present
<1> HIDE DEF M, N
<1>12. Cardinality(MappedBy(pgd', f)) = Cardinality(M) + Cardinality(N)
  <2>1. Cardinality(M \cap N) = 0
    BY <1>10, FS_EmptySet, Zenon
  <2>2. Cardinality(M \cup N)
          = Cardinality(M) + Cardinality(N) - Cardinality(M \cap N)
    BY <1>2, <1>3, FS_Union
  <2>3. Cardinality(MappedBy(pgd', f)) = Cardinality(M \cup N)
    BY <1>10, Zenon
  <2> QED
    BY <1>2, <1>3, <2>1, <2>2, <2>3
<1>13. CASE ref_cnt[f] = 0
  <2>1. M = {}
    BY <1>2, <1>4, <1>13, FS_EmptySet
  <2>2. N = {}
    BY <1>11, <2>1
  <2>3. Cardinality(N) = 0
    BY <2>2, FS_EmptySet
  <2> QED
    BY <1>4, <1>5, <1>12, <1>13, <2>3 DEF GetPage
<1>14. CASE ref_cnt[f] # 0
  BY <1>2, <1>3, <1>4, <1>5, <1>12, <1>14 DEF GetPage
<1> QED
  BY <1>13, <1>14

LEMMA ExactStep ==
  ASSUME RangesApart(LoadedVmas),
         CowInv, ListInv, RefCountExact, [Next]_vars, TypeOK'
  PROVE  RefCountExact'
<1> USE DEF CowInv
<1>1. ASSUME UNCHANGED <<pgd, ref_cnt>> PROVE RefCountExact'
  BY <1>1 DEF RefCountExact
<1>2. ASSUME NEW a \in Addresses, NEW acc \in Perms, PageFault(a, acc)
      PROVE  RefCountExact'
  <2> DEFINE g == PageOf(a)
  <2>1. current \in Pids /\ g \in Pages
    BY PageOfType, CurrentType
  <2>2. CASE FaultAbsent(a, acc) \/ FaultCopy(a, acc)
    <3>1. PICK f \in Unused, e \in Pte :
            /\ e.frame = f
            /\ pgd' = [pgd EXCEPT ![current][g] = e]
            /\ ref_cnt'[f] = 1
            /\ \A k \in Frames \ {f} :
                 ref_cnt'[k] = IF k = pgd[current][g].frame
                               THEN PutPage(ref_cnt[k]) ELSE ref_cnt[k]
      BY <2>2, MapsFresh
    <3>2. ref_cnt' \in [Frames -> Nat]
      BY DEF TypeOK
    <3> QED
      BY <2>1, <3>1, <3>2, FreshFrame
  <2>3. CASE FaultUnshare(a, acc)
    <3>1. pgd[current][g] \in Pte
      BY <2>1 DEF TypeOK
    <3>2. \A q \in Pids, h \in Pages : pgd'[q][h].frame = pgd[q][h].frame
      BY <2>1, <2>3, <3>1, RightsType DEF FaultUnshare, TypeOK
    <3>3. \A f : MappedBy(pgd', f) = MappedBy(pgd, f)
      BY <3>2 DEF MappedBy
    <3>4. UNCHANGED ref_cnt
      BY <2>3 DEF FaultUnshare
    <3> QED
      BY <3>3, <3>4, Zenon DEF RefCountExact
  <2>4. CASE \/ FaultNoVma(a, acc)
             \/ AbsentOutOfFrames(a, acc)
             \/ CopyOutOfFrames(a, acc)
             \/ FaultIgnored(a, acc)
    BY <1>1, <2>4
       DEF FaultNoVma, AbsentOutOfFrames, CopyOutOfFrames, FaultIgnored, vars
  <2> QED
    BY <1>2, <2>2, <2>3, <2>4 DEF PageFault
<1>3. CASE Fork
  BY <1>3, ForkExact
<1>4. CASE \/ \E q \in Pids : SwitchTo(q)
           \/ \E g \in Pages : CacheEntry(g) \/ EvictEntry(g)
           \/ \E g \in Pages, d \in Data : Store(g, d)
           \/ ForkOutOfFrames
           \/ UNCHANGED vars
  BY <1>1, <1>4
     DEF SwitchTo, CacheEntry, EvictEntry, Store, ForkOutOfFrames, vars
<1> QED
  BY <1>2, <1>3, <1>4 DEF Next

(* Where the ranges of the program's segments are apart, every frame has   *)
(* one reference per entry that maps it: do_fork_cow, page_cow and         *)
(* do_page_fault leak no frame and copy none without need.                 *)
THEOREM CountsExact == ASSUME RangesApart(LoadedVmas) PROVE Spec => []RefCountExact
<1>1. Init => RefCountExact
  <2> SUFFICES ASSUME Init, NEW f \in Frames
               PROVE  ref_cnt[f] = Cardinality(MappedBy(pgd, f))
    BY DEF RefCountExact
  <2>1. \A p \in Pids, g \in Pages : pgd[p][g].frame # f
    BY DEF Init, NoMap, NoPte, Frames
  <2>2. MappedBy(pgd, f) = {}
    BY <2>1 DEF MappedBy
  <2>3. Cardinality(MappedBy(pgd, f)) = 0
    BY <2>2, FS_EmptySet, Zenon
  <2> QED
    BY <2>3 DEF Init
<1>2. CowInv /\ ListInv /\ CowInv' /\ RefCountExact /\ [Next]_vars => RefCountExact'
  BY ExactStep DEF CowInv
<1> QED
  BY ListInvariant, <1>1, <1>2, PTL DEF Spec

-----------------------------------------------------------------------------
(* The frames suffice *)

(* Every frame the tasks can come to hold: one for each page of each task, *)
(* and one for each kernel object of each task.                            *)
AllEntries   == Pids \X ProgramPages
ChildObjects == ({"task", "root"} \X {0}) \cup ({"VMA"} \X (1 .. Len(LoadedVmas)))
AllObjects   == (Pids \X LowerTables(ProgramPages)) \cup ((Pids \ {1}) \X ChildObjects)
Entries      == {pg \in Pids \X Pages : Valid(pgd[pg[1]][pg[2]])}

LEMMA LowerTablesFinite ==
  ASSUME NEW S \in SUBSET Pages, NEW T \in SUBSET S
  PROVE  /\ IsFiniteSet(LowerTables(S)) /\ Tables(S) \in Nat
         /\ LowerTables(T) \subseteq LowerTables(S)
<1> DEFINE n == TableSpan
           m == n * n
<1>1. n \in Nat /\ n > 0 /\ m \in Nat /\ m > 0
  BY CowForkAssumption
<1> HIDE DEF m
<1>2. \A g \in Pages : g \div n \in Pages /\ g \div m \in Pages
  BY <1>1, CowForkAssumption DEF Pages
<1>3. LowerTables(S) = ({"PTE"} \X {g \div n : g \in S}) \cup ({"PMD"} \X {g \div m : g \in S})
  BY DEF LowerTables, m
<1>4. LowerTables(S) \subseteq {"PTE", "PMD"} \X Pages
  BY <1>2, <1>3
<1>5. IsFiniteSet(Pages) /\ IsFiniteSet({"PTE", "PMD"})
  <2>1. IsFiniteSet({"PTE"}) /\ {"PTE", "PMD"} = {"PTE"} \cup {"PMD"}
    BY FS_Singleton
  <2>2. IsFiniteSet({"PTE"} \cup {"PMD"})
    BY <2>1, FS_AddElement
  <2>3. IsFiniteSet(Pages)
    BY CowForkAssumption, FS_Interval DEF Pages
  <2> QED
    BY <2>1, <2>2, <2>3
<1>6. IsFiniteSet({"PTE", "PMD"} \X Pages)
  BY <1>5, FS_Product
<1>7. IsFiniteSet(LowerTables(S))
  BY <1>4, <1>6, FS_Subset
<1> QED
  BY <1>7, FS_CardinalityType DEF Tables, LowerTables

LEMMA PagesMapped ==
  ASSUME TypeOK, ListInv, NEW p \in Pids, NEW g \in Pages, Valid(pgd[p][g])
  PROVE  p < nr_tasks /\ g \in ProgramPages
<1>1. p < nr_tasks /\ \E k \in 1 .. Len(mm[p]) : g \in ForkRange(mm[p][k])
  BY DEF ListInv, RangesCover
<1>2. mm[p] \in {LoadedVmas, Reverse(LoadedVmas)}
  BY <1>1 DEF ListInv, ListsKept, TypeOK, Pids
<1> QED
  BY <1>1, <1>2, VmaOfProgram DEF ProgramPages

(* Counting what a child needs, and what all tasks need. *)
LEMMA ChildCount ==
  /\ IsFiniteSet(ChildObjects)
  /\ Cardinality(ChildObjects) = 2 + Len(LoadedVmas)
<1> DEFINE n == Len(LoadedVmas)
           A == {"task", "root"} \X {0}
           B == {"VMA"} \X (1 .. n)
<1>1. n \in Nat
  BY CowForkAssumption
<1>2. IsFiniteSet(A) /\ Cardinality(A) = 2
  <2>1. IsFiniteSet({"task"}) /\ Cardinality({"task"}) = 1
    BY FS_Singleton
  <2>2. IsFiniteSet({"task"} \cup {"root"}) /\ Cardinality({"task"} \cup {"root"}) = 2
    BY <2>1, FS_AddElement
  <2>3. {"task"} \cup {"root"} = {"task", "root"}
    OBVIOUS
  <2>4. IsFiniteSet({0}) /\ Cardinality({0}) = 1
    BY FS_Singleton
  <2> QED
    BY <2>2, <2>3, <2>4, FS_Product
<1>3. IsFiniteSet(B) /\ Cardinality(B) = n
  <2>1. IsFiniteSet({"VMA"}) /\ Cardinality({"VMA"}) = 1
    BY FS_Singleton
  <2>2. IsFiniteSet(1 .. n) /\ Cardinality(1 .. n) = IF 1 > n THEN 0 ELSE n - 1 + 1
    <3>1. 1 \in Int /\ n \in Int
      BY <1>1
    <3> QED
      BY <3>1, FS_Interval, Zenon
  <2>3. Cardinality(1 .. n) = n
    BY <1>1, <2>2
  <2> QED
    BY <1>1, <2>1, <2>2, <2>3, FS_Product
<1>4. A \cap B = {}
  OBVIOUS
<1>5. Cardinality(A \cap B) = 0
  BY <1>4, FS_EmptySet, Zenon
<1> HIDE DEF A, B
<1>6. IsFiniteSet(A \cup B)
      /\ Cardinality(A \cup B) = Cardinality(A) + Cardinality(B) - Cardinality(A \cap B)
  BY <1>2, <1>3, FS_Union
<1>7. Cardinality(A \cup B) = 2 + n
  BY <1>1, <1>2, <1>3, <1>5, <1>6
<1> QED
  BY <1>6, <1>7 DEF ChildObjects, A, B

LEMMA AllCounted ==
  ASSUME FramesSuffice
  PROVE  /\ IsFiniteSet(AllEntries) /\ Cardinality(AllEntries) \in Nat
         /\ IsFiniteSet(AllObjects) /\ Cardinality(AllObjects) \in Nat
         /\ Cardinality(AllEntries) + Cardinality(AllObjects) <= MaxFrame
<1> DEFINE m == MaxTasks - 1
           c == Cardinality(ProgramPages)
           t == Tables(ProgramPages)
           n == 2 + Len(LoadedVmas)
           A == Pids \X LowerTables(ProgramPages)
           B == (Pids \ {1}) \X ChildObjects
<1>1. m \in Nat /\ m > 0 /\ n \in Nat /\ MaxFrame \in Nat
  BY CowForkAssumption
<1>2. IsFiniteSet(Pids) /\ Cardinality(Pids) = m /\ 1 \in Pids
  <2>1. IsFiniteSet(1 .. m) /\ Cardinality(1 .. m) = IF 1 > m THEN 0 ELSE m - 1 + 1
    <3>1. 1 \in Int /\ m \in Int
      BY <1>1
    <3> QED
      BY <3>1, FS_Interval, Zenon
  <2>2. Pids = 1 .. m
    BY DEF Pids
  <2> HIDE DEF m
  <2> QED
    BY <1>1, <2>1, <2>2
<1>3. IsFiniteSet(Pids \ {1}) /\ Cardinality(Pids \ {1}) = m - 1
  BY <1>2, FS_RemoveElement
<1>4. IsFiniteSet(ProgramPages) /\ c \in Nat
  <2>1. IsFiniteSet(Pages) /\ ProgramPages \in SUBSET Pages
    BY CowForkAssumption, FS_Interval DEF Pages, ProgramPages
  <2> QED
    BY <2>1, FS_Subset, FS_CardinalityType
<1>5. IsFiniteSet(LowerTables(ProgramPages)) /\ t \in Nat
  BY LowerTablesFinite DEF ProgramPages
<1>6. IsFiniteSet(AllEntries) /\ Cardinality(AllEntries) = m * c
  BY <1>2, <1>4, FS_Product DEF AllEntries
<1>7. IsFiniteSet(A) /\ Cardinality(A) = m * t
  BY <1>2, <1>5, FS_Product DEF Tables
<1>8. IsFiniteSet(B) /\ Cardinality(B) = (m - 1) * n
  <2>1. IsFiniteSet(B)
        /\ Cardinality(B) = Cardinality(Pids \ {1}) * Cardinality(ChildObjects)
    BY <1>3, ChildCount, FS_Product, Zenon
  <2> QED
    BY <1>3, <2>1, ChildCount
<1> HIDE DEF A, B
<1>9. IsFiniteSet(A \cap B) /\ Cardinality(A \cap B) \in Nat
  BY <1>7, FS_Intersection, FS_CardinalityType
<1>10. IsFiniteSet(A \cup B)
       /\ Cardinality(A \cup B) = Cardinality(A) + Cardinality(B) - Cardinality(A \cap B)
  BY <1>7, <1>8, FS_Union
<1>11. AllObjects = A \cup B
  BY DEF AllObjects, A, B
<1>12. IsFiniteSet(AllObjects) /\ Cardinality(AllObjects) \in Nat
  BY <1>10, <1>11, FS_CardinalityType
<1>13. MaxFrame >= m * (c + t) + (m - 1) * n
  <2>1. MaxTasks - 2 = m - 1
    BY <1>1, CowForkAssumption
  <2> QED
    BY <2>1 DEF FramesSuffice
<1> HIDE DEF m, c, t, n
<1>14. m * (c + t) = m * c + m * t /\ m * c \in Nat /\ m * t \in Nat /\ (m - 1) * n \in Nat
  BY <1>1, <1>4, <1>5
<1>15. Cardinality(AllObjects) <= m * t + (m - 1) * n
  BY <1>7, <1>8, <1>9, <1>10, <1>11, <1>14
<1> QED
  BY <1>1, <1>6, <1>12, <1>13, <1>14, <1>15

(* A frame in use is the frame of an entry, so the entries are at least as *)
(* many; if two entries share a frame they are more.                       *)
LEMMA UsedCounted ==
  ASSUME TypeOK, ListInv, RefCountExact
  PROVE  /\ Entries \subseteq AllEntries
         /\ IsFiniteSet(Entries) /\ Cardinality(Entries) \in Nat
         /\ Cardinality(Unused) \in Nat
         /\ MaxFrame - Cardinality(Unused) <= Cardinality(Entries)
         /\ \A x \in Entries :
              ref_cnt[pgd[x[1]][x[2]].frame] # 1 =>
                MaxFrame - Cardinality(Unused) < Cardinality(Entries)
<1> DEFINE Used == Frames \ Unused
           fr == [x \in Entries |-> pgd[x[1]][x[2]].frame]
<1>1. RefCountCovers
  <2>1. \A f \in Frames : ref_cnt[f] \in Nat
    BY DEF TypeOK
  <2> QED
    BY <2>1 DEF RefCountExact, RefCountCovers
<1>2. IsFiniteSet(Entries) /\ Cardinality(Entries) \in Nat
  BY EntriesFinite DEF Entries
<1>3. Entries \subseteq AllEntries
  <2> SUFFICES ASSUME NEW p \in Pids, NEW g \in Pages, Valid(pgd[p][g])
               PROVE  g \in ProgramPages
    BY DEF Entries, AllEntries
  <2> QED
    BY PagesMapped
<1>4. fr \in [Entries -> Used]
  <2> SUFFICES ASSUME NEW p \in Pids, NEW g \in Pages, Valid(pgd[p][g])
               PROVE  pgd[p][g].frame \in Used
    BY DEF Entries
  <2> QED
    BY <1>1, MappedCounted DEF Unused
<1>5. ASSUME NEW f \in Used PROVE \E x \in Entries : fr[x] = f
  <2>1. f \in Frames /\ ref_cnt[f] # 0
    BY DEF Unused
  <2>2. MappedBy(pgd, f) # {}
    BY <2>1, FS_EmptySet DEF RefCountExact
  <2>3. PICK p \in Pids, g \in Pages : pgd[p][g].frame = f
    BY <2>2 DEF MappedBy
  <2>4. <<p, g>> \in Entries
    BY <2>1, <2>3 DEF Entries, Valid, Frames
  <2> QED
    BY <2>3, <2>4
<1>6. fr \in Surjection(Entries, Used)
  BY <1>4, <1>5 DEF Surjection
<1>7. /\ IsFiniteSet(Used)
      /\ Cardinality(Used) <= Cardinality(Entries)
      /\ Cardinality(Used) = Cardinality(Entries) <=> fr \in Injection(Entries, Used)
  BY <1>2, <1>6, FS_Surjection
<1>8. IsFiniteSet(Frames) /\ Cardinality(Frames) = MaxFrame
  <2>1. /\ IsFiniteSet(1 .. MaxFrame)
        /\ Cardinality(1 .. MaxFrame) = IF 1 > MaxFrame THEN 0 ELSE MaxFrame - 1 + 1
    <3>1. 1 \in Int /\ MaxFrame \in Int
      BY CowForkAssumption
    <3> QED
      BY <3>1, FS_Interval, Zenon
  <2> QED
    BY <2>1, CowForkAssumption DEF Frames
<1>9. /\ Cardinality(Unused) \in Nat /\ Cardinality(Used) \in Nat
      /\ Cardinality(Used) = MaxFrame - Cardinality(Unused)
  <2>1. Unused \in SUBSET Frames /\ Frames \cap Unused = Unused
    BY DEF Unused
  <2>2. IsFiniteSet(Unused) /\ Cardinality(Unused) \in Nat
    BY <1>8, <2>1, FS_Subset, FS_CardinalityType
  <2>3. Cardinality(Used) = Cardinality(Frames) - Cardinality(Frames \cap Unused)
    BY <1>8, FS_Difference
  <2>4. Cardinality(Used) \in Nat
    BY <1>7, FS_CardinalityType
  <2> QED
    BY <1>8, <2>1, <2>2, <2>3, <2>4
<1>10. ASSUME NEW x \in Entries, ref_cnt[fr[x]] # 1
       PROVE  Cardinality(Used) < Cardinality(Entries)
  <2> DEFINE f == fr[x]
             M == MappedBy(pgd, f)
  <2>1. f \in Frames /\ ref_cnt[f] # 0 /\ ref_cnt[f] = Cardinality(M) /\ IsFiniteSet(M)
    BY <1>4, EntriesFinite DEF Unused, RefCountExact, MappedBy
  <2>2. x \in M
    BY <1>10 DEF MappedBy, Entries
  <2>3. PICK y \in M : y # x
    <3> SUFFICES ASSUME M = {x} PROVE FALSE
      BY <2>2
    <3> QED
      BY <1>10, <2>1, FS_Singleton
  <2>4. y \in Entries /\ fr[y] = fr[x]
    <3>1. f # 0
      BY <2>1 DEF Frames
    <3> QED
      BY <2>3, <3>1 DEF MappedBy, Entries, Valid
  <2>5. fr \notin Injection(Entries, Used)
    BY <2>3, <2>4 DEF Injection, IsInjective
  <2> QED
    BY <1>2, <1>7, <1>9, <2>5
<1> QED
  BY <1>2, <1>3, <1>7, <1>9, <1>10

(* The kernel objects of the tasks that exist. *)
LEMMA ObjectsCounted ==
  ASSUME TypeOK, ListInv
  PROVE  /\ KernelObjects \subseteq AllObjects
         /\ \A x \in KernelObjects :
              x[1] < nr_tasks /\ x[2] \in LowerTables(Present(x[1])) \cup Objects(x[1])
<1>1. ASSUME NEW p \in 1 .. nr_tasks - 1
      PROVE  {p} \X (LowerTables(Present(p)) \cup Objects(p)) \subseteq AllObjects
  <2>1. p \in Pids /\ p < nr_tasks
    BY CowForkAssumption DEF TypeOK, Pids
  <2>2. Present(p) \in SUBSET ProgramPages /\ ProgramPages \in SUBSET Pages
    BY <2>1, PagesMapped DEF Present, ProgramPages
  <2>3. LowerTables(Present(p)) \subseteq LowerTables(ProgramPages)
    BY <2>2, LowerTablesFinite
  <2>4. Len(mm[p]) = Len(LoadedVmas)
    <3>1. mm[p] \in {LoadedVmas, Reverse(LoadedVmas)}
      BY <2>1 DEF ListInv, ListsKept, TypeOK, Pids
    <3> QED
      BY <3>1, VmaOfProgram
  <2>5. Objects(p) \subseteq ChildObjects /\ (p = 1 => Objects(p) = {})
    BY <2>4 DEF Objects, ChildObjects
  <2> QED
    BY <2>1, <2>3, <2>5 DEF AllObjects
<1>2. KernelObjects \subseteq AllObjects
  BY <1>1 DEF KernelObjects
<1>3. nr_tasks \in Nat
  BY DEF TypeOK
<1> QED
  BY <1>2, <1>3 DEF KernelObjects

(* Room for e more entries and for the kernel objects K that do not exist  *)
(* yet is room for a request of that many frames.                          *)
LEMMA Room ==
  ASSUME TypeOK, ListInv, RefCountExact, FramesSuffice,
         NEW e \in Nat, NEW K \in SUBSET AllObjects, K \cap KernelObjects = {},
         MaxFrame - Cardinality(Unused) + e <= Cardinality(AllEntries)
  PROVE  /\ Available \in Int /\ Cardinality(K) \in Nat
         /\ Available >= e + Cardinality(K)
<1> DEFINE O == KernelObjects
<1>1. O \in SUBSET AllObjects
  BY ObjectsCounted
<1>2. /\ IsFiniteSet(AllObjects) /\ Cardinality(AllObjects) \in Nat
      /\ Cardinality(AllEntries) \in Nat
      /\ Cardinality(AllEntries) + Cardinality(AllObjects) <= MaxFrame
  BY AllCounted
<1>3. IsFiniteSet(O) /\ Cardinality(O) \in Nat /\ IsFiniteSet(K) /\ Cardinality(K) \in Nat
  BY <1>1, <1>2, FS_Subset, FS_CardinalityType
<1>4. Cardinality(K \cap O) = 0
  BY FS_EmptySet, Zenon
<1>5. Cardinality(K \cup O) = Cardinality(K) + Cardinality(O)
  <2>1. Cardinality(K \cup O) = Cardinality(K) + Cardinality(O) - Cardinality(K \cap O)
    BY <1>3, FS_Union
  <2> QED
    BY <1>3, <1>4, <2>1
<1>6. K \cup O \in SUBSET AllObjects
  BY <1>1
<1> HIDE DEF O
<1>7. Cardinality(K \cup O) <= Cardinality(AllObjects)
  BY <1>2, <1>6, FS_Subset
<1>8. Available = Cardinality(Unused) - Cardinality(O) /\ Cardinality(Unused) \in Nat
  BY UsedCounted DEF Available, KernelFrames, O
<1> QED
  BY <1>2, <1>3, <1>5, <1>7, <1>8, CowForkAssumption

(* do_page_fault finds a frame for the page and for the missing tables. *)
LEMMA AbsentServed ==
  ASSUME TypeOK, ListInv, RefCountExact, FramesSuffice,
         NEW a \in Addresses, NEW acc \in Perms, AbsentFault(a, acc)
  PROVE  ~(Available < 1 + NewTables(PageOf(a)))
<1> DEFINE p == current
           g == PageOf(a)
           S == Present(p)
           L == LowerTables(S)
           M == LowerTables(S \cup {g})
           K == {p} \X (M \ L)
<1>1. p \in Pids /\ p < nr_tasks /\ g \in Pages /\ mm[p] \in Seq(Vma)
  BY CurrentType, PageOfType DEF TypeOK
<1>2. g \in ProgramPages
  <2>1. PICK j \in 1 .. Len(LoadedVmas) : Holds(LoadedVmas[j], a)
    BY FoundInProgram DEF AbsentFault
  <2> QED
    BY <1>1, <2>1, HeldInRange, CowForkAssumption DEF ProgramPages
<1>3. S \cup {g} \in SUBSET ProgramPages /\ ProgramPages \in SUBSET Pages
  BY <1>1, <1>2, PagesMapped DEF Present, ProgramPages
<1>4. /\ L \subseteq M /\ M \subseteq LowerTables(ProgramPages)
      /\ IsFiniteSet(M) /\ IsFiniteSet(L)
      /\ Cardinality(M) \in Nat /\ Cardinality(L) \in Nat
  <2>1. S \cup {g} \in SUBSET Pages /\ S \in SUBSET (S \cup {g})
    BY <1>3
  <2> HIDE DEF S
  <2> QED
    BY <1>3, <2>1, LowerTablesFinite DEF Tables
<1>5. IsFiniteSet(M \ L) /\ Cardinality(M \ L) = NewTables(g)
  <2>1. M \cap L = L
    BY <1>4
  <2> QED
    BY <1>4, <2>1, FS_Difference DEF NewTables, Tables
<1>6. IsFiniteSet(K) /\ Cardinality(K) = NewTables(g)
  <2>1. IsFiniteSet({p}) /\ Cardinality({p}) = 1
    BY FS_Singleton
  <2>2. Cardinality(K) = Cardinality({p}) * Cardinality(M \ L) /\ IsFiniteSet(K)
    BY <1>5, <2>1, FS_Product, Zenon
  <2>3. Cardinality(M \ L) \in Nat
    BY <1>5, FS_CardinalityType
  <2> QED
    BY <1>5, <2>1, <2>2, <2>3
<1>7. K \in SUBSET AllObjects
  BY <1>1, <1>4 DEF AllObjects
<1>8. K \cap KernelObjects = {}
  <2> SUFFICES ASSUME NEW x \in K, x \in KernelObjects PROVE FALSE
    OBVIOUS
  <2>1. x[1] = p /\ x[2] \in M /\ x[2] \notin L
    OBVIOUS
  <2>2. x[2] \in Objects(p)
    BY <2>1, ObjectsCounted
  <2> QED
    BY <2>1, <2>2 DEF LowerTables, Objects
<1>9. MaxFrame - Cardinality(Unused) + 1 <= Cardinality(AllEntries)
  <2>1. <<p, g>> \notin Entries /\ <<p, g>> \in AllEntries
    BY <1>1, <1>2 DEF Entries, AllEntries, AbsentFault
  <2>2. /\ Entries \subseteq AllEntries /\ IsFiniteSet(Entries)
        /\ MaxFrame - Cardinality(Unused) <= Cardinality(Entries)
        /\ Cardinality(Unused) \in Nat /\ Cardinality(Entries) \in Nat
    BY UsedCounted
  <2>3. Cardinality(Entries \cup {<<p, g>>}) = Cardinality(Entries) + 1
    BY <2>1, <2>2, FS_AddElement
  <2>4. IsFiniteSet(AllEntries) /\ Cardinality(AllEntries) \in Nat
    BY AllCounted
  <2>5. Cardinality(Entries \cup {<<p, g>>}) <= Cardinality(AllEntries)
    <3>1. Entries \cup {<<p, g>>} \in SUBSET AllEntries
      BY <2>1, <2>2
    <3> QED
      BY <2>4, <3>1, FS_Subset
  <2> QED
    BY <2>2, <2>3, <2>4, <2>5, CowForkAssumption
<1> HIDE DEF K
<1> QED
  BY <1>6, <1>7, <1>8, <1>9, Room

(* page_cow finds a frame for the copy: the frame it copies is shared. *)
LEMMA CopyServed ==
  ASSUME TypeOK, ListInv, RefCountExact, FramesSuffice,
         NEW a \in Addresses, NEW acc \in Perms, CowFault(a, acc),
         ~OnlyUser(ref_cnt[pgd[current][PageOf(a)].frame])
  PROVE  ~(Available < 1)
<1> DEFINE x == <<current, PageOf(a)>>
<1>1. x \in Entries
  BY CurrentType, PageOfType DEF Entries, CowFault
<1>2. ref_cnt[pgd[x[1]][x[2]].frame] # 1
  BY DEF OnlyUser
<1> HIDE DEF x
<1>3. /\ Entries \subseteq AllEntries /\ Cardinality(Entries) \in Nat
      /\ Cardinality(Unused) \in Nat
      /\ MaxFrame - Cardinality(Unused) < Cardinality(Entries)
  BY <1>1, <1>2, UsedCounted
<1>4. Cardinality(Entries) <= Cardinality(AllEntries) /\ Cardinality(AllEntries) \in Nat
  BY <1>3, AllCounted, FS_Subset
<1>5. MaxFrame - Cardinality(Unused) + 1 <= Cardinality(AllEntries)
  BY <1>3, <1>4, CowForkAssumption
<1>6. {} \in SUBSET AllObjects /\ {} \cap KernelObjects = {} /\ Cardinality({}) = 0
  BY FS_EmptySet
<1>7. Available >= 1 + Cardinality({}) /\ Available \in Int
  BY <1>5, <1>6, Room
<1> QED
  BY <1>6, <1>7

(* do_fork_cow finds the frames for the kernel objects of the child. *)
LEMMA ForkServed ==
  ASSUME TypeOK, ListInv, RefCountExact, FramesSuffice, nr_tasks < MaxTasks
  PROVE  ~(Available < ForkNeed(current))
<1> DEFINE p == current
           c == nr_tasks
           S == Shared(p)
           L == LowerTables(S)
           K == {c} \X (L \cup ChildObjects)
<1>1. p \in Pids /\ p < nr_tasks /\ c \in Pids /\ c # 1
  BY CurrentType, CowForkAssumption DEF TypeOK, Pids
<1>2. Len(mm[p]) = Len(LoadedVmas) /\ Len(LoadedVmas) \in Nat
  <2>1. mm[p] \in {LoadedVmas, Reverse(LoadedVmas)}
    BY <1>1 DEF ListInv, ListsKept, TypeOK, Pids
  <2> QED
    BY <2>1, VmaOfProgram, CowForkAssumption
<1>3. S \in SUBSET ProgramPages /\ ProgramPages \in SUBSET Pages
  BY <1>1, PagesMapped DEF Shared, Present, ProgramPages
<1>4. /\ L \subseteq LowerTables(ProgramPages)
      /\ IsFiniteSet(L) /\ Cardinality(L) = Tables(S) /\ Tables(S) \in Nat
  <2>1. S \in SUBSET Pages
    BY <1>3
  <2> HIDE DEF S
  <2> QED
    BY <1>3, <2>1, LowerTablesFinite DEF Tables
<1>5. Cardinality(L \cap ChildObjects) = 0
  <2>1. L \cap ChildObjects = {}
    BY DEF LowerTables, ChildObjects
  <2> QED
    BY <2>1, FS_EmptySet, Zenon
<1>6. IsFiniteSet(L \cup ChildObjects) /\ Cardinality(L \cup ChildObjects) = ForkNeed(p)
  <2>1. /\ IsFiniteSet(L \cup ChildObjects)
        /\ Cardinality(L \cup ChildObjects)
             = Cardinality(L) + Cardinality(ChildObjects) - Cardinality(L \cap ChildObjects)
    BY <1>4, ChildCount, FS_Union
  <2>2. ForkNeed(p) = 2 + Len(mm[p]) + Tables(S)
    BY DEF ForkNeed
  <2> HIDE DEF L, S
  <2> QED
    BY <1>2, <1>4, <1>5, <2>1, <2>2, ChildCount
<1>7. IsFiniteSet(K) /\ Cardinality(K) = ForkNeed(p)
  <2>1. IsFiniteSet({c}) /\ Cardinality({c}) = 1
    BY FS_Singleton
  <2>2. Cardinality(K) = Cardinality({c}) * Cardinality(L \cup ChildObjects)
        /\ IsFiniteSet(K)
    BY <1>6, <2>1, FS_Product, Zenon
  <2>3. Cardinality(L \cup ChildObjects) \in Nat
    BY <1>6, FS_CardinalityType
  <2> QED
    BY <1>6, <2>1, <2>2, <2>3
<1>8. K \in SUBSET AllObjects
  BY <1>1, <1>4 DEF AllObjects
<1>9. K \cap KernelObjects = {}
  <2> SUFFICES ASSUME NEW x \in K, x \in KernelObjects PROVE FALSE
    OBVIOUS
  <2>1. x[1] = c /\ x[1] < nr_tasks /\ nr_tasks \in Nat
    BY ObjectsCounted DEF TypeOK
  <2> QED
    BY <2>1
<1>10. MaxFrame - Cardinality(Unused) + 0 <= Cardinality(AllEntries)
  <2>1. /\ Entries \subseteq AllEntries /\ Cardinality(Entries) \in Nat
        /\ Cardinality(Unused) \in Nat
        /\ MaxFrame - Cardinality(Unused) <= Cardinality(Entries)
    BY UsedCounted
  <2>2. Cardinality(Entries) <= Cardinality(AllEntries) /\ Cardinality(AllEntries) \in Nat
    BY <2>1, AllCounted, FS_Subset
  <2> QED
    BY <2>1, <2>2, CowForkAssumption
<1> HIDE DEF K
<1>11. /\ Available \in Int /\ Cardinality(K) \in Nat
       /\ Available >= 0 + Cardinality(K)
  BY <1>8, <1>9, <1>10, Room
<1> QED
  BY <1>7, <1>11

(* However tasks fork, fault and alternate, alloc_page never fails: frames *)
(* for an eager fork of as many tasks are enough for copy-on-write, its    *)
(* page tables and its kernel objects, since no frame is leaked.           *)
THEOREM FramesNeverRunOut ==
  ASSUME RangesApart(LoadedVmas), FramesSuffice PROVE Spec => []NeverOutOfFrames
<1>1. Init => NeverOutOfFrames
  BY DEF Init, NeverOutOfFrames
<1>2. TypeOK /\ ListInv /\ RefCountExact /\ NeverOutOfFrames /\ [Next]_vars
        => NeverOutOfFrames'
  <2> SUFFICES ASSUME TypeOK, ListInv, RefCountExact, NeverOutOfFrames, [Next]_vars
               PROVE  NeverOutOfFrames'
    OBVIOUS
  <2>1. ASSUME NEW a \in Addresses, NEW acc \in Perms, PageFault(a, acc)
        PROVE  NeverOutOfFrames'
    <3>1. ~AbsentOutOfFrames(a, acc)
      BY AbsentServed DEF AbsentOutOfFrames
    <3>2. ~CopyOutOfFrames(a, acc)
      BY CopyServed DEF CopyOutOfFrames
    <3> QED
      BY <2>1, <3>1, <3>2
         DEF PageFault, FaultNoVma, FaultAbsent, FaultUnshare, FaultCopy, FaultIgnored,
             vars, NeverOutOfFrames
  <2>2. ~ForkOutOfFrames
    BY ForkServed DEF ForkOutOfFrames
  <2> QED
    BY <2>1, <2>2
       DEF Next, SwitchTo, CacheEntry, EvictEntry, Store, Fork, vars, NeverOutOfFrames
<1>3. CowInv => TypeOK
  BY DEF CowInv
<1> QED
  BY CountsExact, ListInvariant, <1>1, <1>2, <1>3, PTL DEF Spec
=============================================================================

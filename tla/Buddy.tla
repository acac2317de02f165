------------------------------- MODULE Buddy -------------------------------
(***************************************************************************)
(* The buddy allocator of mm.c, with the reference counts it keeps.        *)
(*                                                                         *)
(* buddy.bitmap is a complete binary tree in an array: node 0 is the root, *)
(* node i has the children 2i+1 and 2i+2, the leaves are the page frames.  *)
(* bitmap[i] is the size of the largest block free below node i.  A block  *)
(* given out has bitmap 0 at its node; what is below it is not updated.    *)
(***************************************************************************)
EXTENDS Integers

(* IS_POWER_OF_2 clears the lowest bit set and compares with 0: no odd     *)
(* number but 1 divides x.                                                 *)
IS_POWER_OF_2(x) == \A d \in 2 .. x : x % d = 0 => d % 2 = 0

CONSTANTS
  SIZE,       \* buddy.size, the number of page frames
  Reserved,   \* frames below free_page_start, taken by buddy_init
  MaxUsers    \* bound on a reference count

ASSUME BuddyAssumption ==
  /\ SIZE \in Nat \ {0} /\ IS_POWER_OF_2(SIZE)
  /\ Reserved \in 1 .. SIZE
  /\ MaxUsers \in Nat \ {0}

Nodes == 0 .. 2 * SIZE - 2
Pfns  == 0 .. SIZE - 1

LEFT_LEAF(i)  == 2 * i + 1
RIGHT_LEAF(i) == 2 * i + 2
PARENT(i)     == (i + 1) \div 2 - 1
IsLeaf(i)     == i >= SIZE - 1
Larger(a, b)  == IF a > b THEN a ELSE b

(* The number of frames below a node. *)
NodeSize[i \in Nodes] == IF i = 0 THEN SIZE ELSE NodeSize[PARENT(i)] \div 2

Ancestors[i \in Nodes] == IF i = 0 THEN {} ELSE {PARENT(i)} \cup Ancestors[PARENT(i)]

(* The first frame of a node. *)
FirstPfn(i) == (i + 1) * NodeSize[i] - SIZE

(* fixsize: the next power of two.  (A request of more than SIZE frames is *)
(* larger than any bitmap entry.)                                          *)
fixsize(n) ==
  IF n > SIZE THEN 2 * SIZE
  ELSE CHOOSE s \in {NodeSize[i] : i \in Nodes} :
         n <= s /\ \A i \in Nodes : n <= NodeSize[i] => s <= NodeSize[i]

VARIABLES
  bitmap,     \* buddy.bitmap
  ref_cnt     \* buddy.ref_cnt

vars == <<bitmap, ref_cnt>>

-----------------------------------------------------------------------------
(* buddy_alloc: from the root, to the left wherever there is room enough.  *)
FitsTightly(longest, n) == longest > n
Fits(longest, n) == longest >= n
Large(n) == {i \in Nodes : NodeSize[i] >= n}

Descend(b, n) ==
  LET d[i \in Large(n)] ==
        IF NodeSize[i] = n THEN i
        ELSE IF Fits(b[LEFT_LEAF(i)], n) THEN d[LEFT_LEAF(i)]
                                         ELSE d[RIGHT_LEAF(i)]
  IN  d[0]

(* The tree once node x is taken: bitmap 0 there, and from there to the    *)
(* root the larger one of the two children.                                *)
Taken(b, x) ==
  LET t[i \in Nodes] ==
        IF i = x THEN 0
        ELSE IF i \in Ancestors[x] THEN Larger(t[LEFT_LEAF(i)], t[RIGHT_LEAF(i)])
        ELSE b[i]
  IN  t

-----------------------------------------------------------------------------
(* buddy_free: from the leaf of pfn up to the node the block was taken at. *)
TakenAt(b, pfn) ==
  LET up[i \in Nodes] == IF b[i] = 0 \/ i = 0 THEN i ELSE up[PARENT(i)]
  IN  up[pfn + SIZE - 1]

(* Two free buddies make one free block of both. *)
NotMerged(l, r, size) == Larger(l, r)
Summed(l, r, size) == l + r
Merged(l, r, size) == IF l + r = size THEN size ELSE Larger(l, r)

Freed(b, x) ==
  LET t[i \in Nodes] ==
        IF i = x THEN NodeSize[x]
        ELSE IF i \in Ancestors[x]
          THEN Merged(t[LEFT_LEAF(i)], t[RIGHT_LEAF(i)], NodeSize[i])
        ELSE b[i]
  IN  t

buddy_free(pfn, cnt) ==
  IF cnt[pfn] # 0 THEN bitmap ELSE Freed(bitmap, TakenAt(bitmap, pfn))

-----------------------------------------------------------------------------
(* buddy_init: a tree with nothing taken, then one buddy_alloc(1) for each *)
(* frame below free_page_start.                                            *)
Booted ==
  LET taken[k \in 0 .. Reserved] ==
        IF k = 0 THEN NodeSize ELSE Taken(taken[k - 1], Descend(taken[k - 1], 1))
  IN  taken[Reserved]

(* memset(buddy.ref_cnt, 0, ...) *)
Cleared == [f \in Pfns |-> 0]

Init ==
  /\ bitmap = Booted
  /\ ref_cnt = [f \in Pfns |-> IF f < Reserved THEN 1 ELSE Cleared[f]]

(* alloc_pages, alloc_page, kalloc.  Frame 0 stands for failure. *)
AllocPages(n) ==
  LET x == Descend(bitmap, fixsize(n)) IN
  /\ bitmap[0] >= fixsize(n)
  /\ bitmap' = Taken(bitmap, x)
  /\ ref_cnt' = [ref_cnt EXCEPT ![FirstPfn(x)] = 1]

AllocFails(n) ==
  /\ bitmap[0] < fixsize(n)
  /\ UNCHANGED vars

(* get_page: one more user of a page that has one. *)
GetPage(pfn) ==
  /\ ref_cnt[pfn] \in 1 .. MaxUsers - 1
  /\ ref_cnt' = [ref_cnt EXCEPT ![pfn] = @ + 1]
  /\ UNCHANGED bitmap

GetFree(pfn) == ref_cnt[pfn] = 0 /\ UNCHANGED vars

(* put_page, by a user of the page: page_ref_dec, and buddy_free at zero. *)
PutPage(pfn) ==
  LET cnt == [ref_cnt EXCEPT ![pfn] = @ - 1] IN
  /\ ref_cnt[pfn] > 0
  /\ ref_cnt' = cnt
  /\ bitmap' = buddy_free(pfn, cnt)

(* free_pages, kfree: buddy_free leaves a page that is counted alone, so   *)
(* nothing happens to a page its owner frees without put_page.             *)
FreePages(pfn) ==
  /\ ref_cnt[pfn] > 0
  /\ bitmap' = buddy_free(pfn, ref_cnt)
  /\ UNCHANGED ref_cnt

Next ==
  \/ \E n \in 1 .. SIZE + 1 : AllocPages(n) \/ AllocFails(n)
  \/ \E pfn \in Pfns : \/ GetPage(pfn)
                       \/ GetFree(pfn)
                       \/ PutPage(pfn)
                       \/ FreePages(pfn)

Spec == Init /\ [][Next]_vars

-----------------------------------------------------------------------------
(* Every variable has its type: what is free below a node is nothing or a  *)
(* block of a size the tree has, no larger than the node.                  *)
TypeOK ==
  /\ bitmap \in [Nodes -> {0} \cup {NodeSize[i] : i \in Nodes}]
  /\ \A i \in Nodes : bitmap[i] <= NodeSize[i]
  /\ ref_cnt \in [Pfns -> 0 .. MaxUsers]

(* The nodes at which blocks were taken: an exhausted node whose children  *)
(* are exhausted too is not one, its blocks were taken further below.      *)
TakenNodes ==
  {i \in Nodes : bitmap[i] = 0 /\ (IsLeaf(i) \/ bitmap[LEFT_LEAF(i)] # 0)}

InBlock(i) == \E x \in TakenNodes : x = i \/ x \in Ancestors[i]
FreeNodes  == {j \in Nodes : ~InBlock(j) /\ \A x \in TakenNodes : j \notin Ancestors[x]}

(* The tree forgets nothing: outside the blocks given out every node knows *)
(* the size of the largest block that is free below it, after any sequence *)
(* of splits and merges.                                                   *)
LongestExact ==
  \A i \in Nodes : ~InBlock(i) =>
    /\ \A j \in FreeNodes : (j = i \/ i \in Ancestors[j]) => NodeSize[j] <= bitmap[i]
    /\ bitmap[i] # 0 => \E j \in FreeNodes : /\ j = i \/ i \in Ancestors[j]
                                             /\ NodeSize[j] = bitmap[i]

(* To its callers the tree is an allocator of disjoint, counted blocks.    *)
Blocks == {[first |-> FirstPfn(x), size |-> NodeSize[x]] : x \in TakenNodes}
Promise == INSTANCE PageAllocator WITH blocks <- Blocks, users <- ref_cnt
DisjointBlocks == Promise!Spec
=============================================================================

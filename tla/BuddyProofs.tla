---------------------------- MODULE BuddyProofs ----------------------------
(***************************************************************************)
(* Theorems about Buddy, for every size of the memory that is a power of   *)
(* two, and every part of it that the kernel takes at boot: the tree is    *)
(* exact, and it keeps what PageAllocator promises.                        *)
(***************************************************************************)
EXTENDS Buddy, WellFoundedInduction, TLAPS

Sizes == Promise!Sizes

-----------------------------------------------------------------------------
(* Numbers: the powers of two up to SIZE *)

(* A set of natural numbers that is not empty has a least element. *)
LEMMA LeastElement ==
  ASSUME NEW S \in SUBSET Nat, S # {}
  PROVE  \E x \in S : \A y \in S : x <= y
<1>1. IsWellFoundedOn(OpToRel(<, Nat), Nat)
  BY NatLessThanWellFounded
<1>2. PICK x \in S : \A y \in S : ~ (<<y, x>> \in OpToRel(<, Nat))
  BY <1>1, WFMin
<1>3. \A y \in S : ~ (y < x)
  BY <1>2 DEF OpToRel
<1> QED
  BY <1>3

LEMMA Division ==
  ASSUME NEW a \in Nat, NEW b \in Nat \ {0}
  PROVE  a \div b \in Nat /\ a % b \in 0 .. b - 1 /\ a = (a \div b) * b + (a % b)
<1>1. b \in Nat /\ b > 0
  OBVIOUS
<1>2. a \div b \in Nat /\ a % b \in 0 .. b - 1
  BY <1>1
<1>3. a % b = a - b * (a \div b)
  BY <1>1
<1> QED
  BY <1>1, <1>2, <1>3

LEMMA Multiples ==
  ASSUME NEW a \in Nat, NEW b \in Nat \ {0}
  PROVE  a % b = 0 <=> \E q \in Nat : a = q * b
<1> DEFINE d == a \div b
           r == a % b
<1>1. d \in Nat /\ r \in 0 .. b - 1 /\ a = d * b + r
  BY Division
<1> HIDE DEF d, r
<1>2. ASSUME r = 0 PROVE \E q \in Nat : a = q * b
  <2>1. a = d * b
    BY <1>1, <1>2
  <2> QED
    BY <1>1, <2>1
<1>3. ASSUME NEW q \in Nat, a = q * b PROVE r = 0
  <2>1. (q - d) * b = r
    BY <1>1, <1>3
  <2>2. q > d => (q - d) * b >= b
    BY <1>1
  <2>3. q < d => (q - d) * b < 0
    BY <1>1
  <2> QED
    BY <1>1, <2>1, <2>2, <2>3
<1> QED
  BY <1>2, <1>3 DEF r

LEMMA SizesType ==
  /\ Sizes \subseteq Nat \ {0}
  /\ SIZE \in Sizes
  /\ \A s \in Sizes : s <= SIZE
<1>1. SIZE % SIZE = 0
  BY BuddyAssumption
<1> QED
  BY <1>1, BuddyAssumption DEF Sizes, Promise!Sizes

LEMMA SizesDivide ==
  ASSUME NEW s \in Nat \ {0}
  PROVE  s \in Sizes <=> \E q \in Nat : SIZE = q * s
<1>1. s \in Sizes <=> s <= SIZE /\ SIZE % s = 0
  BY BuddyAssumption DEF Sizes, Promise!Sizes
<1>2. ASSUME NEW q \in Nat, SIZE = q * s PROVE s <= SIZE
  <2>1. q # 0
    BY <1>2, BuddyAssumption
  <2> QED
    BY <1>2, <2>1
<1> QED
  BY <1>1, <1>2, Multiples, BuddyAssumption

LEMMA SizesHalve ==
  ASSUME NEW s \in Sizes, s # 1
  PROVE  s \div 2 \in Sizes /\ s = 2 * (s \div 2)
<1>1. s \in 2 .. SIZE /\ SIZE % s = 0
  BY BuddyAssumption DEF Sizes, Promise!Sizes
<1>2. s % 2 = 0
  BY <1>1, BuddyAssumption DEF IS_POWER_OF_2
<1>3. PICK h \in Nat \ {0} : s = 2 * h /\ s \div 2 = h
  BY <1>1, <1>2
<1>4. PICK q \in Nat : SIZE = q * s
  BY <1>1, SizesDivide
<1>5. SIZE = (2 * q) * h /\ 2 * q \in Nat
  BY <1>3, <1>4
<1>6. h \in Sizes
  BY <1>5, SizesDivide
<1> QED
  BY <1>3, <1>6

(* Of two different sizes one is at least twice the other. *)
LEMMA SizesApart ==
  \A s, t \in Sizes : s < t => 2 * s <= t
<1> DEFINE T == {t \in Sizes : \E s \in Sizes : s < t /\ ~(2 * s <= t)}
<1> SUFFICES ASSUME T # {} PROVE FALSE
  OBVIOUS
<1>1. PICK t \in T : \A u \in T : t <= u
  BY LeastElement, SizesType
<1>2. PICK s \in Sizes : s < t /\ ~(2 * s <= t)
  BY <1>1
<1>3. t # 1 /\ s # 1 /\ s \in Nat /\ t \in Nat
  BY <1>1, <1>2, SizesType
<1>4. s \div 2 \in Sizes /\ s = 2 * (s \div 2) /\ t \div 2 \in Sizes /\ t = 2 * (t \div 2)
  BY <1>1, <1>3, SizesHalve
<1>5. t \div 2 \in T
  BY <1>2, <1>3, <1>4
<1> QED
  BY <1>1, <1>3, <1>4, <1>5

-----------------------------------------------------------------------------
(* The shape of the tree *)

Child(i) == {LEFT_LEAF(i), RIGHT_LEAF(i)}

LEMMA Root == 0 \in Nodes
BY BuddyAssumption DEF Nodes

LEMMA Parents ==
  ASSUME NEW i \in Nodes, i # 0
  PROVE  /\ PARENT(i) \in Nodes /\ PARENT(i) < i /\ ~IsLeaf(PARENT(i))
         /\ i \in Child(PARENT(i))
BY BuddyAssumption DEF Nodes, PARENT, IsLeaf, Child, LEFT_LEAF, RIGHT_LEAF

LEMMA Children ==
  ASSUME NEW i \in Nodes, ~IsLeaf(i)
  PROVE  /\ LEFT_LEAF(i) \in Nodes /\ RIGHT_LEAF(i) \in Nodes
         /\ LEFT_LEAF(i) > i /\ RIGHT_LEAF(i) > LEFT_LEAF(i)
         /\ PARENT(LEFT_LEAF(i)) = i /\ PARENT(RIGHT_LEAF(i)) = i
BY BuddyAssumption DEF Nodes, PARENT, IsLeaf, LEFT_LEAF, RIGHT_LEAF

(* What holds of the root, and of a node if of its parent, holds of all.   *)
LEMMA FromRoot ==
  ASSUME NEW P, 0 \in P, \A i \in Nodes : i # 0 /\ PARENT(i) \in P => i \in P
  PROVE  Nodes \subseteq P
<1> SUFFICES ASSUME Nodes \ P # {} PROVE FALSE
  OBVIOUS
<1>1. Nodes \ P \in SUBSET Nat
  BY BuddyAssumption DEF Nodes
<1>2. PICK i \in Nodes \ P : \A j \in Nodes \ P : i <= j
  BY <1>1, LeastElement
<1>3. i # 0
  BY <1>2
<1>4. PARENT(i) \in Nodes /\ PARENT(i) < i /\ i \in Nat /\ PARENT(i) \in Nat
  BY <1>1, <1>3, Parents, BuddyAssumption DEF Nodes
<1> QED
  BY <1>2, <1>3, <1>4

(* What holds of the leaves, and of a node if of its children, too.        *)
LEMMA FromLeaves ==
  ASSUME NEW P,
         \A i \in Nodes : IsLeaf(i) => i \in P,
         \A i \in Nodes : ~IsLeaf(i) /\ LEFT_LEAF(i) \in P /\ RIGHT_LEAF(i) \in P => i \in P
  PROVE  Nodes \subseteq P
<1> DEFINE T == {n \in Nat : \E i \in Nodes \ P : n = 2 * SIZE - 2 - i}
<1> SUFFICES ASSUME NEW j \in Nodes \ P PROVE FALSE
  OBVIOUS
<1>1. 2 * SIZE - 2 - j \in T
  BY BuddyAssumption DEF Nodes
<1>2. PICK n \in T : \A m \in T : n <= m
  BY <1>1, LeastElement
<1>3. PICK i \in Nodes \ P : n = 2 * SIZE - 2 - i
  BY <1>2
<1>4. ASSUME NEW k \in Nodes \ P PROVE ~(k > i)
  <2>1. 2 * SIZE - 2 - k \in T
    BY BuddyAssumption DEF Nodes
  <2> QED
    BY <1>2, <1>3, <2>1, BuddyAssumption DEF Nodes
<1>5. ~IsLeaf(i)
  BY <1>3
<1>6. LEFT_LEAF(i) \in Nodes /\ RIGHT_LEAF(i) \in Nodes /\ LEFT_LEAF(i) > i /\ RIGHT_LEAF(i) > i
  BY <1>5, Children, BuddyAssumption DEF Nodes
<1> QED
  BY <1>3, <1>4, <1>5, <1>6

-----------------------------------------------------------------------------
(* Recursive functions *)

(* f computes the value at x with g from the values at l[x] and r[x], or,  *)
(* outside of I, takes that of h.                                          *)
Computes(f, g, h, I, l, r, x) ==
  f[x] = IF x \in I THEN g[x][f[l[x]]][f[r[x]]] ELSE h[x]

(* There is such a function if l and r lead to elements of lower rank.     *)
LEMMA Recursion ==
  ASSUME NEW S, NEW V, NEW I \in SUBSET S, NEW l \in [S -> S], NEW r \in [S -> S],
         NEW g \in [S -> [V -> [V -> V]]], NEW h \in [S -> V],
         NEW rank \in [S -> Nat], NEW N \in Nat, \A x \in S : rank[x] < N,
         \A x \in I : rank[l[x]] < rank[x] /\ rank[r[x]] < rank[x]
  PROVE  \E f \in [S -> V] : \A x \in S : Computes(f, g, h, I, l, r, x)
<1> DEFINE Upto(n) == \E f \in [S -> V] :
                        \A x \in S : rank[x] < n => Computes(f, g, h, I, l, r, x)
           T == {n \in Nat : ~Upto(n)}
<1>1. Upto(0)
  BY DEF Computes
<1>2. ASSUME NEW n \in Nat, Upto(n) PROVE Upto(n + 1)
  <2>1. PICK f \in [S -> V] :
          \A x \in S : rank[x] < n => Computes(f, g, h, I, l, r, x)
    BY <1>2
  <2> DEFINE e == [x \in S |-> IF rank[x] < n THEN f[x]
                              ELSE IF x \in I THEN g[x][f[l[x]]][f[r[x]]] ELSE h[x]]
  <2>2. e \in [S -> V]
    OBVIOUS
  <2>3. \A x \in S : rank[x] < n => e[x] = f[x]
    OBVIOUS
  <2>4. \A x \in S : ~(rank[x] < n) =>
           e[x] = IF x \in I THEN g[x][f[l[x]]][f[r[x]]] ELSE h[x]
    OBVIOUS
  <2> HIDE DEF e
  <2>5. ASSUME NEW x \in S, rank[x] < n + 1 PROVE Computes(e, g, h, I, l, r, x)
    <3>1. x \in I => e[l[x]] = f[l[x]] /\ e[r[x]] = f[r[x]]
      BY <2>3, <2>5
    <3>2. CASE rank[x] < n
      BY <2>1, <2>3, <3>1, <3>2 DEF Computes
    <3>3. CASE ~(rank[x] < n)
      BY <2>4, <3>1, <3>3 DEF Computes
    <3> QED
      BY <3>2, <3>3
  <2> QED
    BY <2>2, <2>5
<1> HIDE DEF Upto
<1>3. Upto(N)
  <2> SUFFICES ASSUME ~Upto(N) PROVE FALSE
    OBVIOUS
  <2>1. PICK n \in T : \A m \in T : n <= m
    BY LeastElement
  <2>2. n # 0 /\ n \in Nat /\ ~Upto(n)
    BY <1>1, <2>1
  <2>3. n - 1 \in Nat /\ (n - 1) + 1 = n /\ ~(n <= n - 1)
    BY <2>2
  <2>4. Upto(n - 1)
    BY <2>1, <2>3
  <2>5. Upto((n - 1) + 1)
    BY <1>2, <2>3, <2>4
  <2> QED
    BY <2>2, <2>3, <2>5
<1> QED
  BY <1>3 DEF Upto

(* From the parents to the children. *)
Inherits(f, v, g, i) == f[i] = IF i = 0 THEN v ELSE g[i][f[PARENT(i)]]

LEMMA FromParents ==
  ASSUME NEW V, NEW v \in V, NEW g \in [Nodes -> [V -> V]]
  PROVE  \E f \in [Nodes -> V] : \A i \in Nodes : Inherits(f, v, g, i)
<1> DEFINE I == Nodes \ {0}
           l == [i \in Nodes |-> IF i = 0 THEN 0 ELSE PARENT(i)]
           g2 == [i \in Nodes |-> [a \in V |-> [b \in V |-> g[i][a]]]]
           h == [i \in Nodes |-> v]
           rank == [i \in Nodes |-> i]
           N == 2 * SIZE
<1>1. /\ I \in SUBSET Nodes /\ l \in [Nodes -> Nodes] /\ h \in [Nodes -> V]
      /\ rank \in [Nodes -> Nat] /\ N \in Nat
      /\ \A i \in Nodes : rank[i] < N
      /\ \A i \in I : rank[l[i]] < rank[i] /\ rank[l[i]] < rank[i]
  BY Root, Parents, BuddyAssumption DEF Nodes
<1>2. g2 \in [Nodes -> [V -> [V -> V]]]
  OBVIOUS
<1>3. \A i \in Nodes, a, b \in V : g2[i][a][b] = g[i][a]
  OBVIOUS
<1>4. \A i \in Nodes : (i \in I <=> i # 0) /\ h[i] = v /\ (i # 0 => l[i] = PARENT(i))
  OBVIOUS
<1> HIDE DEF I, l, g2, h, rank, N
<1>5. PICK f \in [Nodes -> V] : \A i \in Nodes : Computes(f, g2, h, I, l, l, i)
  BY <1>1, <1>2, Recursion
<1>6. ASSUME NEW i \in Nodes PROVE f[i] = IF i = 0 THEN v ELSE g[i][f[PARENT(i)]]
  <2>1. CASE i = 0
    BY <1>4, <1>5, <2>1 DEF Computes
  <2>2. CASE i # 0
    <3>1. PARENT(i) \in Nodes /\ f[PARENT(i)] \in V
      BY <2>2, Parents
    <3>2. i \in I /\ l[i] = PARENT(i)
      BY <1>4, <2>2
    <3>3. f[i] = g2[i][f[PARENT(i)]][f[PARENT(i)]]
      BY <1>5, <3>2 DEF Computes
    <3>4. f[i] = g[i][f[PARENT(i)]]
      BY <1>3, <3>1, <3>3
    <3> QED
      BY <2>2, <3>4
  <2> QED
    BY <2>1, <2>2
<1> QED
  BY <1>6 DEF Inherits

(* From the children to the parents. *)
Gathers(f, h, g, i) ==
  f[i] = IF IsLeaf(i) THEN h[i] ELSE g[i][f[LEFT_LEAF(i)]][f[RIGHT_LEAF(i)]]

LEMMA FromChildren ==
  ASSUME NEW V, NEW h \in [Nodes -> V], NEW g \in [Nodes -> [V -> [V -> V]]]
  PROVE  \E f \in [Nodes -> V] : \A i \in Nodes : Gathers(f, h, g, i)
<1> DEFINE I == {i \in Nodes : ~IsLeaf(i)}
           l == [i \in Nodes |-> IF IsLeaf(i) THEN i ELSE LEFT_LEAF(i)]
           r == [i \in Nodes |-> IF IsLeaf(i) THEN i ELSE RIGHT_LEAF(i)]
           N == 2 * SIZE
           rank == [i \in Nodes |-> N - i]
<1>1. /\ I \in SUBSET Nodes /\ l \in [Nodes -> Nodes] /\ r \in [Nodes -> Nodes]
      /\ rank \in [Nodes -> Nat] /\ N + 1 \in Nat
      /\ \A i \in Nodes : rank[i] < N + 1
  BY Children, BuddyAssumption DEF Nodes
<1>2. ASSUME NEW i \in I PROVE rank[l[i]] < rank[i] /\ rank[r[i]] < rank[i]
  <2>1. /\ LEFT_LEAF(i) \in Nodes /\ RIGHT_LEAF(i) \in Nodes
        /\ LEFT_LEAF(i) > i /\ RIGHT_LEAF(i) > i
    BY Children, BuddyAssumption DEF Nodes
  <2>2. l[i] = LEFT_LEAF(i) /\ r[i] = RIGHT_LEAF(i)
    OBVIOUS
  <2> QED
    BY <2>1, <2>2, BuddyAssumption DEF Nodes
<1>3. \A i \in Nodes : (i \in I <=> ~IsLeaf(i))
                         /\ (~IsLeaf(i) => l[i] = LEFT_LEAF(i) /\ r[i] = RIGHT_LEAF(i))
  OBVIOUS
<1> HIDE DEF I, l, r, rank, N
<1>4. PICK f \in [Nodes -> V] : \A i \in Nodes : Computes(f, g, h, I, l, r, i)
  BY <1>1, <1>2, Recursion
<1>5. ASSUME NEW i \in Nodes
      PROVE  f[i] = IF IsLeaf(i) THEN h[i] ELSE g[i][f[LEFT_LEAF(i)]][f[RIGHT_LEAF(i)]]
  <2>1. f[i] = IF i \in I THEN g[i][f[l[i]]][f[r[i]]] ELSE h[i]
    BY <1>4 DEF Computes
  <2>2. CASE IsLeaf(i)
    <3>1. i \notin I
      BY <1>3, <2>2
    <3>2. f[i] = h[i]
      BY <2>1, <3>1
    <3> QED
      BY <2>2, <3>2
  <2>3. CASE ~IsLeaf(i)
    <3>1. i \in I /\ l[i] = LEFT_LEAF(i) /\ r[i] = RIGHT_LEAF(i)
      BY <1>3, <2>3
    <3>2. f[i] = g[i][f[LEFT_LEAF(i)]][f[RIGHT_LEAF(i)]]
      BY <2>1, <3>1
    <3> QED
      BY <2>3, <3>2
  <2> QED
    BY <2>2, <2>3
<1> QED
  BY <1>5 DEF Gathers

-----------------------------------------------------------------------------
(* Sizes of nodes *)

LEMMA NodeSizeIs ==
  /\ NodeSize \in [Nodes -> Nat]
  /\ \A i \in Nodes : NodeSize[i] = IF i = 0 THEN SIZE ELSE NodeSize[PARENT(i)] \div 2
<1> DEFINE g == [i \in Nodes |-> [n \in Nat |-> n \div 2]]
           Is(f) == f = [i \in Nodes |-> IF i = 0 THEN SIZE ELSE f[PARENT(i)] \div 2]
<1>1. g \in [Nodes -> [Nat -> Nat]] /\ \A i \in Nodes, n \in Nat : g[i][n] = n \div 2
  OBVIOUS
<1> HIDE DEF g
<1>2. PICK f \in [Nodes -> Nat] :
        \A i \in Nodes : Inherits(f, SIZE, g, i)
  <2>1. SIZE \in Nat
    BY BuddyAssumption
  <2> QED
    BY <1>1, <2>1, FromParents
<1>3. Is(f)
  <2>1. \A i \in Nodes : f[i] = IF i = 0 THEN SIZE ELSE f[PARENT(i)] \div 2
    BY <1>1, <1>2, Parents DEF Inherits
  <2> QED
    BY <1>2, <2>1
<1>4. NodeSize = CHOOSE e : Is(e)
  BY DEF NodeSize
<1>5. Is(NodeSize)
  BY <1>3, <1>4
<1>6. \A i \in Nodes : NodeSize[i] = IF i = 0 THEN SIZE ELSE NodeSize[PARENT(i)] \div 2
  BY <1>5
<1>7. Nodes \subseteq {i \in Nodes : NodeSize[i] \in Nat}
  <2> DEFINE P == {i \in Nodes : NodeSize[i] \in Nat}
  <2>1. 0 \in P
    BY <1>6, Root, BuddyAssumption
  <2>2. \A i \in Nodes : i # 0 /\ PARENT(i) \in P => i \in P
    BY <1>6
  <2> HIDE DEF P
  <2>3. Nodes \subseteq P
    BY <2>1, <2>2, FromRoot
  <2> QED
    BY <2>3 DEF P
<1> QED
  BY <1>5, <1>6, <1>7

LEMMA AncestorsIs ==
  /\ Ancestors \in [Nodes -> SUBSET Nodes]
  /\ \A i \in Nodes :
       Ancestors[i] = IF i = 0 THEN {} ELSE {PARENT(i)} \cup Ancestors[PARENT(i)]
<1> DEFINE g == [i \in Nodes |-> [A \in SUBSET Nodes |->
                   IF i = 0 THEN {} ELSE {PARENT(i)} \cup A]]
           Is(f) == f = [i \in Nodes |-> IF i = 0 THEN {} ELSE {PARENT(i)} \cup f[PARENT(i)]]
<1>1. /\ g \in [Nodes -> [SUBSET Nodes -> SUBSET Nodes]]
      /\ \A i \in Nodes, A \in SUBSET Nodes : i # 0 => g[i][A] = {PARENT(i)} \cup A
  BY Parents
<1> HIDE DEF g
<1>2. PICK f \in [Nodes -> SUBSET Nodes] :
        \A i \in Nodes : Inherits(f, {}, g, i)
  <2>1. {} \in SUBSET Nodes
    OBVIOUS
  <2> QED
    BY <1>1, <2>1, FromParents
<1>3. Is(f)
  <2>1. \A i \in Nodes : f[i] = IF i = 0 THEN {} ELSE {PARENT(i)} \cup f[PARENT(i)]
    BY <1>1, <1>2, Parents DEF Inherits
  <2> QED
    BY <1>2, <2>1
<1>4. Ancestors = CHOOSE e : Is(e)
  BY DEF Ancestors
<1>5. Is(Ancestors)
  BY <1>3, <1>4
<1>6. \A i \in Nodes :
        Ancestors[i] = IF i = 0 THEN {} ELSE {PARENT(i)} \cup Ancestors[PARENT(i)]
  BY <1>5
<1>7. Nodes \subseteq {i \in Nodes : Ancestors[i] \in SUBSET Nodes}
  <2> DEFINE P == {i \in Nodes : Ancestors[i] \in SUBSET Nodes}
  <2>1. 0 \in P
    BY <1>6, Root
  <2>2. \A i \in Nodes : i # 0 /\ PARENT(i) \in P => i \in P
    BY <1>6, Parents
  <2> HIDE DEF P
  <2>3. Nodes \subseteq P
    BY <2>1, <2>2, FromRoot
  <2> QED
    BY <2>3 DEF P
<1> QED
  BY <1>5, <1>6, <1>7

(* What NodeSize and FirstPfn say of a node: its size is a power of two,   *)
(* and its frames are frames of the memory.                                *)
Placed(i) ==
  NodeSize[i] \in Sizes /\ FirstPfn(i) \in Nat /\ FirstPfn(i) + NodeSize[i] <= SIZE

LEMMA Halves ==
  ASSUME NEW i \in Nodes, ~IsLeaf(i), Placed(i)
  PROVE  \E h \in Sizes :
           /\ NodeSize[i] = 2 * h
           /\ NodeSize[LEFT_LEAF(i)] = h /\ NodeSize[RIGHT_LEAF(i)] = h
           /\ FirstPfn(LEFT_LEAF(i)) = FirstPfn(i)
           /\ FirstPfn(RIGHT_LEAF(i)) = FirstPfn(i) + h
<1> DEFINE s == NodeSize[i]
<1>1. i \in Nat /\ i < SIZE - 1 /\ SIZE \in Nat
  BY BuddyAssumption DEF Nodes, IsLeaf
<1>2. s \in Sizes /\ s \in Nat /\ (i + 1) * s >= SIZE
  <2>1. s \in Sizes /\ (i + 1) * s - SIZE \in Nat
    BY DEF Placed, FirstPfn
  <2>2. s \in Nat
    BY <2>1, SizesType
  <2> HIDE DEF s
  <2>3. (i + 1) * s \in Nat
    BY <1>1, <2>2
  <2> QED
    BY <1>1, <2>1, <2>2, <2>3
<1> HIDE DEF s
<1>3. s # 1
  BY <1>1, <1>2
<1>4. PICK h \in Sizes : s = 2 * h /\ s \div 2 = h
  BY <1>2, <1>3, SizesHalve
<1>5. /\ LEFT_LEAF(i) \in Nodes /\ RIGHT_LEAF(i) \in Nodes
      /\ LEFT_LEAF(i) # 0 /\ RIGHT_LEAF(i) # 0
      /\ PARENT(LEFT_LEAF(i)) = i /\ PARENT(RIGHT_LEAF(i)) = i
  <2>1. LEFT_LEAF(i) # 0 /\ RIGHT_LEAF(i) # 0
    BY <1>1 DEF LEFT_LEAF, RIGHT_LEAF
  <2> QED
    BY <2>1, Children
<1>6. NodeSize[LEFT_LEAF(i)] = h /\ NodeSize[RIGHT_LEAF(i)] = h
  BY <1>4, <1>5, NodeSizeIs DEF s
<1>7. h \in Nat
  BY <1>4, SizesType
<1>8. FirstPfn(i) = (i + 1) * (2 * h) - SIZE
  BY <1>4 DEF s, FirstPfn
<1>9. FirstPfn(LEFT_LEAF(i)) = (2 * i + 1 + 1) * h - SIZE
  BY <1>6 DEF FirstPfn, LEFT_LEAF
<1>10. FirstPfn(RIGHT_LEAF(i)) = (2 * i + 2 + 1) * h - SIZE
  BY <1>6 DEF FirstPfn, RIGHT_LEAF
<1>11. (2 * i + 1 + 1) * h = (i + 1) * (2 * h)
  BY <1>1, <1>7
<1>12. (2 * i + 2 + 1) * h = (i + 1) * (2 * h) + h /\ (i + 1) * (2 * h) \in Nat
  BY <1>1, <1>7
<1>13. FirstPfn(LEFT_LEAF(i)) = FirstPfn(i) /\ FirstPfn(RIGHT_LEAF(i)) = FirstPfn(i) + h
  BY <1>1, <1>7, <1>8, <1>9, <1>10, <1>11, <1>12
<1> QED
  BY <1>4, <1>6, <1>13 DEF s

LEMMA NodesPlaced == \A i \in Nodes : Placed(i)
<1> DEFINE P == {i \in Nodes : Placed(i)}
<1>1. 0 \in P
  <2>1. NodeSize[0] = SIZE
    BY Root, NodeSizeIs
  <2>2. FirstPfn(0) = 0
    BY <2>1, BuddyAssumption DEF FirstPfn
  <2> QED
    BY <2>1, <2>2, Root, SizesType, BuddyAssumption DEF Placed
<1>2. ASSUME NEW i \in Nodes, i # 0, PARENT(i) \in P PROVE i \in P
  <2> DEFINE q == PARENT(i)
  <2>1. q \in Nodes /\ ~IsLeaf(q) /\ Placed(q) /\ (i = LEFT_LEAF(q) \/ i = RIGHT_LEAF(q))
    BY <1>2, Parents DEF Child
  <2> HIDE DEF q
  <2>2. PICK h \in Sizes :
           /\ NodeSize[q] = 2 * h
           /\ NodeSize[LEFT_LEAF(q)] = h /\ NodeSize[RIGHT_LEAF(q)] = h
           /\ FirstPfn(LEFT_LEAF(q)) = FirstPfn(q)
           /\ FirstPfn(RIGHT_LEAF(q)) = FirstPfn(q) + h
    BY <2>1, Halves
  <2>3. NodeSize[i] = h /\ FirstPfn(i) \in {FirstPfn(q), FirstPfn(q) + h}
    BY <2>1, <2>2
  <2>4. h \in Nat /\ FirstPfn(q) \in Nat /\ FirstPfn(q) + 2 * h <= SIZE
    BY <2>1, <2>2, SizesType DEF Placed
  <2> QED
    BY <2>3, <2>4, BuddyAssumption DEF Placed
<1> HIDE DEF P
<1>3. Nodes \subseteq P
  BY <1>1, <1>2, FromRoot
<1> QED
  BY <1>3 DEF P

LEMMA NodeFacts ==
  ASSUME NEW i \in Nodes
  PROVE  /\ NodeSize[i] \in Sizes /\ NodeSize[i] \in Nat \ {0}
         /\ FirstPfn(i) \in Pfns
         /\ FirstPfn(i) + NodeSize[i] <= SIZE
         /\ IsLeaf(i) <=> NodeSize[i] = 1
<1>1. /\ NodeSize[i] \in Sizes /\ NodeSize[i] \in Nat \ {0} /\ FirstPfn(i) \in Nat
      /\ FirstPfn(i) + NodeSize[i] <= SIZE
  BY NodesPlaced, SizesType DEF Placed
<1>2. FirstPfn(i) \in Pfns
  BY <1>1, BuddyAssumption DEF Pfns
<1>3. ASSUME ~IsLeaf(i) PROVE NodeSize[i] # 1
  <2>1. PICK h \in Sizes : NodeSize[i] = 2 * h
    BY <1>3, NodesPlaced, Halves
  <2> QED
    BY <2>1, SizesType
<1>4. ASSUME IsLeaf(i) PROVE NodeSize[i] = 1
  <2> DEFINE s == NodeSize[i]
  <2>1. s \in Nat \ {0} /\ (i + 1) * s - SIZE + s <= SIZE
    BY <1>1 DEF FirstPfn
  <2>2. i \in Nat /\ i + 1 >= SIZE /\ SIZE \in Nat
    BY <1>4, BuddyAssumption DEF Nodes, IsLeaf
  <2> HIDE DEF s
  <2>3. (i + 1) * s \in Nat /\ (i + 1) * s >= SIZE * s /\ SIZE * s \in Nat
    BY <2>1, <2>2
  <2>4. s >= 2 => SIZE * s >= 2 * SIZE
    BY <2>1, <2>2
  <2>5. s = 1
    BY <2>1, <2>2, <2>3, <2>4
  <2> QED
    BY <2>5 DEF s
<1> QED
  BY <1>1, <1>2, <1>3, <1>4

LEMMA ChildFacts ==
  ASSUME NEW i \in Nodes, ~IsLeaf(i)
  PROVE  /\ LEFT_LEAF(i) \in Nodes /\ RIGHT_LEAF(i) \in Nodes
         /\ NodeSize[i] = 2 * NodeSize[LEFT_LEAF(i)]
         /\ NodeSize[RIGHT_LEAF(i)] = NodeSize[LEFT_LEAF(i)]
         /\ FirstPfn(LEFT_LEAF(i)) = FirstPfn(i)
         /\ FirstPfn(RIGHT_LEAF(i)) = FirstPfn(i) + NodeSize[LEFT_LEAF(i)]
<1>1. PICK h \in Sizes :
           /\ NodeSize[i] = 2 * h
           /\ NodeSize[LEFT_LEAF(i)] = h /\ NodeSize[RIGHT_LEAF(i)] = h
           /\ FirstPfn(LEFT_LEAF(i)) = FirstPfn(i)
           /\ FirstPfn(RIGHT_LEAF(i)) = FirstPfn(i) + h
  BY NodesPlaced, Halves
<1> QED
  BY <1>1, Children

-----------------------------------------------------------------------------
(* Ancestors and frames *)

Path(i) == {i} \cup Ancestors[i]
Frames(i) == FirstPfn(i) .. FirstPfn(i) + NodeSize[i] - 1

LEMMA AncestorsOfChild ==
  ASSUME NEW i \in Nodes, ~IsLeaf(i), NEW c \in Child(i)
  PROVE  c \in Nodes /\ c > i /\ c # 0 /\ PARENT(c) = i /\ Ancestors[c] = Path(i)
<1>1. c \in Nodes /\ PARENT(c) = i /\ c > i
  BY Children, BuddyAssumption DEF Child, Nodes
<1>2. c # 0
  BY <1>1, BuddyAssumption DEF Nodes
<1> QED
  BY <1>1, <1>2, AncestorsIs DEF Path

(* An ancestor of i holds i and more. *)
Holds(a, i) ==
  /\ a \in Nodes /\ a < i /\ ~IsLeaf(a) /\ Ancestors[a] \subseteq Ancestors[i]
  /\ NodeSize[a] >= 2 * NodeSize[i]
  /\ FirstPfn(a) <= FirstPfn(i)
  /\ FirstPfn(i) + NodeSize[i] <= FirstPfn(a) + NodeSize[a]
  /\ \E c \in Child(a) : c \in Path(i)

LEMMA AncestorHolds ==
  \A i \in Nodes : \A a \in Ancestors[i] : Holds(a, i)
<1> DEFINE P == {i \in Nodes : \A a \in Ancestors[i] : Holds(a, i)}
<1>1. 0 \in P
  BY Root, AncestorsIs
<1>2. ASSUME NEW i \in Nodes, i # 0, PARENT(i) \in P PROVE i \in P
  <2> DEFINE q == PARENT(i)
  <2>1. q \in P /\ q \in Nodes /\ ~IsLeaf(q) /\ q < i /\ i \in Child(q) /\ Ancestors[i] = Path(q)
    BY <1>2, Parents, AncestorsOfChild
  <2> HIDE DEF q
  <2>2. /\ NodeSize[q] >= 2 * NodeSize[i] /\ FirstPfn(q) <= FirstPfn(i)
        /\ FirstPfn(i) + NodeSize[i] <= FirstPfn(q) + NodeSize[q]
    <3>1. NodeSize[i] \in Nat /\ FirstPfn(q) \in Nat /\ NodeSize[LEFT_LEAF(q)] \in Nat
      BY <2>1, NodeFacts, ChildFacts DEF Pfns
    <3>2. /\ NodeSize[q] = 2 * NodeSize[LEFT_LEAF(q)]
          /\ NodeSize[RIGHT_LEAF(q)] = NodeSize[LEFT_LEAF(q)]
          /\ FirstPfn(LEFT_LEAF(q)) = FirstPfn(q)
          /\ FirstPfn(RIGHT_LEAF(q)) = FirstPfn(q) + NodeSize[LEFT_LEAF(q)]
      BY <2>1, ChildFacts
    <3>3. CASE i = LEFT_LEAF(q)
      BY <3>1, <3>2, <3>3
    <3>4. CASE i = RIGHT_LEAF(q)
      BY <3>1, <3>2, <3>4
    <3>5. i = LEFT_LEAF(q) \/ i = RIGHT_LEAF(q)
      BY <2>1 DEF Child
    <3> QED
      BY <3>3, <3>4, <3>5
  <2>3. Holds(q, i)
    BY <2>1, <2>2 DEF Holds, Path
  <2>4. ASSUME NEW a \in Ancestors[q] PROVE Holds(a, i)
    <3>1. Holds(a, q)
      BY <2>1
    <3>2. /\ a \in Nat /\ q \in Nat /\ i \in Nat
          /\ NodeSize[a] \in Nat /\ NodeSize[q] \in Nat /\ NodeSize[i] \in Nat
          /\ FirstPfn(a) \in Nat /\ FirstPfn(q) \in Nat /\ FirstPfn(i) \in Nat
      BY <2>1, <3>1, NodeFacts, BuddyAssumption DEF Holds, Nodes, Pfns
    <3>3. Path(q) \subseteq Path(i) /\ Ancestors[q] \subseteq Ancestors[i]
      BY <2>1 DEF Path
    <3>4. a < i /\ NodeSize[a] >= 2 * NodeSize[i] /\ FirstPfn(a) <= FirstPfn(i)
          /\ FirstPfn(i) + NodeSize[i] <= FirstPfn(a) + NodeSize[a]
      BY <2>1, <2>2, <3>1, <3>2 DEF Holds
    <3> QED
      BY <3>1, <3>3, <3>4 DEF Holds
  <2> QED
    BY <2>1, <2>3, <2>4 DEF Path
<1> HIDE DEF P
<1>3. Nodes \subseteq P
  BY <1>1, <1>2, FromRoot
<1> QED
  BY <1>3 DEF P

LEMMA AncestorFacts ==
  ASSUME NEW i \in Nodes, NEW a \in Ancestors[i]
  PROVE  /\ a \in Nodes /\ a # i /\ i \notin Ancestors[a] /\ ~IsLeaf(a)
         /\ Ancestors[a] \subseteq Ancestors[i] /\ Path(a) \subseteq Path(i)
         /\ NodeSize[a] >= 2 * NodeSize[i]
         /\ Frames(i) \subseteq Frames(a)
         /\ \E c \in Child(a) : c \in Path(i)
<1>1. Holds(a, i)
  BY AncestorHolds
<1>2. i \in Nat /\ a \in Nat
  BY <1>1, BuddyAssumption DEF Holds, Nodes
<1>3. i \notin Ancestors[a]
  <2>1. i \in Ancestors[a] => Holds(i, a)
    BY <1>1, AncestorHolds DEF Holds
  <2> QED
    BY <1>1, <1>2, <2>1 DEF Holds
<1>4. FirstPfn(i) \in Nat /\ FirstPfn(a) \in Nat /\ NodeSize[i] \in Nat /\ NodeSize[a] \in Nat
  BY <1>1, NodeFacts DEF Holds, Pfns
<1>5. Frames(i) \subseteq Frames(a)
  BY <1>1, <1>4 DEF Holds, Frames
<1> QED
  BY <1>1, <1>2, <1>3, <1>5 DEF Holds, Path

LEMMA RootAbove == \A i \in Nodes : 0 \in Path(i)
<1> DEFINE P == {i \in Nodes : 0 \in Path(i)}
<1>1. 0 \in P
  BY Root DEF Path
<1>2. ASSUME NEW i \in Nodes, i # 0, PARENT(i) \in P PROVE i \in P
  BY <1>2, AncestorsIs DEF Path
<1> HIDE DEF P
<1>3. Nodes \subseteq P
  BY <1>1, <1>2, FromRoot
<1> QED
  BY <1>3 DEF P

(* Nodes are nested, or have no frame in common. *)
Apart(i, j) == Frames(i) \cap Frames(j) = {}

LEMMA SiblingsApart ==
  ASSUME NEW q \in Nodes, ~IsLeaf(q), NEW c \in Child(q), NEW d \in Child(q), c # d
  PROVE  Apart(c, d)
<1>1. \/ c = LEFT_LEAF(q) /\ d = RIGHT_LEAF(q)
      \/ d = LEFT_LEAF(q) /\ c = RIGHT_LEAF(q)
  BY DEF Child
<1>2. NodeSize[LEFT_LEAF(q)] \in Nat /\ FirstPfn(q) \in Nat
  BY ChildFacts, NodeFacts DEF Pfns
<1> QED
  BY <1>1, <1>2, ChildFacts DEF Apart, Frames

LEMMA Laminar ==
  \A i \in Nodes : \A j \in Nodes : i \in Path(j) \/ j \in Path(i) \/ Apart(i, j)
<1> DEFINE P == {i \in Nodes :
                   \A j \in Nodes : i \in Path(j) \/ j \in Path(i) \/ Apart(i, j)}
<1>1. 0 \in P
  BY Root, RootAbove
<1>2. ASSUME NEW i \in Nodes, i # 0, PARENT(i) \in P PROVE i \in P
  <2> DEFINE q == PARENT(i)
  <2>1. q \in P /\ q \in Nodes /\ ~IsLeaf(q) /\ i \in Child(q) /\ Ancestors[i] = Path(q)
    BY <1>2, Parents, AncestorsOfChild
  <2> HIDE DEF q
  <2>2. ASSUME NEW j \in Nodes PROVE i \in Path(j) \/ j \in Path(i) \/ Apart(i, j)
    <3>1. CASE q \in Ancestors[j]
      <4>1. PICK c \in Child(q) : c \in Path(j)
        BY <3>1, AncestorFacts
      <4>2. CASE c = i
        BY <4>1, <4>2
      <4>3. CASE c # i
        <5>1. Apart(c, i) /\ c \in Nodes
          BY <2>1, <4>3, SiblingsApart, AncestorsOfChild
        <5>2. Frames(j) \subseteq Frames(c)
          BY <4>1, <5>1, AncestorFacts DEF Path
        <5> QED
          BY <5>1, <5>2 DEF Apart
      <4> QED
        BY <4>2, <4>3
    <3>2. CASE j \in Path(q)
      BY <2>1, <3>2 DEF Path
    <3>3. CASE Apart(q, j)
      <4>1. Frames(i) \subseteq Frames(q)
        BY <2>1, AncestorFacts DEF Path
      <4> QED
        BY <3>3, <4>1 DEF Apart
    <3> QED
      BY <2>1, <3>1, <3>2, <3>3 DEF Path
  <2> QED
    BY <2>2
<1> HIDE DEF P
<1>3. Nodes \subseteq P
  BY <1>1, <1>2, FromRoot
<1> QED
  BY <1>3 DEF P

LEMMA FramesNotEmpty == \A i \in Nodes : FirstPfn(i) \in Frames(i) /\ Frames(i) \subseteq Pfns
BY NodeFacts, BuddyAssumption DEF Frames, Pfns

(* A node is known by its first frame and its size. *)
LEMMA NodesTell ==
  ASSUME NEW i \in Nodes, NEW j \in Nodes, FirstPfn(i) = FirstPfn(j), NodeSize[i] = NodeSize[j]
  PROVE  i = j
<1>1. ~Apart(i, j)
  BY FramesNotEmpty DEF Apart
<1>2. NodeSize[i] \in Nat \ {0}
  BY NodeFacts
<1>3. i \notin Ancestors[j] /\ j \notin Ancestors[i]
  BY <1>2, AncestorFacts
<1> QED
  BY <1>1, <1>3, Laminar DEF Path

LEMMA LeafOfFrame ==
  ASSUME NEW f \in Pfns
  PROVE  /\ f + SIZE - 1 \in Nodes /\ IsLeaf(f + SIZE - 1)
         /\ NodeSize[f + SIZE - 1] = 1 /\ FirstPfn(f + SIZE - 1) = f
<1> DEFINE l == f + SIZE - 1
<1>1. l \in Nodes /\ IsLeaf(l) /\ l \in Nat
  BY BuddyAssumption DEF Pfns, Nodes, IsLeaf
<1>2. NodeSize[l] = 1
  BY <1>1, NodeFacts
<1>3. FirstPfn(l) = (l + 1) * 1 - SIZE
  BY <1>2 DEF FirstPfn
<1> QED
  BY <1>1, <1>2, <1>3, BuddyAssumption DEF Pfns

-----------------------------------------------------------------------------
(* The recursive functions of Buddy *)

Bitmaps == [Nodes -> Nat]

(* buddy_alloc, from the block it takes up to the root. *)
TakenFrom(b, x, t, i) ==
  t[i] = IF i = x THEN 0
         ELSE IF i \in Ancestors[x] THEN Larger(t[LEFT_LEAF(i)], t[RIGHT_LEAF(i)])
         ELSE b[i]

LEMMA TakenIs ==
  ASSUME NEW b \in Bitmaps, NEW x \in Nodes
  PROVE  Taken(b, x) \in Bitmaps /\ \A i \in Nodes : TakenFrom(b, x, Taken(b, x), i)
<1> DEFINE h == [i \in Nodes |-> IF i = x THEN 0 ELSE b[i]]
           g == [i \in Nodes |-> [u \in Nat |-> [v \in Nat |->
                  IF i = x THEN 0 ELSE IF i \in Ancestors[x] THEN Larger(u, v) ELSE b[i]]]]
           Is(t) == t = [i \in Nodes |->
                          IF i = x THEN 0
                          ELSE IF i \in Ancestors[x]
                            THEN Larger(t[LEFT_LEAF(i)], t[RIGHT_LEAF(i)])
                          ELSE b[i]]
<1>1. h \in [Nodes -> Nat] /\ g \in [Nodes -> [Nat -> [Nat -> Nat]]]
  BY DEF Bitmaps, Larger
<1>2. \A i \in Nodes, u, v \in Nat :
        g[i][u][v] = IF i = x THEN 0 ELSE IF i \in Ancestors[x] THEN Larger(u, v) ELSE b[i]
  OBVIOUS
<1>3. \A i \in Nodes : h[i] = IF i = x THEN 0 ELSE b[i]
  OBVIOUS
<1> HIDE DEF h, g
<1>4. PICK t \in [Nodes -> Nat] : \A i \in Nodes : Gathers(t, h, g, i)
  BY <1>1, FromChildren
<1>5. \A i \in Nodes : TakenFrom(b, x, t, i)
  <2> SUFFICES ASSUME NEW i \in Nodes PROVE TakenFrom(b, x, t, i)
    OBVIOUS
  <2>1. CASE IsLeaf(i)
    BY <1>3, <1>4, <2>1, AncestorFacts DEF Gathers, TakenFrom
  <2>2. CASE ~IsLeaf(i)
    <3>1. t[LEFT_LEAF(i)] \in Nat /\ t[RIGHT_LEAF(i)] \in Nat
      BY <1>4, <2>2, Children
    <3>2. t[i] = g[i][t[LEFT_LEAF(i)]][t[RIGHT_LEAF(i)]]
      BY <1>4, <2>2 DEF Gathers
    <3> QED
      BY <1>2, <3>1, <3>2 DEF TakenFrom
  <2> QED
    BY <2>1, <2>2
<1>6. Is(t)
  BY <1>4, <1>5 DEF TakenFrom
<1>7. Taken(b, x) = CHOOSE e : Is(e)
  BY DEF Taken
<1>8. Is(Taken(b, x))
  BY <1>6, <1>7
<1>9. \A i \in Nodes : TakenFrom(b, x, Taken(b, x), i)
  BY <1>8 DEF TakenFrom
<1> HIDE DEF Is
<1> DEFINE P == {i \in Nodes : Taken(b, x)[i] \in Nat}
<1>10. \A i \in Nodes : IsLeaf(i) => i \in P
  BY <1>9, AncestorFacts DEF TakenFrom, Bitmaps
<1>11. \A i \in Nodes : ~IsLeaf(i) /\ LEFT_LEAF(i) \in P /\ RIGHT_LEAF(i) \in P => i \in P
  BY <1>9 DEF TakenFrom, Larger, Bitmaps
<1> HIDE DEF P
<1>12. Nodes \subseteq P
  BY <1>10, <1>11, FromLeaves
<1>13. Taken(b, x) \in Bitmaps
  BY <1>8, <1>12 DEF P, Bitmaps, Is
<1> QED
  BY <1>9, <1>13

(* buddy_free, from the block it gives back up to the root. *)
FreedFrom(b, x, t, i) ==
  t[i] = IF i = x THEN NodeSize[x]
         ELSE IF i \in Ancestors[x]
           THEN Merged(t[LEFT_LEAF(i)], t[RIGHT_LEAF(i)], NodeSize[i])
         ELSE b[i]

LEMMA FreedIs ==
  ASSUME NEW b \in Bitmaps, NEW x \in Nodes
  PROVE  Freed(b, x) \in Bitmaps /\ \A i \in Nodes : FreedFrom(b, x, Freed(b, x), i)
<1> DEFINE h == [i \in Nodes |-> IF i = x THEN NodeSize[x] ELSE b[i]]
           g == [i \in Nodes |-> [u \in Nat |-> [v \in Nat |->
                  IF i = x THEN NodeSize[x]
                  ELSE IF i \in Ancestors[x] THEN Merged(u, v, NodeSize[i]) ELSE b[i]]]]
           Is(t) == t = [i \in Nodes |->
                          IF i = x THEN NodeSize[x]
                          ELSE IF i \in Ancestors[x]
                            THEN Merged(t[LEFT_LEAF(i)], t[RIGHT_LEAF(i)], NodeSize[i])
                          ELSE b[i]]
<1>1. h \in [Nodes -> Nat] /\ g \in [Nodes -> [Nat -> [Nat -> Nat]]]
  BY NodeSizeIs DEF Bitmaps, Merged, Larger
<1>2. \A i \in Nodes, u, v \in Nat :
        g[i][u][v] = IF i = x THEN NodeSize[x]
                     ELSE IF i \in Ancestors[x] THEN Merged(u, v, NodeSize[i]) ELSE b[i]
  OBVIOUS
<1>3. \A i \in Nodes : h[i] = IF i = x THEN NodeSize[x] ELSE b[i]
  OBVIOUS
<1> HIDE DEF h, g
<1>4. PICK t \in [Nodes -> Nat] : \A i \in Nodes : Gathers(t, h, g, i)
  BY <1>1, FromChildren
<1>5. \A i \in Nodes : FreedFrom(b, x, t, i)
  <2> SUFFICES ASSUME NEW i \in Nodes PROVE FreedFrom(b, x, t, i)
    OBVIOUS
  <2>1. CASE IsLeaf(i)
    BY <1>3, <1>4, <2>1, AncestorFacts DEF Gathers, FreedFrom
  <2>2. CASE ~IsLeaf(i)
    <3>1. t[LEFT_LEAF(i)] \in Nat /\ t[RIGHT_LEAF(i)] \in Nat
      BY <1>4, <2>2, Children
    <3>2. t[i] = g[i][t[LEFT_LEAF(i)]][t[RIGHT_LEAF(i)]]
      BY <1>4, <2>2 DEF Gathers
    <3> QED
      BY <1>2, <3>1, <3>2 DEF FreedFrom
  <2> QED
    BY <2>1, <2>2
<1>6. Is(t)
  BY <1>4, <1>5 DEF FreedFrom
<1>7. Freed(b, x) = CHOOSE e : Is(e)
  BY DEF Freed
<1>8. Is(Freed(b, x))
  BY <1>6, <1>7
<1>9. \A i \in Nodes : FreedFrom(b, x, Freed(b, x), i)
  BY <1>8 DEF FreedFrom
<1> HIDE DEF Is
<1> DEFINE P == {i \in Nodes : Freed(b, x)[i] \in Nat}
<1>10. \A i \in Nodes : IsLeaf(i) => i \in P
  BY <1>9, AncestorFacts, NodeSizeIs DEF FreedFrom, Bitmaps
<1>11. \A i \in Nodes : ~IsLeaf(i) /\ LEFT_LEAF(i) \in P /\ RIGHT_LEAF(i) \in P => i \in P
  BY <1>9, NodeSizeIs DEF FreedFrom, Merged, Larger, Bitmaps
<1> HIDE DEF P
<1>12. Nodes \subseteq P
  BY <1>10, <1>11, FromLeaves
<1>13. Freed(b, x) \in Bitmaps
  BY <1>8, <1>12 DEF P, Bitmaps, Is
<1> QED
  BY <1>9, <1>13

(* buddy_alloc, from the root down to a free block of n frames. *)
Descends(b, n, d, i) ==
  d[i] = IF NodeSize[i] = n THEN i
         ELSE IF Fits(b[LEFT_LEAF(i)], n) THEN d[LEFT_LEAF(i)] ELSE d[RIGHT_LEAF(i)]

LEMMA LargeChildren ==
  ASSUME NEW n \in Sizes, NEW i \in Large(n), NodeSize[i] # n
  PROVE  /\ i \in Nodes /\ ~IsLeaf(i)
         /\ LEFT_LEAF(i) \in Large(n) /\ RIGHT_LEAF(i) \in Large(n)
<1>1. i \in Nodes /\ NodeSize[i] \in Sizes /\ NodeSize[i] \in Nat /\ n \in Nat \ {0} /\ NodeSize[i] > n
  BY NodeFacts, SizesType DEF Large
<1>2. 2 * n <= NodeSize[i]
  BY <1>1, SizesApart
<1>3. ~IsLeaf(i)
  BY <1>1, NodeFacts
<1>4. /\ NodeSize[i] = 2 * NodeSize[LEFT_LEAF(i)] /\ NodeSize[RIGHT_LEAF(i)] = NodeSize[LEFT_LEAF(i)]
      /\ LEFT_LEAF(i) \in Nodes /\ RIGHT_LEAF(i) \in Nodes /\ NodeSize[LEFT_LEAF(i)] \in Nat
  BY <1>1, <1>3, ChildFacts, NodeFacts
<1>5. NodeSize[LEFT_LEAF(i)] >= n
  BY <1>1, <1>2, <1>4
<1> QED
  BY <1>1, <1>3, <1>4, <1>5 DEF Large

LEMMA DescendIs ==
  ASSUME NEW b \in Bitmaps, NEW n \in Sizes
  PROVE  \E d : Descend(b, n) = d[0] /\ \A i \in Large(n) : Descends(b, n, d, i)
<1> DEFINE Is(d) == d = [i \in Large(n) |->
                          IF NodeSize[i] = n THEN i
                          ELSE IF Fits(b[LEFT_LEAF(i)], n) THEN d[LEFT_LEAF(i)]
                                                           ELSE d[RIGHT_LEAF(i)]]
           h == [i \in Nodes |-> i]
           g == [i \in Nodes |-> [u \in Nodes |-> [v \in Nodes |->
                  IF NodeSize[i] = n THEN i ELSE IF Fits(b[LEFT_LEAF(i)], n) THEN u ELSE v]]]
<1>1. h \in [Nodes -> Nodes] /\ g \in [Nodes -> [Nodes -> [Nodes -> Nodes]]]
  OBVIOUS
<1>2. \A i, u, v \in Nodes :
        g[i][u][v] = IF NodeSize[i] = n THEN i
                     ELSE IF Fits(b[LEFT_LEAF(i)], n) THEN u ELSE v
  OBVIOUS
<1>3. \A i \in Nodes : h[i] = i
  OBVIOUS
<1> HIDE DEF h, g
<1>4. PICK f \in [Nodes -> Nodes] : \A i \in Nodes : Gathers(f, h, g, i)
  BY <1>1, FromChildren
<1> DEFINE d == [i \in Large(n) |-> f[i]]
<1>5. \A i \in Large(n) : d[i] = f[i]
  OBVIOUS
<1>6. ASSUME NEW i \in Large(n)
      PROVE  f[i] = IF NodeSize[i] = n THEN i
                    ELSE IF Fits(b[LEFT_LEAF(i)], n) THEN d[LEFT_LEAF(i)]
                                                     ELSE d[RIGHT_LEAF(i)]
  <2>1. i \in Nodes
    BY DEF Large
  <2>2. CASE IsLeaf(i)
    <3>1. NodeSize[i] = n
      BY <2>1, <2>2, LargeChildren
    <3> QED
      BY <1>3, <1>4, <2>1, <2>2, <3>1 DEF Gathers
  <2>3. CASE ~IsLeaf(i)
    <3>1. f[i] = g[i][f[LEFT_LEAF(i)]][f[RIGHT_LEAF(i)]]
      BY <1>4, <2>1, <2>3 DEF Gathers
    <3>2. f[LEFT_LEAF(i)] \in Nodes /\ f[RIGHT_LEAF(i)] \in Nodes
      BY <1>4, <2>1, <2>3, Children
    <3>3. f[i] = IF NodeSize[i] = n THEN i
                 ELSE IF Fits(b[LEFT_LEAF(i)], n) THEN f[LEFT_LEAF(i)] ELSE f[RIGHT_LEAF(i)]
      BY <1>2, <2>1, <3>1, <3>2
    <3>4. CASE NodeSize[i] = n
      BY <3>3, <3>4
    <3>5. CASE NodeSize[i] # n
      <4>1. d[LEFT_LEAF(i)] = f[LEFT_LEAF(i)] /\ d[RIGHT_LEAF(i)] = f[RIGHT_LEAF(i)]
        BY <1>5, <3>5, LargeChildren
      <4> QED
        BY <3>3, <3>5, <4>1
    <3> QED
      BY <3>4, <3>5
  <2> QED
    BY <2>2, <2>3
<1>7. Is(d)
  BY <1>6
<1> HIDE DEF d
<1>8. Descend(b, n) = (CHOOSE e : Is(e))[0]
  BY DEF Descend
<1> DEFINE e == CHOOSE x : Is(x)
<1>9. Is(e)
  BY <1>7
<1>10. \A i \in Large(n) : Descends(b, n, e, i)
  BY <1>9 DEF Descends
<1> QED
  BY <1>8, <1>10

(* buddy_free, from a leaf up to the node at which its block was taken. *)
Climbs(b, u, i) == u[i] = IF b[i] = 0 \/ i = 0 THEN i ELSE u[PARENT(i)]

LEMMA TakenAtIs ==
  ASSUME NEW b \in Bitmaps, NEW f
  PROVE  \E u : TakenAt(b, f) = u[f + SIZE - 1] /\ \A i \in Nodes : Climbs(b, u, i)
<1> DEFINE Is(u) == u = [i \in Nodes |-> IF b[i] = 0 \/ i = 0 THEN i ELSE u[PARENT(i)]]
           g == [i \in Nodes |-> [k \in Nodes |-> IF b[i] = 0 THEN i ELSE k]]
<1>1. g \in [Nodes -> [Nodes -> Nodes]] /\ \A i, k \in Nodes : g[i][k] = IF b[i] = 0 THEN i ELSE k
  OBVIOUS
<1> HIDE DEF g
<1>2. PICK u \in [Nodes -> Nodes] : \A i \in Nodes : Inherits(u, 0, g, i)
  BY <1>1, Root, FromParents
<1>3. \A i \in Nodes : u[i] = IF b[i] = 0 \/ i = 0 THEN i ELSE u[PARENT(i)]
  BY <1>1, <1>2, Parents DEF Inherits
<1>4. Is(u)
  BY <1>2, <1>3
<1>5. TakenAt(b, f) = (CHOOSE e : Is(e))[f + SIZE - 1]
  BY DEF TakenAt
<1> DEFINE e == CHOOSE x : Is(x)
<1>6. Is(e)
  BY <1>4
<1>7. \A i \in Nodes : Climbs(b, e, i)
  BY <1>6 DEF Climbs
<1> QED
  BY <1>5, <1>7

-----------------------------------------------------------------------------
(* Trees *)

(* The blocks of a bitmap, see TakenNodes. *)
TakenIn(b) == {i \in Nodes : b[i] = 0 /\ (IsLeaf(i) \/ b[LEFT_LEAF(i)] # 0)}

WellSized(b, i) == b[i] \in {0} \cup Sizes /\ b[i] <= NodeSize[i]
Whole(b, i) == b[i] = NodeSize[i]

(* A node is taken with all that is below it, which the bitmap still shows *)
(* as free; or it follows from its children.                               *)
Consistent(b, i) ==
  ~IsLeaf(i) =>
    \/ b[i] = 0 /\ Whole(b, LEFT_LEAF(i)) /\ Whole(b, RIGHT_LEAF(i))
    \/ b[i] = Merged(b[LEFT_LEAF(i)], b[RIGHT_LEAF(i)], NodeSize[i])

Tree(b) == b \in Bitmaps /\ \A i \in Nodes : WellSized(b, i) /\ Consistent(b, i)

LEMMA TreeNode ==
  ASSUME NEW b, Tree(b), NEW i \in Nodes, ~IsLeaf(i)
  PROVE  \E h \in Nat \ {0} :
           /\ NodeSize[i] = 2 * h /\ NodeSize[LEFT_LEAF(i)] = h /\ NodeSize[RIGHT_LEAF(i)] = h
           /\ b[i] \in 0 .. 2 * h /\ b[LEFT_LEAF(i)] \in 0 .. h /\ b[RIGHT_LEAF(i)] \in 0 .. h
           /\ \/ b[i] = 0 /\ b[LEFT_LEAF(i)] = h /\ b[RIGHT_LEAF(i)] = h
              \/ b[i] = Merged(b[LEFT_LEAF(i)], b[RIGHT_LEAF(i)], 2 * h)
<1> DEFINE h == NodeSize[LEFT_LEAF(i)]
<1>1. /\ LEFT_LEAF(i) \in Nodes /\ RIGHT_LEAF(i) \in Nodes
      /\ NodeSize[i] = 2 * h /\ NodeSize[RIGHT_LEAF(i)] = h /\ h \in Nat \ {0}
  BY ChildFacts, NodeFacts
<1>2. \A j \in Nodes : b[j] \in Nat /\ b[j] <= NodeSize[j] /\ NodeSize[j] \in Nat
  BY NodeFacts DEF Tree, WellSized, Bitmaps
<1>3. b[i] \in 0 .. 2 * h /\ b[LEFT_LEAF(i)] \in 0 .. h /\ b[RIGHT_LEAF(i)] \in 0 .. h
  BY <1>1, <1>2
<1>4. \/ b[i] = 0 /\ b[LEFT_LEAF(i)] = h /\ b[RIGHT_LEAF(i)] = h
      \/ b[i] = Merged(b[LEFT_LEAF(i)], b[RIGHT_LEAF(i)], 2 * h)
  BY <1>1 DEF Tree, Consistent, Whole
<1> QED
  BY <1>1, <1>3, <1>4

LEMMA WholeChildren ==
  ASSUME NEW b, Tree(b), NEW i \in Nodes, ~IsLeaf(i), Whole(b, i) \/ i \in TakenIn(b)
  PROVE  \A c \in Child(i) : Whole(b, c)
<1>1. PICK h \in Nat \ {0} :
           /\ NodeSize[i] = 2 * h /\ NodeSize[LEFT_LEAF(i)] = h /\ NodeSize[RIGHT_LEAF(i)] = h
           /\ b[i] \in 0 .. 2 * h /\ b[LEFT_LEAF(i)] \in 0 .. h /\ b[RIGHT_LEAF(i)] \in 0 .. h
           /\ \/ b[i] = 0 /\ b[LEFT_LEAF(i)] = h /\ b[RIGHT_LEAF(i)] = h
              \/ b[i] = Merged(b[LEFT_LEAF(i)], b[RIGHT_LEAF(i)], 2 * h)
  BY TreeNode
<1>2. b[LEFT_LEAF(i)] = h /\ b[RIGHT_LEAF(i)] = h
  BY <1>1 DEF Whole, TakenIn, Merged, Larger
<1> QED
  BY <1>1, <1>2 DEF Child, Whole

(* All that is below a free or taken block is whole. *)
LEMMA WholeBelow ==
  ASSUME NEW b, Tree(b), NEW x \in Nodes, Whole(b, x) \/ x \in TakenIn(b)
  PROVE  \A i \in Nodes : x \in Ancestors[i] => Whole(b, i)
<1> DEFINE P == {i \in Nodes : x \in Ancestors[i] => Whole(b, i)}
<1>1. 0 \in P
  BY Root, AncestorsIs
<1>2. ASSUME NEW i \in Nodes, i # 0, PARENT(i) \in P PROVE i \in P
  <2> DEFINE q == PARENT(i)
  <2>1. q \in P /\ q \in Nodes /\ ~IsLeaf(q) /\ i \in Child(q) /\ Ancestors[i] = Path(q)
    BY <1>2, Parents, AncestorsOfChild
  <2> HIDE DEF q
  <2>2. x \in Ancestors[i] => Whole(b, q) \/ q \in TakenIn(b)
    BY <2>1 DEF Path
  <2>3. x \in Ancestors[i] => Whole(b, i)
    BY <2>1, <2>2, WholeChildren
  <2> QED
    BY <2>3
<1> HIDE DEF P
<1>3. Nodes \subseteq P
  BY <1>1, <1>2, FromRoot
<1> QED
  BY <1>3 DEF P

LEMMA NotTakenBelow ==
  ASSUME NEW b, Tree(b), NEW x \in Nodes, Whole(b, x) \/ x \in TakenIn(b),
         NEW i \in TakenIn(b)
  PROVE  x \notin Ancestors[i]
<1>1. i \in Nodes /\ b[i] = 0
  BY DEF TakenIn
<1>2. ~Whole(b, i)
  BY <1>1, NodeFacts DEF Whole
<1> QED
  BY <1>1, <1>2, WholeBelow

(* The path from a node to the root. *)
LEMMA OffPath ==
  ASSUME NEW x \in Nodes, NEW y \in Nodes, ~IsLeaf(y), y \notin Ancestors[x], NEW c \in Child(y)
  PROVE  c \notin Path(x)
<1>1. c \in Nodes /\ y \in Ancestors[c] /\ y # c
  BY AncestorsOfChild, BuddyAssumption DEF Path, Nodes
<1>2. c \in Path(x) => y \in Ancestors[x]
  BY <1>1, AncestorFacts DEF Path
<1> QED
  BY <1>2

LEMMA NotOwnAncestor == \A x \in Nodes : x \notin Ancestors[x]
BY AncestorFacts

(* buddy_alloc keeps the tree and takes one more block. *)
LEMMA TakenTree ==
  ASSUME NEW b, Tree(b), NEW x \in Nodes, Whole(b, x), \A a \in Ancestors[x] : b[a] # 0
  PROVE  Tree(Taken(b, x)) /\ TakenIn(Taken(b, x)) = TakenIn(b) \cup {x}
<1> DEFINE t == Taken(b, x)
<1>1. t \in Bitmaps /\ \A i \in Nodes : TakenFrom(b, x, t, i)
  BY TakenIs DEF Tree
<1> HIDE DEF t
<1>2. t[x] = 0
  BY <1>1 DEF TakenFrom
<1>3. \A i \in Nodes : i \notin Path(x) => t[i] = b[i]
  BY <1>1 DEF TakenFrom, Path
<1>4. \A i \in Ancestors[x] : i \in Nodes /\ t[i] = Larger(t[LEFT_LEAF(i)], t[RIGHT_LEAF(i)])
  BY <1>1, NotOwnAncestor, AncestorFacts DEF TakenFrom
<1>5. \A i \in Nodes : WellSized(t, i)
  <2> DEFINE P == {i \in Nodes : WellSized(t, i)}
  <2>1. ASSUME NEW i \in Nodes, i \notin Ancestors[x] PROVE i \in P
    BY <1>2, <1>3, <2>1, NodeFacts DEF Path, WellSized, Tree
  <2>2. \A i \in Nodes : IsLeaf(i) => i \in P
    BY <2>1, AncestorFacts
  <2>3. ASSUME NEW i \in Nodes, ~IsLeaf(i), LEFT_LEAF(i) \in P, RIGHT_LEAF(i) \in P
        PROVE  i \in P
    <3>1. CASE i \in Ancestors[x]
      <4>1. /\ NodeSize[i] = 2 * NodeSize[LEFT_LEAF(i)] /\ NodeSize[LEFT_LEAF(i)] \in Nat
            /\ NodeSize[RIGHT_LEAF(i)] = NodeSize[LEFT_LEAF(i)]
        BY <2>3, ChildFacts, NodeFacts
      <4>2. t[LEFT_LEAF(i)] \in Nat /\ t[RIGHT_LEAF(i)] \in Nat
        BY <1>1, <2>3 DEF Bitmaps
      <4>3. t[i] \in {t[LEFT_LEAF(i)], t[RIGHT_LEAF(i)]}
        BY <1>4, <3>1 DEF Larger
      <4>4. t[i] \in {0} \cup Sizes /\ t[i] <= NodeSize[LEFT_LEAF(i)]
        BY <2>3, <4>1, <4>3 DEF WellSized
      <4>5. t[i] <= NodeSize[i]
        BY <4>1, <4>2, <4>3, <4>4
      <4> QED
        BY <4>4, <4>5 DEF WellSized
    <3> QED
      BY <2>1, <3>1
  <2> HIDE DEF P
  <2>4. Nodes \subseteq P
    BY <2>2, <2>3, FromLeaves
  <2> QED
    BY <2>4 DEF P
(* Nothing on the path is whole any more. *)
<1>6. ASSUME NEW i \in Path(x) PROVE i \in Nodes /\ t[i] < NodeSize[i]
  <2>1. CASE i = x
    BY <1>2, <2>1, NodeFacts
  <2>2. CASE i \in Ancestors[x]
    <3>1. i \in Nodes /\ ~IsLeaf(i)
      BY <2>2, AncestorFacts
    <3>2. /\ NodeSize[i] = 2 * NodeSize[LEFT_LEAF(i)] /\ NodeSize[LEFT_LEAF(i)] \in Nat \ {0}
          /\ NodeSize[RIGHT_LEAF(i)] = NodeSize[LEFT_LEAF(i)]
          /\ LEFT_LEAF(i) \in Nodes /\ RIGHT_LEAF(i) \in Nodes
      BY <3>1, ChildFacts, NodeFacts
    <3>3. /\ t[LEFT_LEAF(i)] \in Nat /\ t[RIGHT_LEAF(i)] \in Nat
          /\ t[LEFT_LEAF(i)] <= NodeSize[LEFT_LEAF(i)] /\ t[RIGHT_LEAF(i)] <= NodeSize[LEFT_LEAF(i)]
      BY <1>1, <1>5, <3>2 DEF Bitmaps, WellSized
    <3>4. t[i] \in {t[LEFT_LEAF(i)], t[RIGHT_LEAF(i)]}
      BY <1>4, <2>2 DEF Larger
    <3> QED
      BY <3>1, <3>2, <3>3, <3>4
  <2> QED
    BY <2>1, <2>2 DEF Path
<1>7. ASSUME NEW i \in Nodes, ~IsLeaf(i), i \notin Ancestors[x]
      PROVE  t[LEFT_LEAF(i)] = b[LEFT_LEAF(i)] /\ t[RIGHT_LEAF(i)] = b[RIGHT_LEAF(i)]
  <2>1. \A c \in Child(i) : c \notin Path(x)
    BY <1>7, OffPath
  <2> QED
    BY <1>3, <1>7, <2>1, Children DEF Child
<1>8. ASSUME NEW i \in Nodes PROVE Consistent(t, i)
  <2> SUFFICES ASSUME ~IsLeaf(i) PROVE Consistent(t, i)
    BY DEF Consistent
  <2>1. CASE i = x
    <3>1. Whole(b, LEFT_LEAF(i)) /\ Whole(b, RIGHT_LEAF(i))
      BY <2>1, WholeChildren DEF Child
    <3> QED
      BY <1>2, <1>7, <2>1, <3>1, NotOwnAncestor DEF Consistent, Whole
  <2>2. CASE i \in Ancestors[x]
    <3>1. /\ NodeSize[i] = 2 * NodeSize[LEFT_LEAF(i)] /\ NodeSize[LEFT_LEAF(i)] \in Nat \ {0}
          /\ NodeSize[RIGHT_LEAF(i)] = NodeSize[LEFT_LEAF(i)]
          /\ LEFT_LEAF(i) \in Nodes /\ RIGHT_LEAF(i) \in Nodes
      BY ChildFacts, NodeFacts
    <3>2. /\ t[LEFT_LEAF(i)] \in Nat /\ t[RIGHT_LEAF(i)] \in Nat
          /\ t[LEFT_LEAF(i)] <= NodeSize[LEFT_LEAF(i)] /\ t[RIGHT_LEAF(i)] <= NodeSize[LEFT_LEAF(i)]
      BY <1>1, <1>5, <3>1 DEF Bitmaps, WellSized
    <3>3. PICK c \in Child(i) : c \in Path(x)
      BY <2>2, AncestorFacts
    <3>4. t[c] < NodeSize[c]
      BY <1>6, <3>3
    <3>5. t[LEFT_LEAF(i)] < NodeSize[LEFT_LEAF(i)] \/ t[RIGHT_LEAF(i)] < NodeSize[LEFT_LEAF(i)]
      BY <3>1, <3>3, <3>4 DEF Child
    <3>6. t[LEFT_LEAF(i)] + t[RIGHT_LEAF(i)] # NodeSize[i]
      BY <3>1, <3>2, <3>5
    <3> QED
      BY <1>4, <2>2, <3>6 DEF Consistent, Merged
  <2>3. CASE i \notin Path(x)
    BY <1>3, <1>7, <2>3 DEF Consistent, Whole, Path, Tree
  <2> QED
    BY <2>1, <2>2, <2>3 DEF Path
<1>9. ASSUME NEW i \in Nodes PROVE i \in TakenIn(t) <=> i \in TakenIn(b) \/ i = x
  <2>1. CASE i = x
    <3>1. ASSUME ~IsLeaf(i) PROVE t[LEFT_LEAF(i)] # 0
      <4>1. Whole(b, LEFT_LEAF(i)) /\ LEFT_LEAF(i) \in Nodes
        BY <2>1, <3>1, WholeChildren, Children DEF Child
      <4>2. b[LEFT_LEAF(i)] # 0
        BY <4>1, NodeFacts DEF Whole
      <4> QED
        BY <1>7, <2>1, <3>1, <4>2, NotOwnAncestor
    <3> QED
      BY <1>2, <2>1, <3>1 DEF TakenIn
  <2>2. CASE i \in Ancestors[x]
    <3>1. ~IsLeaf(i) /\ b[i] # 0 /\ i # x
      BY <2>2, AncestorFacts, NotOwnAncestor
    <3>2. t[LEFT_LEAF(i)] \in Nat /\ t[RIGHT_LEAF(i)] \in Nat
      BY <1>1, <3>1, Children DEF Bitmaps
    <3>3. t[i] = 0 => t[LEFT_LEAF(i)] = 0
      BY <1>4, <2>2, <3>2 DEF Larger
    <3> QED
      BY <3>1, <3>3 DEF TakenIn
  <2>3. CASE i \notin Path(x)
    BY <1>3, <1>7, <2>3 DEF TakenIn, Path
  <2> QED
    BY <2>1, <2>2, <2>3 DEF Path
<1>10. Tree(t)
  BY <1>1, <1>5, <1>8 DEF Tree
<1>11. TakenIn(t) = TakenIn(b) \cup {x}
  BY <1>9 DEF TakenIn
<1> QED
  BY <1>10, <1>11 DEF t

(* buddy_free keeps the tree, too, and gives one block back. *)
LEMMA FreedTree ==
  ASSUME NEW b, Tree(b), NEW x \in TakenIn(b)
  PROVE  Tree(Freed(b, x)) /\ TakenIn(Freed(b, x)) = TakenIn(b) \ {x}
<1> DEFINE t == Freed(b, x)
<1>1. x \in Nodes
  BY DEF TakenIn
<1>2. t \in Bitmaps /\ \A i \in Nodes : FreedFrom(b, x, t, i)
  BY <1>1, FreedIs DEF Tree
<1> HIDE DEF t
<1>3. t[x] = NodeSize[x]
  BY <1>1, <1>2 DEF FreedFrom
<1>4. \A i \in Nodes : i \notin Path(x) => t[i] = b[i]
  BY <1>2 DEF FreedFrom, Path
<1>5. \A i \in Ancestors[x] :
        i \in Nodes /\ t[i] = Merged(t[LEFT_LEAF(i)], t[RIGHT_LEAF(i)], NodeSize[i])
  BY <1>1, <1>2, NotOwnAncestor, AncestorFacts DEF FreedFrom
<1>6. \A i \in Nodes : WellSized(t, i)
  <2> DEFINE P == {i \in Nodes : WellSized(t, i)}
  <2>1. ASSUME NEW i \in Nodes, i \notin Ancestors[x] PROVE i \in P
    <3>1. CASE i = x
      BY <1>3, <3>1, NodeFacts DEF WellSized
    <3>2. CASE i # x
      BY <1>4, <2>1, <3>2 DEF Path, WellSized, Tree
    <3> QED
      BY <3>1, <3>2
  <2>2. \A i \in Nodes : IsLeaf(i) => i \in P
    BY <1>1, <2>1, AncestorFacts
  <2>3. ASSUME NEW i \in Nodes, ~IsLeaf(i), LEFT_LEAF(i) \in P, RIGHT_LEAF(i) \in P
        PROVE  i \in P
    <3>1. CASE i \in Ancestors[x]
      <4>1. /\ NodeSize[i] = 2 * NodeSize[LEFT_LEAF(i)] /\ NodeSize[LEFT_LEAF(i)] \in Nat
            /\ NodeSize[RIGHT_LEAF(i)] = NodeSize[LEFT_LEAF(i)] /\ NodeSize[i] \in Sizes
        BY <2>3, ChildFacts, NodeFacts
      <4>2. t[LEFT_LEAF(i)] \in Nat /\ t[RIGHT_LEAF(i)] \in Nat
        BY <1>2, <2>3 DEF Bitmaps
      <4>3. t[i] \in {NodeSize[i], t[LEFT_LEAF(i)], t[RIGHT_LEAF(i)]}
        BY <1>5, <3>1 DEF Merged, Larger
      <4>4. /\ t[LEFT_LEAF(i)] \in {0} \cup Sizes /\ t[LEFT_LEAF(i)] <= NodeSize[LEFT_LEAF(i)]
            /\ t[RIGHT_LEAF(i)] \in {0} \cup Sizes /\ t[RIGHT_LEAF(i)] <= NodeSize[LEFT_LEAF(i)]
        BY <2>3, <4>1 DEF WellSized
      <4>5. t[i] <= NodeSize[i]
        BY <4>1, <4>2, <4>3, <4>4
      <4> QED
        BY <4>1, <4>3, <4>4, <4>5 DEF WellSized
    <3> QED
      BY <2>1, <3>1
  <2> HIDE DEF P
  <2>4. Nodes \subseteq P
    BY <2>2, <2>3, FromLeaves
  <2> QED
    BY <2>4 DEF P
<1>7. \A i \in Path(x) : t[i] # 0
  <2> DEFINE P == {i \in Nodes : i \in Path(x) => t[i] # 0}
  <2>1. \A i \in Nodes : i = x => i \in P
    BY <1>1, <1>3, NodeFacts
  <2>2. \A i \in Nodes : IsLeaf(i) => i \in P
    BY <1>1, <2>1, AncestorFacts DEF Path
  <2>3. ASSUME NEW i \in Nodes, ~IsLeaf(i), LEFT_LEAF(i) \in P, RIGHT_LEAF(i) \in P,
               i \in Ancestors[x]
        PROVE  i \in P
    <3>1. PICK c \in Child(i) : c \in Path(x)
      BY <1>1, <2>3, AncestorFacts
    <3>2. t[LEFT_LEAF(i)] # 0 \/ t[RIGHT_LEAF(i)] # 0
      BY <2>3, <3>1 DEF Child
    <3>3. t[LEFT_LEAF(i)] \in Nat /\ t[RIGHT_LEAF(i)] \in Nat /\ NodeSize[i] # 0
      BY <1>2, <2>3, Children, NodeFacts DEF Bitmaps
    <3>4. Merged(t[LEFT_LEAF(i)], t[RIGHT_LEAF(i)], NodeSize[i]) # 0
      BY <3>2, <3>3 DEF Merged, Larger
    <3> QED
      BY <1>5, <2>3, <3>4
  <2>4. \A i \in Nodes : ~IsLeaf(i) /\ LEFT_LEAF(i) \in P /\ RIGHT_LEAF(i) \in P => i \in P
    <3>1. \A i \in Nodes : i \notin Path(x) => i \in P
      OBVIOUS
    <3> HIDE DEF P
    <3> QED
      BY <2>1, <2>3, <3>1 DEF Path
  <2> HIDE DEF P
  <2>5. Nodes \subseteq P
    BY <2>2, <2>4, FromLeaves
  <2> QED
    BY <1>1, <2>5, AncestorFacts DEF P, Path
<1>8. ASSUME NEW i \in Nodes, ~IsLeaf(i), i \notin Ancestors[x]
      PROVE  t[LEFT_LEAF(i)] = b[LEFT_LEAF(i)] /\ t[RIGHT_LEAF(i)] = b[RIGHT_LEAF(i)]
  <2>1. \A c \in Child(i) : c \notin Path(x)
    BY <1>1, <1>8, OffPath
  <2> QED
    BY <1>4, <1>8, <2>1, Children DEF Child
<1>9. ASSUME NEW i \in Nodes PROVE Consistent(t, i)
  <2> SUFFICES ASSUME ~IsLeaf(i) PROVE Consistent(t, i)
    BY DEF Consistent
  <2>1. CASE i = x
    <3>1. Whole(b, LEFT_LEAF(i)) /\ Whole(b, RIGHT_LEAF(i))
      BY <2>1, WholeChildren DEF Child
    <3>2. /\ NodeSize[i] = 2 * NodeSize[LEFT_LEAF(i)] /\ NodeSize[LEFT_LEAF(i)] \in Nat
          /\ NodeSize[RIGHT_LEAF(i)] = NodeSize[LEFT_LEAF(i)]
      BY ChildFacts, NodeFacts
    <3>3. i \notin Ancestors[x]
      BY <2>1, NotOwnAncestor
    <3>4. t[LEFT_LEAF(i)] + t[RIGHT_LEAF(i)] = NodeSize[i]
      BY <1>8, <3>1, <3>2, <3>3 DEF Whole
    <3> QED
      BY <1>3, <2>1, <3>4 DEF Consistent, Merged
  <2>2. CASE i \in Ancestors[x]
    BY <1>5, <2>2 DEF Consistent
  <2>3. CASE i \notin Path(x)
    BY <1>4, <1>8, <2>3 DEF Consistent, Whole, Path, Tree
  <2> QED
    BY <2>1, <2>2, <2>3 DEF Path
<1>10. ASSUME NEW i \in Nodes PROVE i \in TakenIn(t) <=> i \in TakenIn(b) /\ i # x
  <2>1. CASE i \in Path(x)
    <3>1. i \notin TakenIn(t)
      BY <1>7, <2>1 DEF TakenIn
    <3>2. i \in TakenIn(b) => i \notin Ancestors[x]
      BY <1>1, NotTakenBelow
    <3> QED
      BY <2>1, <3>1, <3>2 DEF Path
  <2>2. CASE i \notin Path(x)
    BY <1>4, <1>8, <2>2 DEF TakenIn, Path
  <2> QED
    BY <2>1, <2>2
<1>11. Tree(t)
  BY <1>2, <1>6, <1>9 DEF Tree
<1>12. TakenIn(t) = TakenIn(b) \ {x}
  BY <1>10 DEF TakenIn
<1> QED
  BY <1>11, <1>12 DEF t

-----------------------------------------------------------------------------
(* Free blocks *)

InBlockOf(b, i) == \E x \in TakenIn(b) : x \in Path(i)
FreeIn(b) == {j \in Nodes : ~InBlockOf(b, j) /\ \A x \in TakenIn(b) : j \notin Ancestors[x]}

(* A node with nothing taken at it or below it is whole. *)
LEMMA UntakenWhole ==
  ASSUME NEW b, Tree(b)
  PROVE  \A j \in Nodes : (\A x \in TakenIn(b) : j \notin Path(x)) => Whole(b, j)
<1> DEFINE Untaken(j) == \A x \in TakenIn(b) : j \notin Path(x)
           P == {j \in Nodes : Untaken(j) => Whole(b, j)}
<1>1. ASSUME NEW j \in Nodes, IsLeaf(j) PROVE j \in P
  <2>1. NodeSize[j] = 1 /\ b[j] \in Nat /\ b[j] <= 1
    BY <1>1, NodeFacts DEF Tree, Bitmaps, WellSized
  <2>2. b[j] = 0 => ~Untaken(j)
    BY <1>1 DEF TakenIn, Path
  <2> QED
    BY <2>1, <2>2 DEF Whole
<1>2. ASSUME NEW j \in Nodes, ~IsLeaf(j), LEFT_LEAF(j) \in P, RIGHT_LEAF(j) \in P,
             Untaken(j)
      PROVE  Whole(b, j)
  <2>1. ASSUME NEW c \in Child(j), NEW x \in TakenIn(b), c \in Path(x) PROVE FALSE
    <3>1. c \in Nodes /\ j \in Ancestors[c] /\ x \in Nodes
      BY <1>2, AncestorsOfChild DEF Path, TakenIn
    <3>2. j \in Ancestors[x]
      BY <2>1, <3>1, AncestorFacts DEF Path
    <3> QED
      BY <1>2, <2>1, <3>2 DEF Path
  <2>2. Whole(b, LEFT_LEAF(j)) /\ Whole(b, RIGHT_LEAF(j))
    BY <1>2, <2>1 DEF Child
  <2>3. PICK h \in Nat \ {0} :
           /\ NodeSize[j] = 2 * h /\ NodeSize[LEFT_LEAF(j)] = h /\ NodeSize[RIGHT_LEAF(j)] = h
           /\ b[j] \in 0 .. 2 * h /\ b[LEFT_LEAF(j)] \in 0 .. h /\ b[RIGHT_LEAF(j)] \in 0 .. h
           /\ \/ b[j] = 0 /\ b[LEFT_LEAF(j)] = h /\ b[RIGHT_LEAF(j)] = h
              \/ b[j] = Merged(b[LEFT_LEAF(j)], b[RIGHT_LEAF(j)], 2 * h)
    BY <1>2, TreeNode
  <2>4. b[j] # 0
    BY <1>2, <2>2, <2>3 DEF Whole, TakenIn, Path
  <2>5. b[j] = 2 * h
    BY <2>2, <2>3, <2>4 DEF Whole, Merged
  <2> QED
    BY <2>3, <2>5 DEF Whole
<1>3. \A j \in Nodes : ~Untaken(j) => j \in P
  OBVIOUS
<1>4. \A j \in Nodes : Whole(b, j) => j \in P
  OBVIOUS
<1>5. Nodes \subseteq P
  <2> HIDE DEF P, Untaken
  <2> QED
    BY <1>1, <1>2, <1>3, <1>4, FromLeaves
<1> QED
  BY <1>5

LEMMA FreeWhole == \A b : Tree(b) => \A j \in FreeIn(b) : Whole(b, j)
<1> SUFFICES ASSUME NEW b, Tree(b), NEW j \in FreeIn(b) PROVE Whole(b, j)
  OBVIOUS
<1>1. \A x \in TakenIn(b) : j \notin Path(x)
  BY DEF FreeIn, InBlockOf, Path
<1> QED
  BY <1>1, UntakenWhole DEF FreeIn

(* Outside the blocks what is free below a node is free below those above. *)
LEMMA FreeAbove ==
  ASSUME NEW b, Tree(b)
  PROVE  \A j \in Nodes : ~InBlockOf(b, j) => \A a \in Path(j) : b[a] >= b[j]
<1> DEFINE P == {j \in Nodes : ~InBlockOf(b, j) => \A a \in Path(j) : b[a] >= b[j]}
<1>1. \A j \in Nodes : b[j] \in Nat
  BY DEF Tree, Bitmaps
<1>2. 0 \in P
  BY <1>1, Root, AncestorsIs DEF Path
<1>3. ASSUME NEW j \in Nodes, j # 0, PARENT(j) \in P, ~InBlockOf(b, j)
      PROVE  \A a \in Path(j) : b[a] >= b[j]
  <2> DEFINE q == PARENT(j)
  <2>1. q \in P /\ q \in Nodes /\ ~IsLeaf(q) /\ j \in Child(q) /\ Ancestors[j] = Path(q)
    BY <1>3, Parents, AncestorsOfChild
  <2> HIDE DEF q
  <2>2. ~InBlockOf(b, q) /\ q \notin TakenIn(b)
    BY <1>3, <2>1 DEF InBlockOf, Path
  <2>3. PICK h \in Nat \ {0} :
           /\ NodeSize[q] = 2 * h /\ NodeSize[LEFT_LEAF(q)] = h /\ NodeSize[RIGHT_LEAF(q)] = h
           /\ b[q] \in 0 .. 2 * h /\ b[LEFT_LEAF(q)] \in 0 .. h /\ b[RIGHT_LEAF(q)] \in 0 .. h
           /\ \/ b[q] = 0 /\ b[LEFT_LEAF(q)] = h /\ b[RIGHT_LEAF(q)] = h
              \/ b[q] = Merged(b[LEFT_LEAF(q)], b[RIGHT_LEAF(q)], 2 * h)
    BY <2>1, TreeNode
  <2>4. b[q] = Merged(b[LEFT_LEAF(q)], b[RIGHT_LEAF(q)], 2 * h)
    BY <2>1, <2>2, <2>3 DEF TakenIn
  <2>5. b[q] >= b[LEFT_LEAF(q)] /\ b[q] >= b[RIGHT_LEAF(q)]
    BY <2>3, <2>4 DEF Merged, Larger
  <2>6. b[q] >= b[j]
    BY <2>1, <2>5 DEF Child
  <2>7. ASSUME NEW a \in Path(q) PROVE b[a] >= b[j]
    <3>1. b[a] >= b[q] /\ a \in Nodes
      BY <2>1, <2>2, <2>7, AncestorFacts DEF Path
    <3> QED
      BY <1>1, <2>1, <2>6, <3>1
  <2> QED
    BY <1>1, <2>1, <2>7 DEF Path
<1>4. ASSUME NEW j \in Nodes, j # 0, PARENT(j) \in P PROVE j \in P
  BY <1>3, <1>4
<1> HIDE DEF P
<1>5. Nodes \subseteq P
  BY <1>2, <1>4, FromRoot
<1> QED
  BY <1>5 DEF P

(* Two nodes on one path: one of them is on the path of the other. *)
LEMMA PathChain ==
  ASSUME NEW j \in Nodes, NEW a \in Path(j), NEW c \in Path(j)
  PROVE  a \in Path(c) \/ c \in Path(a)
<1>1. a \in Nodes /\ c \in Nodes /\ Frames(j) \subseteq Frames(a) /\ Frames(j) \subseteq Frames(c)
  BY AncestorFacts DEF Path
<1>2. ~Apart(a, c)
  BY <1>1, FramesNotEmpty DEF Apart
<1> QED
  BY <1>1, <1>2, Laminar

(* x is the first free block of n frames below i. *)
Finds(b, n, i, x) ==
  /\ x \in Nodes /\ NodeSize[x] = n /\ Whole(b, x) /\ i \in Path(x)
  /\ \A k \in Path(x) : i \in Path(k) => b[k] # 0
  /\ \A j \in FreeIn(b) : i \in Path(j) /\ NodeSize[j] = n => FirstPfn(x) <= FirstPfn(j)

LEMMA FindsHere ==
  ASSUME NEW b, Tree(b), NEW i \in Nodes, b[i] >= NodeSize[i]
  PROVE  Finds(b, NodeSize[i], i, i)
<1>1. NodeSize[i] \in Nat \ {0} /\ b[i] \in Nat /\ b[i] <= NodeSize[i]
  BY NodeFacts DEF Tree, Bitmaps, WellSized
<1>2. Whole(b, i) /\ b[i] # 0
  BY <1>1 DEF Whole
<1>3. ASSUME NEW k \in Path(i), i \in Path(k) PROVE k = i
  BY <1>3, AncestorFacts DEF Path
<1>4. ASSUME NEW j \in FreeIn(b), i \in Path(j), NodeSize[j] = NodeSize[i] PROVE j = i
  <2>1. j \in Nodes
    BY DEF FreeIn
  <2>2. i \notin Ancestors[j]
    BY <1>1, <1>4, <2>1, AncestorFacts
  <2> QED
    BY <1>4, <2>2 DEF Path
<1>5. FirstPfn(i) <= FirstPfn(i)
  BY NodeFacts DEF Pfns
<1> QED
  BY <1>2, <1>3, <1>4, <1>5 DEF Finds, Path

(* What is below a node is below one of its children, or the node itself.  *)
LEMMA BelowChild ==
  ASSUME NEW i \in Nodes, ~IsLeaf(i), NEW j \in Nodes, i \in Path(j), j # i
  PROVE  LEFT_LEAF(i) \in Path(j) \/ RIGHT_LEAF(i) \in Path(j)
<1>1. i \in Ancestors[j]
  BY DEF Path
<1> QED
  BY <1>1, AncestorFacts DEF Child

LEMMA FindsInChild ==
  ASSUME NEW b, Tree(b), NEW n \in Sizes, NEW i \in Nodes, ~IsLeaf(i), b[i] # 0,
         NEW c \in Child(i), NEW x, Finds(b, n, c, x),
         \A j \in FreeIn(b) : i \in Path(j) /\ NodeSize[j] = n => FirstPfn(x) <= FirstPfn(j)
  PROVE  Finds(b, n, i, x)
<1>1. c \in Nodes /\ Ancestors[c] = Path(i) /\ x \in Nodes /\ c \in Path(x)
  BY AncestorsOfChild DEF Finds
<1>2. i \in Path(x)
  BY <1>1, AncestorFacts DEF Path
<1>3. ASSUME NEW k \in Path(x), i \in Path(k) PROVE b[k] # 0
  <2>1. k \in Nodes
    BY <1>1, AncestorFacts DEF Path
  <2>2. CASE c \in Path(k)
    BY <2>2 DEF Finds
  <2>3. CASE c \notin Path(k)
    <3>1. k \in Path(c) /\ k # c
      BY <1>1, <2>1, <2>3, PathChain DEF Path
    <3>2. k \in Path(i)
      BY <1>1, <3>1 DEF Path
    <3>3. k = i
      BY <1>3, <2>1, <3>2, AncestorFacts DEF Path
    <3> QED
      BY <3>3
  <2> QED
    BY <2>2, <2>3
<1> QED
  BY <1>2, <1>3 DEF Finds

LEMMA DescendFinds ==
  ASSUME NEW b, Tree(b), NEW n \in Sizes, NEW d, \A i \in Large(n) : Descends(b, n, d, i)
  PROVE  \A i \in Large(n) : b[i] >= n => Finds(b, n, i, d[i])
<1> DEFINE P == {i \in Nodes : i \in Large(n) /\ b[i] >= n => Finds(b, n, i, d[i])}
<1>1. ASSUME NEW i \in Large(n), NodeSize[i] = n, b[i] >= n PROVE Finds(b, n, i, d[i])
  <2>1. i \in Nodes /\ d[i] = i
    BY <1>1 DEF Large, Descends
  <2> QED
    BY <1>1, <2>1, FindsHere
<1>2. ASSUME NEW i \in Nodes, IsLeaf(i) PROVE i \in P
  BY <1>1, <1>2, LargeChildren
<1>3. ASSUME NEW i \in Nodes, ~IsLeaf(i), LEFT_LEAF(i) \in P, RIGHT_LEAF(i) \in P,
             i \in Large(n), b[i] >= n, NodeSize[i] # n
      PROVE  Finds(b, n, i, d[i])
  <2> DEFINE l == LEFT_LEAF(i)
             r == RIGHT_LEAF(i)
  <2>1. /\ l \in Large(n) /\ r \in Large(n) /\ l \in Nodes /\ r \in Nodes
        /\ l \in Child(i) /\ r \in Child(i) /\ n \in Nat \ {0}
    BY <1>3, LargeChildren, Children, SizesType DEF Child
  <2>2. d[i] = IF Fits(b[l], n) THEN d[l] ELSE d[r]
    BY <1>3 DEF Descends
  <2>3. PICK h \in Nat \ {0} :
           /\ NodeSize[i] = 2 * h /\ NodeSize[l] = h /\ NodeSize[r] = h
           /\ b[i] \in 0 .. 2 * h /\ b[l] \in 0 .. h /\ b[r] \in 0 .. h
           /\ \/ b[i] = 0 /\ b[l] = h /\ b[r] = h
              \/ b[i] = Merged(b[l], b[r], 2 * h)
    BY <1>3, TreeNode
  <2>4. FirstPfn(l) = FirstPfn(i) /\ FirstPfn(r) = FirstPfn(i) + h /\ FirstPfn(i) \in Nat
    BY <1>3, <2>3, ChildFacts, NodeFacts DEF Pfns
  <2>5. /\ b[l] >= n => Finds(b, n, l, d[l])
        /\ b[r] >= n => Finds(b, n, r, d[r])
    BY <1>3, <2>1
  <2>6. \A j \in FreeIn(b) : i \in Path(j) /\ NodeSize[j] = n =>
          j \in Nodes /\ (l \in Path(j) \/ r \in Path(j))
    BY <1>3, BelowChild DEF FreeIn
  <2> HIDE DEF l, r
  <2>7. b[i] # 0 /\ h >= n
    BY <1>3, <2>1, <2>3 DEF Large
  <2>8. CASE b[l] >= n
    <3>1. d[i] = d[l] /\ Finds(b, n, l, d[l])
      BY <2>2, <2>5, <2>8 DEF Fits
    <3>2. ASSUME NEW j \in FreeIn(b), i \in Path(j), NodeSize[j] = n
          PROVE  FirstPfn(d[l]) <= FirstPfn(j)
      <4>1. CASE l \in Path(j)
        BY <3>1, <3>2, <4>1 DEF Finds
      <4>2. CASE r \in Path(j)
        <5>1. j \in Nodes /\ d[l] \in Nodes
          BY <2>6, <3>1, <3>2 DEF Finds
        <5>2. Frames(j) \subseteq Frames(r) /\ Frames(d[l]) \subseteq Frames(l)
          BY <3>1, <4>2, <5>1, AncestorFacts DEF Finds, Path
        <5>3. FirstPfn(j) \in Frames(r) /\ FirstPfn(d[l]) \in Frames(l)
          BY <5>1, <5>2, FramesNotEmpty
        <5> QED
          BY <2>3, <2>4, <5>3 DEF Frames
      <4> QED
        BY <2>6, <3>2, <4>1, <4>2
    <3> QED
      BY <1>3, <2>1, <2>7, <3>1, <3>2, FindsInChild
  <2>9. CASE ~(b[l] >= n)
    <3>1. b[r] >= n
      BY <1>3, <2>1, <2>3, <2>7, <2>9 DEF Merged, Larger
    <3>2. d[i] = d[r] /\ Finds(b, n, r, d[r])
      BY <2>2, <2>5, <2>9, <3>1 DEF Fits
    <3>3. ASSUME NEW j \in FreeIn(b), i \in Path(j), NodeSize[j] = n
          PROVE  FirstPfn(d[r]) <= FirstPfn(j)
      <4>1. CASE r \in Path(j)
        BY <3>2, <3>3, <4>1 DEF Finds
      <4>2. l \notin Path(j)
        <5>1. Whole(b, j) /\ j \in Nodes /\ ~InBlockOf(b, j)
          BY FreeWhole DEF FreeIn
        <5>2. l \in Path(j) => b[l] >= b[j]
          BY <5>1, FreeAbove
        <5> QED
          BY <2>9, <3>3, <5>1, <5>2 DEF Whole
      <4> QED
        BY <2>6, <3>3, <4>1, <4>2
    <3> QED
      BY <1>3, <2>1, <2>7, <3>2, <3>3, FindsInChild
  <2> QED
    BY <2>8, <2>9
<1>4. \A i \in Nodes : ~(i \in Large(n) /\ b[i] >= n) => i \in P
  OBVIOUS
<1>5. \A i \in Nodes : Finds(b, n, i, d[i]) => i \in P
  OBVIOUS
<1>6. Nodes \subseteq P
  <2> HIDE DEF P
  <2> QED
    BY <1>1, <1>2, <1>3, <1>4, <1>5, FromLeaves
<1> QED
  BY <1>6 DEF Large

LEMMA RootSize == NodeSize[0] = SIZE /\ 0 \in Nodes /\ \A n \in Sizes : 0 \in Large(n)
<1>1. NodeSize[0] = SIZE /\ 0 \in Nodes
  BY Root, NodeSizeIs
<1>2. \A n \in Sizes : n <= SIZE /\ n \in Nat /\ SIZE \in Nat
  BY SizesType, BuddyAssumption
<1> QED
  BY <1>1, <1>2 DEF Large

(* buddy_alloc finds the first free block if the root knows of one.        *)
LEMMA AllocFinds ==
  ASSUME NEW b, Tree(b), NEW n \in Sizes, b[0] >= n
  PROVE  Finds(b, n, 0, Descend(b, n))
<1>1. PICK d : Descend(b, n) = d[0] /\ \A i \in Large(n) : Descends(b, n, d, i)
  BY DescendIs DEF Tree
<1>2. \A i \in Large(n) : b[i] >= n => Finds(b, n, i, d[i])
  BY <1>1, DescendFinds
<1> QED
  BY <1>1, <1>2, RootSize

LEMMA BitmapExact ==
  ASSUME NEW b, Tree(b), NEW i \in Nodes, ~InBlockOf(b, i)
  PROVE  /\ \A j \in FreeIn(b) : i \in Path(j) => NodeSize[j] <= b[i]
         /\ b[i] # 0 => \E j \in FreeIn(b) : i \in Path(j) /\ NodeSize[j] = b[i]
<1>1. ASSUME NEW j \in FreeIn(b), i \in Path(j) PROVE NodeSize[j] <= b[i]
  <2>1. j \in Nodes /\ ~InBlockOf(b, j) /\ b[j] = NodeSize[j]
    BY FreeWhole DEF FreeIn, Whole
  <2>2. b[i] >= b[j]
    BY <1>1, <2>1, FreeAbove
  <2> QED
    BY <2>1, <2>2, NodeFacts DEF Tree, Bitmaps
<1>2. ASSUME b[i] # 0 PROVE \E j \in FreeIn(b) : i \in Path(j) /\ NodeSize[j] = b[i]
  <2> DEFINE n == b[i]
  <2>1. n \in Sizes /\ n \in Nat /\ n <= NodeSize[i] /\ NodeSize[i] \in Nat
    BY <1>2, NodeFacts DEF Tree, WellSized, Bitmaps
  <2>2. b[i] >= n
    BY <2>1
  <2> HIDE DEF n
  <2>3. PICK d : \A k \in Large(n) : Descends(b, n, d, k)
    BY <2>1, DescendIs DEF Tree
  <2>4. i \in Large(n)
    BY <2>1 DEF Large
  <2>5. Finds(b, n, i, d[i])
    BY <2>1, <2>2, <2>3, <2>4, DescendFinds
  <2> DEFINE j == d[i]
  <2>6. j \in Nodes /\ NodeSize[j] = n /\ i \in Path(j) /\ Whole(b, j)
    BY <2>5 DEF Finds
  <2>7. ASSUME NEW x \in TakenIn(b), x \in Path(j) PROVE FALSE
    <3>1. x \in Path(i) \/ i \in Path(x)
      BY <2>6, <2>7, PathChain
    <3>2. b[x] = 0
      BY DEF TakenIn
    <3> QED
      BY <2>5, <2>7, <3>1, <3>2 DEF Finds, InBlockOf
  <2>8. \A x \in TakenIn(b) : j \notin Ancestors[x]
    BY <2>6, NotTakenBelow
  <2>9. j \in FreeIn(b)
    BY <2>6, <2>7, <2>8 DEF FreeIn, InBlockOf
  <2> QED
    BY <2>6, <2>9 DEF n
<1> QED
  BY <1>1, <1>2

-----------------------------------------------------------------------------
(* Blocks as the callers see them *)

LEMMA FreeIsApart ==
  ASSUME NEW b, Tree(b), NEW j \in Nodes
  PROVE  j \in FreeIn(b) <=> \A x \in TakenIn(b) : Apart(x, j)
<1>1. ASSUME NEW x \in TakenIn(b)
      PROVE  Apart(x, j) <=> x \notin Path(j) /\ j \notin Ancestors[x]
  <2>1. x \in Nodes
    BY DEF TakenIn
  <2>2. ASSUME x \in Path(j) \/ j \in Ancestors[x] PROVE ~Apart(x, j)
    <3>1. Frames(j) \subseteq Frames(x) \/ Frames(x) \subseteq Frames(j)
      BY <2>1, <2>2, AncestorFacts DEF Path
    <3> QED
      BY <2>1, <3>1, FramesNotEmpty DEF Apart
  <2> QED
    BY <2>1, <2>2, Laminar DEF Path
<1> QED
  BY <1>1 DEF FreeIn, InBlockOf

LEMMA TakenApart ==
  ASSUME NEW b, Tree(b), NEW x \in TakenIn(b), NEW y \in TakenIn(b), x # y
  PROVE  Apart(x, y) /\ FirstPfn(x) # FirstPfn(y)
<1>1. x \in Nodes /\ y \in Nodes
  BY DEF TakenIn
<1>2. x \notin Ancestors[y] /\ y \notin Ancestors[x]
  BY <1>1, NotTakenBelow
<1>3. Apart(x, y)
  BY <1>1, <1>2, Laminar DEF Path
<1> QED
  BY <1>1, <1>3, FramesNotEmpty DEF Apart

(* buddy_free climbs from the first frame of a block to its node.          *)
LEMMA TakenAtFinds ==
  ASSUME NEW b, Tree(b), NEW x \in TakenIn(b)
  PROVE  TakenAt(b, FirstPfn(x)) = x
<1> DEFINE f == FirstPfn(x)
           l == f + SIZE - 1
<1>1. x \in Nodes /\ b[x] = 0 /\ f \in Pfns
  BY NodeFacts DEF TakenIn
<1>2. l \in Nodes /\ IsLeaf(l) /\ FirstPfn(l) = f
  BY <1>1, LeafOfFrame
<1>3. x \in Path(l)
  <2>1. ~Apart(x, l)
    BY <1>1, <1>2, FramesNotEmpty DEF Apart
  <2>2. l \notin Ancestors[x]
    BY <1>1, <1>2, AncestorFacts
  <2> QED
    BY <1>1, <1>2, <2>1, <2>2, Laminar DEF Path
<1>4. PICK u : TakenAt(b, f) = u[l] /\ \A i \in Nodes : Climbs(b, u, i)
  BY TakenAtIs DEF Tree
<1> HIDE DEF f, l
<1> DEFINE P == {i \in Nodes : x \in Path(i) => u[i] = x}
<1>5. u[x] = x
  BY <1>1, <1>4 DEF Climbs
<1>6. 0 \in P
  BY <1>5, Root, AncestorsIs DEF Path
<1>7. ASSUME NEW i \in Nodes, i # 0, PARENT(i) \in P, x \in Ancestors[i] PROVE u[i] = x
  <2>1. x \in Path(PARENT(i)) /\ PARENT(i) \in Nodes
    BY <1>7, Parents, AncestorsIs DEF Path
  <2>2. Whole(b, i)
    BY <1>1, <1>7, WholeBelow
  <2>3. b[i] # 0
    BY <2>2, NodeFacts DEF Whole
  <2>4. u[i] = u[PARENT(i)]
    BY <1>4, <1>7, <2>3 DEF Climbs
  <2> QED
    BY <1>7, <2>1, <2>4
<1>8. \A i \in Nodes : i # 0 /\ PARENT(i) \in P => i \in P
  BY <1>5, <1>7 DEF Path
<1> HIDE DEF P
<1>9. Nodes \subseteq P
  BY <1>6, <1>8, FromRoot
<1> QED
  BY <1>2, <1>3, <1>4, <1>9 DEF P, f

(* Every aligned block of a size the tree has is a node. *)
LEMMA SizesGrow ==
  ASSUME NEW s \in Sizes, s # SIZE
  PROVE  2 * s \in Sizes
<1>1. s \in Nat \ {0} /\ SIZE \in Nat \ {0}
  BY SizesType, BuddyAssumption
<1>2. PICK q \in Nat : SIZE = q * s
  BY <1>1, SizesDivide
<1>3. q # 0 /\ q # 1 /\ SIZE = s * q
  BY <1>1, <1>2
<1>4. q \in Sizes
  BY <1>1, <1>3, SizesDivide
<1>5. PICK p \in Nat : q = 2 * p
  BY <1>3, <1>4, SizesHalve, SizesType
<1>6. SIZE = p * (2 * s) /\ 2 * s \in Nat \ {0}
  BY <1>1, <1>2, <1>5
<1> QED
  BY <1>6, SizesDivide

IsNode(f, s) == \E i \in Nodes : NodeSize[i] = s /\ FirstPfn(i) = f

LEMMA EveryBlock ==
  \A s \in Sizes : \A f \in Nat : f % s = 0 /\ f + s <= SIZE => IsNode(f, s)
<1> DEFINE Good(s) == \A f \in Nat : f % s = 0 /\ f + s <= SIZE => IsNode(f, s)
           T == {n \in Nat : \E s \in Sizes : ~Good(s) /\ n = SIZE - s}
<1> SUFFICES ASSUME NEW s0 \in Sizes, ~Good(s0) PROVE FALSE
  OBVIOUS
<1>1. \A s \in Sizes : s \in Nat \ {0} /\ s <= SIZE /\ SIZE \in Nat
  BY SizesType, BuddyAssumption
<1>2. SIZE - s0 \in T
  <2>1. SIZE - s0 \in Nat
    BY <1>1
  <2> QED
    BY <2>1
<1>3. PICK n \in T : \A m \in T : n <= m
  BY <1>2, LeastElement
<1>4. PICK s \in Sizes : ~Good(s) /\ n = SIZE - s
  BY <1>3
<1>5. ASSUME NEW t \in Sizes, t > s PROVE Good(t)
  <2>1. ~Good(t) => SIZE - t \in T
    <3>1. SIZE - t \in Nat
      BY <1>1
    <3> QED
      BY <3>1
  <2>2. SIZE - t < n
    BY <1>1, <1>4, <1>5
  <2> QED
    BY <1>1, <1>3, <1>4, <2>1, <2>2
<1>6. PICK f \in Nat : f % s = 0 /\ f + s <= SIZE /\ ~IsNode(f, s)
  BY <1>4
<1> HIDE DEF T
<1>7. s # SIZE
  <2>1. s = SIZE => f = 0
    BY <1>1, <1>6
  <2>2. IsNode(0, SIZE)
    <3>1. FirstPfn(0) = 0
      BY RootSize, BuddyAssumption DEF FirstPfn
    <3> QED
      BY <3>1, RootSize DEF IsNode
  <2> QED
    BY <1>6, <2>1, <2>2
<1>8. 2 * s \in Sizes /\ 2 * s > s
  BY <1>1, <1>7, SizesGrow
<1>9. Good(2 * s)
  BY <1>5, <1>8
<1>10. PICK k \in Nat : f = k * s
  BY <1>1, <1>6, Multiples
<1>11. PICK q \in Nat : SIZE = q * (2 * s)
  BY <1>1, <1>8, SizesDivide
<1>12. PICK p \in Nat : k = 2 * p \/ k = 2 * p + 1
  <2>1. k \div 2 \in Nat /\ (k = 2 * (k \div 2) \/ k = 2 * (k \div 2) + 1)
    OBVIOUS
  <2> QED
    BY <2>1
<1> DEFINE e == p * (2 * s)
<1>13. /\ e \in Nat /\ e % (2 * s) = 0
       /\ f = e \/ f = e + s
       /\ e + 2 * s <= SIZE
  <2>1. s \in Nat \ {0} /\ 2 * s \in Nat \ {0}
    BY <1>1
  <2>2. e \in Nat
    BY <2>1
  <2>3. f = e \/ f = e + s
    <3>1. CASE k = 2 * p
      BY <1>10, <2>1, <3>1
    <3>2. CASE k = 2 * p + 1
      BY <1>10, <2>1, <3>2
    <3> QED
      BY <1>12, <3>1, <3>2
  <2>4. e < SIZE
    BY <1>1, <1>6, <2>1, <2>2, <2>3
  <2>5. p < q
    <3>1. p >= q => p * (2 * s) >= q * (2 * s)
      BY <2>1
    <3> QED
      BY <1>1, <1>11, <2>2, <2>4, <3>1
  <2>6. (p + 1) * (2 * s) <= q * (2 * s)
    BY <2>1, <2>5
  <2>7. (p + 1) * (2 * s) = e + 2 * s
    BY <2>1
  <2>8. e % (2 * s) = 0
    BY <2>1, <2>2, Multiples
  <2> QED
    BY <1>11, <2>2, <2>3, <2>6, <2>7, <2>8
<1> HIDE DEF e
<1>14. PICK i \in Nodes : NodeSize[i] = 2 * s /\ FirstPfn(i) = e
  BY <1>9, <1>13 DEF IsNode
<1>15. ~IsLeaf(i)
  BY <1>1, <1>14, NodeFacts
<1>16. /\ LEFT_LEAF(i) \in Nodes /\ RIGHT_LEAF(i) \in Nodes
       /\ NodeSize[LEFT_LEAF(i)] = s /\ NodeSize[RIGHT_LEAF(i)] = s
       /\ FirstPfn(LEFT_LEAF(i)) = e /\ FirstPfn(RIGHT_LEAF(i)) = e + s
  <2>1. NodeSize[LEFT_LEAF(i)] \in Nat /\ 2 * s = 2 * NodeSize[LEFT_LEAF(i)]
    BY <1>14, <1>15, ChildFacts, NodeFacts
  <2>2. NodeSize[LEFT_LEAF(i)] = s
    BY <1>1, <2>1
  <2> QED
    BY <1>14, <1>15, <2>2, ChildFacts
<1> QED
  BY <1>6, <1>13, <1>16 DEF IsNode

(* fixsize rounds a request up to the size of a node. *)
LEMMA SizesAreNodes == Sizes = {NodeSize[i] : i \in Nodes}
<1>1. \A s \in Sizes : \E i \in Nodes : NodeSize[i] = s
  <2> SUFFICES ASSUME NEW s \in Sizes PROVE \E i \in Nodes : NodeSize[i] = s
    OBVIOUS
  <2>1. 0 \in Nat /\ 0 % s = 0 /\ 0 + s <= SIZE
    BY SizesType
  <2> QED
    BY <2>1, EveryBlock DEF IsNode
<1> QED
  BY <1>1, NodeFacts

Rounds(n, s) == s \in Sizes /\ n <= s /\ \A t \in Sizes : n <= t => s <= t

LEMMA FixSize ==
  ASSUME NEW n \in 1 .. SIZE
  PROVE  Rounds(n, fixsize(n)) /\ Promise!RoundUp(n) = fixsize(n)
<1> DEFINE T == {s \in Sizes : n <= s}
<1>1. T \in SUBSET Nat /\ SIZE \in T
  <2>1. n <= SIZE
    BY BuddyAssumption
  <2> QED
    BY <2>1, SizesType
<1>2. PICK m \in T : \A s \in T : m <= s
  BY <1>1, LeastElement
<1>3. Rounds(n, m)
  BY <1>2 DEF Rounds
<1>4. \A s : Rounds(n, s) => s = m
  BY <1>2, SizesType DEF Rounds
<1>5. \A s \in Sizes : (n <= s /\ \A i \in Nodes : n <= NodeSize[i] => s <= NodeSize[i])
                         <=> Rounds(n, s)
  BY SizesAreNodes DEF Rounds
<1>6. fixsize(n) = CHOOSE s \in Sizes :
                     n <= s /\ \A i \in Nodes : n <= NodeSize[i] => s <= NodeSize[i]
  BY SizesAreNodes, BuddyAssumption DEF fixsize
<1>7. \E s \in Sizes : n <= s /\ \A i \in Nodes : n <= NodeSize[i] => s <= NodeSize[i]
  BY <1>3, <1>5 DEF Rounds
<1>8. Rounds(n, fixsize(n))
  BY <1>5, <1>6, <1>7
<1>9. Promise!RoundUp(n) = CHOOSE s \in Sizes : n <= s /\ \A t \in Sizes : n <= t => s <= t
  BY DEF Promise!RoundUp, Sizes
<1>10. Rounds(n, Promise!RoundUp(n))
  BY <1>3, <1>9 DEF Rounds
<1> QED
  BY <1>4, <1>8, <1>10

-----------------------------------------------------------------------------
(* The boot *)

LEMMA DescendNode ==
  ASSUME NEW b \in Bitmaps, NEW n \in Sizes
  PROVE  Descend(b, n) \in Nodes
<1>1. PICK d : Descend(b, n) = d[0] /\ \A i \in Large(n) : Descends(b, n, d, i)
  BY DescendIs
<1> DEFINE P == {i \in Nodes : i \in Large(n) => d[i] \in Nodes}
<1>2. ASSUME NEW i \in Large(n), NodeSize[i] = n PROVE d[i] \in Nodes
  BY <1>1, <1>2 DEF Large, Descends
<1>3. \A i \in Nodes : IsLeaf(i) => i \in P
  BY <1>2, LargeChildren
<1>4. \A i \in Nodes : ~IsLeaf(i) /\ LEFT_LEAF(i) \in P /\ RIGHT_LEAF(i) \in P => i \in P
  BY <1>1, <1>2, LargeChildren DEF Descends
<1> HIDE DEF P
<1>5. Nodes \subseteq P
  BY <1>3, <1>4, FromLeaves
<1> QED
  BY <1>1, <1>5, RootSize DEF P

Takes(t, k) == t[k] = Taken(t[k - 1], Descend(t[k - 1], 1))

LEMMA OneIsSize == 1 \in Sizes
<1>1. SIZE = SIZE * 1 /\ SIZE \in Nat
  BY BuddyAssumption
<1> QED
  BY <1>1, SizesDivide

LEMMA BootedIs ==
  \E t : /\ Booted = t[Reserved] /\ t[0] = NodeSize
         /\ \A k \in 1 .. Reserved : Takes(t, k)
<1> DEFINE S == 0 .. Reserved
           I == 1 .. Reserved
           l == [k \in S |-> IF k = 0 THEN 0 ELSE k - 1]
           h == [k \in S |-> NodeSize]
           g == [k \in S |-> [u \in Bitmaps |-> [v \in Bitmaps |-> Taken(u, Descend(u, 1))]]]
           rank == [k \in S |-> k]
           N == Reserved + 1
           Is(t) == t = [k \in S |->
                          IF k = 0 THEN NodeSize
                                   ELSE Taken(t[k - 1], Descend(t[k - 1], 1))]
<1>1. Reserved \in Nat
  BY BuddyAssumption
<1>2. /\ I \in SUBSET S /\ l \in [S -> S] /\ rank \in [S -> Nat] /\ N \in Nat
      /\ \A k \in S : rank[k] < N
      /\ \A k \in I : rank[l[k]] < rank[k] /\ rank[l[k]] < rank[k]
  BY <1>1
<1>3. h \in [S -> Bitmaps]
  BY NodeSizeIs DEF Bitmaps
<1>4. \A u \in Bitmaps : Taken(u, Descend(u, 1)) \in Bitmaps
  BY OneIsSize, DescendNode, TakenIs
<1>5. g \in [S -> [Bitmaps -> [Bitmaps -> Bitmaps]]]
  BY <1>4
<1>6. \A k \in S, u, v \in Bitmaps : g[k][u][v] = Taken(u, Descend(u, 1))
  OBVIOUS
<1>7. \A k \in S : h[k] = NodeSize /\ (k \in I <=> k # 0) /\ (k # 0 => l[k] = k - 1 /\ k - 1 \in S)
  BY <1>1
<1> HIDE DEF S, I, l, h, g, rank, N
<1>8. PICK t \in [S -> Bitmaps] : \A k \in S : Computes(t, g, h, I, l, l, k)
  BY <1>2, <1>3, <1>5, Recursion
<1>9. ASSUME NEW k \in S
      PROVE  t[k] = IF k = 0 THEN NodeSize ELSE Taken(t[k - 1], Descend(t[k - 1], 1))
  <2>1. CASE k = 0
    BY <1>7, <1>8, <2>1 DEF Computes
  <2>2. CASE k # 0
    <3>1. t[k - 1] \in Bitmaps /\ k \in I /\ l[k] = k - 1
      BY <1>7, <1>8, <2>2
    <3>2. t[k] = g[k][t[k - 1]][t[k - 1]]
      BY <1>8, <3>1 DEF Computes
    <3> QED
      BY <1>6, <2>2, <3>1, <3>2
  <2> QED
    BY <2>1, <2>2
<1>10. Is(t)
  BY <1>8, <1>9
<1>11. Booted = (CHOOSE e : Is(e))[Reserved]
  BY DEF Booted, S
<1> DEFINE e == CHOOSE x : Is(x)
<1>12. Is(e)
  BY <1>10
<1>13. \A k \in S : e[k] = IF k = 0 THEN NodeSize ELSE Taken(e[k - 1], Descend(e[k - 1], 1))
  BY <1>12
<1> HIDE DEF e
<1>14. e[0] = NodeSize
  BY <1>1, <1>13 DEF S
<1>15. \A k \in 1 .. Reserved : Takes(e, k)
  BY <1>1, <1>13 DEF S, Takes
<1> QED
  BY <1>11, <1>14, <1>15 DEF e

(* The leaves of the first k frames. *)
Leaf(f) == f + SIZE - 1
FirstLeaves(k) == {Leaf(f) : f \in 0 .. k - 1}

LEMMA EmptyTree == Tree(NodeSize) /\ TakenIn(NodeSize) = {}
<1>1. NodeSize \in Bitmaps
  BY NodeSizeIs DEF Bitmaps
<1>2. ASSUME NEW i \in Nodes PROVE WellSized(NodeSize, i) /\ NodeSize[i] # 0
  BY NodeFacts DEF WellSized
<1>3. ASSUME NEW i \in Nodes, ~IsLeaf(i) PROVE Consistent(NodeSize, i)
  <2>1. NodeSize[LEFT_LEAF(i)] + NodeSize[RIGHT_LEAF(i)] = NodeSize[i]
    BY <1>3, ChildFacts, NodeFacts
  <2> QED
    BY <2>1 DEF Consistent, Merged
<1>4. \A i \in Nodes : Consistent(NodeSize, i)
  BY <1>3 DEF Consistent
<1> QED
  BY <1>1, <1>2, <1>4 DEF Tree, TakenIn

LEMMA NextFrame ==
  ASSUME NEW b, Tree(b), NEW k \in 0 .. SIZE - 1, TakenIn(b) = FirstLeaves(k)
  PROVE  /\ Tree(Taken(b, Descend(b, 1)))
         /\ TakenIn(Taken(b, Descend(b, 1))) = FirstLeaves(k + 1)
<1>1. /\ SIZE \in Nat \ {0} /\ k \in Pfns
      /\ \A f \in 0 .. k - 1 : f \in Pfns
  BY BuddyAssumption DEF Pfns
<1> DEFINE l == Leaf(k)
<1>2. l \in Nodes /\ IsLeaf(l) /\ NodeSize[l] = 1 /\ FirstPfn(l) = k
  BY <1>1, LeafOfFrame DEF Leaf
<1>3. \A f \in 0 .. k - 1 : Leaf(f) \in Nodes /\ IsLeaf(Leaf(f)) /\ Leaf(f) # Leaf(k)
  <2> SUFFICES ASSUME NEW f \in 0 .. k - 1
               PROVE  Leaf(f) \in Nodes /\ IsLeaf(Leaf(f)) /\ Leaf(f) # Leaf(k)
    OBVIOUS
  <2>1. f \in Pfns
    BY <1>1
  <2>2. f \in Nat /\ k \in Nat /\ f # k
    BY <1>1 DEF Pfns
  <2>3. Leaf(f) # Leaf(k)
    BY <1>1, <2>2 DEF Leaf
  <2> QED
    BY <2>1, <2>3, LeafOfFrame DEF Leaf
<1> HIDE DEF l
<1>4. \A x \in TakenIn(b) : x \in Nodes /\ IsLeaf(x) /\ x # l
  BY <1>3 DEF FirstLeaves, l
<1>5. l \in FreeIn(b)
  BY <1>2, <1>4, AncestorFacts DEF FreeIn, InBlockOf, Path
<1>6. b[0] >= 1
  <2>1. b[l] = 1 /\ ~InBlockOf(b, l)
    BY <1>2, <1>5, FreeWhole DEF Whole, FreeIn
  <2> QED
    BY <1>2, <2>1, FreeAbove, RootAbove
<1> DEFINE x == Descend(b, 1)
<1>7. Finds(b, 1, 0, x)
  BY <1>6, OneIsSize, AllocFinds
<1> HIDE DEF x
<1>8. x \in Nodes /\ NodeSize[x] = 1 /\ Whole(b, x) /\ FirstPfn(x) <= k /\ FirstPfn(x) \in Nat
  BY <1>2, <1>5, <1>7, RootAbove, NodeFacts DEF Finds, Pfns
<1>9. x = Leaf(FirstPfn(x))
  <2>1. x \in Nat
    BY <1>1, <1>8 DEF Nodes
  <2> QED
    BY <1>1, <1>8, <2>1 DEF FirstPfn, Leaf
<1>10. x \notin TakenIn(b)
  BY <1>8 DEF TakenIn, Whole
<1>11. FirstPfn(x) = k
  <2>1. FirstPfn(x) < k => x \in FirstLeaves(k)
    BY <1>8, <1>9 DEF FirstLeaves
  <2> QED
    BY <1>8, <1>10, <2>1
<1>12. \A a \in Ancestors[x] : b[a] # 0
  BY <1>7, <1>8, AncestorFacts, RootAbove DEF Finds, Path
<1>13. Tree(Taken(b, x)) /\ TakenIn(Taken(b, x)) = TakenIn(b) \cup {x}
  BY <1>8, <1>12, TakenTree
<1>14. FirstLeaves(k + 1) = FirstLeaves(k) \cup {Leaf(k)}
  <2>1. 0 .. (k + 1) - 1 = 0 .. k - 1 \cup {k}
    OBVIOUS
  <2> QED
    BY <2>1 DEF FirstLeaves
<1> QED
  BY <1>9, <1>11, <1>13, <1>14 DEF x

LEMMA BootTakes == Tree(Booted) /\ TakenIn(Booted) = FirstLeaves(Reserved)
<1>1. PICK t : /\ Booted = t[Reserved] /\ t[0] = NodeSize
               /\ \A k \in 1 .. Reserved : Takes(t, k)
  BY BootedIs
<1> DEFINE Good(k) == Tree(t[k]) /\ TakenIn(t[k]) = FirstLeaves(k)
           T == {k \in 0 .. Reserved : ~Good(k)}
<1>2. Reserved \in Nat /\ SIZE \in Nat /\ Reserved <= SIZE
  BY BuddyAssumption
<1>3. Good(0)
  BY <1>1, EmptyTree DEF FirstLeaves
<1>4. ASSUME NEW k \in 0 .. Reserved - 1, Good(k) PROVE Good(k + 1)
  <2>1. k \in 0 .. SIZE - 1 /\ k + 1 \in 1 .. Reserved /\ (k + 1) - 1 = k
    BY <1>2
  <2>2. t[k + 1] = Taken(t[k], Descend(t[k], 1))
    BY <1>1, <2>1 DEF Takes
  <2> QED
    BY <1>4, <2>1, <2>2, NextFrame
<1> HIDE DEF Good
<1>5. Good(Reserved)
  <2> SUFFICES ASSUME ~Good(Reserved) PROVE FALSE
    OBVIOUS
  <2>1. T \in SUBSET Nat /\ Reserved \in T
    BY <1>2
  <2>2. PICK k \in T : \A m \in T : k <= m
    BY <2>1, LeastElement
  <2>3. k \in 0 .. Reserved /\ ~Good(k) /\ k # 0
    BY <1>3, <2>2
  <2>4. k - 1 \in 0 .. Reserved - 1 /\ k - 1 \in 0 .. Reserved /\ (k - 1) + 1 = k /\ ~(k <= k - 1)
    BY <1>2, <2>3
  <2>5. Good(k - 1)
    BY <2>2, <2>4
  <2>6. Good((k - 1) + 1)
    BY <1>4, <2>4, <2>5
  <2> QED
    BY <2>3, <2>4, <2>6
<1> QED
  BY <1>1, <1>5 DEF Good

-----------------------------------------------------------------------------
(* The inductive invariant: the array is a tree, every count is in bounds, *)
(* and the pages with users are the first pages of the blocks given out.   *)
Counted(b, c) == \A f \in Pfns : c[f] # 0 <=> \E x \in TakenIn(b) : FirstPfn(x) = f

Sound(b, c) == Tree(b) /\ c \in [Pfns -> 0 .. MaxUsers] /\ Counted(b, c)
BuddyInv == Sound(bitmap, ref_cnt)

LEMMA BootSound ==
  ASSUME NEW c, c = [f \in Pfns |-> IF f < Reserved THEN 1 ELSE Cleared[f]]
  PROVE  Sound(Booted, c)
<1>1. \A f \in Pfns : c[f] = IF f < Reserved THEN 1 ELSE 0
  BY DEF Cleared
<1>2. c \in [Pfns -> 0 .. MaxUsers]
  BY BuddyAssumption DEF Cleared
<1>3. ASSUME NEW f \in Pfns
      PROVE  f < Reserved <=> \E x \in FirstLeaves(Reserved) : FirstPfn(x) = f
  <2>1. f \in Nat /\ Reserved \in Nat /\ Reserved <= SIZE /\ SIZE \in Nat
    BY BuddyAssumption DEF Pfns
  <2>2. \A g \in 0 .. Reserved - 1 : g \in Pfns /\ g < Reserved /\ FirstPfn(Leaf(g)) = g
    BY <2>1, LeafOfFrame DEF Pfns, Leaf
  <2>3. f < Reserved => f \in 0 .. Reserved - 1
    BY <2>1
  <2> QED
    BY <2>2, <2>3 DEF FirstLeaves
<1> QED
  BY <1>1, <1>2, <1>3, BootTakes DEF Sound, Counted

(* alloc_pages takes a free block: the first one of the size it rounds to. *)
LEMMA AllocTakes ==
  ASSUME NEW b, Tree(b), NEW n \in 1 .. SIZE + 1, b[0] >= fixsize(n),
         NEW x, x = Descend(b, fixsize(n))
  PROVE  /\ n \in 1 .. SIZE /\ Finds(b, fixsize(n), 0, x) /\ x \in FreeIn(b)
         /\ Tree(Taken(b, x)) /\ TakenIn(Taken(b, x)) = TakenIn(b) \cup {x}
<1>1. SIZE \in Nat \ {0} /\ b[0] <= SIZE /\ b[0] \in Nat
  BY BuddyAssumption, RootSize DEF Tree, WellSized, Bitmaps
<1>2. n \in 1 .. SIZE
  <2>1. n > SIZE => fixsize(n) = 2 * SIZE
    BY DEF fixsize
  <2> QED
    BY <1>1, <2>1
<1>3. fixsize(n) \in Sizes
  BY <1>2, FixSize DEF Rounds
<1>4. Finds(b, fixsize(n), 0, x)
  BY <1>3, AllocFinds
<1>5. /\ x \in Nodes /\ Whole(b, x)
      /\ \A k \in Path(x) : k \in Nodes /\ b[k] # 0
  BY <1>4, AncestorFacts, RootAbove DEF Finds, Path
<1>6. x \in FreeIn(b)
  <2>1. ~InBlockOf(b, x)
    BY <1>5 DEF InBlockOf, TakenIn
  <2>2. \A y \in TakenIn(b) : x \notin Ancestors[y]
    BY <1>5, NotTakenBelow
  <2> QED
    BY <1>5, <2>1, <2>2 DEF FreeIn
<1>7. \A a \in Ancestors[x] : b[a] # 0
  BY <1>5 DEF Path
<1>8. Tree(Taken(b, x)) /\ TakenIn(Taken(b, x)) = TakenIn(b) \cup {x}
  BY <1>5, <1>7, TakenTree
<1> QED
  BY <1>2, <1>4, <1>6, <1>8

LEMMA AllocSound ==
  ASSUME NEW b, NEW c, Sound(b, c), NEW n \in 1 .. SIZE + 1, b[0] >= fixsize(n),
         NEW x, x = Descend(b, fixsize(n))
  PROVE  Sound(Taken(b, x), [c EXCEPT ![FirstPfn(x)] = 1])
<1>1. /\ x \in Nodes /\ Tree(Taken(b, x))
      /\ TakenIn(Taken(b, x)) = TakenIn(b) \cup {x}
  BY AllocTakes DEF Sound, FreeIn
<1>2. FirstPfn(x) \in Pfns /\ 1 \in 0 .. MaxUsers
  BY <1>1, NodeFacts, BuddyAssumption
<1>3. c \in [Pfns -> 0 .. MaxUsers] /\ Counted(b, c)
  BY DEF Sound
<1> DEFINE d == [c EXCEPT ![FirstPfn(x)] = 1]
<1>4. d \in [Pfns -> 0 .. MaxUsers]
  BY <1>2, <1>3
<1>5. \A f \in Pfns : d[f] = IF f = FirstPfn(x) THEN 1 ELSE c[f]
  BY <1>3
<1> HIDE DEF d
<1>6. Counted(Taken(b, x), d)
  BY <1>1, <1>3, <1>5 DEF Counted
<1>7. Sound(Taken(b, x), d)
  BY <1>1, <1>4, <1>6 DEF Sound
<1> QED
  BY <1>7 DEF d

(* The block a counted page is the first page of.                          *)
LEMMA OwnBlock ==
  ASSUME NEW b, NEW c, Sound(b, c), NEW f \in Pfns, c[f] > 0
  PROVE  /\ TakenAt(b, f) \in TakenIn(b) /\ FirstPfn(TakenAt(b, f)) = f
         /\ Tree(Freed(b, TakenAt(b, f)))
         /\ TakenIn(Freed(b, TakenAt(b, f))) = TakenIn(b) \ {TakenAt(b, f)}
<1>1. c[f] # 0
  OBVIOUS
<1>2. PICK x \in TakenIn(b) : FirstPfn(x) = f
  BY <1>1 DEF Sound, Counted
<1>3. Tree(b)
  BY DEF Sound
<1>4. TakenAt(b, f) = x
  BY <1>2, <1>3, TakenAtFinds
<1>5. Tree(Freed(b, x)) /\ TakenIn(Freed(b, x)) = TakenIn(b) \ {x}
  BY <1>3, FreedTree
<1> QED
  BY <1>2, <1>4, <1>5

LEMMA PutSound ==
  ASSUME NEW b, NEW c, Sound(b, c), NEW f \in Pfns, c[f] > 0,
         NEW d, d = [c EXCEPT ![f] = @ - 1],
         NEW b2, b2 = IF d[f] # 0 THEN b ELSE Freed(b, TakenAt(b, f))
  PROVE  Sound(b2, d)
<1>1. Tree(b) /\ c \in [Pfns -> 0 .. MaxUsers] /\ Counted(b, c) /\ MaxUsers \in Nat
  BY BuddyAssumption DEF Sound
<1>2. d \in [Pfns -> 0 .. MaxUsers] /\ d[f] = c[f] - 1
  BY <1>1
<1>3. \A g \in Pfns : g # f => d[g] = c[g]
  BY <1>1
<1>4. PICK x \in TakenIn(b) :
         /\ x = TakenAt(b, f) /\ FirstPfn(x) = f
         /\ Tree(Freed(b, x)) /\ TakenIn(Freed(b, x)) = TakenIn(b) \ {x}
  BY OwnBlock
<1>5. CASE d[f] # 0
  <2>1. c[f] # 0
    OBVIOUS
  <2>2. Counted(b, d)
    BY <1>1, <1>3, <1>5, <2>1 DEF Counted
  <2> QED
    BY <1>1, <1>2, <1>5, <2>2 DEF Sound
<1>6. CASE d[f] = 0
  <2>1. b2 = Freed(b, x)
    BY <1>4, <1>6
  <2>2. \A y \in TakenIn(b) : y # x => FirstPfn(y) # f
    BY <1>1, <1>4, TakenApart
  <2>3. Counted(Freed(b, x), d)
    BY <1>1, <1>3, <1>4, <1>6, <2>2 DEF Counted
  <2> QED
    BY <1>2, <1>4, <2>1, <2>3 DEF Sound
<1> QED
  BY <1>5, <1>6

LEMMA GetSound ==
  ASSUME NEW b, NEW c, Sound(b, c), NEW f \in Pfns, c[f] \in 1 .. MaxUsers - 1
  PROVE  Sound(b, [c EXCEPT ![f] = @ + 1])
<1> DEFINE d == [c EXCEPT ![f] = @ + 1]
<1>1. Tree(b) /\ c \in [Pfns -> 0 .. MaxUsers] /\ Counted(b, c) /\ MaxUsers \in Nat
  BY BuddyAssumption DEF Sound
<1>2. d \in [Pfns -> 0 .. MaxUsers] /\ d[f] = c[f] + 1
  BY <1>1
<1>3. \A g \in Pfns : g # f => d[g] = c[g]
  BY <1>1
<1> HIDE DEF d
<1>4. d[f] # 0 /\ c[f] # 0
  BY <1>2
<1>5. Counted(b, d)
  BY <1>1, <1>3, <1>4 DEF Counted
<1>6. Sound(b, d)
  BY <1>1, <1>2, <1>5 DEF Sound
<1> QED
  BY <1>6 DEF d

LEMMA BuddyStep == BuddyInv /\ [Next]_vars => BuddyInv'
<1> SUFFICES ASSUME Sound(bitmap, ref_cnt), [Next]_vars PROVE Sound(bitmap', ref_cnt')
  BY DEF BuddyInv
<1>1. ASSUME NEW n \in 1 .. SIZE + 1, AllocPages(n) PROVE Sound(bitmap', ref_cnt')
  BY <1>1, AllocSound DEF AllocPages
<1>2. ASSUME NEW n \in 1 .. SIZE + 1, AllocFails(n) PROVE Sound(bitmap', ref_cnt')
  BY <1>2 DEF AllocFails, vars
<1>3. ASSUME NEW pfn \in Pfns, GetPage(pfn) PROVE Sound(bitmap', ref_cnt')
  BY <1>3, GetSound DEF GetPage
<1>4. ASSUME NEW pfn \in Pfns, GetFree(pfn) PROVE Sound(bitmap', ref_cnt')
  BY <1>4 DEF GetFree, vars
<1>5. ASSUME NEW pfn \in Pfns, PutPage(pfn) PROVE Sound(bitmap', ref_cnt')
  BY <1>5, PutSound DEF PutPage, buddy_free
<1>6. ASSUME NEW pfn \in Pfns, FreePages(pfn) PROVE Sound(bitmap', ref_cnt')
  <2>1. ref_cnt \in [Pfns -> 0 .. MaxUsers] /\ ref_cnt[pfn] > 0
    BY <1>6 DEF FreePages, Sound
  <2>2. ref_cnt[pfn] # 0
    BY <2>1
  <2> QED
    BY <1>6, <2>2 DEF FreePages, buddy_free
<1>7. CASE UNCHANGED vars
  BY <1>7 DEF vars
<1> QED
  BY <1>1, <1>2, <1>3, <1>4, <1>5, <1>6, <1>7 DEF Next

(* The tree and the counts stay sound in every reachable state.            *)
THEOREM BuddySound == Spec => []BuddyInv
<1>1. Init => BuddyInv
  BY BootSound DEF Init, BuddyInv
<1> QED
  BY <1>1, BuddyStep, PTL DEF Spec

(* Every node holds nothing or a size the tree has, no more than the node, *)
(* and no page has more than MaxUsers users.                               *)
THEOREM TypesHold == Spec => []TypeOK
<1>1. ASSUME BuddyInv PROVE TypeOK
  <2>1. /\ bitmap \in [Nodes -> Nat] /\ ref_cnt \in [Pfns -> 0 .. MaxUsers]
        /\ \A i \in Nodes : bitmap[i] \in {0} \cup Sizes /\ bitmap[i] <= NodeSize[i]
    BY <1>1 DEF BuddyInv, Sound, Tree, Bitmaps, WellSized
  <2>2. bitmap \in [Nodes -> {0} \cup {NodeSize[i] : i \in Nodes}]
    BY <2>1, SizesAreNodes
  <2> QED
    BY <2>1, <2>2 DEF TypeOK
<1> QED
  BY <1>1, BuddySound, PTL

(* Outside the blocks given out every node knows the size of the largest   *)
(* block free below it, after any sequence of alloc_pages and put_page.    *)
THEOREM NothingForgotten == Spec => []LongestExact
<1>1. ASSUME BuddyInv PROVE LongestExact
  <2>1. TakenNodes = TakenIn(bitmap)
    BY DEF TakenNodes, TakenIn
  <2>2. \A i : InBlock(i) <=> InBlockOf(bitmap, i)
    BY <2>1 DEF InBlock, InBlockOf, Path
  <2>3. FreeNodes = FreeIn(bitmap)
    BY <2>1, <2>2 DEF FreeNodes, FreeIn
  <2> SUFFICES ASSUME NEW i \in Nodes, ~InBlockOf(bitmap, i)
               PROVE  /\ \A j \in FreeIn(bitmap) :
                           (j = i \/ i \in Ancestors[j]) => NodeSize[j] <= bitmap[i]
                      /\ bitmap[i] # 0 => \E j \in FreeIn(bitmap) :
                                            /\ j = i \/ i \in Ancestors[j]
                                            /\ NodeSize[j] = bitmap[i]
    BY <2>2, <2>3 DEF LongestExact
  <2>4. Tree(bitmap)
    BY <1>1 DEF BuddyInv, Sound
  <2>5. /\ \A j \in FreeIn(bitmap) : i \in Path(j) => NodeSize[j] <= bitmap[i]
        /\ bitmap[i] # 0 => \E j \in FreeIn(bitmap) : i \in Path(j) /\ NodeSize[j] = bitmap[i]
    BY <2>4, BitmapExact
  <2> QED
    BY <2>5 DEF Path
<1> QED
  BY <1>1, BuddySound, PTL

-----------------------------------------------------------------------------
(* The refinement: what the callers see of a tree *)

BlockOf(i) == [first |-> FirstPfn(i), size |-> NodeSize[i]]
BlocksOf(b) == {BlockOf(x) : x \in TakenIn(b)}

LEMMA BlocksAre == Blocks = BlocksOf(bitmap)
BY DEF Blocks, BlocksOf, BlockOf, TakenNodes, TakenIn

LEMMA FramesOfBlock == \A i : Promise!FramesOf(BlockOf(i)) = Frames(i)
BY DEF Promise!FramesOf, BlockOf, Frames

(* A block is aligned to its size.                                         *)
LEMMA Aligned ==
  ASSUME NEW i \in Nodes
  PROVE  FirstPfn(i) % NodeSize[i] = 0
<1>1. NodeSize[i] \in Sizes /\ NodeSize[i] \in Nat \ {0} /\ FirstPfn(i) \in Nat
  BY NodeFacts DEF Pfns
<1>2. PICK s \in Nat \ {0} : s = NodeSize[i]
  BY <1>1
<1>3. PICK q \in Nat : SIZE = q * s
  BY <1>1, <1>2, SizesDivide
<1>4. i \in Nat
  BY DEF Nodes
<1>5. PICK f \in Nat : f = FirstPfn(i)
  BY <1>1
<1>6. f = (i + 1) * s - q * s
  BY <1>2, <1>3, <1>5 DEF FirstPfn
<1>7. f = (i + 1 - q) * s
  BY <1>4, <1>6
<1>8. i + 1 - q >= 0
  <2>1. i + 1 < q => (i + 1 - q) * s < 0
    BY <1>4
  <2> QED
    BY <1>4, <1>7, <2>1
<1>9. i + 1 - q \in Nat
  BY <1>4, <1>8
<1>10. f % s = 0
  BY <1>7, <1>9, Multiples
<1> QED
  BY <1>2, <1>5, <1>10

(* The blocks that PageAllocator may give out are the free nodes.          *)
LEMMA FreeBlocksAre ==
  ASSUME Tree(bitmap), NEW s \in Sizes
  PROVE  \A c : c \in Promise!FreeBlocks(s)
                  <=> \E j \in FreeIn(bitmap) : NodeSize[j] = s /\ c = BlockOf(j)
<1>1. Promise!Occupied = UNION {Frames(x) : x \in TakenIn(bitmap)}
  BY BlocksAre, FramesOfBlock DEF Promise!Occupied, BlocksOf
<1>2. \A j \in Nodes : Frames(j) \subseteq Pfns /\ FirstPfn(j) \in Frames(j)
  BY FramesNotEmpty
<1>3. \A j \in Nodes : Frames(j) \subseteq Pfns \ Promise!Occupied <=> j \in FreeIn(bitmap)
  BY <1>1, <1>2, FreeIsApart DEF Apart
<1>4. Promise!Frames = Pfns
  BY DEF Promise!Frames, Pfns
<1>5. ASSUME NEW c \in Promise!FreeBlocks(s)
      PROVE  \E j \in FreeIn(bitmap) : NodeSize[j] = s /\ c = BlockOf(j)
  <2>1. /\ c \in [first : Pfns, size : {s}] /\ c.first % s = 0
        /\ Promise!FramesOf(c) \subseteq Pfns \ Promise!Occupied
    BY <1>4, <1>5 DEF Promise!FreeBlocks
  <2>2. /\ s \in Nat \ {0} /\ SIZE \in Nat /\ c.first \in Nat /\ c.size = s
        /\ c = [first |-> c.first, size |-> s]
    BY <2>1, SizesType, BuddyAssumption DEF Pfns
  <2>3. c.first + s <= SIZE
    <3>1. c.first + s - 1 \in Promise!FramesOf(c)
      BY <2>2 DEF Promise!FramesOf
    <3>2. c.first + s - 1 \in Pfns
      BY <2>1, <3>1
    <3> QED
      BY <2>2, <3>2 DEF Pfns
  <2>4. PICK j \in Nodes : NodeSize[j] = s /\ FirstPfn(j) = c.first
    BY <2>1, <2>2, <2>3, EveryBlock DEF IsNode
  <2>5. c = BlockOf(j)
    BY <2>2, <2>4 DEF BlockOf
  <2>6. j \in FreeIn(bitmap)
    BY <1>3, <2>1, <2>5, FramesOfBlock
  <2> QED
    BY <2>4, <2>5, <2>6
<1>6. ASSUME NEW j \in FreeIn(bitmap), NodeSize[j] = s
      PROVE  BlockOf(j) \in Promise!FreeBlocks(s)
  <2>1. j \in Nodes
    BY DEF FreeIn
  <2>2. FirstPfn(j) \in Pfns /\ FirstPfn(j) % s = 0
    BY <1>6, <2>1, NodeFacts, Aligned
  <2>3. Promise!FramesOf(BlockOf(j)) \subseteq Pfns \ Promise!Occupied
    BY <1>3, <2>1, FramesOfBlock
  <2>4. BlockOf(j) \in [first : Pfns, size : {s}] /\ BlockOf(j).first = FirstPfn(j)
    BY <1>6, <2>2 DEF BlockOf
  <2> QED
    BY <1>4, <2>2, <2>3, <2>4 DEF Promise!FreeBlocks
<1> QED
  BY <1>5, <1>6

LEMMA InitMaps == Init => Promise!Init
<1> SUFFICES ASSUME Init PROVE Promise!Init
  OBVIOUS
<1>1. \A f \in 0 .. Reserved - 1 : BlockOf(Leaf(f)) = [first |-> f, size |-> 1]
  <2> SUFFICES ASSUME NEW f \in 0 .. Reserved - 1
               PROVE  BlockOf(Leaf(f)) = [first |-> f, size |-> 1]
    OBVIOUS
  <2>1. f \in Pfns
    BY BuddyAssumption DEF Pfns
  <2> QED
    BY <2>1, LeafOfFrame DEF Leaf, BlockOf
<1>2. Blocks = {BlockOf(Leaf(f)) : f \in 0 .. Reserved - 1}
  BY BlocksAre, BootTakes DEF Init, BlocksOf, FirstLeaves
<1>3. Blocks = {[first |-> f, size |-> 1] : f \in 0 .. Reserved - 1}
  BY <1>1, <1>2
<1>4. ref_cnt = [f \in Pfns |-> IF f < Reserved THEN 1 ELSE 0]
  BY DEF Init, Cleared
<1> QED
  BY <1>3, <1>4 DEF Promise!Init, Promise!Frames, Pfns

LEMMA AllocMaps ==
  ASSUME BuddyInv, NEW n \in 1 .. SIZE + 1, AllocPages(n)
  PROVE  Promise!Alloc(n)
<1>1. PICK b : b = bitmap
  OBVIOUS
<1>2. PICK x : x = Descend(b, fixsize(n))
  OBVIOUS
<1>3. Tree(b) /\ b[0] >= fixsize(n) /\ bitmap' = Taken(b, x)
  BY <1>1, <1>2 DEF BuddyInv, Sound, AllocPages
<1>4. /\ n \in 1 .. SIZE /\ Finds(b, fixsize(n), 0, x) /\ x \in FreeIn(b)
      /\ Tree(Taken(b, x)) /\ TakenIn(Taken(b, x)) = TakenIn(b) \cup {x}
  BY <1>2, <1>3, AllocTakes
<1>5. PICK s \in Sizes : s = fixsize(n) /\ Promise!RoundUp(n) = s
  BY <1>4, FixSize DEF Rounds
<1>6. /\ x \in Nodes /\ NodeSize[x] = s
      /\ \A j \in FreeIn(b) : NodeSize[j] = s => FirstPfn(x) <= FirstPfn(j)
  BY <1>4, <1>5, RootAbove DEF Finds, FreeIn
<1>7. \A c : c \in Promise!FreeBlocks(s)
               <=> \E j \in FreeIn(b) : NodeSize[j] = s /\ c = BlockOf(j)
  BY <1>1, <1>3, FreeBlocksAre
<1>8. /\ BlockOf(x) \in Promise!FreeBlocks(s) /\ BlockOf(x).first = FirstPfn(x)
      /\ \A c \in Promise!FreeBlocks(s) : BlockOf(x).first <= c.first
  BY <1>4, <1>6, <1>7 DEF BlockOf
<1>9. Blocks' = Blocks \cup {BlockOf(x)}
  <2>1. BlocksOf(Taken(b, x)) = BlocksOf(b) \cup {BlockOf(x)}
    BY <1>4 DEF BlocksOf
  <2>2. Blocks' = BlocksOf(bitmap')
    BY DEF Blocks, BlocksOf, BlockOf, TakenNodes, TakenIn
  <2> QED
    BY <1>1, <1>3, <2>1, <2>2, BlocksAre
<1>10. ref_cnt' = [ref_cnt EXCEPT ![BlockOf(x).first] = 1]
  BY <1>1, <1>2, <1>8 DEF AllocPages
<1>11. n <= SIZE
  BY <1>4, BuddyAssumption
<1> QED
  BY <1>5, <1>8, <1>9, <1>10, <1>11 DEF Promise!Alloc

(* What is free below the root is counted there.                           *)
LEMMA FailMaps ==
  ASSUME BuddyInv, NEW n \in 1 .. SIZE + 1, AllocFails(n)
  PROVE  Promise!AllocFails(n)
<1>1. Tree(bitmap) /\ bitmap[0] < fixsize(n) /\ UNCHANGED vars
  BY DEF BuddyInv, Sound, AllocFails
<1>2. ASSUME n <= SIZE PROVE Promise!FreeBlocks(Promise!RoundUp(n)) = {}
  <2>1. n \in 1 .. SIZE
    BY <1>2, BuddyAssumption
  <2>2. PICK s \in Sizes : s = fixsize(n) /\ Promise!RoundUp(n) = s
    BY <2>1, FixSize DEF Rounds
  <2> SUFFICES ASSUME NEW c \in Promise!FreeBlocks(s) PROVE FALSE
    BY <2>2
  <2>3. PICK j \in FreeIn(bitmap) : NodeSize[j] = s
    BY <1>1, FreeBlocksAre
  <2>4. j \in Nodes /\ ~InBlockOf(bitmap, j) /\ bitmap[j] = s
    BY <1>1, <2>3, FreeWhole DEF FreeIn, Whole
  <2>5. bitmap[0] >= bitmap[j]
    BY <1>1, <2>4, FreeAbove, RootAbove
  <2>6. s \in Nat /\ bitmap[0] \in Nat
    BY <1>1, SizesType, RootSize DEF Tree, Bitmaps
  <2> QED
    BY <1>1, <2>2, <2>4, <2>5, <2>6
<1>3. UNCHANGED <<Blocks, ref_cnt>>
  BY <1>1 DEF vars, Blocks, TakenNodes
<1> QED
  BY <1>2, <1>3 DEF Promise!AllocFails, Promise!vars

LEMMA GetMaps ==
  ASSUME BuddyInv, NEW f \in Pfns, GetPage(f)
  PROVE  \E c \in Blocks : Promise!Get(c)
<1>1. Sound(bitmap, ref_cnt) /\ ref_cnt[f] \in 1 .. MaxUsers - 1
  BY DEF BuddyInv, GetPage
<1>2. ref_cnt[f] > 0 /\ ref_cnt[f] < MaxUsers
  BY <1>1, BuddyAssumption
<1>3. PICK x \in TakenIn(bitmap) : FirstPfn(x) = f
  BY <1>1, <1>2, OwnBlock
<1>4. BlockOf(x) \in Blocks /\ BlockOf(x).first = f
  BY <1>3, BlocksAre DEF BlocksOf, BlockOf
<1>5. Blocks' = Blocks /\ ref_cnt' = [ref_cnt EXCEPT ![f] = @ + 1]
  BY DEF GetPage, Blocks, TakenNodes
<1> QED
  BY <1>2, <1>4, <1>5 DEF Promise!Get

LEMMA PutMaps ==
  ASSUME BuddyInv, NEW f \in Pfns, PutPage(f)
  PROVE  \E c \in Blocks : Promise!Put(c)
<1>1. PICK b : b = bitmap
  OBVIOUS
<1>2. PICK x : x = TakenAt(b, f)
  OBVIOUS
<1>3. Sound(b, ref_cnt) /\ ref_cnt[f] > 0
  BY <1>1 DEF BuddyInv, PutPage
<1>4. /\ x \in TakenIn(b) /\ FirstPfn(x) = f /\ Tree(b)
      /\ TakenIn(Freed(b, x)) = TakenIn(b) \ {x}
  BY <1>2, <1>3, OwnBlock DEF Sound
<1>5. ref_cnt \in [Pfns -> 0 .. MaxUsers] /\ MaxUsers \in Nat
  BY <1>3, BuddyAssumption DEF Sound
<1>6. ref_cnt' = [ref_cnt EXCEPT ![f] = @ - 1] /\ ref_cnt'[f] = ref_cnt[f] - 1
  BY <1>5 DEF PutPage
<1>7. bitmap' = IF ref_cnt[f] = 1 THEN Freed(b, x) ELSE b
  <2>1. bitmap' = IF ref_cnt'[f] # 0 THEN b ELSE Freed(b, x)
    BY <1>1, <1>2 DEF PutPage, buddy_free
  <2> QED
    BY <1>5, <1>6, <2>1
<1>8. BlockOf(x) \in Blocks /\ BlockOf(x).first = f
  BY <1>1, <1>4, BlocksAre DEF BlocksOf, BlockOf
<1>9. Blocks' = IF ref_cnt[f] = 1 THEN Blocks \ {BlockOf(x)} ELSE Blocks
  <2>1. \A y \in TakenIn(b) : y # x => BlockOf(y).first # BlockOf(x).first
    BY <1>4, TakenApart DEF BlockOf
  <2>2. BlocksOf(Freed(b, x)) = BlocksOf(b) \ {BlockOf(x)}
    BY <1>4, <2>1 DEF BlocksOf
  <2>3. Blocks' = BlocksOf(bitmap')
    BY DEF Blocks, BlocksOf, BlockOf, TakenNodes, TakenIn
  <2> QED
    BY <1>1, <1>7, <2>2, <2>3, BlocksAre
<1> QED
  BY <1>6, <1>8, <1>9 DEF Promise!Put

LEMMA StepMaps ==
  ASSUME BuddyInv, [Next]_vars
  PROVE  [Promise!Next]_(Promise!vars)
<1>1. ASSUME UNCHANGED vars PROVE UNCHANGED Promise!vars
  BY <1>1 DEF vars, Promise!vars, Blocks, TakenNodes
<1>2. ASSUME NEW n \in 1 .. SIZE + 1, AllocPages(n) PROVE Promise!Next
  BY <1>2, AllocMaps DEF Promise!Next
<1>3. ASSUME NEW n \in 1 .. SIZE + 1, AllocFails(n) PROVE Promise!Next
  BY <1>3, FailMaps DEF Promise!Next
<1>4. ASSUME NEW pfn \in Pfns, GetPage(pfn) PROVE Promise!Next
  BY <1>4, GetMaps DEF Promise!Next
<1>5. ASSUME NEW pfn \in Pfns, PutPage(pfn) PROVE Promise!Next
  BY <1>5, PutMaps DEF Promise!Next
<1>6. ASSUME NEW pfn \in Pfns, GetFree(pfn) PROVE UNCHANGED vars
  BY <1>6 DEF GetFree
<1>7. ASSUME NEW pfn \in Pfns, FreePages(pfn) PROVE UNCHANGED vars
  <2>1. ref_cnt \in [Pfns -> 0 .. MaxUsers] /\ ref_cnt[pfn] > 0
    BY <1>7 DEF FreePages, BuddyInv, Sound
  <2>2. ref_cnt[pfn] # 0
    BY <2>1
  <2> QED
    BY <1>7, <2>2 DEF FreePages, buddy_free, vars
<1> QED
  BY <1>1, <1>2, <1>3, <1>4, <1>5, <1>6, <1>7 DEF Next

(* The code keeps what PageAllocator promises: the blocks given out never  *)
(* overlap, a request gets the first free block of the size it rounds to,  *)
(* it fails only if there is none, and the last put_page of a block frees  *)
(* it, and nothing else does.                                              *)
THEOREM PromiseKept == Spec => DisjointBlocks
<1>1. Init => Promise!Init
  BY InitMaps
<1>2. BuddyInv /\ [Next]_vars => [Promise!Next]_(Promise!vars)
  BY StepMaps
<1> QED
  BY <1>1, <1>2, BuddySound, PTL DEF Spec, DisjointBlocks, Promise!Spec

=============================================================================

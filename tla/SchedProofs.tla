---------------------------- MODULE SchedProofs ----------------------------
(***************************************************************************)
(* Theorems about Sched, for every number of tasks and every priority.     *)
(***************************************************************************)
EXTENDS Sched, TLAPS, FiniteSetTheorems, WellFoundedInduction

(* Live tasks have a slice of at least one tick, and the running one has   *)
(* some of it left.                                                        *)
SchedInv ==
  /\ TypeOK
  /\ \A p \in Live : priority[p] >= PRIORITY_MIN
  /\ RunningHasTime

LEMMA LiveSlots ==
  ASSUME TypeOK
  PROVE  /\ Live \subseteq Slots
         /\ current \in Slots
         /\ 1 \in Live
         /\ Live \subseteq Int
BY SchedAssumption DEF TypeOK, Live, Slots, Idle

(* schedule() yields slices that are slices, and a task that has time.     *)
LEMMA ScheduleWorks ==
  ASSUME SchedInv, NEW c \in [Slots -> 0 .. PRIORITY_MAX], Schedule(c)
  PROVE  /\ counter' \in [Slots -> 0 .. PRIORITY_MAX]
         /\ current' \in Live
         /\ counter'[current'] > 0
         /\ \A p \in Live : counter'[p] <= counter'[current']
<1> USE SchedAssumption
<1>1. Live \subseteq Slots /\ Live \subseteq Int /\ 1 \in Live
  BY LiveSlots DEF SchedInv
<1>2. Refill(c) \in [Slots -> 0 .. PRIORITY_MAX]
  BY DEF Refill, SchedInv, TypeOK
<1>3. PICK q \in Live : Refill(c)[q] > 0
  <2>1. CASE AllUsedUp(c)
    <3>1. Refill(c)[1] = priority[1]
      BY <1>1, <2>1 DEF Refill
    <3>2. priority[1] >= PRIORITY_MIN /\ priority[1] \in Int
      BY <1>1 DEF SchedInv, TypeOK
    <3> QED
      BY <1>1, <3>1, <3>2
  <2>2. CASE ~AllUsedUp(c)
    <3>1. PICK q \in Live : c[q] # 0
      BY <2>2 DEF AllUsedUp
    <3> QED
      BY <1>1, <2>2, <3>1 DEF Refill
  <2> QED
    BY <2>1, <2>2
<1>4. /\ current' \in Live
      /\ \A p \in Live : Refill(c)[p] <= Refill(c)[current']
  BY <1>1, <1>2 DEF Schedule, Chosen
<1>5. Refill(c)[current'] > 0
  BY <1>1, <1>2, <1>3, <1>4
<1> QED
  BY <1>2, <1>4, <1>5 DEF Schedule

LEMMA ChargedType ==
  ASSUME SchedInv
  PROVE  Charged \in [Slots -> 0 .. PRIORITY_MAX]
<1>1. current \in Slots
  BY LiveSlots DEF SchedInv
<1> QED
  BY <1>1, SchedAssumption DEF Charged, SchedInv, TypeOK

LEMMA SchedInit == Init => SchedInv
<1> SUFFICES ASSUME Init PROVE SchedInv
  OBVIOUS
<1> USE SchedAssumption DEF Init, Rand
<1>1. \A p \in Live : priority[p] >= PRIORITY_MIN
  BY DEF Live, Slots
<1>2. /\ nr_tasks \in InitTasks .. MaxTasks
      /\ current \in Live \cup {Idle}
      /\ counter \in [Slots -> 0 .. PRIORITY_MAX]
  OBVIOUS
<1>3. priority \in [Slots -> 0 .. PRIORITY_MAX]
  OBVIOUS
<1>4. waited \in [Slots -> 0 .. WaitCap]
  BY DEF WaitCap
<1> QED
  BY <1>1, <1>2, <1>3, <1>4 DEF SchedInv, TypeOK, RunningHasTime

LEMMA SchedStep == SchedInv /\ [Next]_vars => SchedInv'
<1> SUFFICES ASSUME SchedInv, [Next]_vars PROVE SchedInv'
  OBVIOUS
<1> USE SchedAssumption
<1>1. /\ Live \subseteq Slots /\ Live \subseteq Int /\ 1 \in Live
      /\ current \in Slots
  BY LiveSlots DEF SchedInv
<1>2. CASE StartKernel \/ Tick
  <2>1. waited' \in [Slots -> 0 .. WaitCap]
    BY <1>2 DEF StartKernel, Tick, Waits, SchedInv, TypeOK, WaitCap
  <2>2. Live' = Live /\ UNCHANGED <<nr_tasks, priority>>
    BY <1>2 DEF StartKernel, Tick, Live
  <2>3. /\ counter' \in [Slots -> 0 .. PRIORITY_MAX]
        /\ current' \in Live
        /\ counter'[current'] > 0
    <3>1. CASE StartKernel
      BY <3>1, ScheduleWorks DEF StartKernel, SchedInv, TypeOK
    <3>2. CASE Tick
      <4>1. Charged \in [Slots -> 0 .. PRIORITY_MAX]
        BY ChargedType
      <4>2. CASE UsedUp(Charged)
        BY <3>2, <4>1, <4>2, ScheduleWorks DEF Tick
      <4>3. CASE ~UsedUp(Charged)
        <5>1. counter' = Charged /\ current' = current /\ current \in Live
          BY <3>2, <4>3 DEF Tick, SchedInv, TypeOK
        <5>2. Charged[current] # 0
          BY <4>3 DEF UsedUp
        <5> QED
          BY <1>1, <4>1, <5>1, <5>2
      <4> QED
        BY <4>2, <4>3
    <3> QED
      BY <1>2, <3>1, <3>2
  <2> QED
    BY <2>1, <2>2, <2>3 DEF SchedInv, TypeOK, RunningHasTime
<1>3. CASE Fork
  <2>1. /\ nr_tasks \in Slots /\ nr_tasks \notin Live
        /\ Live' = Live \cup {nr_tasks}
        /\ nr_tasks' \in InitTasks .. MaxTasks
    BY <1>3 DEF Fork, SchedInv, TypeOK, Live, Slots
  <2>2. /\ current \in Live /\ current' = current /\ waited' = waited
        /\ current # nr_tasks
    BY <1>3, <2>1 DEF Fork, SchedInv, TypeOK
  <2>3. /\ counter' \in [Slots -> 0 .. PRIORITY_MAX]
        /\ counter'[current] = counter[current]
    BY <1>1, <1>3, <2>1, <2>2 DEF Fork, ChildSlice, SchedInv, TypeOK
  <2>4. /\ priority' \in [Slots -> 0 .. PRIORITY_MAX]
        /\ \A p \in Live' : priority'[p] >= PRIORITY_MIN
    BY <1>1, <1>3, <2>1, <2>2 DEF Fork, SchedInv, TypeOK
  <2> QED
    BY <2>1, <2>2, <2>3, <2>4 DEF SchedInv, TypeOK, RunningHasTime
<1>4. CASE UNCHANGED vars
  BY <1>4 DEF vars, SchedInv, TypeOK, RunningHasTime, Live
<1> QED
  BY <1>2, <1>3, <1>4 DEF Next

LEMMA SchedInvariant == Spec => []SchedInv
BY SchedInit, SchedStep, PTL DEF Spec

(* schedule() always finds a task of the table, and deals out slices that  *)
(* no task exceeds.                                                        *)
THEOREM SchedTypeCorrect == Spec => []TypeOK
BY SchedInvariant, PTL DEF SchedInv

(* The running task always has time left in its slice.                     *)
THEOREM RunningTaskHasTime == Spec => []RunningHasTime
BY SchedInvariant, PTL DEF SchedInv

(* The processor changes hands at the end of a slice only, and goes to a   *)
(* task with the most time left.                                           *)
THEOREM SliceEndSwitches == Spec => SwitchesAtSliceEnd
<1> DEFINE Switches == current' # current =>
                         /\ current # Idle => counter[current] = 1
                         /\ \A p \in Live : counter'[p] <= counter'[current']
<1>1. SchedInv /\ [Next]_vars => [Switches]_vars
  <2> SUFFICES ASSUME SchedInv, Next, current' # current PROVE Switches
    OBVIOUS
  <2> USE SchedAssumption
  <2>1. Live \subseteq Slots /\ current \in Slots
    BY LiveSlots DEF SchedInv
  <2>2. CASE StartKernel
    BY <2>2, ScheduleWorks DEF StartKernel, SchedInv, TypeOK
  <2>3. CASE Tick
    <3>1. UsedUp(Charged) /\ Schedule(Charged)
      BY <2>3 DEF Tick
    <3>2. counter[current] \in 1 .. PRIORITY_MAX
      BY <2>1, <2>3 DEF Tick, SchedInv, TypeOK, RunningHasTime
    <3>3. counter[current] = 1
      BY <2>1, <3>1, <3>2 DEF UsedUp, Charged, SchedInv, TypeOK
    <3> QED
      BY <3>1, <3>3, ChargedType, ScheduleWorks
  <2> QED
    BY <2>2, <2>3 DEF Next, Fork
<1> QED
  BY SchedInvariant, <1>1, PTL DEF Spec, SwitchesAtSliceEnd

-----------------------------------------------------------------------------
(* Sums over finite sets.  What SumOf computes is shown by the smallest    *)
(* set for which it would not: strict inclusion is well founded on the     *)
(* subsets of a finite set.                                                *)

LEMMA SmallestSet ==
  ASSUME NEW S, IsFiniteSet(S), NEW T, T \subseteq SUBSET S, T # {}
  PROVE  \E s \in T : \A t \in T : ~(t \subseteq s /\ t # s)
<1> DEFINE R == StrictSubsetOrdering(S)
<1>1. T \subseteq FiniteSubsetsOf(S)
  BY FS_FiniteSubsetsOfFinite
<1>2. IsWellFoundedOn(R, FiniteSubsetsOf(S))
  BY FS_StrictSubsetOrderingWellFounded
<1> HIDE DEF R
<1>3. PICK s \in T : \A t \in T : ~(<<t, s>> \in R)
  BY <1>1, <1>2, WFMin
<1>4. ASSUME NEW t \in T, t \subseteq s, t # s PROVE FALSE
  <2>1. <<t, s>> \in R
    BY <1>4 DEF R, StrictSubsetOrdering
  <2> QED
    BY <1>3, <1>4, <2>1
<1> QED
  BY <1>3, <1>4

Some(s) == CHOOSE x \in s : TRUE

(* g is the function by which SumOf is defined, on the subsets of S.       *)
Sums(f, S, g) ==
  g = [s \in SUBSET S |-> IF s = {} THEN 0 ELSE f[Some(s)] + g[s \ {Some(s)}]]

Unfolds(f, s) ==
  SumOf(f, s) = IF s = {} THEN 0 ELSE f[Some(s)] + SumOf(f, s \ {Some(s)})

LEMMA SumOfDefined ==
  ASSUME NEW f, NEW S
  PROVE  SumOf(f, S) = (CHOOSE g : Sums(f, S, g))[S]
BY Zenon DEF SumOf, MapThenSumSet, MapThenFoldSet, Sums, Some

(* If the sums of all smaller sets unfold, so does the sum of m.           *)
LEMMA SumUnfoldsNext ==
  ASSUME NEW f, NEW m, IsFiniteSet(m), \A s \in SUBSET m : s # m => Unfolds(f, s)
  PROVE  Unfolds(f, m)
<1> DEFINE Sum(s) == SumOf(f, s)
           g == [s \in SUBSET m |-> IF s = {} THEN 0 ELSE f[Some(s)] + Sum(s \ {Some(s)})]
<1>1. \A s : s # {} => Some(s) \in s
  BY DEF Some
<1>2. \A s \in SUBSET m : s # m => Sum(s) = IF s = {} THEN 0 ELSE f[Some(s)] + Sum(s \ {Some(s)})
  BY DEF Unfolds
<1> HIDE DEF Sum
<1>3. \A s \in SUBSET m : s # m => g[s] = Sum(s)
  BY <1>2
<1>4. Sums(f, m, g)
  <2>1. ASSUME NEW s \in SUBSET m, s # {}
        PROVE  g[s \ {Some(s)}] = Sum(s \ {Some(s)})
    <3>1. s \ {Some(s)} \in SUBSET m /\ s \ {Some(s)} # m
      BY <1>1, <2>1
    <3> QED
      BY <1>3, <3>1
  <2>2. g = [s \in SUBSET m |-> IF s = {} THEN 0 ELSE f[Some(s)] + g[s \ {Some(s)}]]
    BY <2>1
  <2> QED
    BY <2>2 DEF Sums
<1> HIDE DEF g
<1> DEFINE h == CHOOSE k : Sums(f, m, k)
<1>5. Sums(f, m, h)
  BY <1>4
<1>6. Sum(m) = h[m]
  BY SumOfDefined DEF Sum
<1> HIDE DEF h
<1>7. \A s \in SUBSET m : h[s] = IF s = {} THEN 0 ELSE f[Some(s)] + h[s \ {Some(s)}]
  BY <1>5 DEF Sums
<1>8. \A s \in SUBSET m : s # m => h[s] = Sum(s)
  <2> DEFINE T == {s \in SUBSET m : s # m /\ h[s] # Sum(s)}
  <2> SUFFICES ASSUME T # {} PROVE FALSE
    OBVIOUS
  <2>1. PICK k \in T : \A t \in T : ~(t \subseteq k /\ t # k)
    <3>1. T \subseteq SUBSET m
      OBVIOUS
    <3> HIDE DEF T
    <3> QED
      BY <3>1, SmallestSet
  <2>2. CASE k = {}
    BY <1>2, <1>7, <2>1, <2>2
  <2>3. CASE k # {}
    <3> DEFINE l == k \ {Some(k)}
    <3>1. l \in SUBSET m /\ l # m /\ l \subseteq k /\ l # k
      BY <1>1, <2>1, <2>3
    <3>2. h[l] = Sum(l)
      BY <2>1, <3>1
    <3> QED
      BY <1>2, <1>7, <2>1, <2>3, <3>2
  <2> QED
    BY <2>2, <2>3
<1>9. CASE m = {}
  BY <1>6, <1>7, <1>9 DEF Unfolds, Sum
<1>10. CASE m # {}
  <2>1. m \ {Some(m)} \in SUBSET m /\ m \ {Some(m)} # m
    BY <1>1, <1>10
  <2>2. h[m] = f[Some(m)] + h[m \ {Some(m)}] /\ h[m \ {Some(m)}] = Sum(m \ {Some(m)})
    BY <1>7, <1>8, <1>10, <2>1
  <2> QED
    BY <1>6, <1>10, <2>2 DEF Unfolds, Sum
<1> QED
  BY <1>9, <1>10

LEMMA SumUnfolds ==
  ASSUME NEW f, NEW S, IsFiniteSet(S)
  PROVE  \A s \in SUBSET S : Unfolds(f, s)
<1> DEFINE T == {s \in SUBSET S : ~Unfolds(f, s)}
<1> SUFFICES ASSUME T # {} PROVE FALSE
  OBVIOUS
<1>1. PICK m \in T : \A t \in T : ~(t \subseteq m /\ t # m)
  <2>1. T \subseteq SUBSET S
    OBVIOUS
  <2> HIDE DEF T
  <2> QED
    BY <2>1, SmallestSet
<1>2. IsFiniteSet(m) /\ \A s \in SUBSET m : s # m => Unfolds(f, s)
  BY <1>1, FS_Subset
<1> QED
  BY <1>1, <1>2, SumUnfoldsNext

(* The sum of natural numbers is one, and any of them can be taken out.    *)
Splits(f, s) ==
  /\ SumOf(f, s) \in Nat
  /\ \A x \in s : SumOf(f, s) = f[x] + SumOf(f, s \ {x})

LEMMA SumSplits ==
  ASSUME NEW f, NEW S, IsFiniteSet(S), \A x \in S : f[x] \in Nat
  PROVE  \A s \in SUBSET S : Splits(f, s)
<1> DEFINE T == {s \in SUBSET S : ~Splits(f, s)}
<1> SUFFICES ASSUME T # {} PROVE FALSE
  OBVIOUS
<1>1. PICK m \in T : \A t \in T : ~(t \subseteq m /\ t # m)
  <2>1. T \subseteq SUBSET S
    OBVIOUS
  <2> HIDE DEF T
  <2> QED
    BY <2>1, SmallestSet
<1>2. \A s \in SUBSET m : s # m => Splits(f, s)
  BY <1>1
<1>3. Unfolds(f, m)
  BY <1>1, SumUnfolds
<1>4. CASE m = {}
  BY <1>1, <1>3, <1>4 DEF Splits, Unfolds
<1>5. CASE m # {}
  <2> DEFINE c == Some(m)
  <2>1. c \in m
    BY <1>5 DEF Some
  <2>2. SumOf(f, m) = f[c] + SumOf(f, m \ {c})
    BY <1>3, <1>5 DEF Unfolds
  <2> HIDE DEF c
  <2>3. ASSUME NEW x \in m
        PROVE  Splits(f, m \ {x}) /\ f[x] \in Nat
    BY <1>1, <1>2, <2>3
  <2>4. SumOf(f, m) \in Nat
    BY <2>1, <2>2, <2>3 DEF Splits
  <2>5. ASSUME NEW x \in m, x # c
        PROVE  SumOf(f, m) = f[x] + SumOf(f, m \ {x})
    <3> DEFINE r == (m \ {c}) \ {x}
    <3>1. SumOf(f, m \ {c}) = f[x] + SumOf(f, r)
      BY <2>1, <2>3, <2>5 DEF Splits
    <3>2. r = (m \ {x}) \ {c} /\ c \in m \ {x}
      BY <2>1, <2>5
    <3> HIDE DEF r
    <3>3. SumOf(f, m \ {x}) = f[c] + SumOf(f, r)
      BY <2>3, <2>5, <3>2 DEF Splits
    <3>4. SumOf(f, r) \in Nat
      <4>1. r \in SUBSET m /\ r # m
        BY <2>1, <3>2
      <4> QED
        BY <1>2, <4>1 DEF Splits
    <3> QED
      BY <2>1, <2>2, <2>3, <2>5, <3>1, <3>3, <3>4
  <2>6. Splits(f, m)
    BY <2>2, <2>4, <2>5 DEF Splits
  <2> QED
    BY <1>1, <2>6
<1> QED
  BY <1>4, <1>5

(* The sum depends on the values in the set only, and grows with them.     *)
LEMMA SumMonotone ==
  ASSUME NEW f, NEW g, NEW S, IsFiniteSet(S),
         \A x \in S : f[x] \in Nat /\ g[x] \in Nat /\ f[x] <= g[x]
  PROVE  SumOf(f, S) <= SumOf(g, S)
<1> DEFINE T == {s \in SUBSET S : ~(SumOf(f, s) <= SumOf(g, s))}
<1> SUFFICES ASSUME T # {} PROVE FALSE
  OBVIOUS
<1>1. PICK m \in T : \A t \in T : ~(t \subseteq m /\ t # m)
  <2>1. T \subseteq SUBSET S
    OBVIOUS
  <2> HIDE DEF T
  <2> QED
    BY <2>1, SmallestSet
<1>2. \A s \in SUBSET S : Splits(f, s) /\ Splits(g, s)
  BY SumSplits
<1>3. CASE m = {}
  <2>1. SumOf(f, m) = 0 /\ SumOf(g, m) = 0
    BY <1>1, <1>3, SumUnfolds DEF Unfolds
  <2> QED
    BY <1>1, <2>1
<1>4. CASE m # {}
  <2>1. PICK x \in m : TRUE
    BY <1>4
  <2>2. m \ {x} \in SUBSET S /\ m \in SUBSET S /\ SumOf(f, m \ {x}) <= SumOf(g, m \ {x})
    BY <1>1, <2>1
  <2>3. /\ SumOf(f, m) = f[x] + SumOf(f, m \ {x}) /\ SumOf(f, m \ {x}) \in Nat
        /\ SumOf(g, m) = g[x] + SumOf(g, m \ {x}) /\ SumOf(g, m \ {x}) \in Nat
    BY <1>2, <2>1, <2>2 DEF Splits
  <2> QED
    BY <1>1, <2>1, <2>2, <2>3
<1> QED
  BY <1>3, <1>4

(* One value less by one makes the sum less by one.                        *)
LEMMA SumAgrees ==
  ASSUME NEW f, NEW g, NEW S, IsFiniteSet(S), \A x \in S : f[x] \in Nat /\ g[x] = f[x]
  PROVE  SumOf(f, S) = SumOf(g, S) /\ SumOf(f, S) \in Nat
<1>1. SumOf(f, S) <= SumOf(g, S) /\ SumOf(g, S) <= SumOf(f, S)
  BY SumMonotone
<1>2. SumOf(f, S) \in Nat /\ SumOf(g, S) \in Nat
  BY SumSplits DEF Splits
<1> QED
  BY <1>1, <1>2

LEMMA SumLess ==
  ASSUME NEW f, NEW g, NEW S, IsFiniteSet(S), \A x \in S : f[x] \in Nat /\ g[x] \in Nat,
         NEW c \in S, g[c] = f[c] - 1, \A x \in S : x # c => g[x] = f[x]
  PROVE  SumOf(g, S) = SumOf(f, S) - 1
<1>1. /\ SumOf(f, S) = f[c] + SumOf(f, S \ {c})
      /\ SumOf(g, S) = g[c] + SumOf(g, S \ {c})
  BY SumSplits DEF Splits
<1>2. IsFiniteSet(S \ {c})
  BY FS_Subset
<1>3. SumOf(f, S \ {c}) = SumOf(g, S \ {c}) /\ SumOf(f, S \ {c}) \in Nat
  BY <1>2, SumAgrees
<1> QED
  BY <1>1, <1>3

LEMMA SumAdds ==
  ASSUME NEW f, NEW S, IsFiniteSet(S), NEW n, n \notin S,
         \A x \in S \cup {n} : f[x] \in Nat
  PROVE  SumOf(f, S \cup {n}) = f[n] + SumOf(f, S) /\ SumOf(f, S) \in Nat
<1>1. IsFiniteSet(S \cup {n}) /\ (S \cup {n}) \ {n} = S
  BY FS_AddElement
<1>2. Splits(f, S \cup {n}) /\ Splits(f, S)
  BY <1>1, SumSplits
<1> QED
  BY <1>1, <1>2 DEF Splits

-----------------------------------------------------------------------------
(* How long a task waits *)

Others(p) == Live \ {p}
Left(p)   == SumOf(counter, Others(p))     \* what the others have of their slices
Turns(p)  == SumOf(priority, Others(p))    \* one slice of each of them

(* A task without time waits for what is left of this round, one with time *)
(* left also for the round before, in which it has used up its slice.      *)
WaitInv ==
  /\ \A p \in Live : counter[p] <= priority[p]
  /\ current = Idle => \A p \in Live : counter[p] = 0
  /\ \A p \in Slots : p \notin Live \/ current \in {p, Idle} => waited[p] = 0
  /\ \A p \in Live : current \notin {p, Idle} =>
       waited[p] + Left(p) <= 1 + Turns(p) + (IF counter[p] = 0 THEN 0 ELSE Turns(p))

LEMMA SumsAreNat ==
  ASSUME TypeOK, NEW p
  PROVE  /\ IsFiniteSet(Others(p)) /\ Others(p) \subseteq Slots
         /\ \A q \in Slots : counter[q] \in Nat /\ priority[q] \in Nat /\ waited[q] \in Nat
         /\ Left(p) \in Nat /\ Turns(p) \in Nat
<1>1. nr_tasks \in Nat /\ Live \subseteq Slots
  BY SchedAssumption, LiveSlots DEF TypeOK
<1>2. IsFiniteSet(Live)
  BY <1>1, FS_Interval DEF Live
<1>3. IsFiniteSet(Others(p)) /\ Others(p) \subseteq Slots
  BY <1>1, <1>2, FS_Subset DEF Others
<1>4. \A q \in Slots : counter[q] \in Nat /\ priority[q] \in Nat /\ waited[q] \in Nat
  BY SchedAssumption DEF TypeOK, WaitCap
<1>5. Left(p) \in Nat /\ Turns(p) \in Nat
  BY <1>3, <1>4, SumSplits DEF Left, Turns, Splits
<1> QED
  BY <1>3, <1>4, <1>5

LEMMA LeftOverTurns ==
  ASSUME TypeOK, NEW p, \A q \in Live : counter[q] <= priority[q]
  PROVE  Left(p) <= Turns(p)
BY SumsAreNat, SumMonotone DEF Left, Turns, Others

(* While another task runs, the others have time left.                     *)
LEMMA SomethingLeft ==
  ASSUME SchedInv, NEW p \in Live, current \notin {p, Idle}
  PROVE  Left(p) >= 1
<1>1. current \in Others(p) /\ counter[current] >= 1
  <2>1. current \in Others(p) /\ counter[current] > 0
    BY DEF SchedInv, TypeOK, Others, RunningHasTime
  <2>2. counter[current] \in Nat
    BY <2>1, SumsAreNat DEF SchedInv
  <2> QED
    BY <2>1, <2>2
<1>2. IsFiniteSet(Others(p)) /\ \A q \in Others(p) : counter[q] \in Nat
  BY SumsAreNat DEF SchedInv
<1>3. /\ Left(p) = counter[current] + SumOf(counter, Others(p) \ {current})
      /\ SumOf(counter, Others(p) \ {current}) \in Nat
  BY <1>1, <1>2, SumSplits DEF Left, Splits
<1> QED
  BY <1>1, <1>2, <1>3

LEMMA WaitBounds == SchedInv /\ WaitInv => BoundedWait
<1> SUFFICES ASSUME SchedInv, WaitInv, NEW p \in Live
             PROVE  waited[p] <= 2 * Turns(p)
  BY DEF BoundedWait, Turns, Others
<1>1. p \in Slots /\ waited[p] \in Nat /\ Turns(p) \in Nat /\ Left(p) \in Nat
  BY LiveSlots, SumsAreNat DEF SchedInv
<1>2. CASE current \in {p, Idle}
  BY <1>1, <1>2 DEF WaitInv
<1>3. CASE current \notin {p, Idle}
  BY <1>1, <1>3, SomethingLeft DEF WaitInv
<1> QED
  BY <1>2, <1>3

LEMMA WaitInit == Init => WaitInv
<1> SUFFICES ASSUME Init PROVE WaitInv
  OBVIOUS
<1>1. /\ current = Idle /\ \A p \in Slots : counter[p] = 0 /\ waited[p] = 0
      /\ Live \subseteq Slots /\ \A p \in Live : priority[p] >= 0
  BY SchedAssumption DEF Init, Live, Slots, Rand
<1> QED
  BY <1>1 DEF WaitInv

(* A tick is added to what the tasks have waited, if need be.              *)
LEMMA WaitsOn ==
  ASSUME SchedInv, Waits
  PROVE  /\ \A p \in Slots : waited'[p] <= waited[p] + 1 /\ waited'[p] \in Nat
         /\ \A p \in Slots : p \notin Live \/ p = current' => waited'[p] = 0
<1>1. WaitCap \in Nat /\ \A p \in Slots : waited[p] \in 0 .. WaitCap
  <2>1. MaxTasks - 2 \in Nat /\ PRIORITY_MAX \in Nat
    BY SchedAssumption
  <2>2. (MaxTasks - 2) * PRIORITY_MAX \in Nat
    BY <2>1
  <2>3. 2 * (MaxTasks - 2) * PRIORITY_MAX = 2 * ((MaxTasks - 2) * PRIORITY_MAX)
    BY <2>1
  <2>4. WaitCap \in Nat
    BY <2>2, <2>3 DEF WaitCap
  <2> QED
    BY <2>4 DEF SchedInv, TypeOK
<1> QED
  BY <1>1 DEF Waits

(* A step that schedules: the slices c are as do_timer leaves them.        *)
LEMMA ScheduleWaits ==
  ASSUME SchedInv, WaitInv, UNCHANGED <<nr_tasks, priority>>, Waits,
         NEW c \in [Slots -> 0 .. PRIORITY_MAX], Schedule(c),
         \/ current = Idle /\ c = counter
         \/ /\ current # Idle
            /\ c = [counter EXCEPT ![current] = 0] /\ counter[current] = 1
  PROVE  WaitInv'
<1> USE SchedAssumption
<1>1. /\ Live' = Live /\ Live \subseteq Slots /\ \A p : Others(p)' = Others(p)
      /\ current \in Live \cup {Idle} /\ TypeOK
  BY LiveSlots DEF Live, Others, SchedInv, TypeOK
<1>2. /\ counter' \in [Slots -> 0 .. PRIORITY_MAX] /\ current' \in Live /\ current' # Idle
      /\ counter' = Refill(c)
  BY ScheduleWorks DEF Schedule, Live, Idle
<1>3. /\ \A p \in Slots : waited'[p] <= waited[p] + 1 /\ waited'[p] \in Nat
      /\ \A p \in Slots : p \notin Live \/ p = current' => waited'[p] = 0
  BY WaitsOn
<1>4. \A p \in Slots : /\ counter[p] \in Nat /\ priority[p] \in Nat /\ waited[p] \in Nat
                       /\ counter'[p] \in Nat /\ c[p] \in Nat
  BY <1>1, <1>2, SumsAreNat
<1>5. \A p \in Live : c[p] <= counter[p] /\ counter[p] <= priority[p]
  BY <1>1, <1>4 DEF WaitInv
<1>6. \A p \in Live : counter'[p] = IF AllUsedUp(c) THEN priority[p] ELSE c[p]
  BY <1>1, <1>2 DEF Refill
<1>7. \A p \in Live : counter'[p] <= priority'[p]
  BY <1>1, <1>4, <1>5, <1>6
<1>8. ASSUME NEW p \in Live, p # current'
      PROVE  waited'[p] + Left(p)' <= 1 + Turns(p)' + (IF counter'[p] = 0 THEN 0 ELSE Turns(p)')
  <2> DEFINE left == SumOf(counter', Others(p))
  <2>1. Left(p)' = left /\ Turns(p)' = Turns(p)
    BY <1>1 DEF Left, Turns
  <2>2. /\ IsFiniteSet(Others(p)) /\ Others(p) \subseteq Slots /\ Others(p) \subseteq Live
        /\ Left(p) \in Nat /\ Turns(p) \in Nat
    BY <1>1, SumsAreNat DEF Others
  <2>3. left \in Nat /\ left <= Turns(p)
    <3>1. left \in Nat
      BY <1>4, <2>2, SumSplits DEF Splits
    <3>2. \A q \in Others(p) : counter'[q] \in Nat /\ priority[q] \in Nat /\ counter'[q] <= priority[q]
      BY <1>4, <1>7, <2>2
    <3> QED
      BY <2>2, <3>1, <3>2, SumMonotone DEF Turns
  <2> HIDE DEF left
  <2>4. p \in Slots /\ waited[p] \in Nat /\ waited'[p] \in Nat /\ waited'[p] <= waited[p] + 1
    BY <1>1, <1>3, <1>4
  <2>5. CASE current \in {p, Idle}
    <3>1. waited[p] = 0
      BY <2>4, <2>5 DEF WaitInv
    <3> QED
      BY <2>1, <2>2, <2>3, <2>4, <3>1
  <2>6. CASE current \notin {p, Idle}
    <3>1. /\ waited[p] + Left(p) <= 1 + Turns(p) + (IF counter[p] = 0 THEN 0 ELSE Turns(p))
          /\ Left(p) >= 1 /\ c[p] = counter[p]
      BY <1>1, <2>6, SomethingLeft DEF WaitInv
    <3>2. CASE AllUsedUp(c)
      <4>1. counter[p] = 0 /\ counter'[p] = priority[p] /\ priority[p] >= 1
        BY <1>4, <1>6, <2>4, <3>1, <3>2 DEF AllUsedUp, SchedInv
      <4> QED
        BY <2>1, <2>2, <2>3, <2>4, <3>1, <4>1
    <3>3. CASE ~AllUsedUp(c)
      <4>1. counter'[p] = counter[p]
        BY <1>6, <3>1, <3>3
      <4>2. left = Left(p) - 1
        <5>1. current \in Others(p) /\ counter'[current] = counter[current] - 1
          BY <1>1, <1>6, <2>6, <3>3 DEF Others
        <5>2. \A q \in Others(p) : q # current => counter'[q] = counter[q]
          BY <1>1, <1>6, <2>2, <2>6, <3>3
        <5>3. \A q \in Others(p) : counter[q] \in Nat /\ counter'[q] \in Nat
          BY <1>4, <2>2
        <5> QED
          BY <2>2, <5>1, <5>2, <5>3, SumLess DEF Left, left
      <4> QED
        BY <2>1, <2>2, <2>3, <2>4, <3>1, <4>1, <4>2
    <3> QED
      BY <3>2, <3>3
  <2> QED
    BY <2>5, <2>6
<1> QED
  BY <1>1, <1>2, <1>3, <1>7, <1>8 DEF WaitInv

(* A child waits from now on, and delays the others by its parent's slice. *)
LEMMA ForkWaits ==
  ASSUME SchedInv, WaitInv, Fork
  PROVE  WaitInv'
<1> USE SchedAssumption
<1> DEFINE n == nr_tasks
<1>1. /\ n \in Slots /\ n \notin Live /\ Live' = Live \cup {n} /\ Live \subseteq Slots
      /\ current \in Live /\ current' = current /\ current # n /\ waited' = waited
      /\ current # Idle
  BY LiveSlots DEF Fork, SchedInv, TypeOK, Live, Slots
<1>2. /\ counter' = [counter EXCEPT ![n] = counter[current]]
      /\ priority' = [priority EXCEPT ![n] = priority[current]]
  BY DEF Fork, ChildSlice
<1>3. /\ \A q \in Slots : counter[q] \in Nat /\ priority[q] \in Nat
      /\ DOMAIN counter = Slots /\ DOMAIN priority = Slots
      /\ TypeOK
  BY SumsAreNat DEF SchedInv, TypeOK
<1>4. /\ counter'[n] = counter[current] /\ priority'[n] = priority[current]
      /\ \A q \in Slots : q # n => counter'[q] = counter[q] /\ priority'[q] = priority[q]
  BY <1>1, <1>2, <1>3
<1> HIDE DEF n
<1>5. counter[current] <= priority[current] /\ counter[current] \in Nat /\ priority[current] \in Nat
  BY <1>1, <1>3 DEF WaitInv
<1>6. \A p \in Live' : counter'[p] <= priority'[p]
  BY <1>1, <1>4, <1>5 DEF WaitInv
<1>7. \A p \in Slots : p \notin Live' \/ current' \in {p, Idle} => waited'[p] = 0
  BY <1>1 DEF WaitInv
<1>8. ASSUME NEW p \in Live', p # current
      PROVE  waited'[p] + Left(p)' <= 1 + Turns(p)' + (IF counter'[p] = 0 THEN 0 ELSE Turns(p)')
  <2>1. /\ Left(p)' = SumOf(counter', Others(p)') /\ Turns(p)' = SumOf(priority', Others(p)')
        /\ Others(p)' = Live' \ {p}
    BY DEF Left, Turns, Others
  <2>2. /\ IsFiniteSet(Others(p)) /\ Others(p) \subseteq Live
        /\ Left(p) \in Nat /\ Turns(p) \in Nat
    BY <1>3, SumsAreNat DEF Others
  <2>3. \A q \in Live : /\ counter[q] \in Nat /\ counter'[q] = counter[q]
                        /\ priority[q] \in Nat /\ priority'[q] = priority[q]
    BY <1>1, <1>3, <1>4
  <2>4. SumOf(counter', Others(p)) = Left(p) /\ SumOf(priority', Others(p)) = Turns(p)
    BY <2>2, <2>3, SumAgrees DEF Left, Turns
  <2>5. CASE p = n
    <3>1. Others(p)' = Others(p)
      BY <1>1, <2>1, <2>5 DEF Others
    <3>2. Left(p) <= Turns(p)
      BY <1>3, LeftOverTurns DEF WaitInv
    <3>3. waited'[p] = 0
      BY <1>1, <2>5 DEF WaitInv
    <3> QED
      BY <2>1, <2>2, <2>4, <3>1, <3>2, <3>3
  <2>6. CASE p # n
    <3>1. p \in Live /\ p \in Slots /\ Others(p)' = Others(p) \cup {n} /\ n \notin Others(p)
      BY <1>1, <2>1, <2>6 DEF Others
    <3>2. \A q \in Others(p) \cup {n} : counter'[q] \in Nat /\ priority'[q] \in Nat
      BY <1>4, <1>5, <2>2, <2>3
    <3>3. Left(p)' = counter[current] + Left(p)
      BY <1>4, <2>1, <2>2, <2>4, <3>1, <3>2, SumAdds
    <3>4. Turns(p)' = priority[current] + Turns(p)
      BY <1>4, <2>1, <2>2, <2>4, <3>1, <3>2, SumAdds
    <3>5. waited[p] + Left(p) <= 1 + Turns(p) + (IF counter[p] = 0 THEN 0 ELSE Turns(p))
      BY <1>1, <1>8, <3>1 DEF WaitInv
    <3>6. waited[p] \in Nat /\ waited'[p] = waited[p] /\ counter'[p] = counter[p]
      BY <1>1, <1>3, <2>3, <3>1, SumsAreNat
    <3> QED
      BY <1>5, <2>2, <3>3, <3>4, <3>5, <3>6
  <2> QED
    BY <2>5, <2>6
<1> QED
  BY <1>1, <1>6, <1>7, <1>8 DEF WaitInv

(* A tick within a slice: one tick waited, one tick less to wait for.      *)
LEMMA ChargeWaits ==
  ASSUME SchedInv, WaitInv, UNCHANGED <<nr_tasks, priority, current>>, Waits,
         current # Idle, counter' = [counter EXCEPT ![current] = @ - 1]
  PROVE  WaitInv'
<1>1. /\ Live' = Live /\ Live \subseteq Slots /\ \A p : Others(p)' = Others(p)
      /\ current \in Live /\ current' = current /\ TypeOK
  BY LiveSlots DEF Live, Others, SchedInv, TypeOK
<1>2. /\ \A p \in Slots : waited'[p] <= waited[p] + 1 /\ waited'[p] \in Nat
      /\ \A p \in Slots : p \notin Live \/ p = current' => waited'[p] = 0
  BY WaitsOn
<1>3. /\ \A p \in Slots : /\ counter[p] \in Nat /\ priority[p] \in Nat /\ waited[p] \in Nat
                          /\ priority'[p] = priority[p]
      /\ DOMAIN counter = Slots /\ counter[current] > 0
  BY <1>1, SumsAreNat DEF TypeOK, SchedInv, RunningHasTime
<1>4. /\ counter'[current] = counter[current] - 1
      /\ \A q \in Slots : q # current => counter'[q] = counter[q]
      /\ \A q \in Slots : counter'[q] \in Nat
  BY <1>1, <1>3
<1>5. \A p \in Live : counter'[p] <= priority'[p]
  BY <1>1, <1>3, <1>4 DEF WaitInv
<1>6. ASSUME NEW p \in Live, p # current
      PROVE  waited'[p] + Left(p)' <= 1 + Turns(p)' + (IF counter'[p] = 0 THEN 0 ELSE Turns(p)')
  <2>1. /\ IsFiniteSet(Others(p)) /\ Others(p) \subseteq Slots /\ current \in Others(p)
        /\ Left(p) \in Nat /\ Turns(p) \in Nat
    BY <1>1, <1>6, SumsAreNat DEF Others
  <2>2. Left(p)' = SumOf(counter', Others(p)) /\ Turns(p)' = Turns(p)
    BY <1>1 DEF Left, Turns
  <2>3. SumOf(counter', Others(p)) = Left(p) - 1
    <3>1. \A q \in Others(p) : /\ counter[q] \in Nat /\ counter'[q] \in Nat
                               /\ q # current => counter'[q] = counter[q]
      BY <1>3, <1>4, <2>1
    <3> QED
      BY <1>4, <2>1, <3>1, SumLess DEF Left
  <2>4. waited[p] + Left(p) <= 1 + Turns(p) + (IF counter[p] = 0 THEN 0 ELSE Turns(p))
    BY <1>1, <1>3, <1>6 DEF WaitInv
  <2>5. /\ counter'[p] = counter[p] /\ waited'[p] <= waited[p] + 1
        /\ waited[p] \in Nat /\ waited'[p] \in Nat
    <3>1. p \in Slots
      BY <1>1
    <3> QED
      BY <1>2, <1>3, <1>4, <1>6, <3>1
  <2> QED
    BY <2>1, <2>2, <2>3, <2>4, <2>5
<1> QED
  BY <1>1, <1>2, <1>5, <1>6 DEF WaitInv

LEMMA WaitStep == SchedInv /\ WaitInv /\ [Next]_vars => WaitInv'
<1> SUFFICES ASSUME SchedInv, WaitInv, [Next]_vars PROVE WaitInv'
  OBVIOUS
<1>1. CASE StartKernel
  <2>1. current = Idle /\ Schedule(counter) /\ Waits /\ UNCHANGED <<nr_tasks, priority>>
        /\ counter \in [Slots -> 0 .. PRIORITY_MAX]
    BY <1>1 DEF StartKernel, SchedInv, TypeOK
  <2> QED
    BY <2>1, ScheduleWaits
<1>2. CASE Tick
  <2>1. /\ current # Idle /\ Waits /\ UNCHANGED <<nr_tasks, priority>>
        /\ counter[current] > 0 /\ current \in Slots
        /\ counter \in [Slots -> 0 .. PRIORITY_MAX]
    BY <1>2, LiveSlots DEF Tick, SchedInv, TypeOK, RunningHasTime
  <2>2. Charged = [counter EXCEPT ![current] = @ - 1]
    BY <2>1 DEF Charged
  <2>3. CASE UsedUp(Charged)
    <3>1. Schedule(Charged) /\ Charged[current] = 0
      BY <1>2, <2>3 DEF Tick, UsedUp
    <3>2. counter[current] = 1
      BY <2>1, <2>2, <3>1, SchedAssumption
    <3>3. Charged = [counter EXCEPT ![current] = 0]
      BY <2>2, <3>2
    <3>4. Charged \in [Slots -> 0 .. PRIORITY_MAX]
      BY ChargedType
    <3> QED
      BY <2>1, <3>1, <3>2, <3>3, <3>4, ScheduleWaits
  <2>4. CASE ~UsedUp(Charged)
    <3>1. counter' = Charged /\ current' = current
      BY <1>2, <2>4 DEF Tick
    <3> QED
      BY <2>1, <2>2, <3>1, ChargeWaits
  <2> QED
    BY <2>3, <2>4
<1>3. CASE Fork
  BY <1>3, ForkWaits
<1>4. CASE UNCHANGED vars
  BY <1>4 DEF vars, WaitInv, Live, Left, Turns, Others
<1> QED
  BY <1>1, <1>2, <1>3, <1>4 DEF Next

(* No task waits longer than it takes each of the others to use up two     *)
(* slices, for any number of tasks, of forks and any lengths of slices.    *)
THEOREM WaitIsBounded == Spec => []BoundedWait
<1>1. Spec => []WaitInv
  BY WaitInit, WaitStep, SchedInvariant, PTL DEF Spec
<1> QED
  BY <1>1, SchedInvariant, WaitBounds, PTL
=============================================================================

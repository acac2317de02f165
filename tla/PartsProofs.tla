---------------------------- MODULE PartsProofs ----------------------------
(***************************************************************************)
(* The theorems about FilePage, NestedTrap, Boot, PageTable, InlineAsm and *)
(* VmaList, for the specification in which they are model-checked: while a *)
(* part runs, the inductive invariant of that part holds.  The lemmas      *)
(* about Boot and PageTable are in modules of their own, those about the   *)
(* others here.                                                            *)
(***************************************************************************)
EXTENDS MCParts, SequenceTheorems, WellFoundedInduction, TLAPS

BootKept   == part = "boot" => Start!BootInv

(* A step of the system is one of the part that runs, or changes nothing   *)
(* of it.                                                                  *)
LEMMA PartsStep ==
  ASSUME [Next]_vars
  PROVE  /\ part' = part
         /\ part = "file" => [File!Next]_fileVars
         /\ part = "list" => [List!Next]_listVars
         /\ part = "walk" => [Walk!Next]_walkVars
         /\ part = "nested" => [Nested!Next]_nestedVars
         /\ part = "boot" => [Start!Next]_bootVars
         /\ part = "asm" => [Call!Next]_asmVars
BY DEF Next, vars

-----------------------------------------------------------------------------
(* Demand loading, for pages of any size, any number of them and all        *)
(* segments                                                                *)

Ram == PGSIZE .. (NFrames + 2) * PGSIZE - 1

(* Pages are mapped to frames, and every frame is in memory, with the page *)
(* behind the last one.                                                    *)
FileInv ==
  /\ vma \in Vmas
  /\ table \in [File!Pages -> File!Frames \cup {File!None}]
  /\ DOMAIN ram = Ram

LEMMA Division ==
  ASSUME File!FilePageAssumption, NEW a \in Nat
  PROVE  /\ a \div PGSIZE \in Nat
         /\ a % PGSIZE \in 0 .. PGSIZE - 1
         /\ a = PGSIZE * (a \div PGSIZE) + (a % PGSIZE)
         /\ File!PGROUNDDOWN(a) = PGSIZE * (a \div PGSIZE)
<1>1. PGSIZE \in Nat /\ PGSIZE > 0
  BY DEF File!FilePageAssumption
<1>2. a \div PGSIZE \in Nat /\ a % PGSIZE \in 0 .. PGSIZE - 1
  BY <1>1
<1>3. a % PGSIZE = a - PGSIZE * (a \div PGSIZE)
  BY <1>1
<1> QED
  BY <1>1, <1>2, <1>3 DEF File!PGROUNDDOWN

(* The bytes of a segment's file lie in user pages.                        *)
LEMMA AddressInPages ==
  ASSUME File!FilePageAssumption, vma \in Vmas, NEW a \in vma.vm_start .. File!FileEnd - 1
  PROVE  a \div PGSIZE \in File!Pages /\ a % PGSIZE \in 0 .. PGSIZE - 1
<1> DEFINE g == a \div PGSIZE
<1>1. /\ PGSIZE \in Nat /\ PGSIZE > 0 /\ NPages \in Nat /\ NPages * PGSIZE \in Nat
      /\ a \in Nat /\ a < NPages * PGSIZE
  BY DEF File!FilePageAssumption, File!FileEnd
<1>2. g \in Nat /\ a % PGSIZE \in 0 .. PGSIZE - 1 /\ a = PGSIZE * g + (a % PGSIZE)
  BY <1>1, Division
<1> HIDE DEF g
<1>3. g < NPages
  <2> SUFFICES ASSUME g >= NPages PROVE FALSE
    BY <1>1, <1>2
  <2>1. NPages * PGSIZE <= g * PGSIZE /\ g * PGSIZE \in Nat /\ g * PGSIZE = PGSIZE * g
    BY <1>1, <1>2
  <2> QED
    BY <1>1, <1>2, <2>1
<1> QED
  BY <1>1, <1>2, <1>3 DEF File!Pages, g

LEMMA LessThanPage ==
  ASSUME File!FilePageAssumption, NEW a \in Nat
  PROVE  File!PGROUNDDOWN(a) < PGSIZE <=> a < PGSIZE
<1> DEFINE q == a \div PGSIZE
           x == a % PGSIZE
<1>1. PGSIZE \in Nat /\ PGSIZE > 0
  BY DEF File!FilePageAssumption
<1>2. q \in Nat /\ x \in 0 .. PGSIZE - 1 /\ a = PGSIZE * q + x /\ File!PGROUNDDOWN(a) = PGSIZE * q
  BY Division
<1> HIDE DEF q, x
<1>3. CASE q = 0
  BY <1>1, <1>2, <1>3
<1>4. CASE q > 0
  <2>1. PGSIZE * q >= PGSIZE * 1
    BY <1>1, <1>2, <1>4
  <2> QED
    BY <1>1, <1>2, <2>1
<1> QED
  BY <1>2, <1>3, <1>4

LEMMA PageAndOffset ==
  ASSUME File!FilePageAssumption, NEW g \in Int, NEW x \in 0 .. PGSIZE - 1
  PROVE  (PGSIZE * g + x) \div PGSIZE = g /\ (PGSIZE * g + x) % PGSIZE = x
<1>1. PGSIZE \in Nat /\ PGSIZE > 0
  BY DEF File!FilePageAssumption
<1> QED
  BY <1>1

(* No byte lies in two frames.                                             *)
LEMMA FramesApart ==
  ASSUME File!FilePageAssumption, NEW f \in Nat, NEW h \in Nat, f # h,
         NEW x \in 0 .. PGSIZE - 1, NEW y \in 0 .. PGSIZE - 1
  PROVE  f * PGSIZE + x # h * PGSIZE + y
<1>1. PGSIZE \in Nat /\ PGSIZE > 0
  BY DEF File!FilePageAssumption
<1>2. CASE f < h
  <2>1. (f + 1) * PGSIZE <= h * PGSIZE /\ (f + 1) * PGSIZE = f * PGSIZE + PGSIZE
    BY <1>1, <1>2
  <2> QED
    BY <1>1, <2>1
<1>3. CASE h < f
  <2>1. (h + 1) * PGSIZE <= f * PGSIZE /\ (h + 1) * PGSIZE = h * PGSIZE + PGSIZE
    BY <1>1, <1>3
  <2> QED
    BY <1>1, <2>1
<1> QED
  BY <1>2, <1>3

LEMMA InRam ==
  ASSUME File!FilePageAssumption, NEW f \in 1 .. NFrames + 1, NEW x \in 0 .. PGSIZE - 1
  PROVE  f * PGSIZE + x \in Ram
<1>1. PGSIZE \in Nat /\ PGSIZE > 0 /\ NFrames \in Nat
  BY DEF File!FilePageAssumption
<1>2. 1 * PGSIZE <= f * PGSIZE /\ f * PGSIZE \in Nat
  BY <1>1
<1>3. (f + 1) * PGSIZE <= (NFrames + 2) * PGSIZE /\ (f + 1) * PGSIZE = f * PGSIZE + PGSIZE
  BY <1>1
<1>4. (NFrames + 2) * PGSIZE \in Nat
  BY <1>1
<1> QED
  BY <1>1, <1>2, <1>3, <1>4 DEF Ram

-----------------------------------------------------------------------------
(* One fault *)

Spill == File!Spilled(vma)

LEMMA SpillShort ==
  ASSUME File!FilePageAssumption, FileInv
  PROVE  /\ Spill \in Nat /\ Spill < PGSIZE
         /\ vma.vm_filesz < PGSIZE => (vma.vm_start % PGSIZE) + vma.vm_filesz <= PGSIZE + Spill
<1> DEFINE x   == vma.vm_start % PGSIZE
           len == vma.vm_filesz
<1>1. PGSIZE \in Nat /\ PGSIZE > 0 /\ len \in Nat /\ vma.vm_start \in Nat
  BY DEF File!FilePageAssumption, FileInv
<1>2. x \in 0 .. PGSIZE - 1
  BY <1>1, Division
<1>3. Spill = IF len < PGSIZE /\ x + len - PGSIZE > 0 THEN x + len - PGSIZE ELSE 0
  BY DEF Spill, File!Spilled
<1> HIDE DEF x, len
<1>4. Spill \in Nat /\ Spill < PGSIZE /\ (len < PGSIZE => x + len <= PGSIZE + Spill)
  BY <1>1, <1>2, <1>3
<1> QED
  BY <1>4 DEF x, len

(* The n bytes at offset dst of frame f are those from src of the image on, *)
(* and nothing else has changed but the first k bytes of the frame behind.  *)
Filled(f, dst, src, n, k) ==
  /\ DOMAIN ram' = Ram
  /\ \A h \in 1 .. NFrames + 1, x \in 0 .. PGSIZE - 1 :
       h # f /\ ~(h = f + 1 /\ x < k) => ram'[h * PGSIZE + x] = ram[h * PGSIZE + x]
  /\ \A x \in 0 .. PGSIZE - 1 :
       dst <= x /\ x < dst + n => ram'[f * PGSIZE + x] = src + (x - dst)

(* A copy that ends k bytes behind its page changes nothing else.          *)
LEMMA Copied ==
  ASSUME File!FilePageAssumption, FileInv,
         NEW va, NEW f \in File!Frames, NEW dst \in Nat, NEW src \in Nat, NEW n \in Nat,
         NEW k \in Nat, k < PGSIZE, dst + n <= PGSIZE + k, File!Load(va, f, dst, src, n)
  PROVE  Filled(f, dst, src, n, k)
<1> DEFINE to == f * PGSIZE + dst
<1>1. PGSIZE \in Nat /\ PGSIZE > 0 /\ NFrames \in Nat /\ f \in Nat /\ f * PGSIZE \in Nat
  BY DEF File!FilePageAssumption, File!Frames
<1>2. ram' = [b \in Ram |->
                IF to <= b /\ b < to + n THEN src + (b - to) ELSE ram[b]]
  BY DEF File!Load, FileInv
<1>3. ASSUME NEW h \in 1 .. NFrames + 1, NEW x \in 0 .. PGSIZE - 1, h # f,
             ~(h = f + 1 /\ x < k)
      PROVE  ram'[h * PGSIZE + x] = ram[h * PGSIZE + x]
  <2> DEFINE b == h * PGSIZE + x
  <2>1. b \in Ram /\ h \in Nat
    BY <1>1, InRam
  <2>2. ~(to <= b /\ b < to + n)
    <3> SUFFICES ASSUME to <= b, b < to + n PROVE FALSE
      OBVIOUS
    <3> DEFINE y == b - f * PGSIZE
               z == b - (f + 1) * PGSIZE
    <3>1. b \in Int /\ (f + 1) * PGSIZE = f * PGSIZE + PGSIZE
      BY <1>1, <2>1
    <3>2. y \in 0 .. PGSIZE + k - 1 /\ b = f * PGSIZE + y
      BY <1>1, <3>1
    <3>3. z = y - PGSIZE /\ b = (f + 1) * PGSIZE + z
      BY <1>1, <3>1
    <3> HIDE DEF b, y, z
    <3>4. b = h * PGSIZE + x
      BY DEF b
    <3>5. CASE y < PGSIZE
      <4>1. y \in 0 .. PGSIZE - 1
        BY <1>1, <3>2, <3>5
      <4> QED
        BY <1>1, <1>3, <2>1, <3>2, <3>4, <4>1, FramesApart
    <3>6. CASE y >= PGSIZE
      <4>1. z \in 0 .. PGSIZE - 1 /\ z < k /\ f + 1 \in Nat
        BY <1>1, <3>2, <3>3, <3>6
      <4>2. h = f + 1
        BY <2>1, <3>3, <3>4, <4>1, FramesApart
      <4>3. x = z
        <5>1. PICK m \in Nat : m = (f + 1) * PGSIZE
          BY <1>1, <4>1
        <5>2. b = m + z /\ b = m + x
          BY <3>3, <3>4, <4>2, <5>1
        <5> QED
          BY <4>1, <5>1, <5>2
      <4> QED
        BY <1>3, <4>1, <4>2, <4>3
    <3> QED
      BY <1>1, <3>2, <3>5, <3>6
  <2> HIDE DEF b
  <2>3. ram'[b] = ram[b]
    BY <1>2, <2>1, <2>2
  <2> QED
    BY <2>3 DEF b
<1>4. ASSUME NEW x \in 0 .. PGSIZE - 1, dst <= x, x < dst + n
      PROVE  ram'[f * PGSIZE + x] = src + (x - dst)
  <2>1. f * PGSIZE + x \in Ram
    BY <1>1, InRam DEF File!Frames
  <2>2. /\ to <= f * PGSIZE + x /\ f * PGSIZE + x < to + n
        /\ (f * PGSIZE + x) - to = x - dst
    BY <1>1, <1>4
  <2> QED
    BY <1>2, <2>1, <2>2
<1> QED
  BY <1>2, <1>3, <1>4 DEF Filled

(* The n bytes from src of the file, at offset dst, are all the bytes of   *)
(* the segment that belong on page g.                                      *)
Serves(g, dst, src, n) ==
  \A a \in vma.vm_start .. File!FileEnd - 1 :
    a \div PGSIZE = g =>
      /\ dst <= a % PGSIZE /\ a % PGSIZE < dst + n
      /\ src + ((a % PGSIZE) - dst) = vma.vm_pgoff + (a - vma.vm_start)

(* Each of the four ways goes no further than Spill behind its page and,   *)
(* for a segment as the linker makes it, brings all that belongs there.    *)
LEMMA FaultLoads ==
  ASSUME File!FilePageAssumption, FileInv,
         NEW g \in File!Pages, NEW f \in File!Frames,
         \/ File!FaultWhole(g * PGSIZE, f) \/ File!FaultFirst(g * PGSIZE, f)
         \/ File!FaultLast(g * PGSIZE, f) \/ File!FaultMiddle(g * PGSIZE, f)
  PROVE  \E dst, src, n \in Nat :
           /\ dst + n <= PGSIZE + Spill
           /\ File!Load(g * PGSIZE, f, dst, src, n)
           /\ File!AsLinked(vma) => Serves(g, dst, src, n)
<1> DEFINE va == g * PGSIZE
           s == vma.vm_start
           q == s \div PGSIZE
           x == s % PGSIZE
           len == vma.vm_filesz
<1>1. /\ PGSIZE \in Nat /\ PGSIZE > 0 /\ g \in Nat /\ va \in Nat
      /\ s \in Nat /\ len \in Nat /\ vma.vm_pgoff \in Nat
      /\ File!FileEnd = s + len /\ File!FileEnd \in Nat
  BY DEF File!FilePageAssumption, FileInv, File!Pages, File!FileEnd
<1>2. /\ q \in Nat /\ x \in 0 .. PGSIZE - 1 /\ s = PGSIZE * q + x
      /\ File!PGROUNDDOWN(s) = PGSIZE * q
  BY <1>1, Division
<1>3. File!FileEnd % PGSIZE \in 0 .. PGSIZE - 1
  BY <1>1, Division
<1>4. File!Whole <=> len < PGSIZE
  BY <1>1, LessThanPage DEF File!Whole
<1>5. ASSUME NEW a \in s .. File!FileEnd - 1
      PROVE  /\ a \in Nat /\ a \div PGSIZE \in Nat /\ a % PGSIZE \in 0 .. PGSIZE - 1
             /\ a = PGSIZE * (a \div PGSIZE) + (a % PGSIZE)
  BY <1>1, Division
<1> HIDE DEF s, q, x, len
<1>6. CASE File!FaultWhole(va, f)
  <2>1. len < PGSIZE /\ x + len <= PGSIZE + Spill /\ File!Load(va, f, x, x, len)
    BY <1>4, <1>6, SpillShort DEF File!FaultWhole, File!WholeSize, s, x, len
  <2>2. ASSUME vma.vm_pgoff = x, Spill = 0, NEW a \in s .. File!FileEnd - 1, a \div PGSIZE = g
        PROVE  /\ x <= a % PGSIZE /\ a % PGSIZE < x + len
               /\ x + ((a % PGSIZE) - x) = vma.vm_pgoff + (a - s)
    <3> DEFINE o == x + (a - s)
    <3>1. o \in 0 .. PGSIZE - 1 /\ a = PGSIZE * q + o /\ x <= o /\ o < x + len
      <4>1. PICK e \in Nat : e = File!FileEnd
        BY <1>1
      <4>2. a \in Nat /\ s <= a /\ a < s + len
        BY <1>1, <1>5, <2>2, <4>1
      <4>3. PICK m \in Nat : m = PGSIZE * q
        BY <1>1, <1>2
      <4>4. s = m + x
        BY <1>2, <4>3
      <4>5. x + len <= PGSIZE
        BY <1>1, <2>1, <2>2
      <4>6. o \in 0 .. PGSIZE - 1 /\ a = m + o /\ x <= o /\ o < x + len
        BY <1>1, <1>2, <4>2, <4>4, <4>5
      <4> QED
        BY <4>3, <4>6
    <3> HIDE DEF o
    <3>2. a % PGSIZE = o
      BY <1>2, <3>1, PageAndOffset
    <3> QED
      BY <1>1, <1>2, <2>2, <3>1, <3>2 DEF o
  <2>3. File!AsLinked(vma) => Serves(g, x, x, len)
    BY <2>2 DEF File!AsLinked, Serves, Spill, s, x
  <2>4. x \in Nat
    BY <1>1, <1>2
  <2> QED
    BY <1>1, <2>1, <2>3, <2>4
<1>7. CASE File!FaultFirst(va, f)
  <2>1. /\ len >= PGSIZE /\ va = PGSIZE * q
        /\ File!Load(va, f, x, x, File!FirstSize)
    BY <1>1, <1>2, <1>4, <1>7 DEF File!FaultFirst, File!First, s, x
  <2>2. File!FirstSize = IF x = 0 THEN 0 ELSE PGSIZE - x
    <3> DEFINE y == PGSIZE - x
    <3>1. CASE x = 0
      <4> DEFINE m == 1 - q
      <4>1. PGSIZE - s = PGSIZE * m + 0 /\ 0 \in 0 .. PGSIZE - 1 /\ m \in Int
        BY <1>1, <1>2, <3>1
      <4> HIDE DEF m
      <4>2. (PGSIZE * m + 0) % PGSIZE = 0
        BY <4>1, PageAndOffset
      <4> QED
        BY <3>1, <4>1, <4>2 DEF File!FirstSize, s
    <3>2. CASE x # 0
      <4> DEFINE m == -q
      <4>1. PGSIZE - s = PGSIZE * m + y /\ y \in 0 .. PGSIZE - 1 /\ m \in Int
        BY <1>1, <1>2, <3>2
      <4> HIDE DEF m, y
      <4>2. (PGSIZE * m + y) % PGSIZE = y
        BY <4>1, PageAndOffset
      <4> QED
        BY <3>2, <4>1, <4>2 DEF File!FirstSize, s, y
    <3> QED
      BY <3>1, <3>2
  <2>3. File!FirstSize \in Nat /\ x + File!FirstSize <= PGSIZE
    BY <1>1, <1>2, <2>2
  <2>4. q = g
    <3>1. PGSIZE * g + 0 = PGSIZE * q + 0 /\ 0 \in 0 .. PGSIZE - 1
      BY <1>1, <1>2, <2>1
    <3>2. (PGSIZE * g + 0) \div PGSIZE = g /\ (PGSIZE * q + 0) \div PGSIZE = q
      BY <1>1, <1>2, <3>1, PageAndOffset
    <3> QED
      BY <3>1, <3>2
  <2>5. ASSUME vma.vm_pgoff = x, x # 0, NEW a \in s .. File!FileEnd - 1, a \div PGSIZE = g
        PROVE  /\ x <= a % PGSIZE /\ a % PGSIZE < x + File!FirstSize
               /\ x + ((a % PGSIZE) - x) = vma.vm_pgoff + (a - s)
    <3>1. a % PGSIZE = x + (a - s)
      BY <1>1, <1>2, <1>5, <2>4, <2>5
    <3> QED
      BY <1>1, <1>2, <1>5, <2>2, <2>5, <3>1
  <2>6. File!AsLinked(vma) => Serves(g, x, x, File!FirstSize)
    BY <2>1, <2>5 DEF File!AsLinked, Serves, s, x, len
  <2>7. x \in Nat /\ x + File!FirstSize <= PGSIZE + Spill
    BY <1>1, <1>2, <2>3, SpillShort
  <2> QED
    BY <2>1, <2>3, <2>6, <2>7
<1>8. CASE File!FaultLast(va, f) \/ File!FaultMiddle(va, f)
  <2> DEFINE n == IF File!Last(va) THEN (File!FileEnd % PGSIZE) + 1 ELSE PGSIZE
             src == va - File!PGROUNDDOWN(s)
  <2>1. len >= PGSIZE /\ va # File!PGROUNDDOWN(s) /\ File!Load(va, f, 0, src, n)
    BY <1>1, <1>3, <1>4, <1>8 DEF File!FaultLast, File!FaultMiddle, File!Last, File!First, s
  <2>2. n \in Nat /\ n <= PGSIZE
    BY <1>1, <1>3
  <2>3. src \in Nat
    <3>1. File!PGROUNDDOWN(s) <= va
      BY <2>1 DEF File!Load, s
    <3> QED
      BY <1>1, <1>2, <3>1
  <2>4. ASSUME vma.vm_pgoff = x, File!FileEnd % PGSIZE # 0,
               NEW a \in s .. File!FileEnd - 1, a \div PGSIZE = g
        PROVE  /\ 0 <= a % PGSIZE /\ a % PGSIZE < 0 + n
               /\ src + ((a % PGSIZE) - 0) = vma.vm_pgoff + (a - s)
    <3>1. a = va + (a % PGSIZE)
      BY <1>1, <1>5, <2>4
    <3>2. src + ((a % PGSIZE) - 0) = vma.vm_pgoff + (a - s)
      <4>1. PICK m \in Nat : m = PGSIZE * q
        BY <1>1, <1>2
      <4>2. PICK r \in Nat : r = a % PGSIZE
        BY <1>1, <1>5
      <4>3. s = m + x /\ src = va - m /\ a = va + r
        BY <1>2, <3>1, <4>1, <4>2
      <4>4. src + (r - 0) = x + (a - s)
        BY <1>1, <1>2, <4>3
      <4> QED
        BY <2>4, <4>2, <4>4
    <3>3. ASSUME File!Last(va) PROVE a % PGSIZE < n
      <4> DEFINE e == File!FileEnd - 1
      <4>1. va = File!PGROUNDDOWN(e) /\ e \in Nat
        BY <1>1, <2>1, <3>3 DEF File!Last
      <4>2. e % PGSIZE \in 0 .. PGSIZE - 1 /\ e = va + (e % PGSIZE)
        <5>1. e % PGSIZE \in 0 .. PGSIZE - 1
          BY <4>1, Division
        <5>2. e = PGSIZE * (e \div PGSIZE) + (e % PGSIZE)
          BY <4>1, Division
        <5>3. File!PGROUNDDOWN(e) = PGSIZE * (e \div PGSIZE)
          BY <4>1, Division
        <5> QED
          BY <4>1, <5>1, <5>2, <5>3
      <4>3. File!FileEnd = PGSIZE * (File!FileEnd \div PGSIZE) + (File!FileEnd % PGSIZE)
            /\ File!FileEnd \div PGSIZE \in Nat
        BY <1>1, Division
      <4>4. File!FileEnd % PGSIZE = (e % PGSIZE) + 1
        <5>1. CASE (e % PGSIZE) + 1 = PGSIZE
          <6>1. File!FileEnd = PGSIZE * (g + 1) + 0 /\ 0 \in 0 .. PGSIZE - 1 /\ g + 1 \in Nat
            <7>1. File!FileEnd = va + PGSIZE
              BY <1>1, <4>1, <4>2, <5>1
            <7>2. PGSIZE * (g + 1) + 0 = va + PGSIZE
              BY <1>1
            <7> QED
              BY <1>1, <7>1, <7>2
          <6>2. File!FileEnd % PGSIZE = 0
            BY <6>1, PageAndOffset
          <6> QED
            BY <2>4, <6>2
        <5>2. CASE (e % PGSIZE) + 1 < PGSIZE
          <6> DEFINE o == (e % PGSIZE) + 1
          <6>1. File!FileEnd = PGSIZE * g + o /\ o \in 0 .. PGSIZE - 1 /\ g \in Int
            BY <1>1, <4>1, <4>2, <5>2
          <6> HIDE DEF o
          <6>2. File!FileEnd % PGSIZE = o
            BY <6>1, PageAndOffset
          <6> QED
            BY <6>2 DEF o
        <5> QED
          BY <1>1, <4>2, <5>1, <5>2
      <4>5. a <= e
        BY <1>1
      <4>6. a % PGSIZE <= e % PGSIZE
        BY <1>1, <1>5, <3>1, <4>1, <4>2, <4>5
      <4> QED
        BY <1>1, <1>3, <1>5, <3>3, <4>2, <4>4, <4>6
    <3> QED
      BY <1>1, <1>5, <3>2, <3>3
  <2> HIDE DEF n, src
  <2>5. File!AsLinked(vma) => Serves(g, 0, src, n)
    BY <2>1, <2>4 DEF File!AsLinked, Serves, s, x, len, File!FileEnd
  <2>6. 0 + n <= PGSIZE + Spill /\ 0 \in Nat
    BY <1>1, <2>2, SpillShort
  <2> QED
    BY <2>1, <2>2, <2>3, <2>5, <2>6
<1> QED
  BY <1>6, <1>7, <1>8

LEMMA StepLoads ==
  ASSUME File!FilePageAssumption, FileInv, File!Next
  PROVE  \E g \in File!Pages, f \in File!Frames, dst, src, n \in Nat :
           /\ dst + n <= PGSIZE + Spill
           /\ File!Load(g * PGSIZE, f, dst, src, n)
           /\ File!AsLinked(vma) => Serves(g, dst, src, n)
BY FaultLoads DEF File!Next

(* What one load does to the tables and to the other pages.                *)
LEMMA LoadKeeps ==
  ASSUME File!FilePageAssumption, FileInv,
         NEW g \in File!Pages, NEW f \in File!Frames, NEW dst \in Nat, NEW src \in Nat, NEW n \in Nat,
         dst + n <= PGSIZE + Spill, File!Load(g * PGSIZE, f, dst, src, n)
  PROVE  /\ FileInv'
         /\ table' = [table EXCEPT ![g] = f]
         /\ \A h \in File!Pages : table[h] # f
         /\ File!OthersKept
<1>1. PGSIZE \in Nat /\ PGSIZE > 0 /\ NFrames \in Nat /\ g \in Nat /\ 0 \in 0 .. PGSIZE - 1
  BY DEF File!FilePageAssumption, File!Pages
<1>2. (g * PGSIZE) \div PGSIZE = g
  <2>1. (PGSIZE * g + 0) \div PGSIZE = g /\ g \in Int
    BY <1>1, PageAndOffset
  <2> QED
    BY <1>1, <2>1
<1>3. table' = [table EXCEPT ![g] = f] /\ vma' = vma /\ \A h \in File!Pages : table[h] # f
  BY <1>2 DEF File!Load
<1>4. Filled(f, dst, src, n, Spill)
  BY Copied, SpillShort
<1>5. FileInv'
  BY <1>3, <1>4 DEF FileInv, Ram, Filled
<1>6. File!OthersKept
  <2>1. File!Filled(f)
    BY <1>3 DEF FileInv, File!Filled
  <2>2. ASSUME NEW h \in 1 .. NFrames + 1, NEW x \in 0 .. PGSIZE - 1,
               ~File!Filled(h), ~(File!Filled(h - 1) /\ x < Spill)
        PROVE  ram'[h * PGSIZE + x] = ram[h * PGSIZE + x]
    <3>1. h # f
      BY <2>1, <2>2
    <3>2. h = f + 1 => h - 1 = f
      BY DEF File!Frames
    <3>3. ~(h = f + 1 /\ x < Spill)
      BY <2>1, <2>2, <3>2
    <3> QED
      BY <1>4, <3>1, <3>3 DEF Filled
  <2> QED
    BY <2>2 DEF File!OthersKept, Spill
<1> QED
  BY <1>3, <1>5, <1>6

LEMMA FileInit ==
  ASSUME File!FilePageAssumption, File!Init
  PROVE  FileInv /\ File!FileBytesLoaded
<1>1. PGSIZE \in Nat /\ PGSIZE > 0
  BY DEF File!FilePageAssumption
<1>2. FileInv
  BY DEF File!Init, FileInv, Ram
<1>3. ASSUME NEW a \in vma.vm_start .. File!FileEnd - 1
      PROVE  a \div PGSIZE \in File!Pages
  BY <1>2, <1>3, AddressInPages DEF FileInv
<1> QED
  BY <1>2, <1>3 DEF File!Init, File!FileBytesLoaded, File!FromOffset

(* A load leaves what the pages in use hold, and its own page gets all the *)
(* bytes of the segment that belong there.                                 *)
LEMMA BytesStep ==
  ASSUME File!FilePageAssumption, FileInv, File!FromOffset, Spill = 0,
         NEW g \in File!Pages, NEW f \in File!Frames, NEW dst \in Nat, NEW src \in Nat, NEW n \in Nat,
         dst + n <= PGSIZE, File!Load(g * PGSIZE, f, dst, src, n), Serves(g, dst, src, n)
  PROVE  File!FromOffset'
<1>1. /\ table' = [table EXCEPT ![g] = f] /\ \A h \in File!Pages : table[h] # f
      /\ vma' = vma /\ File!FileEnd' = File!FileEnd
  <2>1. dst + n <= PGSIZE + Spill
    BY DEF File!FilePageAssumption
  <2>2. table' = [table EXCEPT ![g] = f] /\ \A h \in File!Pages : table[h] # f
    BY <2>1, LoadKeeps
  <2>3. vma' = vma
    BY DEF File!Load
  <2> QED
    BY <2>2, <2>3 DEF File!FileEnd
<1>2. Filled(f, dst, src, n, 0)
  <2>1. 0 \in Nat /\ 0 < PGSIZE /\ dst + n <= PGSIZE + 0
    BY DEF File!FilePageAssumption
  <2> QED
    BY <2>1, Copied
<1>3. ASSUME NEW a \in vma.vm_start .. File!FileEnd - 1, table'[a \div PGSIZE] # File!None
      PROVE  ram'[table'[a \div PGSIZE] * PGSIZE + (a % PGSIZE)]
               = vma.vm_pgoff + (a - vma.vm_start)
  <2> DEFINE h == a \div PGSIZE
             x == a % PGSIZE
  <2>1. h \in File!Pages /\ x \in 0 .. PGSIZE - 1
    BY AddressInPages DEF FileInv
  <2>2. CASE h = g
    <3>1. /\ dst <= x /\ x < dst + n
          /\ src + (x - dst) = vma.vm_pgoff + (a - vma.vm_start)
      BY <2>2 DEF Serves
    <3>2. table'[h] = f
      BY <1>1, <2>2 DEF FileInv
    <3> QED
      BY <1>2, <2>1, <3>1, <3>2 DEF Filled
  <2>3. CASE h # g
    <3>1. table'[h] = table[h] /\ table[h] # f /\ table[h] # File!None
      BY <1>1, <1>3, <2>1, <2>3 DEF FileInv
    <3>2. table[h] \in 1 .. NFrames + 1
      BY <2>1, <3>1 DEF FileInv, File!FilePageAssumption, File!Frames
    <3>3. ram[table[h] * PGSIZE + x] = vma.vm_pgoff + (a - vma.vm_start)
      BY <3>1 DEF File!FromOffset, File!Byte
    <3>4. ~(x < 0)
      BY <2>1 DEF File!FilePageAssumption
    <3>5. ram'[table[h] * PGSIZE + x] = ram[table[h] * PGSIZE + x]
      <4> HIDE DEF x, h
      <4> QED
        BY <1>2, <2>1, <3>1, <3>2, <3>4 DEF Filled
    <3> QED
      BY <3>1, <3>3, <3>5
  <2> QED
    BY <2>2, <2>3
<1> QED
  BY <1>1, <1>3 DEF File!FromOffset, File!Byte

LEMMA FileStep ==
  ASSUME File!FilePageAssumption
  PROVE  FileInv /\ File!FileBytesLoaded /\ [File!Next]_fileVars =>
           FileInv' /\ File!FileBytesLoaded' /\ File!OthersKept
<1> SUFFICES ASSUME FileInv, File!FileBytesLoaded, [File!Next]_fileVars
             PROVE  FileInv' /\ File!FileBytesLoaded' /\ File!OthersKept
  OBVIOUS
<1>1. CASE File!Next
  <2>1. PICK g \in File!Pages, f \in File!Frames, dst, src, n \in Nat :
          /\ dst + n <= PGSIZE + Spill
          /\ File!Load(g * PGSIZE, f, dst, src, n)
          /\ File!AsLinked(vma) => Serves(g, dst, src, n)
    BY <1>1, StepLoads
  <2>2. FileInv' /\ File!OthersKept
    BY <2>1, LoadKeeps
  <2>3. vma' = vma
    BY <2>1 DEF File!Load
  <2>4. ASSUME File!AsLinked(vma) PROVE File!FromOffset'
    <3>1. Spill = 0 /\ File!FromOffset /\ Serves(g, dst, src, n)
      BY <2>1, <2>4 DEF Spill, File!AsLinked, File!FileBytesLoaded
    <3>2. dst + n <= PGSIZE
      BY <2>1, <3>1 DEF File!FilePageAssumption
    <3> QED
      BY <2>1, <3>1, <3>2, BytesStep
  <2> QED
    BY <2>2, <2>3, <2>4 DEF File!FileBytesLoaded
<1>2. CASE UNCHANGED fileVars
  BY <1>2 DEF fileVars, FileInv, File!FileBytesLoaded, File!FromOffset, File!FileEnd,
              File!Byte, File!OthersKept
<1> QED
  BY <1>1, <1>2

FileKept == part = "file" => FileInv /\ File!FileBytesLoaded

LEMMA FileStart == Init => FileKept
BY PartsAssumption, FileInit DEF Init, FileKept

LEMMA FileGoesOn ==
  FileKept /\ [Next]_vars => FileKept' /\ [part = "file" => File!OthersKept]_vars
<1> SUFFICES ASSUME FileKept, [Next]_vars
             PROVE  FileKept' /\ [part = "file" => File!OthersKept]_vars
  OBVIOUS
<1>1. CASE part # "file"
  BY <1>1, PartsStep DEF FileKept
<1>2. CASE part = "file"
  <2>1. [File!Next]_fileVars /\ part' = part
    BY <1>2, PartsStep
  <2>2. FileInv' /\ File!FileBytesLoaded' /\ File!OthersKept
    BY <1>2, <2>1, PartsAssumption, FileStep DEF FileKept
  <2> QED
    BY <2>1, <2>2 DEF FileKept
<1> QED
  BY <1>1, <1>2

(* For every segment, each of the four copies of do_page_fault changes the *)
(* fresh page, and behind it only the bytes by which a segment shorter     *)
(* than a page crosses its end: less than one page, in the next frame.     *)
THEOREM FillsStayConfined == Spec => FillsConfined
BY FileStart, FileGoesOn, PTL DEF Spec, FillsConfined

(* A program finds the bytes of its file on every page, whichever it       *)
(* touches first, if the file is as the linker makes it.                   *)
THEOREM PagesHoldFile == Spec => []FileBytesLoaded
<1>1. FileKept => FileBytesLoaded
  BY DEF FileKept, FileBytesLoaded
<1>2. FileKept /\ [Next]_vars => FileKept'
  BY FileGoesOn
<1> QED
  BY <1>1, <1>2, FileStart, PTL DEF Spec

-----------------------------------------------------------------------------
(* A fault inside SYS_WRITE *)

U(d) == Nested!On("user", d)
K(d) == Nested!On("kernel", d)
Stacks(s, t) == sp = s /\ sscratch = t
Csrs(m, from, cause) == spp = m /\ sepc = from /\ scause = cause
FaultFrame(from) == [scause |-> "page_fault", sepc |-> from]

UserRuns ==
  mode = "u" /\ pc = "user" /\ Stacks(U(0), K(0)) /\ spp = "u" /\ i > last

(* The system call itself, on the kernel stack. *)
SystemCall ==
  /\ mode = "s"
  /\ \/ pc = "_traps" /\ Stacks(U(0), K(0)) /\ Csrs("u", "user", "ecall")
     \/ pc = "push" /\ Stacks(K(1), U(0)) /\ Csrs("u", "user", "ecall")
     \/ /\ pc = "trap_handler" /\ Stacks(K(1), U(0))
        /\ spp = "u" /\ frame["kernel"][1].scause = "ecall"
     \/ pc = "sret" /\ Stacks(K(1), U(0)) /\ spp = "u" /\ sepc = "user" /\ i > last

(* A fault of its reads, with a frame on the user stack. *)
ReadFault ==
  /\ mode = "s" /\ stval \in Nested!Buffer /\ frame["kernel"][1].scause = "ecall"
  /\ \/ pc = "_traps" /\ Stacks(K(1), U(0)) /\ Csrs("s", "trap_handler", "page_fault")
     \/ pc = "push" /\ Stacks(U(1), K(1)) /\ Csrs("s", "trap_handler", "page_fault")
     \/ /\ pc = "trap_handler" /\ Stacks(U(1), K(1))
        /\ spp = "s" /\ frame["user"][1] = FaultFrame("trap_handler")
     \/ pc = "sret" /\ Stacks(U(1), K(1)) /\ spp = "s" /\ sepc = "trap_handler"

(* The user stack cannot take that frame: a fault inside _traps ... *)
PushFault ==
  /\ mode = "s" /\ stval = Nested!Stack /\ scause = "page_fault" /\ sepc = "push"
  /\ \/ pc = "_traps" /\ Stacks(U(1), K(1)) /\ Csrs("s", "push", "page_fault")
     \/ pc = "push" /\ Stacks(K(2), U(1)) /\ Csrs("s", "push", "page_fault")
     \/ /\ pc = "trap_handler" /\ Stacks(K(2), U(1))
        /\ spp = "s" /\ frame["kernel"][2] = FaultFrame("push")
     \/ /\ pc = "sret" /\ Stacks(K(2), U(1)) /\ spp = "s" /\ sepc = "push"
        /\ page[Nested!Stack] = "writable"

(* ... that leaves its own sepc and user mode in the CSRs the interrupted  *)
(* _traps then saves ...                                                   *)
PushAgain ==
  /\ mode = "s" /\ stval = Nested!Stack /\ sepc = "push" /\ page[Nested!Stack] = "writable"
  /\ \/ pc = "push" /\ Stacks(U(1), K(1)) /\ Csrs("u", "push", "page_fault")
     \/ /\ pc = "trap_handler" /\ Stacks(U(1), K(1))
        /\ spp = "u" /\ frame["user"][1] = FaultFrame("push")
     \/ pc = "sret" /\ Stacks(U(1), K(1)) /\ spp = "u" /\ sepc = "push"

(* ... so that sret goes on with kernel code in user mode, up to Err().    *)
Lost ==
  /\ page[Nested!Stack] = "writable" /\ sepc = "push"
  /\ \/ mode = "u" /\ pc = "push" /\ Stacks(K(1), U(0)) /\ spp = "u"
     \/ /\ mode = "s" /\ stval = Nested!Kernel
        /\ \/ pc = "_traps" /\ Stacks(K(1), U(0)) /\ Csrs("u", "push", "page_fault")
           \/ pc = "push" /\ Stacks(U(1), K(1)) /\ Csrs("u", "push", "page_fault")
           \/ /\ pc = "trap_handler" /\ Stacks(U(1), K(1))
              /\ spp = "u" /\ frame["user"][1].scause = "page_fault"
           \/ pc = "Err" /\ Stacks(U(1), K(1)) /\ spp = "u"

Shape ==
  /\ page \in [Nested!Buffer \cup {Nested!Stack} -> {"absent", "shared", "writable"}]
  /\ DOMAIN frame = {"user", "kernel"}
  /\ \A s \in DOMAIN frame :
       frame[s] \in [Nested!Depths -> [scause : {"ecall", "page_fault"},
                                sepc : {"user", "push", "trap_handler"}]]
  /\ i \in Int /\ last \in Int /\ i > 0 /\ last <= BufferPages

NestedInv ==
  /\ Shape
  /\ UserRuns \/ SystemCall \/ ReadFault \/ PushFault \/ PushAgain \/ Lost

-----------------------------------------------------------------------------
LEMMA StackWords ==
  /\ Nested!Push(U(0)) = U(1) /\ Nested!Push(K(0)) = K(1) /\ Nested!Push(K(1)) = K(2)
  /\ Nested!Pop(U(1)) = U(0) /\ Nested!Pop(K(1)) = K(0) /\ Nested!Pop(K(2)) = K(1)
  /\ \A d : U(d).stack = "user" /\ U(d).depth = d
  /\ \A d : K(d).stack = "kernel" /\ K(d).depth = d
BY DEF Nested!Push, Nested!Pop, U, K, Nested!On

(* A store to the frame w points to, and nothing else. *)
LEMMA FrameStored ==
  ASSUME Shape, NEW w, w.stack \in {"user", "kernel"}, w.depth \in Nested!Depths,
         NEW f \in [scause : {"ecall", "page_fault"},
                    sepc : {"user", "push", "trap_handler"}],
         frame' = [frame EXCEPT ![w.stack][w.depth] = f]
  PROVE  /\ frame'[w.stack][w.depth] = f
         /\ \A s \in {"user", "kernel"}, d \in Nested!Depths :
              s # w.stack \/ d # w.depth => frame'[s][d] = frame[s][d]
         /\ DOMAIN frame' = {"user", "kernel"}
         /\ \A s \in {"user", "kernel"} :
              frame'[s] \in [Nested!Depths -> [scause : {"ecall", "page_fault"},
                                        sepc : {"user", "push", "trap_handler"}]]
BY DEF Shape

LEMMA NestedInit == Nested!NestedAssumption /\ Nested!Init => NestedInv
<1> SUFFICES ASSUME Nested!NestedAssumption, Nested!Init PROVE NestedInv
  OBVIOUS
<1>1. page \in [Nested!Buffer \cup {Nested!Stack} -> {"absent", "shared", "writable"}]
  BY DEF Nested!Init, Nested!NestedAssumption
<1>2. Shape
  BY <1>1 DEF Nested!Init, Shape, Nested!NestedAssumption
<1> QED
  BY <1>2 DEF Nested!Init, NestedInv, UserRuns, Stacks, U, K

(* The variables of one step of the hart that takes a trap. *)
LEMMA TrapTaken ==
  ASSUME NEW c, NEW va, Nested!Trap(c, va)
  PROVE  /\ scause' = c /\ stval' = va /\ sepc' = pc /\ spp' = mode /\ mode' = "s"
         /\ pc' = "_traps" /\ UNCHANGED <<sp, sscratch, frame, page>>
BY DEF Nested!Trap

LEMMA NestedStep == Nested!NestedAssumption /\ NestedInv /\ [Nested!Next]_nestedVars => NestedInv'
<1> SUFFICES ASSUME Nested!NestedAssumption, NestedInv, [Nested!Next]_nestedVars PROVE NestedInv'
  OBVIOUS
<1> USE DEF Stacks, Csrs
<1>1. CASE Nested!Ecall
  <2>1. UserRuns /\ Shape
    BY <1>1 DEF Nested!Ecall, NestedInv, UserRuns, SystemCall, ReadFault, PushFault,
                PushAgain, Lost
  <2>2. Shape'
    BY <1>1, <2>1, TrapTaken DEF Nested!Ecall, Shape, Nested!Buffer
  <2>3. SystemCall'
    BY <1>1, <2>1, TrapTaken DEF Nested!Ecall, UserRuns, SystemCall
  <2> QED
    BY <2>2, <2>3 DEF NestedInv
<1>2. CASE Nested!SwapStacks
  <2>1. /\ pc = "_traps" /\ sp' = Nested!Push(sscratch) /\ sscratch' = sp /\ pc' = "push"
        /\ UNCHANGED <<mode, spp, sepc, scause, stval, frame, page, i, last>>
    BY <1>2 DEF Nested!SwapStacks, Nested!csrs
  <2>2. Shape'
    BY <2>1 DEF NestedInv, Shape
  <2>3. CASE SystemCall
    BY <2>1, <2>2, <2>3, StackWords DEF SystemCall, NestedInv
  <2>4. CASE ReadFault
    BY <2>1, <2>2, <2>4, StackWords DEF ReadFault, NestedInv
  <2>5. CASE PushFault
    BY <2>1, <2>2, <2>5, StackWords DEF PushFault, NestedInv
  <2>6. CASE Lost
    BY <2>1, <2>2, <2>6, StackWords DEF Lost, NestedInv
  <2> QED
    BY <2>1, <2>3, <2>4, <2>5, <2>6 DEF NestedInv, UserRuns, PushAgain
<1>3. CASE Nested!PushFrame
  <2>1. /\ mode = "s" /\ pc = "push" /\ pc' = "trap_handler"
        /\ frame' = [frame EXCEPT ![sp.stack][sp.depth] =
                       [scause |-> scause, sepc |-> sepc]]
        /\ UNCHANGED <<mode, sp, sscratch, spp, sepc, scause, stval, page, i, last>>
    BY <1>3 DEF Nested!PushFrame, Nested!csrs
  <2>2. /\ sp.stack \in {"user", "kernel"} /\ sp.depth \in Nested!Depths
        /\ scause \in {"ecall", "page_fault"}
        /\ sepc \in {"user", "push", "trap_handler"}
    BY <2>1, StackWords DEF NestedInv, UserRuns, SystemCall, ReadFault, PushFault,
                            PushAgain, Lost, Nested!Depths
  <2>3. /\ frame'[sp.stack][sp.depth] = [scause |-> scause, sepc |-> sepc]
        /\ \A s \in {"user", "kernel"}, d \in Nested!Depths :
             s # sp.stack \/ d # sp.depth => frame'[s][d] = frame[s][d]
        /\ Shape'
    BY <2>1, <2>2, FrameStored DEF NestedInv, Shape
  <2>4. CASE SystemCall
    BY <2>1, <2>3, <2>4, StackWords DEF SystemCall, NestedInv
  <2>5. CASE ReadFault
    BY <2>1, <2>3, <2>5, StackWords DEF ReadFault, NestedInv, FaultFrame, Nested!Depths
  <2>6. CASE PushFault
    BY <2>1, <2>3, <2>6, StackWords DEF PushFault, NestedInv, FaultFrame
  <2>7. CASE PushAgain
    BY <2>1, <2>3, <2>7, StackWords DEF PushAgain, NestedInv, FaultFrame
  <2>8. CASE Lost
    BY <2>1, <2>3, <2>8, StackWords DEF Lost, NestedInv
  <2> QED
    BY <2>1, <2>4, <2>5, <2>6, <2>7, <2>8 DEF NestedInv, UserRuns
<1>4. CASE Nested!PushFaults
  <2>1. /\ mode = "s" /\ pc = "push" /\ sp.stack # "kernel" /\ page[Nested!Stack] # "writable"
        /\ UNCHANGED <<i, last>> /\ Nested!Trap("page_fault", Nested!Stack)
    BY <1>4 DEF Nested!PushFaults, Nested!Writable
  <2>2. Shape'
    BY <2>1, TrapTaken DEF NestedInv, Shape
  <2>3. ReadFault
    BY <2>1, StackWords DEF NestedInv, UserRuns, SystemCall, PushFault, PushAgain, Lost
  <2>4. PushFault'
    BY <2>1, <2>3, TrapTaken DEF ReadFault, PushFault
  <2> QED
    BY <2>2, <2>4 DEF NestedInv
<1>5. CASE Nested!Read
  <2>1. /\ Nested!Handles("ecall") /\ i' = i + 1 /\ i <= last
        /\ UNCHANGED <<mode, pc, sp, sscratch, spp, sepc, scause, stval, frame, page, last>>
    BY <1>5 DEF Nested!Read, Nested!csrs
  <2>2. SystemCall
    BY <2>1, StackWords DEF Nested!Handles, Nested!Regs, NestedInv, UserRuns, ReadFault, PushFault,
                            PushAgain, Lost, FaultFrame
  <2>3. Shape'
    BY <2>1 DEF NestedInv, Shape
  <2> QED
    BY <2>1, <2>2, <2>3 DEF NestedInv, SystemCall, Nested!Handles
<1>6. CASE Nested!ReadFaults
  <2>1. /\ Nested!Handles("ecall") /\ i <= last /\ Nested!Trap("page_fault", i)
        /\ UNCHANGED <<i, last>>
    BY <1>6 DEF Nested!ReadFaults
  <2>2. SystemCall
    BY <2>1, StackWords DEF Nested!Handles, Nested!Regs, NestedInv, UserRuns, ReadFault, PushFault,
                            PushAgain, Lost, FaultFrame
  <2>3. Shape'
    BY <2>1, TrapTaken DEF NestedInv, Shape
  <2>4. ReadFault'
    <3>1. i \in Nested!Buffer
      BY <2>1 DEF NestedInv, Shape, Nested!Buffer, Nested!NestedAssumption
    <3>2. /\ sp = K(1) /\ sscratch = U(0) /\ frame["kernel"][1].scause = "ecall"
          /\ mode = "s" /\ pc = "trap_handler"
      BY <2>1, <2>2 DEF SystemCall, Nested!Handles
    <3> QED
      BY <2>1, <3>1, <3>2, TrapTaken DEF ReadFault
  <2> QED
    BY <2>3, <2>4 DEF NestedInv
<1>7. CASE Nested!SyscallDone
  <2>1. /\ Nested!Handles("ecall") /\ i > last /\ sepc' = "user" /\ pc' = "sret"
        /\ UNCHANGED <<mode, sp, sscratch, spp, scause, stval, frame, page, i, last>>
    BY <1>7 DEF Nested!SyscallDone, Nested!Return
  <2>2. SystemCall
    BY <2>1, StackWords DEF Nested!Handles, Nested!Regs, NestedInv, UserRuns, ReadFault, PushFault,
                            PushAgain, Lost, FaultFrame
  <2>3. Shape'
    BY <2>1 DEF NestedInv, Shape
  <2> QED
    BY <2>1, <2>2, <2>3 DEF NestedInv, SystemCall, Nested!Handles
<1>8. CASE Nested!PageFault
  <2>1. /\ Nested!Handles("page_fault") /\ stval # Nested!Kernel
        /\ page' = [page EXCEPT ![stval] = "writable"]
        /\ sepc' = Nested!Regs.sepc /\ pc' = "sret"
        /\ UNCHANGED <<mode, sp, sscratch, spp, scause, stval, frame, i, last>>
    BY <1>8 DEF Nested!PageFault, Nested!Return, Nested!FaultAddress, Nested!Provided
  <2>2. ReadFault \/ PushFault \/ PushAgain
    BY <2>1, StackWords DEF Nested!Handles, Nested!Regs, NestedInv, UserRuns, SystemCall, Lost
  <2>3. Shape'
    BY <2>1 DEF NestedInv, Shape
  <2>4. CASE ReadFault
    BY <2>1, <2>3, <2>4, StackWords
       DEF NestedInv, ReadFault, Nested!Handles, Nested!Regs, FaultFrame
  <2>5. page'[Nested!Stack] = "writable" \/ ReadFault
    BY <2>1, <2>2 DEF PushFault, PushAgain, NestedInv, Shape
  <2>6. CASE PushFault
    BY <2>1, <2>3, <2>4, <2>5, <2>6, StackWords
       DEF NestedInv, PushFault, Nested!Handles, Nested!Regs, FaultFrame
  <2>7. CASE PushAgain
    BY <2>1, <2>3, <2>4, <2>5, <2>7, StackWords
       DEF NestedInv, PushAgain, Nested!Handles, Nested!Regs, FaultFrame
  <2> QED
    BY <2>2, <2>4, <2>6, <2>7
<1>9. CASE Nested!Err
  <2>1. /\ Nested!Handles("page_fault") /\ stval = Nested!Kernel /\ pc' = "Err"
        /\ UNCHANGED <<mode, sp, sscratch, spp, sepc, scause, stval, frame, page, i, last>>
    BY <1>9 DEF Nested!Err, Nested!FaultAddress, Nested!csrs
  <2>2. Lost
    BY <2>1, StackWords DEF Nested!Handles, Nested!Regs, NestedInv, UserRuns, SystemCall, ReadFault,
                            PushFault, PushAgain, Nested!Kernel, Nested!Stack, Nested!Buffer
  <2>3. Shape'
    BY <2>1 DEF NestedInv, Shape
  <2> QED
    BY <2>1, <2>2, <2>3 DEF NestedInv, Lost, Nested!Handles
<1>10. CASE Nested!Sret
  <2>1. /\ pc = "sret" /\ sp' = sscratch /\ sscratch' = Nested!Pop(sp)
        /\ mode' = spp /\ spp' = "u" /\ pc' = sepc
        /\ UNCHANGED <<sepc, scause, stval, frame, page, i, last>>
    BY <1>10 DEF Nested!Sret
  <2>2. Shape'
    BY <2>1 DEF NestedInv, Shape
  <2>3. CASE SystemCall
    BY <2>1, <2>2, <2>3, StackWords DEF SystemCall, UserRuns, NestedInv
  <2>4. CASE ReadFault
    <3>1. /\ sp = U(1) /\ sscratch = K(1) /\ spp = "s" /\ sepc = "trap_handler"
          /\ frame["kernel"][1].scause = "ecall"
      BY <2>1, <2>4 DEF ReadFault
    <3>2. SystemCall'
      BY <2>1, <3>1, StackWords DEF SystemCall
    <3> QED
      BY <2>2, <3>2 DEF NestedInv
  <2>5. CASE PushFault
    <3>1. /\ sp = K(2) /\ sscratch = U(1) /\ spp = "s" /\ sepc = "push"
          /\ page[Nested!Stack] = "writable" /\ stval = Nested!Stack /\ scause = "page_fault"
      BY <2>1, <2>5 DEF PushFault
    <3>2. PushAgain'
      BY <2>1, <3>1, StackWords DEF PushAgain
    <3> QED
      BY <2>2, <3>2 DEF NestedInv
  <2>6. CASE PushAgain
    <3>1. /\ sp = U(1) /\ sscratch = K(1) /\ spp = "u" /\ sepc = "push"
          /\ page[Nested!Stack] = "writable"
      BY <2>1, <2>6 DEF PushAgain
    <3>2. Lost'
      BY <2>1, <3>1, StackWords DEF Lost
    <3> QED
      BY <2>2, <3>2 DEF NestedInv
  <2> QED
    BY <2>1, <2>3, <2>4, <2>5, <2>6 DEF NestedInv, UserRuns, Lost
<1>11. CASE Nested!FetchFaults
  <2>1. /\ mode = "u" /\ pc # "user" /\ Nested!Trap("page_fault", Nested!Kernel)
        /\ UNCHANGED <<i, last>>
    BY <1>11 DEF Nested!FetchFaults
  <2>2. Lost
    BY <2>1 DEF NestedInv, UserRuns, SystemCall, ReadFault, PushFault, PushAgain
  <2>3. Shape'
    BY <2>1, TrapTaken DEF NestedInv, Shape
  <2>4. Lost'
    BY <2>1, <2>2, TrapTaken DEF Lost
  <2> QED
    BY <2>3, <2>4 DEF NestedInv
<1>12. CASE UNCHANGED nestedVars
  BY <1>12 DEF nestedVars, NestedInv, Shape, UserRuns, SystemCall, ReadFault,
               PushFault, PushAgain, Lost
<1> QED
  BY <1>1, <1>2, <1>3, <1>4, <1>5, <1>6, <1>7, <1>8, <1>9, <1>10, <1>11, <1>12
     DEF Nested!Next, Nested!InTrap

LEMMA NestedSafe ==
  NestedInv => /\ Nested!TypeOK /\ Nested!UserGoesOn
               /\ pc = "Err" => Lost
               /\ mode = "u" /\ pc # "user" => Lost
<1> SUFFICES ASSUME NestedInv
             PROVE  /\ Nested!TypeOK /\ Nested!UserGoesOn
                    /\ pc = "Err" => Lost
                    /\ mode = "u" /\ pc # "user" => Lost
  OBVIOUS
<1> USE StackWords DEF Stacks, Csrs
<1>1. /\ \E d \in 0 .. 2 : sp = U(d) \/ sp = K(d)
      /\ \E d \in 0 .. 2 : sscratch = U(d) \/ sscratch = K(d)
      /\ sp.stack # sscratch.stack
      /\ mode \in {"u", "s"} /\ spp \in {"u", "s"}
  BY DEF NestedInv, UserRuns, SystemCall, ReadFault, PushFault, PushAgain, Lost
<1>2. Nested!TypeOK
  BY <1>1 DEF Nested!TypeOK, Nested!Depths
<1>3. Nested!UserGoesOn
  BY DEF Nested!UserGoesOn, U, K, NestedInv, UserRuns, SystemCall, ReadFault, PushFault,
         PushAgain, Lost
<1>4. /\ pc = "Err" => Lost
      /\ mode = "u" /\ pc # "user" => Lost
  BY DEF NestedInv, UserRuns, SystemCall, ReadFault, PushFault, PushAgain
<1> QED
  BY <1>2, <1>3, <1>4

(* A program whose stack page can be written from the start is never lost: *)
(* no fault happens inside _traps, the only code whose sepc is "push".     *)
StackReady == page[Nested!Stack] = "writable" /\ sepc # "push"

LEMMA ReadyInit == StackPages = {"writable"} /\ Nested!Init => StackReady
BY DEF Nested!Init, StackReady, Nested!Stack

LEMMA ReadyStep == NestedInv /\ StackReady /\ [Nested!Next]_nestedVars => StackReady'
<1> SUFFICES ASSUME NestedInv, StackReady, [Nested!Next]_nestedVars PROVE StackReady'
  OBVIOUS
<1>1. CASE Nested!Ecall \/ Nested!ReadFaults
  BY <1>1, TrapTaken DEF Nested!Ecall, Nested!ReadFaults, Nested!Handles, StackReady
<1>2. CASE Nested!PushFaults
  BY <1>2 DEF Nested!PushFaults, Nested!Writable, StackReady
<1>3. CASE Nested!FetchFaults
  <2>1. Lost
    BY <1>3, NestedSafe DEF Nested!FetchFaults
  <2> QED
    BY <2>1 DEF Lost, StackReady
<1>4. CASE Nested!PageFault
  <2>1. ReadFault /\ Nested!Regs = FaultFrame("trap_handler")
    BY <1>4, StackWords DEF Nested!PageFault, Nested!Handles, Nested!Regs, StackReady, Stacks, NestedInv,
                            UserRuns, SystemCall, ReadFault, PushFault, PushAgain, Lost
  <2>2. page' = [page EXCEPT ![stval] = "writable"] /\ sepc' = Nested!Regs.sepc
    BY <1>4 DEF Nested!PageFault, Nested!Return, Nested!FaultAddress, Nested!Provided
  <2> QED
    BY <2>1, <2>2 DEF StackReady, FaultFrame, NestedInv, Shape
<1>5. CASE Nested!SwapStacks \/ Nested!PushFrame \/ Nested!Read \/ Nested!Err
  BY <1>5 DEF Nested!SwapStacks, Nested!PushFrame, Nested!Read, Nested!Err, Nested!csrs, StackReady
<1>6. CASE Nested!SyscallDone \/ Nested!Sret
  BY <1>6 DEF Nested!SyscallDone, Nested!Return, Nested!Sret, StackReady
<1>7. CASE UNCHANGED nestedVars
  BY <1>7 DEF nestedVars, StackReady
<1> QED
  BY <1>1, <1>2, <1>3, <1>4, <1>5, <1>6, <1>7 DEF Nested!Next, Nested!InTrap

NestedKept == part = "nested" => NestedInv
ReadyKept  == part = "nested" => StackReady

LEMMA NestedGoesOn == NestedKept /\ [Next]_vars => NestedKept'
<1> SUFFICES ASSUME NestedKept, [Next]_vars, part' = "nested"
             PROVE  NestedInv'
  BY DEF NestedKept
<1>1. part = "nested" /\ [Nested!Next]_nestedVars
  BY PartsStep
<1> QED
  BY <1>1, PartsAssumption, NestedStep DEF NestedKept

LEMMA NestedAlways == Spec => []NestedKept
<1>1. Init => NestedKept
  BY PartsAssumption, NestedInit DEF Init, NestedKept
<1> QED
  BY <1>1, NestedGoesOn, PTL DEF Spec

(* However many pages of the buffer are absent and whatever the state of   *)
(* the user stack, the stacks stay apart and hold a bounded number of      *)
(* frames: a fault inside a fault takes no more than two.                  *)
THEOREM FramesBounded == Spec => [](part = "nested" => Nested!TypeOK)
<1>1. NestedKept => (part = "nested" => Nested!TypeOK)
  BY NestedSafe DEF NestedKept
<1> QED
  BY <1>1, NestedAlways, PTL

(* A write() that returns to the program has written all it was asked for, *)
(* and leaves sp and sscratch as a system call without faults would.       *)
THEOREM ProgramsGoOn == Spec => []UserGoesOn
<1>1. NestedKept => UserGoesOn
  BY NestedSafe DEF NestedKept, UserGoesOn
<1> QED
  BY <1>1, NestedAlways, PTL

(* With a stack page that can be written, no write() ends in Err() or goes *)
(* on with kernel code in user mode, wherever its buffer is absent.        *)
NeverErr == part = "nested" => pc # "Err" /\ (mode = "u" => pc = "user")

THEOREM WritableStackSuffices ==
  ASSUME StackPages = {"writable"}
  PROVE  Spec => []NeverErr
<1>1. Init => ReadyKept
  BY ReadyInit DEF Init, ReadyKept
<1>2. NestedKept /\ ReadyKept /\ [Next]_vars => ReadyKept'
  <2> SUFFICES ASSUME NestedKept, ReadyKept, [Next]_vars, part' = "nested"
               PROVE  StackReady'
    BY DEF ReadyKept
  <2>1. part = "nested" /\ [Nested!Next]_nestedVars
    BY PartsStep
  <2> QED
    BY <2>1, ReadyStep DEF NestedKept, ReadyKept
<1>3. NestedKept /\ ReadyKept => NeverErr
  BY NestedSafe DEF NestedKept, ReadyKept, NeverErr, StackReady, Lost
<1> QED
  BY <1>1, <1>2, <1>3, NestedAlways, PTL DEF Spec

-----------------------------------------------------------------------------
(* The boot *)

LEMMA BootStart == Init => BootKept
BY PartsAssumption, TheoremsApply, Start!BootInit DEF Init, BootKept

LEMMA BootGoesOn == BootKept /\ [Next]_vars => BootKept'
<1> SUFFICES ASSUME BootKept, [Next]_vars, part' = "boot"
             PROVE  Start!BootInv'
  BY DEF BootKept
<1>1. part = "boot" /\ [Start!Next]_bootVars
  BY PartsStep
<1>2. Start!Next \/ UNCHANGED Start!vars
  BY <1>1 DEF bootVars, Start!vars
<1> QED
  BY <1>1, <1>2, PartsAssumption, TheoremsApply, Start!BootStep DEF BootKept

(* The kernel reaches its code and its memory at every point of the boot.  *)
THEOREM KernelNeverLost == Spec => []NeverLost
<1>1. BootKept => NeverLost
  BY PartsAssumption, TheoremsApply, Start!BootLands
  DEF BootKept, NeverLost, Start!NeverLost
<1> QED
  BY <1>1, BootStart, BootGoesOn, PTL DEF Spec

(* After it, what alloc_page returns can be read and written.              *)
THEOREM FreePagesMapped == Spec => []FreePagesUsable
<1>1. BootKept => FreePagesUsable
  BY PartsAssumption, TheoremsApply, Start!BootDone DEF BootKept, FreePagesUsable
<1> QED
  BY <1>1, BootStart, BootGoesOn, PTL DEF Spec

-----------------------------------------------------------------------------
(* Inline assembly *)

(* What the proof asks of a block: no instruction writes a register that   *)
(* an operand of a later one may be in, and no result is moved to a        *)
(* register that holds another one still to be moved.                      *)
Undisturbed(b) ==
  /\ \A k \in 1 .. Len(b.moves) : b.moves[k][1] \in Registers
  /\ \A j, k \in 1 .. Len(b.moves) :
       j < k => /\ b.moves[j][1] # b.moves[k][1]
                /\ b.moves[j][1] \notin b.allowed
  /\ \A k \in 1 .. Len(b.moves) :
       b.moves[k][2] \in Call!SYS <=> b.moves[k][2] \notin DOMAIN b.values
  /\ \A k \in 1 .. Len(b.results) : b.results[k][2] \in Registers
  /\ \A j, k \in 1 .. Len(b.results) :
       j < k => /\ b.results[j][1] # b.results[k][1]
                /\ b.results[j][2] # b.results[k][2]
                /\ b.results[k][2] \notin b.allowed
  /\ \A k \in 1 .. Len(b.results) : b.results[k][1] \notin DOMAIN b.values
  /\ b.allowed \subseteq Registers
  /\ Len(b.moves) \in Nat /\ DOMAIN b.moves = 1 .. Len(b.moves)
  /\ Len(b.results) \in Nat /\ DOMAIN b.results = 1 .. Len(b.results)

Expected(m) == IF m[2] \in Call!Operands THEN asm.values[m[2]] ELSE m[2]
nMoves == Len(asm.moves)
nResults == Len(asm.results)

(* Operands and results have registers of their own.                       *)
Placed ==
  /\ place \in [Call!Operands \cup Call!Outputs -> asm.allowed]
  /\ \A o, p \in Call!Operands : place[o] = place[p] => o = p
  /\ \A o, p \in Call!Outputs : place[o] = place[p] => o = p

(* Before the call: what has been moved is there, and what has not is      *)
(* where it was.                                                           *)
Moving ==
  step <= nMoves + 1 =>
    \A k \in 1 .. nMoves :
      /\ k < step => reg[asm.moves[k][1]] = Expected(asm.moves[k])
      /\ k >= step /\ asm.moves[k][2] \in Call!Operands =>
           reg[place[asm.moves[k][2]]] = asm.values[asm.moves[k][2]]

(* After the call: the same of the results.                                *)
Answering ==
  step >= nMoves + 2 =>
    \A k \in 1 .. nResults :
      LET res == asm.results[k] IN
      IF k < step - nMoves - 1 THEN reg[place[res[1]]] = res[1]
                              ELSE reg[res[2]] = res[1]

AsmInv ==
  /\ Undisturbed(asm)
  /\ Placed
  /\ DOMAIN reg = Registers
  /\ step \in 1 .. Call!Answered + 1
  /\ Moving /\ Answering

-----------------------------------------------------------------------------
(* The blocks *)

LEMMA SbiUndisturbed ==
  ASSUME Call!ArgumentRegisters, NEW v, DOMAIN v = {"eid", "fid", "arg0", "arg1"}
  PROVE  Undisturbed(Call!sbi_ecall(v))
<1> DEFINE b == Call!sbi_ecall(v)
<1>1. /\ b.moves = <<<<"a7", "eid">>, <<"a6", "fid">>, <<"a0", "arg0">>, <<"a1", "arg1">>>>
      /\ b.values = v
      /\ b.results = <<<<"error", "a0">>, <<"value", "a1">>>>
      /\ b.allowed = Registers \ Call!Clobbers
  BY DEF Call!sbi_ecall, Call!sbiret
<1> HIDE DEF b
<1>2. Call!Clobbers = {"a0", "a1", "a2", "a3", "a4", "a5", "a6", "a7"} /\ Call!Clobbers \subseteq Registers
  BY DEF Call!Clobbers, Call!ArgumentRegisters
<1>3. /\ Len(b.moves) = 4 /\ DOMAIN b.moves = 1 .. 4
      /\ Len(b.results) = 2 /\ DOMAIN b.results = 1 .. 2
  BY <1>1
<1>4. /\ b.moves[1] = <<"a7", "eid">> /\ b.moves[2] = <<"a6", "fid">>
      /\ b.moves[3] = <<"a0", "arg0">> /\ b.moves[4] = <<"a1", "arg1">>
      /\ b.results[1] = <<"error", "a0">> /\ b.results[2] = <<"value", "a1">>
  BY <1>1
<1>5. \A k \in 1 .. 4 : k = 1 \/ k = 2 \/ k = 3 \/ k = 4
  OBVIOUS
<1>6. \A k \in 1 .. 4 : /\ b.moves[k][1] \in Call!Clobbers
                        /\ b.moves[k][2] \in DOMAIN v
                        /\ b.moves[k][2] \notin Call!SYS
  BY <1>2, <1>4, <1>5 DEF Call!SYS
<1>7. \A j, k \in 1 .. 4 : j < k => b.moves[j][1] # b.moves[k][1]
  BY <1>4, <1>5
<1>8. \A k \in 1 .. 2 : k = 1 \/ k = 2
  OBVIOUS
<1>9. \A k \in 1 .. 2 : b.results[k][2] \in Call!Clobbers /\ b.results[k][1] \notin DOMAIN v
  BY <1>2, <1>4, <1>8
<1>10. \A j, k \in 1 .. 2 : j < k => /\ b.results[j][1] # b.results[k][1]
                                     /\ b.results[j][2] # b.results[k][2]
  BY <1>4, <1>8
<1>11. Undisturbed(b)
  BY <1>1, <1>2, <1>3, <1>6, <1>7, <1>9, <1>10 DEF Undisturbed
<1> QED
  BY <1>11 DEF b

LEMMA WriteUndisturbed ==
  ASSUME Call!ArgumentRegisters, Call!InlineAsmAssumption
  PROVE  Undisturbed(Call!write)
<1> DEFINE b == Call!write
<1>1. /\ b.moves = <<<<"a7", "SYS_WRITE">>, <<"a0", "fd">>, <<"a1", "buffer">>, <<"a2", "tail">>>>
      /\ DOMAIN b.values = {"fd", "buffer", "tail"}
      /\ b.results = <<<<"syscall_ret", "a0">>>>
      /\ b.allowed = UserBuild
  BY DEF Call!write
<1> HIDE DEF b
<1>2. {"a7", "a0", "a1", "a2"} \subseteq Registers /\ UserBuild \subseteq Registers
      /\ UserBuild \cap {"a7", "a0", "a1"} = {}
  BY DEF Call!ArgumentRegisters, Call!Clobbers, Call!InlineAsmAssumption
<1>3. /\ Len(b.moves) = 4 /\ DOMAIN b.moves = 1 .. 4
      /\ Len(b.results) = 1 /\ DOMAIN b.results = 1 .. 1
  BY <1>1
<1>4. /\ b.moves[1] = <<"a7", "SYS_WRITE">> /\ b.moves[2] = <<"a0", "fd">>
      /\ b.moves[3] = <<"a1", "buffer">> /\ b.moves[4] = <<"a2", "tail">>
      /\ b.results[1] = <<"syscall_ret", "a0">>
  BY <1>1
<1>5. \A k \in 1 .. 4 : k = 1 \/ k = 2 \/ k = 3 \/ k = 4
  OBVIOUS
<1>6. \A k \in 1 .. 4 : /\ b.moves[k][1] \in Registers
                        /\ b.moves[k][2] \in Call!SYS <=> b.moves[k][2] \notin DOMAIN b.values
  BY <1>1, <1>2, <1>4, <1>5 DEF Call!SYS
<1>7. \A j, k \in 1 .. 4 : j < k => /\ b.moves[j][1] # b.moves[k][1]
                                    /\ b.moves[j][1] \notin UserBuild
  BY <1>2, <1>4, <1>5
<1>8. \A k \in 1 .. 1 : k = 1
  OBVIOUS
<1>9. \A k \in 1 .. 1 : b.results[k][2] \in Registers /\ b.results[k][1] \notin DOMAIN b.values
  BY <1>1, <1>2, <1>4, <1>8
<1>10. \A j, k \in 1 .. 1 : ~(j < k)
  OBVIOUS
<1>11. Undisturbed(b)
  BY <1>1, <1>2, <1>3, <1>6, <1>7, <1>9, <1>10 DEF Undisturbed
<1> QED
  BY <1>11 DEF b

LEMMA CallUndisturbed ==
  ASSUME Call!ArgumentRegisters, Call!InlineAsmAssumption, NEW number \in Call!SYS
  PROVE  Undisturbed(Call!Call(number))
<1> DEFINE b == Call!Call(number)
<1>1. /\ b.moves = <<<<"a7", number>>>>
      /\ DOMAIN b.values = {}
      /\ b.results = <<<<"ret", "a0">>>>
      /\ b.allowed = UserBuild
  BY DEF Call!Call
<1> HIDE DEF b
<1>2. {"a7", "a0"} \subseteq Registers /\ UserBuild \subseteq Registers
  BY DEF Call!ArgumentRegisters, Call!Clobbers, Call!InlineAsmAssumption
<1>3. /\ Len(b.moves) = 1 /\ DOMAIN b.moves = 1 .. 1
      /\ Len(b.results) = 1 /\ DOMAIN b.results = 1 .. 1
  BY <1>1
<1>4. b.moves[1] = <<"a7", number>> /\ b.results[1] = <<"ret", "a0">>
  BY <1>1
<1>5. \A k \in 1 .. 1 : k = 1
  OBVIOUS
<1>6. \A j, k \in 1 .. 1 : ~(j < k)
  OBVIOUS
<1>7. \A k \in 1 .. 1 : /\ b.moves[k][1] \in Registers
                        /\ b.moves[k][2] \in Call!SYS /\ b.moves[k][2] \notin DOMAIN b.values
                        /\ b.results[k][2] \in Registers
                        /\ b.results[k][1] \notin DOMAIN b.values
  BY <1>1, <1>2, <1>4, <1>5
<1> HIDE DEF b
<1>8. Undisturbed(b)
  BY <1>1, <1>2, <1>3, <1>6, <1>7 DEF Undisturbed
<1> QED
  BY <1>8 DEF b

-----------------------------------------------------------------------------
(* The invariant *)

LEMMA AsmInit ==
  ASSUME Call!ArgumentRegisters, Call!InlineAsmAssumption
  PROVE  Call!Init => AsmInv
<1> SUFFICES ASSUME Call!Init PROVE AsmInv
  OBVIOUS
<1>1. Undisturbed(asm)
  <2>1. /\ DOMAIN Call!sbi_set_timer = {"eid", "fid", "arg0", "arg1"}
        /\ DOMAIN Call!sbi_debug_console_write_byte = {"eid", "fid", "arg0", "arg1"}
        /\ DOMAIN Call!sbi_system_reset = {"eid", "fid", "arg0", "arg1"}
    BY DEF Call!sbi_set_timer, Call!sbi_debug_console_write_byte, Call!sbi_system_reset
  <2>2. \/ asm = Call!sbi_ecall(Call!sbi_set_timer)
        \/ asm = Call!sbi_ecall(Call!sbi_debug_console_write_byte)
        \/ asm = Call!sbi_ecall(Call!sbi_system_reset)
        \/ asm = Call!write
        \/ asm = Call!Call("SYS_GETPID")
        \/ asm = Call!Call("SYS_CLONE")
    BY DEF Call!Init, Call!getpid, Call!fork
  <2>3. "SYS_GETPID" \in Call!SYS /\ "SYS_CLONE" \in Call!SYS
    BY DEF Call!SYS
  <2> QED
    BY <2>1, <2>2, <2>3, SbiUndisturbed, WriteUndisturbed, CallUndisturbed
<1>2. PICK in \in Call!Injection(Call!Operands, asm.allowed), res \in Call!Injection(Call!Outputs, asm.allowed) :
        place = [o \in Call!Operands \cup Call!Outputs |-> IF o \in Call!Operands THEN in[o] ELSE res[o]]
  BY DEF Call!Init
<1>3. \A o \in Call!Outputs : o \notin Call!Operands
  BY <1>1 DEF Undisturbed, Call!Outputs, Call!Operands
<1>4. /\ in \in [Call!Operands -> asm.allowed] /\ res \in [Call!Outputs -> asm.allowed]
      /\ \A o, p \in Call!Operands : in[o] = in[p] => o = p
      /\ \A o, p \in Call!Outputs : res[o] = res[p] => o = p
  BY DEF Call!Injection, Call!IsInjective
<1>6. Placed
  BY <1>2, <1>3, <1>4 DEF Placed
<1>7. \A o \in Call!Operands : reg[place[o]] = asm.values[o]
  <2> SUFFICES ASSUME NEW o \in Call!Operands PROVE reg[place[o]] = asm.values[o]
    OBVIOUS
  <2> DEFINE held == {p \in Call!Operands : place[p] = place[o]}
  <2>1. held = {o}
    BY <1>6 DEF Placed
  <2>2. place[o] \in Registers
    BY <1>1, <1>6 DEF Placed, Undisturbed
  <2>3. reg[place[o]] = IF held = {} THEN "other" ELSE asm.values[CHOOSE p \in held : TRUE]
    BY <2>2 DEF Call!Init
  <2> HIDE DEF held
  <2>4. (CHOOSE p \in held : TRUE) = o
    BY <2>1
  <2> QED
    BY <2>1, <2>3, <2>4
<1>8. step = 1 /\ DOMAIN reg = Registers
  BY DEF Call!Init
<1>9. nMoves \in Nat /\ nResults \in Nat
  BY <1>1 DEF Undisturbed, nMoves, nResults
<1>10. Call!Answered = nMoves + 1 + nResults
  BY DEF Call!Answered, nMoves, nResults
<1>11. step \in 1 .. Call!Answered + 1
  <2>1. Call!Answered \in Nat
    BY <1>9, <1>10
  <2> QED
    BY <1>8, <2>1
<1>12. Answering
  BY <1>8, <1>9 DEF Answering
<1>13. Moving
  BY <1>7, <1>8, <1>9 DEF Moving
<1> QED
  BY <1>1, <1>6, <1>8, <1>11, <1>12, <1>13 DEF AsmInv

(* The block and the places do not change. *)
LEMMA BlockKept ==
  ASSUME AsmInv, UNCHANGED <<asm, place>>
  PROVE  /\ Undisturbed(asm)' /\ Placed'
         /\ nMoves' = nMoves /\ nResults' = nResults /\ Call!Answered' = Call!Answered /\ Call!Operands' = Call!Operands
         /\ \A m : Expected(m)' = Expected(m)
         /\ nMoves \in Nat /\ nResults \in Nat /\ Call!Answered = nMoves + 1 + nResults
<1>1. asm' = asm /\ place' = place
  OBVIOUS
<1>2. Call!Operands' = Call!Operands /\ Call!Outputs' = Call!Outputs
  BY <1>1 DEF Call!Operands, Call!Outputs
<1>3. Undisturbed(asm)'
  BY <1>1 DEF AsmInv, Undisturbed
<1>4. Placed'
  BY <1>1, <1>2 DEF AsmInv, Placed
<1>5. nMoves' = nMoves /\ nResults' = nResults /\ Call!Answered' = Call!Answered
  BY <1>1 DEF nMoves, nResults, Call!Answered
<1>6. \A m : Expected(m)' = Expected(m)
  BY <1>1, <1>2 DEF Expected
<1>7. nMoves \in Nat /\ nResults \in Nat
  BY DEF AsmInv, Undisturbed, nMoves, nResults
<1>8. Call!Answered = nMoves + 1 + nResults
  BY DEF Call!Answered, nMoves, nResults
<1> QED
  BY <1>2, <1>3, <1>4, <1>5, <1>6, <1>7, <1>8

LEMMA MoveStep == AsmInv /\ Call!Move => AsmInv'
<1> SUFFICES ASSUME AsmInv, Call!Move PROVE AsmInv'
  OBVIOUS
<1> DEFINE m == asm.moves[step]
<1>1. /\ nMoves \in Nat /\ step \in 1 .. nMoves
      /\ reg' = [reg EXCEPT ![m[1]] = Call!Moved(m[2])]
      /\ step' = step + 1 /\ UNCHANGED <<asm, place>>
  BY DEF Call!Move, AsmInv, Undisturbed, nMoves, nResults
<1>2. /\ Undisturbed(asm)' /\ Placed' /\ nMoves' = nMoves /\ nResults' = nResults /\ Call!Answered' = Call!Answered
      /\ Call!Answered = nMoves + 1 + nResults /\ nResults \in Nat
  BY <1>1, BlockKept
<1>3. /\ m[1] \in Registers
      /\ \A k \in 1 .. nMoves : k > step => /\ m[1] # asm.moves[k][1]
                                       /\ m[1] \notin asm.allowed
      /\ \A k \in 1 .. nMoves : k < step => m[1] # asm.moves[k][1]
      /\ m[2] \in Call!SYS <=> m[2] \notin Call!Operands
  BY <1>1 DEF AsmInv, Undisturbed, nMoves, nResults, Call!Operands
<1>4. DOMAIN reg' = Registers /\ reg'[m[1]] = Call!Moved(m[2])
      /\ \A x \in Registers : x # m[1] => reg'[x] = reg[x]
  BY <1>1, <1>3 DEF AsmInv
<1>5. Call!Moved(m[2]) = Expected(m)
  BY <1>1, <1>3 DEF Call!Moved, Expected, AsmInv, Moving
<1>6. ASSUME NEW k \in 1 .. nMoves
      PROVE  /\ k < step + 1 => reg'[asm.moves[k][1]] = Expected(asm.moves[k])
             /\ k >= step + 1 /\ asm.moves[k][2] \in Call!Operands =>
                  reg'[place[asm.moves[k][2]]] = asm.values[asm.moves[k][2]]
  <2>1. CASE k < step
    <3>1. asm.moves[k][1] \in Registers /\ reg[asm.moves[k][1]] = Expected(asm.moves[k])
      BY <1>1, <2>1 DEF AsmInv, Undisturbed, Moving, nMoves, nResults
    <3> QED
      BY <1>1, <1>3, <1>4, <2>1, <3>1
  <2>2. CASE k = step
    BY <1>1, <1>4, <1>5, <2>2
  <2>3. CASE k > step
    <3>1. ASSUME asm.moves[k][2] \in Call!Operands
          PROVE  reg'[place[asm.moves[k][2]]] = asm.values[asm.moves[k][2]]
      <4>1. /\ place[asm.moves[k][2]] \in asm.allowed
            /\ place[asm.moves[k][2]] \in Registers
        BY <3>1 DEF AsmInv, Placed, Undisturbed
      <4>2. reg[place[asm.moves[k][2]]] = asm.values[asm.moves[k][2]]
        BY <1>1, <2>3, <3>1 DEF AsmInv, Moving
      <4> QED
        BY <1>3, <1>4, <2>3, <4>1, <4>2
    <3> QED
      BY <1>1, <2>3, <3>1
  <2> QED
    BY <1>1, <2>1, <2>2, <2>3
<1>7. Moving'
  BY <1>1, <1>2, <1>6 DEF Moving, Expected, Call!Operands, nMoves, nResults
<1>8. Answering'
  BY <1>1, <1>2 DEF Answering
<1>9. step' \in 1 .. Call!Answered' + 1
  BY <1>1, <1>2
<1> QED
  BY <1>2, <1>4, <1>7, <1>8, <1>9 DEF AsmInv

LEMMA EcallStep == AsmInv /\ Call!Ecall => AsmInv'
<1> SUFFICES ASSUME AsmInv, Call!Ecall PROVE AsmInv'
  OBVIOUS
<1>1. /\ nMoves \in Nat /\ nResults \in Nat /\ step = nMoves + 1
      /\ step' = step + 1 /\ UNCHANGED <<asm, place>>
  BY DEF Call!Ecall, AsmInv, Undisturbed, nMoves, nResults
<1>2. /\ Undisturbed(asm)' /\ Placed' /\ nMoves' = nMoves /\ nResults' = nResults /\ Call!Answered' = Call!Answered
      /\ Call!Answered = nMoves + 1 + nResults
  BY <1>1, BlockKept
<1>3. DOMAIN reg' = Registers
  BY DEF Call!Ecall
<1>4. ASSUME NEW k \in 1 .. nResults
      PROVE  reg'[asm.results[k][2]] = asm.results[k][1]
  <2> DEFINE x == asm.results[k][2]
             told == {j \in DOMAIN asm.results : asm.results[j][2] = x}
  <2>1. x \in Registers /\ told = {k}
    BY <1>1 DEF AsmInv, Undisturbed, nResults
  <2>2. reg'[x] = IF told = {} THEN reg[x] ELSE asm.results[CHOOSE j \in told : TRUE][1]
    BY <2>1 DEF Call!Ecall
  <2> HIDE DEF told
  <2>3. (CHOOSE j \in told : TRUE) = k
    BY <2>1
  <2> QED
    BY <2>1, <2>2, <2>3
<1>5. Moving'
  BY <1>1, <1>2 DEF Moving
<1>6. Answering'
  BY <1>1, <1>2, <1>4 DEF Answering
<1>7. step' \in 1 .. Call!Answered' + 1
  BY <1>1, <1>2
<1> QED
  BY <1>2, <1>3, <1>5, <1>6, <1>7 DEF AsmInv

LEMMA WriteBackStep == AsmInv /\ Call!WriteBack => AsmInv'
<1> SUFFICES ASSUME AsmInv, Call!WriteBack PROVE AsmInv'
  OBVIOUS
<1> DEFINE n == step - nMoves - 1
           res == asm.results[n]
<1>0. nMoves \in Nat /\ nResults \in Nat /\ Call!Answered = nMoves + 1 + nResults
  <2>1. Call!Answered = nMoves + 1 + nResults
    BY DEF Call!Answered, nMoves, nResults
  <2> QED
    BY <2>1 DEF AsmInv, Undisturbed, nMoves, nResults
<1>1. /\ nMoves \in Nat /\ nResults \in Nat
      /\ step \in nMoves + 2 .. nMoves + 1 + nResults /\ n \in 1 .. nResults
      /\ reg' = [reg EXCEPT ![place[res[1]]] = reg[res[2]]]
      /\ step' = step + 1 /\ UNCHANGED <<asm, place>>
  <2>1. step \in nMoves + 2 .. Call!Answered
    BY DEF Call!WriteBack, nMoves
  <2>2. step \in nMoves + 2 .. nMoves + 1 + nResults /\ n \in 1 .. nResults
    BY <1>0, <2>1
  <2> QED
    BY <1>0, <2>2 DEF Call!WriteBack, nMoves
<1>2. /\ Undisturbed(asm)' /\ Placed' /\ nMoves' = nMoves /\ nResults' = nResults /\ Call!Answered' = Call!Answered
      /\ Call!Answered = nMoves + 1 + nResults
  BY <1>1, BlockKept
<1>3. \A k \in 1 .. nResults :
        /\ asm.results[k][1] \in Call!Outputs
        /\ place[asm.results[k][1]] \in asm.allowed
        /\ place[asm.results[k][1]] \in Registers
        /\ asm.results[k][2] \in Registers
  <2>1. \A k \in 1 .. nResults : asm.results[k][1] \in Call!Outputs
    BY DEF AsmInv, Undisturbed, nResults, Call!Outputs
  <2>2. \A o \in Call!Outputs : place[o] \in asm.allowed /\ place[o] \in Registers
    BY DEF AsmInv, Undisturbed, Placed
  <2>3. \A k \in 1 .. nResults : asm.results[k][2] \in Registers
    BY DEF AsmInv, Undisturbed, nResults
  <2> QED
    BY <2>1, <2>2, <2>3
<1>4. /\ DOMAIN reg' = Registers /\ reg'[place[res[1]]] = reg[res[2]]
      /\ \A x \in Registers : x # place[res[1]] => reg'[x] = reg[x]
  BY <1>1, <1>3 DEF AsmInv
<1>5. ASSUME NEW k \in 1 .. nResults
      PROVE  IF k < n + 1 THEN reg'[place[asm.results[k][1]]] = asm.results[k][1]
                          ELSE reg'[asm.results[k][2]] = asm.results[k][1]
  <2> DEFINE s == asm.results[k]
  <2>0. IF k < n THEN reg[place[s[1]]] = s[1] ELSE reg[s[2]] = s[1]
    BY <1>1 DEF AsmInv, Answering
  <2>1. CASE k < n
    <3>1. s[1] # res[1]
      BY <1>1, <2>1 DEF AsmInv, Undisturbed, nResults
    <3>2. place[s[1]] # place[res[1]]
      BY <1>1, <1>3, <3>1 DEF AsmInv, Placed
    <3> QED
      BY <1>1, <1>3, <1>4, <2>0, <2>1, <3>2
  <2>2. CASE k = n
    BY <1>1, <1>4, <2>0, <2>2
  <2>3. CASE k > n
    <3>1. s[2] \notin asm.allowed
      BY <1>1, <2>3 DEF AsmInv, Undisturbed, nResults
    <3>2. s[2] # place[res[1]] /\ s[2] \in Registers
      BY <1>1, <1>3, <3>1
    <3> QED
      BY <1>1, <1>4, <2>0, <2>3, <3>2
  <2> QED
    BY <1>1, <2>1, <2>2, <2>3
<1>6. Moving'
  BY <1>1, <1>2 DEF Moving
<1>7. Answering'
  <2>1. step' - nMoves - 1 = n + 1
    BY <1>1
  <2> QED
    BY <1>1, <1>2, <1>5, <2>1 DEF Answering
<1>8. step' \in 1 .. Call!Answered' + 1
  BY <1>1, <1>2
<1> QED
  BY <1>2, <1>4, <1>6, <1>7, <1>8 DEF AsmInv

LEMMA AsmStep == AsmInv /\ [Call!Next]_(Call!vars) => AsmInv'
<1>1. AsmInv /\ UNCHANGED Call!vars => AsmInv'
  <2> SUFFICES ASSUME AsmInv, UNCHANGED Call!vars PROVE AsmInv'
    OBVIOUS
  <2>1. UNCHANGED <<asm, place>> /\ reg' = reg /\ step' = step
    BY DEF Call!vars
  <2>2. Moving'
    BY <2>1, BlockKept DEF AsmInv, Moving, Expected, Call!Operands
  <2>3. Answering'
    BY <2>1, BlockKept DEF AsmInv, Answering
  <2> QED
    BY <2>1, <2>2, <2>3, BlockKept DEF AsmInv
<1> QED
  BY <1>1, MoveStep, EcallStep, WriteBackStep DEF Call!Next

LEMMA AsmSafe == AsmInv => Call!CallsFaithful
<1> SUFFICES ASSUME AsmInv PROVE Call!CallsFaithful
  OBVIOUS
<1>1. nMoves \in Nat /\ DOMAIN asm.moves = 1 .. nMoves
      /\ nResults \in Nat /\ DOMAIN asm.results = 1 .. nResults
  BY DEF AsmInv, Undisturbed, nMoves, nResults
<1>2. ASSUME step = nMoves + 1, NEW k \in DOMAIN asm.moves
      PROVE  reg[asm.moves[k][1]] = Expected(asm.moves[k])
  BY <1>1, <1>2 DEF AsmInv, Moving
<1>3. ASSUME step > Call!Answered, NEW o \in Call!Outputs PROVE reg[place[o]] = o
  <2>1. PICK k \in 1 .. nResults : o = asm.results[k][1]
    BY <1>1 DEF Call!Outputs
  <2>2. step = nMoves + 2 + nResults
    <3>1. Call!Answered = nMoves + 1 + nResults
      BY DEF Call!Answered, nMoves, nResults
    <3> QED
      BY <1>1, <1>3, <3>1 DEF AsmInv
  <2> QED
    BY <1>1, <2>1, <2>2 DEF AsmInv, Answering
<1> QED
  BY <1>1, <1>2, <1>3 DEF Call!CallsFaithful, Expected, nMoves, nResults

AsmKept   == part = "asm" => AsmInv

LEMMA AsmGoesOn == AsmKept /\ [Next]_vars => AsmKept'
<1> SUFFICES ASSUME AsmKept, [Next]_vars, part' = "asm"
             PROVE  AsmInv'
  BY DEF AsmKept
<1>1. part = "asm" /\ [Call!Next]_asmVars
  BY PartsStep
<1>2. Call!Next \/ UNCHANGED Call!vars
  BY <1>1 DEF asmVars, Call!vars
<1> QED
  BY <1>1, <1>2, AsmStep DEF AsmKept

(* The firmware and the kernel find the arguments they are called with,    *)
(* and the callers their results.                                          *)
THEOREM CallsArrive == Spec => []CallsFaithful
<1>1. Init => AsmKept
  BY PartsAssumption, TheoremsApply, AsmInit DEF Init, AsmKept
<1>2. AsmKept => CallsFaithful
  BY AsmSafe DEF AsmKept, CallsFaithful
<1> QED
  BY <1>1, <1>2, AsmGoesOn, PTL DEF Spec

-----------------------------------------------------------------------------
(* Page tables *)

WalkKept == part = "walk" => Walk!WalkInv

LEMMA WalkStart ==
  Init => WalkKept /\ (part = "walk" => Walk!Walks!Init)
BY PartsAssumption, Walk!WalkInit DEF Init, WalkKept

LEMMA WalkGoesOn ==
  WalkKept /\ [Next]_vars =>
    WalkKept' /\ [part = "walk" => Walk!Walks!Next \/ UNCHANGED Walk!Walks!vars]_vars
<1> SUFFICES ASSUME WalkKept, [Next]_vars
             PROVE  /\ WalkKept'
                    /\ part = "walk" => Walk!Walks!Next \/ UNCHANGED Walk!Walks!vars
  OBVIOUS
<1>1. CASE part # "walk"
  BY <1>1, PartsStep DEF WalkKept
<1>2. CASE part = "walk"
  <2>1. [Walk!Next]_walkVars /\ part' = part
    BY <1>2, PartsStep
  <2>2. [Walk!Next]_(Walk!vars)
    BY <2>1 DEF walkVars, Walk!vars
  <2>3. Walk!WalkInv' /\ [Walk!Walks!Next]_(Walk!Walks!vars)
    BY <1>2, <2>2, PartsAssumption, Walk!WalkStep DEF WalkKept
  <2> QED
    BY <2>1, <2>3 DEF WalkKept
<1> QED
  BY <1>1, <1>2

(* No two tasks have a table in common but the kernel's own.               *)
THEOREM TablesKeptPrivate == Spec => []TablesPrivate
<1>1. WalkKept => TablesPrivate
  BY Walk!WalkPrivate DEF WalkKept, TablesPrivate
<1> QED
  BY <1>1, WalkStart, WalkGoesOn, PTL DEF Spec

(* The tables behave like one function from pages to entries per task.     *)
THEOREM TablesAreFunctions == Spec => AddressSpaces
BY WalkStart, WalkGoesOn, PTL DEF Spec, AddressSpaces

-----------------------------------------------------------------------------
(* VMA lists *)

(* w are the nodes of task p's list, from head h on, with links and areas  *)
(* as in nd.                                                               *)
IsList(w, p, h, nd) ==
  /\ w \in Seq(List!Nodes)
  /\ h = IF w = <<>> THEN List!Null ELSE w[1]
  /\ \A k \in 1 .. Len(w) :
       /\ nd[w[k]].vm_mm = p
       /\ nd[w[k]].vm_prev = IF k = 1 THEN List!Null ELSE w[k - 1]
       /\ nd[w[k]].vm_next = IF k = Len(w) THEN List!Null ELSE w[k + 1]

(* The node table has its fields; the nodes of w are among the first n     *)
(* that kalloc handed out.                                                 *)
NodesMade(nd) ==
  /\ DOMAIN nd = List!Nodes
  /\ \A n \in List!Nodes : DOMAIN nd[n] = {"area", "vm_next", "vm_prev", "vm_mm"}
HandedOut(w, n) == Len(w) <= n /\ \A k \in 1 .. Len(w) : w[k] <= n

(* The areas of the nodes of w.                                            *)
AreasIn(w, nd) == {nd[w[k]].area : k \in 1 .. Len(w)}

(* Putting a new node at the head makes a list with that node first, and   *)
(* leaves the lists of the other tasks as they are.                        *)
LEMMA PrependedIsList ==
  ASSUME NEW head, DOMAIN head = List!Pids, NEW nd, NodesMade(nd),
         NEW p \in List!Pids, NEW w, IsList(w, p, head[p], nd),
         NEW n \in List!Nodes, NEW u \in Nat, n = u + 1, HandedOut(w, u), NEW a,
         NEW l, l = List!Prepended([head |-> head, node |-> nd], p, n, a)
  PROVE  /\ DOMAIN l.head = List!Pids /\ NodesMade(l.node)
         /\ IsList(<<n>> \o w, p, l.head[p], l.node) /\ HandedOut(<<n>> \o w, n)
         /\ \A q \in List!Pids \ {p} : \A v :
              IsList(v, q, head[q], nd) /\ HandedOut(v, u) =>
                IsList(v, q, l.head[q], l.node) /\ HandedOut(v, n)
<1> DEFINE prev == head[p]
           b == List!BackLink(nd, prev, n)
           v == <<n>> \o w
<1>0. n # 0 /\ List!Null = 0 /\ List!Nodes \subseteq Nat /\ w \in Seq(List!Nodes)
  BY DEF List!Null, List!Nodes, IsList
<1>1. /\ l.head = [head EXCEPT ![p] = n]
      /\ l.node = [b EXCEPT ![n] = [area |-> a, vm_next |-> prev, vm_prev |-> 0, vm_mm |-> p]]
  BY <1>0 DEF List!Prepended
<1>2. prev = IF w = <<>> THEN 0 ELSE w[1]
  BY <1>0 DEF IsList
<1>3. /\ DOMAIN b = List!Nodes
      /\ \A m \in List!Nodes :
           /\ DOMAIN b[m] = {"area", "vm_next", "vm_prev", "vm_mm"}
           /\ b[m].vm_mm = nd[m].vm_mm /\ b[m].vm_next = nd[m].vm_next
           /\ b[m].vm_prev = IF prev # 0 /\ m = prev THEN n ELSE nd[m].vm_prev
  BY <1>0 DEF List!BackLink, NodesMade
<1> HIDE DEF b
<1>4. /\ DOMAIN l.node = List!Nodes
      /\ l.node[n] = [area |-> a, vm_next |-> prev, vm_prev |-> 0, vm_mm |-> p]
      /\ \A m \in List!Nodes \ {n} : l.node[m] = b[m]
  BY <1>1, <1>3
<1>5. NodesMade(l.node)
  BY <1>3, <1>4 DEF NodesMade
<1>6. DOMAIN l.head = List!Pids /\ l.head[p] = n
      /\ \A q \in List!Pids \ {p} : l.head[q] = head[q]
  BY <1>1
<1>7. v \in Seq(List!Nodes) /\ v # <<>> /\ v[1] = n
  BY <1>0
<1>12. Len(w) \in Nat /\ Len(v) = Len(w) + 1 /\ Len(v) \in Nat
  BY <1>0
<1>13. \A j \in 1 .. Len(w) : v[j + 1] = w[j]
  BY <1>0
<1> HIDE DEF v
<1>8. \A k \in 1 .. Len(w) : w[k] \in List!Nodes /\ w[k] <= u /\ w[k] # n
  BY <1>0 DEF HandedOut
<1>9. HandedOut(v, n)
  <2>1. Len(v) <= n /\ Len(v) \in Nat
    BY <1>0, <1>12 DEF HandedOut
  <2>2. ASSUME NEW k \in 1 .. Len(v) PROVE v[k] <= n
    <3>1. CASE k = 1
      BY <1>0, <1>7, <3>1
    <3>2. CASE k # 1
      <4> DEFINE j == k - 1
      <4>1. j \in 1 .. Len(w) /\ k = j + 1
        BY <1>12, <3>2
      <4> HIDE DEF j
      <4>2. v[k] = w[j] /\ w[j] \in Nat /\ w[j] <= u
        BY <1>0, <1>8, <1>13, <4>1
      <4> QED
        BY <4>2
    <3> QED
      BY <3>1, <3>2
  <2> QED
    BY <2>1, <2>2 DEF HandedOut
<1>10. IsList(v, p, l.head[p], l.node)
  <2> SUFFICES ASSUME NEW k \in 1 .. Len(v)
               PROVE  /\ l.node[v[k]].vm_mm = p
                      /\ l.node[v[k]].vm_prev = IF k = 1 THEN 0 ELSE v[k - 1]
                      /\ l.node[v[k]].vm_next = IF k = Len(v) THEN 0 ELSE v[k + 1]
    BY <1>0, <1>6, <1>7 DEF IsList
  <2>1. CASE k = 1
    <3>1. l.node[v[k]].vm_mm = p /\ l.node[v[k]].vm_prev = 0 /\ l.node[v[k]].vm_next = prev
      BY <1>4, <1>7, <2>1
    <3>2. CASE w = <<>>
      <4>1. k = Len(v)
        BY <1>12, <2>1, <3>2
      <4> QED
        BY <1>2, <2>1, <3>1, <3>2, <4>1
    <3>3. CASE w # <<>>
      <4>1. 1 \in 1 .. Len(w) /\ k # Len(v) /\ v[k + 1] = v[1 + 1]
        BY <1>0, <1>12, <2>1, <3>3
      <4> QED
        BY <1>2, <1>13, <2>1, <3>1, <3>3, <4>1
    <3> QED
      BY <3>2, <3>3
  <2>2. CASE k # 1
    <3> DEFINE j == k - 1
    <3>0. j \in 1 .. Len(w) /\ k = j + 1 /\ k - 1 = j /\ (k = Len(v) <=> j = Len(w))
      BY <1>12, <2>2
    <3> HIDE DEF j
    <3>1. j \in 1 .. Len(w) /\ v[k] = w[j] /\ w[j] \in List!Nodes \ {n}
      BY <1>8, <1>13, <3>0
    <3>2. /\ nd[w[j]].vm_mm = p
          /\ nd[w[j]].vm_prev = IF j = 1 THEN 0 ELSE w[j - 1]
          /\ nd[w[j]].vm_next = IF j = Len(w) THEN 0 ELSE w[j + 1]
      BY <1>0, <3>1 DEF IsList
    <3>3. prev # 0 /\ (w[j] = prev <=> j = 1)
      <4>1. w[1] \in List!Nodes /\ prev = w[1] /\ w[1] # 0
        <5>1. 1 \in 1 .. Len(w) /\ w # <<>>
          BY <1>12, <3>1
        <5> QED
          BY <1>2, <1>8, <5>1 DEF List!Nodes
      <4>2. nd[w[1]].vm_prev = 0
        BY <1>0, <3>1 DEF IsList
      <4>3. ASSUME j # 1 PROVE w[j] # w[1]
        <5>1. j - 1 \in 1 .. Len(w)
          BY <1>12, <3>1, <4>3
        <5>2. w[j - 1] \in List!Nodes /\ w[j - 1] # 0
          BY <1>8, <5>1 DEF List!Nodes
        <5> QED
          BY <3>2, <4>2, <4>3, <5>2
      <4> QED
        BY <4>1, <4>3
    <3>9. l.node[v[k]] = b[w[j]] /\ w[j] \in List!Nodes
      BY <1>4, <3>1
    <3>4. /\ l.node[v[k]].vm_mm = p
          /\ l.node[v[k]].vm_prev = IF j = 1 THEN n ELSE w[j - 1]
          /\ l.node[v[k]].vm_next = IF j = Len(w) THEN 0 ELSE w[j + 1]
      BY <1>3, <3>2, <3>3, <3>9
    <3>5. v[k - 1] = IF j = 1 THEN n ELSE w[j - 1]
      <4>1. CASE j = 1
        BY <1>7, <3>0, <4>1
      <4>2. CASE j # 1
        <5>1. j - 1 \in 1 .. Len(w) /\ (j - 1) + 1 = j
          BY <1>12, <3>1, <4>2
        <5> QED
          BY <1>13, <3>0, <4>2, <5>1
      <4> QED
        BY <4>1, <4>2
    <3>6. ASSUME j # Len(w) PROVE v[k + 1] = w[j + 1]
      <4>1. j + 1 \in 1 .. Len(w)
        BY <1>12, <3>1, <3>6
      <4> QED
        BY <1>13, <3>0, <4>1
    <3> QED
      BY <2>2, <3>0, <3>4, <3>5, <3>6
  <2> QED
    BY <2>1, <2>2
<1>11. ASSUME NEW q \in List!Pids \ {p}, NEW x, IsList(x, q, head[q], nd), HandedOut(x, u)
       PROVE  IsList(x, q, l.head[q], l.node) /\ HandedOut(x, n)
  <2>0. x \in Seq(List!Nodes) /\ \A k \in 1 .. Len(x) : nd[x[k]].vm_mm = q
    BY <1>11 DEF IsList
  <2>1. ASSUME NEW k \in 1 .. Len(x) PROVE l.node[x[k]] = nd[x[k]]
    <3>1. x[k] \in List!Nodes \ {n} /\ nd[x[k]].vm_mm = q
      BY <1>0, <1>11, <2>0 DEF HandedOut
    <3>2. prev # 0 => prev \in List!Nodes /\ nd[prev].vm_mm = p
      BY <1>0, <1>2 DEF IsList
    <3>3. b[x[k]] = nd[x[k]]
      BY <1>0, <3>1, <3>2 DEF List!BackLink, b
    <3> QED
      BY <1>4, <3>1, <3>3
  <2>2. IsList(x, q, l.head[q], l.node)
    BY <1>6, <1>11, <2>1 DEF IsList
  <2>3. Len(x) \in Nat /\ \A k \in 1 .. Len(x) : x[k] \in Nat
    BY <1>0, <2>0
  <2>4. HandedOut(x, n)
    BY <1>11, <2>3 DEF HandedOut
  <2> QED
    BY <2>2, <2>4
<1> QED
  BY <1>5, <1>6, <1>9, <1>10, <1>11 DEF v

(* The list has one area more then, and all other nodes keep theirs.       *)
LEMMA PrependedAreas ==
  ASSUME NEW head, NEW nd, NodesMade(nd), NEW p \in List!Pids, NEW w \in Seq(List!Nodes),
         NEW n \in List!Nodes, NEW u \in Nat, n = u + 1, HandedOut(w, u), NEW a,
         head[p] \in List!Nodes \cup {List!Null},
         NEW l, l = List!Prepended([head |-> head, node |-> nd], p, n, a)
  PROVE  /\ AreasIn(<<n>> \o w, l.node) = AreasIn(w, nd) \cup {a}
         /\ \A m \in List!Nodes \ {n} : l.node[m].area = nd[m].area
         /\ \A v \in Seq(List!Nodes) : HandedOut(v, u) => AreasIn(v, l.node) = AreasIn(v, nd)
<1> DEFINE prev == head[p]
           b == List!BackLink(nd, prev, n)
           v == <<n>> \o w
<1>0. n # 0 /\ List!Null = 0 /\ List!Nodes \subseteq Nat /\ Len(w) \in Nat
  BY DEF List!Null, List!Nodes
<1>7. ASSUME NEW x \in Seq(List!Nodes), HandedOut(x, u), NEW k \in 1 .. Len(x)
      PROVE  x[k] \in List!Nodes \ {n}
  <2>1. x[k] \in List!Nodes /\ x[k] <= u
    BY <1>7 DEF HandedOut
  <2> QED
    BY <1>0, <2>1
<1>1. l.node = [b EXCEPT ![n] = [area |-> a, vm_next |-> prev, vm_prev |-> 0, vm_mm |-> p]]
  BY <1>0 DEF List!Prepended
<1>2. DOMAIN b = List!Nodes /\ \A m \in List!Nodes : b[m].area = nd[m].area
  BY <1>0 DEF List!BackLink, NodesMade
<1> HIDE DEF b
<1>8. /\ l.node[n] = [area |-> a, vm_next |-> prev, vm_prev |-> 0, vm_mm |-> p]
      /\ \A m \in List!Nodes \ {n} : l.node[m] = b[m]
  BY <1>1, <1>2
<1>3. l.node[n].area = a /\ \A m \in List!Nodes \ {n} : l.node[m].area = nd[m].area
  BY <1>2, <1>8
<1>4. v[1] = n /\ Len(v) = Len(w) + 1 /\ \A k \in 1 .. Len(w) : v[k + 1] = w[k]
  BY <1>0
<1> HIDE DEF v
<1>5. AreasIn(v, l.node) = AreasIn(w, nd) \cup {a}
  <2>1. ASSUME NEW k \in 1 .. Len(v) PROVE l.node[v[k]].area \in AreasIn(w, nd) \cup {a}
    <3>1. CASE k = 1
      BY <1>3, <1>4, <3>1
    <3>2. CASE k # 1
      <4> DEFINE j == k - 1
      <4>1. j \in 1 .. Len(w) /\ k = j + 1
        BY <1>0, <1>4, <3>2
      <4> HIDE DEF j
      <4>2. v[k] = w[j] /\ w[j] \in List!Nodes \ {n}
        BY <1>4, <1>7, <4>1
      <4>3. l.node[v[k]].area = nd[w[j]].area
        BY <1>3, <4>2
      <4> QED
        BY <4>1, <4>3 DEF AreasIn
    <3> QED
      BY <3>1, <3>2
  <2>2. a \in AreasIn(v, l.node)
    <3>1. 1 \in 1 .. Len(v)
      BY <1>0, <1>4
    <3> QED
      BY <1>3, <1>4, <3>1 DEF AreasIn
  <2>3. ASSUME NEW k \in 1 .. Len(w) PROVE nd[w[k]].area \in AreasIn(v, l.node)
    <3>1. k + 1 \in 1 .. Len(v) /\ v[k + 1] = w[k]
      BY <1>0, <1>4
    <3>2. w[k] \in List!Nodes \ {n}
      BY <1>7
    <3>3. l.node[v[k + 1]].area = nd[w[k]].area
      BY <1>3, <3>1, <3>2
    <3> QED
      BY <3>1, <3>3 DEF AreasIn
  <2>4. AreasIn(v, l.node) \subseteq AreasIn(w, nd) \cup {a}
    BY <2>1 DEF AreasIn
  <2>5. AreasIn(w, nd) \subseteq AreasIn(v, l.node)
    <3> HIDE DEF v
    <3> SUFFICES ASSUME NEW e \in AreasIn(w, nd) PROVE e \in AreasIn(v, l.node)
      OBVIOUS
    <3>1. PICK k \in 1 .. Len(w) : e = nd[w[k]].area
      BY DEF AreasIn
    <3> QED
      BY <2>3, <3>1
  <2> QED
    BY <2>2, <2>4, <2>5
<1>6. ASSUME NEW x \in Seq(List!Nodes), HandedOut(x, u)
      PROVE  AreasIn(x, l.node) = AreasIn(x, nd)
  <2>1. \A k \in 1 .. Len(x) : l.node[x[k]].area = nd[x[k]].area
    BY <1>3, <1>6, <1>7
  <2> QED
    BY <2>1, Zenon DEF AreasIn
<1> QED
  BY <1>3, <1>5, <1>6 DEF v

(* Walk finds the list.                                                    *)
LEMMA WalkIsList ==
  ASSUME MaxNodes \in Nat, NEW p, NEW w, IsList(w, p, mmap[p], node), Len(w) <= MaxNodes
  PROVE  List!Walk(p) = w
<1> DEFINE After(x) == IF x = <<>> THEN mmap[p] ELSE node[x[Len(x)]].vm_next
           Longer(x) == IF After(x) = 0 THEN x ELSE Append(x, After(x))
           Eq(f)    == f = [k \in 0 .. MaxNodes |-> IF k = 0 THEN <<>> ELSE Longer(f[k - 1])]
           n        == Len(w)
           First(k) == IF k <= n THEN SubSeq(w, 1, k) ELSE w
           g        == [k \in 0 .. MaxNodes |-> First(k)]
<1>1. List!Walk(p) = (CHOOSE f : Eq(f))[MaxNodes]
  BY Zenon DEF List!Walk, List!Last, List!Null
<1>2. w \in Seq(List!Nodes) /\ n \in Nat /\ \A k \in 1 .. n : w[k] # 0
  BY DEF IsList, List!Nodes
<1>3. /\ mmap[p] = IF w = <<>> THEN 0 ELSE w[1]
      /\ \A k \in 1 .. n : node[w[k]].vm_next = IF k = n THEN 0 ELSE w[k + 1]
  BY DEF IsList, List!Null
<1>0. \A k \in Nat : n < k => First(k) = w
  <2>1. n \in Nat
    BY DEF IsList
  <2> QED
    BY <2>1
<1>4. First(0) = <<>> /\ First(n) = w
  BY <1>2
<1>5. \A k \in 1 .. n : /\ First(k) # <<>> /\ Len(First(k)) = k /\ First(k)[k] = w[k]
                        /\ First(k) = Append(First(k - 1), w[k])
  BY <1>2
<1> HIDE DEF First
<1>6. ASSUME NEW k \in 1 .. MaxNodes PROVE First(k) = Longer(First(k - 1))
  <2>1. CASE k <= n /\ k = 1
    <3>1. 1 \in 1 .. n /\ w # <<>> /\ w[1] # 0
      BY <1>2, <2>1
    <3>2. After(<<>>) = w[1]
      <4>1. After(<<>>) = mmap[p]
        BY Zenon
      <4>2. mmap[p] = w[1]
        <5> HIDE DEF After, Longer
        <5> QED
          BY <1>3, <3>1
      <4> QED
        BY <4>1, <4>2, Zenon
    <3>3. First(1) = Append(First(0), w[1]) /\ k - 1 = 0
      <4>1. First(1) = Append(First(1 - 1), w[1])
        BY <1>5, <3>1, Zenon
      <4> QED
        BY <2>1, <4>1
    <3>4. Longer(<<>>) = Append(<<>>, w[1])
      BY <3>1, <3>2
    <3> HIDE DEF Longer
    <3> QED
      BY <1>4, <2>1, <3>3, <3>4
  <2>2. CASE k <= n /\ k # 1
    <3>1. k - 1 \in 1 .. n /\ k \in 1 .. n /\ k - 1 # n /\ (k - 1) + 1 = k
      BY <1>2, <2>2
    <3>2. First(k - 1) # <<>> /\ First(k - 1)[Len(First(k - 1))] = w[k - 1]
      BY <1>5, <3>1
    <3>3. node[w[k - 1]].vm_next = w[k] /\ w[k] # 0
      BY <1>2, <1>3, <3>1
    <3>4. After(First(k - 1)) = w[k]
      BY <3>2, <3>3
    <3>5. First(k) = Append(First(k - 1), w[k])
      BY <1>5, <3>1
    <3>6. Longer(First(k - 1)) = Append(First(k - 1), w[k])
      BY <3>3, <3>4
    <3> HIDE DEF Longer
    <3> QED
      BY <3>5, <3>6
  <2>3. CASE n < k
    <3>1. k \in Nat /\ k - 1 \in Nat /\ (k - 1 = n \/ n < k - 1)
      BY <1>2, <2>3
    <3>2. First(k) = w /\ First(k - 1) = w
      BY <1>0, <1>4, <2>3, <3>1
    <3>3. w # <<>> => n \in 1 .. n
      BY <1>2
    <3>4. After(w) = 0
      BY <1>3, <3>3
    <3> QED
      BY <3>2, <3>4
  <2> QED
    BY <1>2, <2>1, <2>2, <2>3
<1> HIDE DEF Longer
<1>7. Eq(g)
  <2>1. ASSUME NEW k \in 0 .. MaxNodes
        PROVE  g[k] = IF k = 0 THEN <<>> ELSE Longer(g[k - 1])
    <3>1. CASE k = 0
      BY <1>4, <3>1
    <3>2. CASE k # 0
      <4>1. k \in 1 .. MaxNodes /\ k - 1 \in 0 .. MaxNodes
        BY <3>2
      <4> QED
        BY <1>6, <3>2, <4>1
    <3> QED
      BY <3>1, <3>2
  <2> HIDE DEF First
  <2> QED
    BY <2>1
<1>8. Eq(CHOOSE f : Eq(f))
  <2> HIDE DEF Eq, g
  <2> QED
    BY <1>7, Zenon
<1> DEFINE s == CHOOSE f : Eq(f)
<1>9. \A k \in 0 .. MaxNodes : s[k] = IF k = 0 THEN <<>> ELSE Longer(s[k - 1])
  <2> HIDE DEF s
  <2> QED
    BY <1>8 DEF s
<1> HIDE DEF s
<1>10. \A k \in 0 .. MaxNodes : s[k] = First(k)
  <2> DEFINE T == {k \in 0 .. MaxNodes : s[k] = First(k)}
  <2>1. 0 \in T
    BY <1>4, <1>9
  <2>2. \A k \in 1 .. MaxNodes : k - 1 \in T => k \in T
    <3> SUFFICES ASSUME NEW k \in 1 .. MaxNodes, k - 1 \in T PROVE s[k] = First(k)
      BY DEF T
    <3>1. k \in 0 .. MaxNodes /\ k # 0
      OBVIOUS
    <3> QED
      BY <1>6, <1>9, <3>1
  <2> HIDE DEF T
  <2>3. \A k \in 0 .. MaxNodes : k \in T
    BY <2>1, <2>2, Walk!Counting
  <2> QED
    BY <2>3 DEF T
<1>11. s[MaxNodes] = First(MaxNodes)
  BY <1>10
<1>12. First(MaxNodes) = w
  <2>1. MaxNodes <= n => MaxNodes = n
    BY <1>2
  <2> QED
    BY <1>4, <2>1 DEF First
<1> QED
  BY <1>1, <1>11, <1>12 DEF s

(* load_program leaves task 1 with a list.                                 *)
LEMMA FirstIsList ==
  ASSUME MaxTasks \in Nat \ {0, 1}, MaxNodes \in Nat,
         NEW areas, Len(areas) \in 0 .. MaxNodes,
         NEW l, l = List!FirstLists(areas)
  PROVE  /\ DOMAIN l.head = List!Pids /\ NodesMade(l.node)
         /\ \E w : /\ IsList(w, 1, l.head[1], l.node) /\ HandedOut(w, Len(areas))
                 /\ AreasIn(w, l.node) = {areas[k] : k \in 1 .. Len(areas)}
<1> DEFINE n == Len(areas)
           With(x, k) == List!Prepended(x, 1, k, areas[k])
           Eq(f, m) == f = [k \in 0 .. m |->
                              IF k = 0 THEN List!NoLists ELSE With(f[k - 1], k)]
           Good(x, k) == /\ DOMAIN x.head = List!Pids /\ NodesMade(x.node)
                         /\ \E w : /\ IsList(w, 1, x.head[1], x.node) /\ HandedOut(w, k)
                                 /\ AreasIn(w, x.node) = {areas[j] : j \in 1 .. k}
<1>1. List!FirstLists(areas) = (CHOOSE f : Eq(f, n))[n]
  BY Zenon DEF List!FirstLists
<1>2. n \in Nat /\ n <= MaxNodes /\ \A k \in 1 .. n : k \in List!Nodes
  BY DEF List!Nodes
<1>3. 1 \in List!Pids
  BY DEF List!Pids
<1>4. \E f : Eq(f, n)
  <2> DEFINE T == {m \in 0 .. n : \E f : Eq(f, m)}
  <2>1. 0 \in T
    <3> DEFINE f == [k \in 0 .. 0 |-> List!NoLists]
    <3>1. Eq(f, 0)
      <4> HIDE DEF With
      <4> QED
        OBVIOUS
    <3> HIDE DEF Eq
    <3> QED
      BY <1>2, <3>1
  <2>2. ASSUME NEW m \in 1 .. n, m - 1 \in T PROVE m \in T
    <3>1. PICK f : Eq(f, m - 1)
      BY <2>2
    <3> DEFINE g == [k \in 0 .. m |-> IF k = m THEN With(f[m - 1], m) ELSE f[k]]
    <3>2. ASSUME NEW k \in 0 .. m
          PROVE  g[k] = IF k = 0 THEN List!NoLists ELSE With(g[k - 1], k)
      <4>1. CASE k = m
        <5>1. k \in 0 .. m /\ k - 1 \in 0 .. m /\ k - 1 # m /\ k # 0
          BY <4>1
        <5> HIDE DEF With
        <5>2. g[k] = With(f[k - 1], k) /\ g[k - 1] = f[k - 1]
          BY <4>1, <5>1
        <5> QED
          BY <5>1, <5>2
      <4>2. CASE k # m
        <5>1. k \in 0 .. m - 1 /\ (k # 0 => k - 1 \in 0 .. m /\ k - 1 # m)
          BY <4>2
        <5> HIDE DEF With
        <5>2. g[k] = f[k] /\ (k # 0 => g[k - 1] = f[k - 1])
          BY <4>2, <5>1
        <5>3. f[k] = IF k = 0 THEN List!NoLists ELSE With(f[k - 1], k)
          BY <3>1, <5>1
        <5> QED
          BY <5>2, <5>3
      <4> QED
        BY <4>1, <4>2
    <3>3. Eq(g, m)
      <4> HIDE DEF With
      <4>1. g = [k \in 0 .. m |-> g[k]]
        OBVIOUS
      <4> HIDE DEF g
      <4> QED
        BY <3>2, <4>1
    <3> HIDE DEF Eq, g
    <3> QED
      BY <3>3
  <2> HIDE DEF T, n
  <2>3. \A m \in 1 .. n : m - 1 \in T => m \in T
    BY <2>2
  <2>4. \A m \in 0 .. n : m \in T
    BY <1>2, <2>1, <2>3, Walk!Counting
  <2>5. n \in T
    BY <1>2, <2>4
  <2> QED
    BY <2>5 DEF T
<1> DEFINE s == CHOOSE f : Eq(f, n)
<1>5. Eq(s, n)
  <2> HIDE DEF Eq
  <2> QED
    BY <1>4, Zenon
<1> HIDE DEF s
<1>6. s[0] = List!NoLists /\ \A k \in 1 .. n : s[k] = With(s[k - 1], k)
  <2> HIDE DEF With
  <2> QED
    BY <1>2, <1>5
<1> DEFINE T == {k \in 0 .. n : Good(s[k], k)}
<1>7. 0 \in T
  <2>1. /\ IsList(<<>>, 1, List!Null, List!NoLists.node) /\ HandedOut(<<>>, 0)
        /\ AreasIn(<<>>, List!NoLists.node) = {areas[j] : j \in 1 .. 0}
    BY DEF IsList, HandedOut, AreasIn
  <2>2. List!NoLists.head[1] = List!Null /\ DOMAIN List!NoLists.head = List!Pids
    BY <1>3 DEF List!NoLists
  <2>3. NodesMade(List!NoLists.node)
    BY DEF List!NoLists, List!Free, NodesMade
  <2>4. Good(List!NoLists, 0)
    BY <2>1, <2>2, <2>3
  <2> HIDE DEF Good
  <2> QED
    BY <1>2, <1>6, <2>4
<1>8. ASSUME NEW k \in 1 .. n, k - 1 \in T PROVE k \in T
  <2>1. PICK w : /\ IsList(w, 1, s[k - 1].head[1], s[k - 1].node) /\ HandedOut(w, k - 1)
                 /\ AreasIn(w, s[k - 1].node) = {areas[j] : j \in 1 .. k - 1}
    BY <1>8
  <2>2. DOMAIN s[k - 1].head = List!Pids /\ NodesMade(s[k - 1].node)
    BY <1>8
  <2>3. k \in List!Nodes /\ k - 1 \in Nat /\ k = (k - 1) + 1
    BY <1>2
  <2>4. s[k] = List!Prepended([head |-> s[k - 1].head, node |-> s[k - 1].node], 1, k, areas[k])
    BY <1>6 DEF List!Prepended
  <2> DEFINE hd == s[k - 1].head
             nd == s[k - 1].node
             m  == k - 1
             x  == s[k]
             a  == areas[k]
  <2>5. /\ DOMAIN hd = List!Pids /\ NodesMade(nd) /\ IsList(w, 1, hd[1], nd)
        /\ HandedOut(w, m) /\ m \in Nat /\ k = m + 1
        /\ x = List!Prepended([head |-> hd, node |-> nd], 1, k, a)
    BY <2>1, <2>2, <2>3, <2>4
  <2>11. AreasIn(w, nd) = {areas[j] : j \in 1 .. m}
    BY <2>1
  <2>8. {areas[j] : j \in 1 .. k} = {areas[j] : j \in 1 .. m} \cup {a}
    <3>1. 1 .. k = (1 .. m) \cup {k}
      BY <2>3
    <3> HIDE DEF m
    <3> QED
      BY <3>1
  <2>9. w \in Seq(List!Nodes) /\ hd[1] \in List!Nodes \cup {List!Null}
    BY <2>5 DEF IsList
  <2> HIDE DEF T, With, Eq, n, hd, nd, m, x, a
  <2>6. /\ DOMAIN x.head = List!Pids /\ NodesMade(x.node)
        /\ IsList(<<k>> \o w, 1, x.head[1], x.node) /\ HandedOut(<<k>> \o w, k)
    BY <1>3, <2>3, <2>5, PrependedIsList
  <2>10. AreasIn(<<k>> \o w, x.node) = {areas[j] : j \in 1 .. k}
    <3>1. AreasIn(<<k>> \o w, x.node) = AreasIn(w, nd) \cup {a}
      BY <1>3, <2>3, <2>5, <2>9, PrependedAreas
    <3> QED
      BY <2>8, <2>11, <3>1
  <2>7. Good(x, k)
    BY <2>6, <2>10
  <2> QED
    BY <1>2, <2>7 DEF T, x
<1> HIDE DEF T, Good, With, Eq, n
<1>9. \A k \in 1 .. n : k - 1 \in T => k \in T
  BY <1>8
<1>10. \A k \in 0 .. n : k \in T
  BY <1>2, <1>7, <1>9, Walk!Counting
<1>11. n \in T
  BY <1>2, <1>10
<1>12. Good(s[n], n)
  BY <1>11 DEF T
<1> QED
  BY <1>1, <1>12 DEF Good, s, n

(* The tasks that have a list: the running ones, and during a fork the     *)
(* child.                                                                  *)
Listed == 1 .. nr_tasks - (IF cursor[1] = 0 THEN 1 ELSE 0)

(* The inductive invariant: every one of these tasks has a list, of nodes  *)
(* handed out.                                                             *)
ListInv ==
  /\ nr_tasks \in 2 .. MaxTasks /\ (cursor[1] # 0 => nr_tasks < MaxTasks)
  /\ used \in 0 .. MaxNodes
  /\ DOMAIN mmap = List!Pids /\ NodesMade(node)
  /\ \A p \in Listed : \E w : IsList(w, p, mmap[p], node) /\ HandedOut(w, used)
ListKept == part = "list" => ListInv

LEMMA ListStart == List!Init => ListInv
<1> SUFFICES ASSUME List!Init PROVE ListInv
  OBVIOUS
<1>1. /\ MaxTasks \in Nat \ {0, 1} /\ MaxNodes \in Nat
      /\ Len(List!Loaded(ramdisk)) \in 1 .. MaxNodes
  BY PartsAssumption DEF List!VmaListAssumption, List!Init
<1> DEFINE areas == List!Loaded(ramdisk)
           l == List!FirstLists(areas)
<1>2. /\ mmap = l.head /\ node = l.node /\ used = Len(areas)
      /\ nr_tasks = 2 /\ cursor = <<0, 0>>
  BY DEF List!Init, List!Null
<1> HIDE DEF areas
<1>3. Len(areas) \in 0 .. MaxNodes /\ Len(areas) \in Nat
  BY <1>1 DEF areas
<1> HIDE DEF l
<1>4. /\ DOMAIN l.head = List!Pids /\ NodesMade(l.node)
      /\ \E w : IsList(w, 1, l.head[1], l.node) /\ HandedOut(w, Len(areas))
  BY <1>1, <1>3, FirstIsList DEF l
<1>5. Listed = {1}
  BY <1>2 DEF Listed
<1> QED
  BY <1>1, <1>2, <1>3, <1>4, <1>5 DEF ListInv

LEMMA ListGoesOn == ListKept /\ [Next]_vars => ListKept'
<1> SUFFICES ASSUME ListKept, [Next]_vars, part' = "list"
             PROVE  ListInv'
  BY DEF ListKept
<1>1. ListInv /\ [List!Next]_listVars
  BY PartsStep DEF ListKept
<1>2. MaxTasks \in Nat \ {0, 1} /\ MaxNodes \in Nat
  BY PartsAssumption DEF List!VmaListAssumption
<1>3. /\ nr_tasks \in Nat /\ nr_tasks >= 2 /\ nr_tasks <= MaxTasks
      /\ used \in Nat /\ used <= MaxNodes
      /\ DOMAIN mmap = List!Pids /\ NodesMade(node)
  BY <1>1, <1>2 DEF ListInv
<1>4. ASSUME NEW p \in 1 .. nr_tasks - 1, List!ForkBegins(p)
      PROVE  ListInv'
  <2>1. /\ cursor[1] = 0 /\ nr_tasks < MaxTasks /\ cursor'[1] # 0
        /\ mmap' = [mmap EXCEPT ![nr_tasks] = 0]
        /\ UNCHANGED <<node, used, nr_tasks>>
    BY <1>4 DEF List!ForkBegins, List!ChildHead, List!Null
  <2>2. Listed = 1 .. nr_tasks - 1 /\ Listed' = 1 .. nr_tasks
    BY <1>3, <2>1 DEF Listed
  <2>3. ASSUME NEW q \in Listed'
        PROVE  \E w : IsList(w, q, mmap'[q], node) /\ HandedOut(w, used)
    <3>1. CASE q = nr_tasks
      <4>1. mmap'[q] = 0
        BY <1>2, <1>3, <2>1, <3>1 DEF List!Pids
      <4>2. IsList(<<>>, q, mmap'[q], node) /\ HandedOut(<<>>, used)
        BY <1>3, <4>1 DEF IsList, HandedOut, List!Null
      <4> QED
        BY <4>2
    <3>2. CASE q # nr_tasks
      <4>1. q \in Listed /\ q \in List!Pids
        BY <1>2, <1>3, <2>2, <3>2 DEF List!Pids
      <4>2. mmap'[q] = mmap[q]
        BY <1>3, <2>1, <3>2, <4>1
      <4> QED
        BY <1>1, <4>1, <4>2 DEF ListInv
    <3> QED
      BY <3>1, <3>2
  <2>4. DOMAIN mmap' = List!Pids
    BY <1>3, <2>1
  <2> QED
    BY <1>1, <2>1, <2>3, <2>4 DEF ListInv, NodesMade
<1>5. CASE List!ForkCopies
  <2> DEFINE a == node[cursor[2]].area
             n == used + 1
             l == List!Prepended([head |-> mmap, node |-> node], nr_tasks, n, a)
  <2>1. /\ cursor[1] # 0 /\ cursor'[1] # 0 /\ n \in List!Nodes /\ used' = n
        /\ mmap' = l.head /\ node' = l.node /\ nr_tasks' = nr_tasks
    BY <1>5 DEF List!ForkCopies
  <2>2. nr_tasks < MaxTasks
    BY <1>1, <2>1 DEF ListInv
  <2>3. Listed = 1 .. nr_tasks /\ Listed' = 1 .. nr_tasks
    BY <1>3, <2>1 DEF Listed
  <2>4. nr_tasks \in List!Pids /\ nr_tasks \in Listed
    BY <1>2, <1>3, <2>2, <2>3 DEF List!Pids
  <2>5. PICK w : IsList(w, nr_tasks, mmap[nr_tasks], node) /\ HandedOut(w, used)
    BY <1>1, <2>4 DEF ListInv
  <2>6. n = used + 1
    OBVIOUS
  <2> HIDE DEF a, n
  <2>7. l = List!Prepended([head |-> mmap, node |-> node], nr_tasks, n, a)
    OBVIOUS
  <2> HIDE DEF l
  <2>8. /\ DOMAIN l.head = List!Pids /\ NodesMade(l.node)
        /\ IsList(<<n>> \o w, nr_tasks, l.head[nr_tasks], l.node)
        /\ HandedOut(<<n>> \o w, n)
        /\ \A q \in List!Pids \ {nr_tasks} : \A v :
             IsList(v, q, mmap[q], node) /\ HandedOut(v, used) =>
               IsList(v, q, l.head[q], l.node) /\ HandedOut(v, n)
    BY <1>3, <2>1, <2>4, <2>5, <2>6, <2>7, PrependedIsList
  <2>9. ASSUME NEW q \in Listed'
        PROVE  \E v : IsList(v, q, l.head[q], l.node) /\ HandedOut(v, n)
    <3>1. CASE q = nr_tasks
      BY <2>8, <3>1
    <3>2. CASE q # nr_tasks
      <4>1. q \in Listed /\ q \in List!Pids \ {nr_tasks}
        BY <1>2, <1>3, <2>2, <2>3, <3>2 DEF List!Pids
      <4>2. PICK v : IsList(v, q, mmap[q], node) /\ HandedOut(v, used)
        BY <1>1, <4>1 DEF ListInv
      <4> QED
        BY <2>8, <4>1, <4>2
    <3> QED
      BY <3>1, <3>2
  <2>10. n \in 0 .. MaxNodes
    BY <1>2, <2>1 DEF List!Nodes
  <2> QED
    BY <1>1, <2>1, <2>2, <2>8, <2>9, <2>10 DEF ListInv
<1>6. CASE List!ForkEnds
  <2>1. /\ cursor[1] # 0 /\ cursor'[1] = 0 /\ nr_tasks' = nr_tasks + 1
        /\ UNCHANGED <<mmap, node, used>>
    BY <1>6 DEF List!ForkEnds
  <2>2. nr_tasks < MaxTasks
    BY <1>1, <2>1 DEF ListInv
  <2>3. Listed' = Listed
    BY <1>3, <2>1 DEF Listed
  <2>4. nr_tasks' \in 2 .. MaxTasks
    BY <1>2, <1>3, <2>1, <2>2
  <2> QED
    BY <1>1, <2>1, <2>3, <2>4 DEF ListInv
<1>7. CASE UNCHANGED listVars
  BY <1>1, <1>7 DEF listVars, ListInv, Listed
<1> QED
  BY <1>1, <1>4, <1>5, <1>6, <1>7 DEF List!Next

(* What Walk meets are the nodes of the list, which are well linked.       *)
LEMMA ListsLinked == ListInv => List!WellLinked
<1> SUFFICES ASSUME ListInv, NEW p \in Listed,
                    NEW k \in 1 .. Len(List!Walk(p))
             PROVE  /\ node[List!Walk(p)[k]].vm_mm = p
                    /\ node[List!Walk(p)[k]].vm_prev =
                         (IF k = 1 THEN List!Null ELSE List!Walk(p)[k - 1])
  BY Zenon DEF List!WellLinked, Listed
<1>1. MaxNodes \in Nat
  BY PartsAssumption DEF List!VmaListAssumption
<1>2. PICK w : IsList(w, p, mmap[p], node) /\ HandedOut(w, used)
  BY DEF ListInv
<1>3. Len(w) <= MaxNodes
  <2>1. used \in Nat /\ used <= MaxNodes /\ Len(w) <= used
    BY <1>1, <1>2 DEF ListInv, HandedOut
  <2>2. Len(w) \in Nat
    BY <1>2 DEF IsList
  <2> QED
    BY <1>1, <2>1, <2>2
<1>4. List!Walk(p) = w
  BY <1>1, <1>2, <1>3, WalkIsList
<1> QED
  BY <1>2, <1>4 DEF IsList

(* The VMA lists are well linked, and no two share a node, throughout      *)
(* load_program and every fork.                                            *)
THEOREM ListsWellLinked == Spec => []WellLinked
<1>1. Init => ListKept
  BY ListStart DEF Init, ListKept
<1>2. ListKept => WellLinked
  BY ListsLinked DEF ListKept, WellLinked
<1> QED
  BY <1>1, <1>2, ListGoesOn, PTL DEF Spec

(* Appending e adds it to the elements of a sequence.                      *)
LEMMA Appended ==
  ASSUME NEW S, NEW x \in Seq(S), NEW e \in S
  PROVE  /\ Append(x, e) \in Seq(S)
         /\ {Append(x, e)[j] : j \in 1 .. Len(Append(x, e))} = {x[j] : j \in 1 .. Len(x)} \cup {e}
<1> DEFINE y == Append(x, e)
<1>1. /\ y \in Seq(S) /\ Len(y) = Len(x) + 1 /\ Len(x) \in Nat
      /\ \A j \in 1 .. Len(x) : y[j] = x[j]
      /\ y[Len(x) + 1] = e
  BY AppendProperties
<1> HIDE DEF y
<1>2. 1 .. Len(y) = (1 .. Len(x)) \cup {Len(x) + 1}
  BY <1>1
<1>3. {y[j] : j \in 1 .. Len(y)} = {x[j] : j \in 1 .. Len(x)} \cup {e}
  BY <1>1, <1>2
<1> QED
  BY <1>1, <1>3 DEF y

(* load_program makes an area of each PT_LOAD header, and the stack.       *)
LEMMA LoadedAreas ==
  ASSUME NEW r \in List!Elf64_Image, NEW areas, areas = List!Loaded(r)
  PROVE  areas \in Seq(List!ProgramAreas(r)) /\ {areas[k] : k \in 1 .. Len(areas)} = List!ProgramAreas(r)
<1> DEFINE n == r.ehdr.e_phnum
           o == r.ehdr.e_phoff
           h(k) == r.phdr[o + k - 1]
           With(x, k) == IF h(k).p_type = List!PT_LOAD THEN Append(x, List!Area(h(k))) ELSE x
           Eq(f, m) == f = [k \in 0 .. m |-> IF k = 0 THEN <<>> ELSE With(f[k - 1], k)]
           Among(m) == {List!Area(h(j)) : j \in {j \in 1 .. m : h(j).p_type = List!PT_LOAD}}
           S == List!ProgramAreas(r)
           Good(x, m) == x \in Seq(S) /\ {x[k] : k \in 1 .. Len(x)} = Among(m)
<1>1. areas = Append((CHOOSE f : Eq(f, n))[n], StackArea)
  BY Zenon DEF List!Loaded
<1>2. n \in Nat /\ o \in Nat
  BY DEF List!Elf64_Image, List!Elf64_Ehdr
<1>3. List!Segments(r) = Among(n)
  <2>1. ASSUME NEW k \in List!Indices(r.ehdr) PROVE \E j \in 1 .. n : k = o + j - 1
    <3>1. k \in o .. o + n - 1
      BY <2>1 DEF List!Indices
    <3>2. k - o + 1 \in 1 .. n /\ k = o + (k - o + 1) - 1
      BY <1>2, <3>1
    <3> QED
      BY <3>2
  <2>2. ASSUME NEW j \in 1 .. n PROVE o + j - 1 \in List!Indices(r.ehdr)
    BY <1>2 DEF List!Indices
  <2> HIDE DEF n, o
  <2> QED
    BY <2>1, <2>2 DEF List!Segments
<1> HIDE DEF n, o
<1>4. \E f : Eq(f, n)
  <2> DEFINE T == {m \in 0 .. n : \E f : Eq(f, m)}
  <2>1. 0 \in T
    <3> DEFINE f == [k \in 0 .. 0 |-> <<>>]
    <3>1. Eq(f, 0)
      <4> HIDE DEF With
      <4> QED
        OBVIOUS
    <3> HIDE DEF Eq
    <3> QED
      BY <1>2, <3>1
  <2>2. ASSUME NEW m \in 1 .. n, m - 1 \in T PROVE m \in T
    <3>1. PICK f : Eq(f, m - 1)
      BY <2>2
    <3> DEFINE g == [k \in 0 .. m |-> IF k = m THEN With(f[m - 1], m) ELSE f[k]]
    <3>2. ASSUME NEW k \in 0 .. m
          PROVE  g[k] = IF k = 0 THEN <<>> ELSE With(g[k - 1], k)
      <4>1. CASE k = m
        <5>1. k \in 0 .. m /\ k - 1 \in 0 .. m /\ k - 1 # m /\ k # 0
          BY <4>1
        <5> HIDE DEF With
        <5>2. g[k] = With(f[k - 1], k) /\ g[k - 1] = f[k - 1]
          BY <4>1, <5>1
        <5> QED
          BY <5>1, <5>2
      <4>2. CASE k # m
        <5>1. k \in 0 .. m - 1 /\ (k # 0 => k - 1 \in 0 .. m /\ k - 1 # m)
          BY <4>2
        <5> HIDE DEF With
        <5>2. g[k] = f[k] /\ (k # 0 => g[k - 1] = f[k - 1])
          BY <4>2, <5>1
        <5>3. f[k] = IF k = 0 THEN <<>> ELSE With(f[k - 1], k)
          BY <3>1, <5>1
        <5> QED
          BY <5>2, <5>3
      <4> QED
        BY <4>1, <4>2
    <3>3. Eq(g, m)
      <4> HIDE DEF With
      <4>1. g = [k \in 0 .. m |-> g[k]]
        OBVIOUS
      <4> HIDE DEF g
      <4> QED
        BY <3>2, <4>1
    <3> HIDE DEF Eq, g
    <3> QED
      BY <3>3
  <2> HIDE DEF T
  <2>3. \A m \in 1 .. n : m - 1 \in T => m \in T
    BY <2>2
  <2>4. \A m \in 0 .. n : m \in T
    BY <1>2, <2>1, <2>3, Walk!Counting
  <2>5. n \in T
    BY <1>2, <2>4
  <2> QED
    BY <2>5 DEF T
<1> DEFINE s == CHOOSE f : Eq(f, n)
<1>5. Eq(s, n)
  <2> HIDE DEF Eq
  <2> QED
    BY <1>4, Zenon
<1> HIDE DEF s
<1>6. s[0] = <<>> /\ \A k \in 1 .. n : s[k] = With(s[k - 1], k)
  <2> HIDE DEF With
  <2> QED
    BY <1>2, <1>5
<1> DEFINE T == {k \in 0 .. n : Good(s[k], k)}
<1>7. 0 \in T
  <2>1. Good(<<>>, 0)
    OBVIOUS
  <2> HIDE DEF Good
  <2> QED
    BY <1>2, <1>6, <2>1
<1>8. ASSUME NEW k \in 1 .. n, k - 1 \in T PROVE k \in T
  <2> DEFINE x == s[k - 1]
             a == List!Area(h(k))
  <2>1. Good(x, k - 1) /\ s[k] = With(x, k)
    BY <1>6, <1>8
  <2>2. 1 .. k = (1 .. k - 1) \cup {k}
    BY <1>2
  <2> HIDE DEF x
  <2>3. CASE h(k).p_type = List!PT_LOAD
    <3>1. a \in S
      BY <1>2, <1>3, <2>3 DEF List!ProgramAreas
    <3>2. Among(k) = Among(k - 1) \cup {a}
      <4> HIDE DEF h
      <4> QED
        BY <2>2, <2>3
    <3> DEFINE y == s[k]
    <3>3. y = Append(x, a)
      BY <2>1, <2>3
    <3>5. x \in Seq(S) /\ {x[j] : j \in 1 .. Len(x)} = Among(k - 1)
      BY <2>1
    <3> HIDE DEF a, Among, S, h, y
    <3>4. y \in Seq(S) /\ {y[j] : j \in 1 .. Len(y)} = {x[j] : j \in 1 .. Len(x)} \cup {a}
      BY <3>1, <3>3, <3>5, Appended
    <3>6. Good(y, k)
      BY <3>2, <3>4, <3>5
    <3> QED
      BY <1>2, <3>6 DEF y
  <2>4. CASE h(k).p_type # List!PT_LOAD
    <3>1. Among(k) = Among(k - 1)
      <4> HIDE DEF h
      <4> QED
        BY <2>2, <2>4
    <3>2. s[k] = x
      BY <2>1, <2>4
    <3> HIDE DEF Among, S
    <3> QED
      BY <1>2, <2>1, <3>1, <3>2
  <2> QED
    BY <2>3, <2>4
<1> HIDE DEF T, Good, With, Eq
<1>9. \A k \in 1 .. n : k - 1 \in T => k \in T
  BY <1>8
<1>10. \A k \in 0 .. n : k \in T
  BY <1>2, <1>7, <1>9, Walk!Counting
<1>11. n \in T
  BY <1>2, <1>10
<1> DEFINE x == s[n]
<1>12. x \in Seq(S) /\ {x[k] : k \in 1 .. Len(x)} = List!Segments(r) /\ areas = Append(x, StackArea)
  BY <1>1, <1>3, <1>11 DEF T, Good, s
<1> HIDE DEF x, S
<1>13. areas \in Seq(S) /\ {areas[k] : k \in 1 .. Len(areas)} = {x[k] : k \in 1 .. Len(x)} \cup {StackArea}
  <2>1. StackArea \in S
    BY DEF S, List!ProgramAreas
  <2> QED
    BY <1>12, <2>1, Appended
<1> QED
  BY <1>12, <1>13 DEF S, List!ProgramAreas

(* Task p's list is w.                                                     *)
Has(p, w) == IsList(w, p, mmap[p], node) /\ HandedOut(w, used)

(* Outside a fork each task has the areas of its program.  During one the  *)
(* child has those of the first j nodes of its parent's list, and the loop *)
(* of do_fork_cow is about to copy the one behind them.                    *)
CopiedUpTo(v, w, j) ==
  /\ Has(cursor[1], v) /\ AreasIn(v, node) = List!ProgramAreas(ramdisk)
  /\ Has(nr_tasks, w) /\ AreasIn(w, node) = {node[v[k]].area : k \in 1 .. j}
  /\ j \in 0 .. Len(v)
  /\ cursor[2] = IF j = Len(v) THEN List!Null ELSE v[j + 1]
FindInv ==
  /\ ramdisk \in Images
  /\ \A p \in 1 .. nr_tasks - 1 : \E w :
       Has(p, w) /\ AreasIn(w, node) = List!ProgramAreas(ramdisk)
  /\ cursor[1] # 0 =>
       /\ cursor[1] \in 1 .. nr_tasks - 1
       /\ \E v, w, j : CopiedUpTo(v, w, j)
FindKept == part = "list" => ListInv /\ FindInv

LEMMA FindStart == List!Init => FindInv
<1> SUFFICES ASSUME List!Init PROVE FindInv
  OBVIOUS
<1>1. /\ MaxTasks \in Nat \ {0, 1} /\ MaxNodes \in Nat
      /\ Len(List!Loaded(ramdisk)) \in 1 .. MaxNodes
      /\ ramdisk \in Images /\ ramdisk \in List!Elf64_Image
  BY PartsAssumption DEF List!VmaListAssumption, List!Init
<1> DEFINE areas == List!Loaded(ramdisk)
           l == List!FirstLists(areas)
<1>2. /\ mmap = l.head /\ node = l.node /\ used = Len(areas)
      /\ nr_tasks = 2 /\ cursor = <<0, 0>>
  BY DEF List!Init, List!Null
<1>5. {areas[k] : k \in 1 .. Len(areas)} = List!ProgramAreas(ramdisk)
  BY <1>1, LoadedAreas
<1> HIDE DEF areas
<1>3. Len(areas) \in 0 .. MaxNodes
  BY <1>1 DEF areas
<1> HIDE DEF l
<1>4. \E w : /\ IsList(w, 1, l.head[1], l.node) /\ HandedOut(w, Len(areas))
             /\ AreasIn(w, l.node) = {areas[k] : k \in 1 .. Len(areas)}
  BY <1>1, <1>3, FirstIsList DEF l
<1>6. \E w : Has(1, w) /\ AreasIn(w, node) = List!ProgramAreas(ramdisk)
  BY <1>2, <1>4, <1>5 DEF Has
<1>7. 1 .. nr_tasks - 1 = {1} /\ cursor[1] = 0
  BY <1>2
<1> QED
  BY <1>1, <1>6, <1>7 DEF FindInv

(* A fork begins with the parent's first node and nothing copied.          *)
LEMMA FindBegins ==
  ASSUME MaxTasks \in Nat, ListInv, FindInv, NEW p \in 1 .. nr_tasks - 1, List!ForkBegins(p)
  PROVE  FindInv'
<1>1. /\ cursor[1] = 0 /\ nr_tasks < MaxTasks /\ cursor' = <<p, mmap[p]>>
      /\ mmap' = [mmap EXCEPT ![nr_tasks] = 0]
      /\ UNCHANGED <<ramdisk, node, used, nr_tasks>>
  BY DEF List!ForkBegins, List!ChildHead, List!Null
<1>2. /\ nr_tasks \in Nat /\ DOMAIN mmap = List!Pids /\ used \in Nat
      /\ nr_tasks \in List!Pids /\ \A q \in 1 .. nr_tasks - 1 : q \in List!Pids /\ q # nr_tasks
  <2>1. nr_tasks \in Nat /\ nr_tasks >= 2 /\ DOMAIN mmap = List!Pids /\ used \in 0 .. MaxNodes
    BY DEF ListInv
  <2>2. MaxNodes \in Nat
    BY PartsAssumption DEF List!VmaListAssumption
  <2> QED
    BY <1>1, <2>1, <2>2 DEF List!Pids
<1>3. \A q \in 1 .. nr_tasks - 1 : \A w : Has(q, w) => Has(q, w)'
  BY <1>1, <1>2 DEF Has
<1>4. ASSUME NEW q \in 1 .. nr_tasks - 1
      PROVE  \E w : Has(q, w)' /\ AreasIn(w, node') = List!ProgramAreas(ramdisk')
  BY <1>1, <1>3 DEF FindInv
<1>5. PICK v : Has(p, v) /\ AreasIn(v, node) = List!ProgramAreas(ramdisk)
  BY DEF FindInv
<1>6. CopiedUpTo(v, <<>>, 0)'
  <2>1. mmap'[nr_tasks] = 0 /\ cursor'[1] = p /\ cursor'[2] = mmap[p]
    BY <1>1, <1>2
  <2>2. Has(nr_tasks, <<>>)'
    BY <1>1, <1>2, <2>1 DEF Has, IsList, HandedOut, List!Null
  <2>3. AreasIn(<<>>, node') = {node'[v[k]].area : k \in 1 .. 0}
    BY DEF AreasIn
  <2>4. v \in Seq(List!Nodes) /\ mmap[p] = IF v = <<>> THEN List!Null ELSE v[1]
    BY <1>5 DEF Has, IsList
  <2>5. 0 \in 0 .. Len(v) /\ cursor'[2] = IF 0 = Len(v) THEN List!Null ELSE v[0 + 1]
    BY <2>1, <2>4
  <2>6. Has(p, v)'
    BY <1>3, <1>5
  <2> QED
    BY <1>1, <1>5, <2>1, <2>2, <2>3, <2>5, <2>6 DEF CopiedUpTo
<1>7. \E x, w, j : CopiedUpTo(x, w, j)'
  BY <1>6
<1>8. ramdisk' \in Images /\ nr_tasks' = nr_tasks /\ cursor'[1] = p
  BY <1>1 DEF FindInv
<1> QED
  BY <1>4, <1>7, <1>8 DEF FindInv

(* A round of the loop copies the next area.                               *)
LEMMA FindCopies ==
  ASSUME MaxTasks \in Nat, ListInv, FindInv, List!ForkCopies
  PROVE  FindInv'
<1>8. PICK c, n, a : c = nr_tasks /\ n = used + 1 /\ a = node[cursor[2]].area
  OBVIOUS
<1>10. PICK l : l = List!Prepended([head |-> mmap, node |-> node], c, n, a)
  OBVIOUS
<1>1. /\ cursor[1] # 0 /\ cursor[2] # 0 /\ used' = n
      /\ mmap' = l.head /\ node' = l.node
      /\ cursor' = <<cursor[1], node[cursor[2]].vm_next>>
      /\ ramdisk' = ramdisk /\ nr_tasks' = c
  BY <1>8, <1>10 DEF List!ForkCopies, List!AllCopied, List!Null
<1>18. n \in List!Nodes /\ n = used + 1
  BY <1>8 DEF List!ForkCopies
<1>2. /\ c \in Nat /\ c >= 2 /\ c < MaxTasks /\ DOMAIN mmap = List!Pids /\ NodesMade(node)
      /\ used \in Nat
  <2>1. MaxNodes \in Nat
    BY PartsAssumption DEF List!VmaListAssumption
  <2> QED
    BY <1>1, <1>8, <2>1 DEF ListInv
<1>3. c \in List!Pids /\ \A q \in 1 .. c - 1 : q \in List!Pids \ {c}
  BY <1>2 DEF List!Pids
<1>4. cursor[1] \in 1 .. c - 1
  BY <1>1, <1>8 DEF FindInv
<1>5. PICK v, w, j : CopiedUpTo(v, w, j)
  BY <1>1 DEF FindInv
<1>6. /\ v \in Seq(List!Nodes) /\ Len(v) \in Nat /\ j \in 0 .. Len(v)
      /\ w \in Seq(List!Nodes) /\ mmap[c] \in List!Nodes \cup {List!Null}
      /\ IsList(v, cursor[1], mmap[cursor[1]], node) /\ HandedOut(v, used)
      /\ IsList(w, c, mmap[c], node) /\ HandedOut(w, used)
  BY <1>5, <1>8 DEF CopiedUpTo, Has, IsList
<1>7. j \in 0 .. Len(v) - 1 /\ j + 1 \in 1 .. Len(v) /\ cursor[2] = v[j + 1]
  BY <1>1, <1>5, <1>6 DEF CopiedUpTo, List!Null
<1>9. a = node[v[j + 1]].area
  BY <1>7, <1>8
<1>11. /\ IsList(<<n>> \o w, c, l.head[c], l.node) /\ HandedOut(<<n>> \o w, n)
       /\ \A q \in List!Pids \ {c} : \A x :
            IsList(x, q, mmap[q], node) /\ HandedOut(x, used) =>
              IsList(x, q, l.head[q], l.node) /\ HandedOut(x, n)
  <2>1. c \in List!Pids /\ DOMAIN mmap = List!Pids /\ NodesMade(node) /\ used \in Nat
    BY <1>2, <1>3
  <2>2. IsList(w, c, mmap[c], node) /\ HandedOut(w, used)
    BY <1>6
  <2> QED
    BY <1>10, <1>18, <2>1, <2>2, PrependedIsList
<1>12. /\ AreasIn(<<n>> \o w, l.node) = AreasIn(w, node) \cup {a}
       /\ \A m \in List!Nodes \ {n} : l.node[m].area = node[m].area
       /\ \A x \in Seq(List!Nodes) : HandedOut(x, used) => AreasIn(x, l.node) = AreasIn(x, node)
  <2>1. c \in List!Pids /\ NodesMade(node) /\ used \in Nat
    BY <1>2, <1>3
  <2>2. w \in Seq(List!Nodes) /\ HandedOut(w, used) /\ mmap[c] \in List!Nodes \cup {List!Null}
    BY <1>6
  <2> QED
    BY SMTT(60), <1>10, <1>18, <2>1, <2>2, PrependedAreas
<1>13. ASSUME NEW q \in 1 .. c - 1, NEW x, Has(q, x)
       PROVE  Has(q, x)' /\ AreasIn(x, node') = AreasIn(x, node)
  <2>1. IsList(x, q, mmap[q], node) /\ HandedOut(x, used) /\ x \in Seq(List!Nodes)
    BY <1>13 DEF Has, IsList
  <2>2. IsList(x, q, l.head[q], l.node) /\ HandedOut(x, n)
    BY <1>3, <1>11, <2>1
  <2>3. AreasIn(x, l.node) = AreasIn(x, node)
    BY <1>12, <2>1
  <2> QED
    BY <1>1, <2>2, <2>3 DEF Has
<1>14. ASSUME NEW q \in 1 .. c - 1
       PROVE  \E x : Has(q, x)' /\ AreasIn(x, node') = List!ProgramAreas(ramdisk')
  <2>1. PICK x : Has(q, x) /\ AreasIn(x, node) = List!ProgramAreas(ramdisk)
    BY <1>8 DEF FindInv
  <2> QED
    BY <1>1, <1>13, <2>1
<1>15. CopiedUpTo(v, <<n>> \o w, j + 1)'
  <2>1. Has(cursor[1], v)' /\ AreasIn(v, node') = List!ProgramAreas(ramdisk')
    <3>1. Has(cursor[1], v) /\ AreasIn(v, node) = List!ProgramAreas(ramdisk)
      BY <1>5 DEF CopiedUpTo
    <3>2. cursor'[1] = cursor[1]
      BY <1>1
    <3>3. PICK q : q = cursor[1]
      OBVIOUS
    <3>4. Has(q, v)' /\ AreasIn(v, node') = AreasIn(v, node)
      BY <1>4, <1>13, <3>1, <3>3
    <3> QED
      BY <1>1, <3>1, <3>2, <3>3, <3>4 DEF Has
  <2>2. Has(c, <<n>> \o w)'
    BY <1>1, <1>11 DEF Has
  <2>3. ASSUME NEW k \in 1 .. Len(v) PROVE node'[v[k]].area = node[v[k]].area
    <3>1. v[k] \in List!Nodes /\ v[k] <= used
      BY <1>6 DEF HandedOut
    <3>2. v[k] # n
      BY <1>2, <1>18, <3>1 DEF List!Nodes
    <3> QED
      BY <1>1, <1>12, <3>1, <3>2
  <2>4. AreasIn(<<n>> \o w, node') = {node'[v[k]].area : k \in 1 .. j + 1}
    <3>1. AreasIn(w, node) = {node[v[k]].area : k \in 1 .. j}
      BY <1>5 DEF CopiedUpTo
    <3>2. 1 .. j + 1 = (1 .. j) \cup {j + 1} /\ 1 .. j \subseteq 1 .. Len(v)
      BY <1>6, <1>7
    <3>3. {node'[v[k]].area : k \in 1 .. j + 1} = {node[v[k]].area : k \in 1 .. j} \cup {a}
      <4> DEFINE old(k) == node[v[k]].area
                 new(k) == node'[v[k]].area
      <4>1. \A k \in 1 .. j : new(k) = old(k)
        BY <2>3, <3>2
      <4>2. new(j + 1) = a
        BY <1>7, <1>9, <2>3
      <4> HIDE DEF old, new
      <4>3. {new(k) : k \in 1 .. j + 1} = {old(k) : k \in 1 .. j} \cup {a}
        BY <3>2, <4>1, <4>2
      <4> QED
        BY <4>3 DEF old, new
    <3>4. AreasIn(<<n>> \o w, node') = AreasIn(w, node) \cup {a}
      BY <1>1, <1>12
    <3> QED
      BY <3>1, <3>3, <3>4
  <2>5. cursor'[1] = cursor[1] /\ cursor'[2] = node[v[j + 1]].vm_next
    BY <1>1, <1>7
  <2>6. node[v[j + 1]].vm_next = IF j + 1 = Len(v) THEN List!Null ELSE v[(j + 1) + 1]
    BY <1>6, <1>7 DEF IsList
  <2>7. j + 1 \in 0 .. Len(v)
    BY <1>6, <1>7
  <2> QED
    BY <1>1, <2>1, <2>2, <2>4, <2>5, <2>6, <2>7 DEF CopiedUpTo
<1>16. \E x, y, k : CopiedUpTo(x, y, k)'
  BY <1>15
<1>17. ramdisk' \in Images /\ nr_tasks' = c /\ cursor'[1] = cursor[1]
  BY <1>1 DEF FindInv
<1> QED
  BY <1>1, <1>4, <1>14, <1>16, <1>17 DEF FindInv

(* When all is copied the child has its parent's areas.                    *)
LEMMA FindEnds ==
  ASSUME ListInv, FindInv, List!ForkEnds
  PROVE  FindInv'
<1>1. /\ cursor[1] # 0 /\ cursor[2] = 0 /\ cursor'[1] = 0 /\ nr_tasks' = nr_tasks + 1
      /\ UNCHANGED <<ramdisk, mmap, node, used>>
  BY DEF List!ForkEnds, List!AllCopied, List!Null
<1>2. PICK v, w, j : CopiedUpTo(v, w, j)
  BY <1>1 DEF FindInv
<1>3. j = Len(v)
  <2>1. v \in Seq(List!Nodes) /\ Len(v) \in Nat /\ j \in 0 .. Len(v)
    BY <1>2 DEF CopiedUpTo, Has, IsList
  <2> SUFFICES ASSUME j # Len(v) PROVE FALSE
    OBVIOUS
  <2>2. j + 1 \in 1 .. Len(v) /\ cursor[2] = v[j + 1]
    BY <1>2, <2>1 DEF CopiedUpTo
  <2>3. v[j + 1] \in List!Nodes
    BY <2>1, <2>2
  <2> QED
    BY <1>1, <2>2, <2>3 DEF List!Nodes
<1>4. AreasIn(w, node) = AreasIn(v, node)
  BY <1>2, <1>3 DEF CopiedUpTo, AreasIn
<1>5. Has(nr_tasks, w) /\ AreasIn(w, node) = List!ProgramAreas(ramdisk)
  BY <1>2, <1>4 DEF CopiedUpTo
<1>6. nr_tasks \in Nat /\ nr_tasks' - 1 = nr_tasks
  BY <1>1 DEF ListInv
<1>7. ASSUME NEW q \in 1 .. nr_tasks
      PROVE  \E x : Has(q, x)' /\ AreasIn(x, node') = List!ProgramAreas(ramdisk')
  <2>1. \E x : Has(q, x) /\ AreasIn(x, node) = List!ProgramAreas(ramdisk)
    <3>1. CASE q = nr_tasks
      BY <1>5, <3>1
    <3>2. CASE q # nr_tasks
      <4>1. q \in 1 .. nr_tasks - 1
        BY <1>6, <3>2
      <4> QED
        BY <4>1 DEF FindInv
    <3> QED
      BY <3>1, <3>2
  <2> QED
    BY <1>1, <2>1 DEF Has
<1> QED
  BY <1>1, <1>6, <1>7 DEF FindInv

LEMMA FindGoesOn == FindKept /\ [Next]_vars => FindKept'
<1> SUFFICES ASSUME FindKept, [Next]_vars, part' = "list"
             PROVE  FindInv'
  BY ListGoesOn DEF FindKept, ListKept
<1>1. ListInv /\ FindInv /\ [List!Next]_listVars
  BY PartsStep DEF FindKept
<1>2. MaxTasks \in Nat
  BY PartsAssumption DEF List!VmaListAssumption
<1>3. CASE UNCHANGED listVars
  <2>1. UNCHANGED <<ramdisk, mmap, node, used, nr_tasks, cursor>>
    BY <1>3 DEF listVars
  <2>2. \A p, w : Has(p, w) => Has(p, w)'
    BY <2>1 DEF Has
  <2>3. \A v, w, j : CopiedUpTo(v, w, j) => CopiedUpTo(v, w, j)'
    BY <2>1 DEF CopiedUpTo, Has
  <2>4. cursor'[1] = cursor[1] /\ ramdisk' = ramdisk /\ node' = node /\ nr_tasks' = nr_tasks
    BY <2>1
  <2>5. \A p \in 1 .. nr_tasks - 1 : \E w : Has(p, w)' /\ AreasIn(w, node') = List!ProgramAreas(ramdisk')
    BY <1>1, <2>2, <2>4 DEF FindInv
  <2>6. cursor[1] # 0 => cursor[1] \in 1 .. nr_tasks - 1 /\ \E v, w, j : CopiedUpTo(v, w, j)'
    BY <1>1, <2>3 DEF FindInv
  <2> QED
    BY <1>1, <2>4, <2>5, <2>6 DEF FindInv
<1> QED
  BY <1>1, <1>2, <1>3, FindBegins, FindCopies, FindEnds DEF List!Next

(* A set of numbers that is not empty has a least one.                     *)
LEMMA Least ==
  ASSUME NEW S, S \subseteq Nat, S # {}
  PROVE  \E k \in S : \A j \in S : k <= j
<1>1. IsWellFoundedOn(OpToRel(<, Nat), Nat)
  BY NatLessThanWellFounded
<1>2. PICK k \in S : \A j \in S : ~ (<<j, k>> \in OpToRel(<, Nat))
  BY <1>1, WFMin
<1>3. ASSUME NEW j \in S PROVE k <= j
  <2>1. j \in Nat /\ k \in Nat
    OBVIOUS
  <2>2. j < k => <<j, k>> \in OpToRel(<, Nat)
    BY <2>1 DEF OpToRel
  <2>3. ~ (j < k)
    BY <1>2, <2>2, Zenon
  <2> QED
    BY <2>1, <2>3
<1> QED
  BY <1>3

(* The first area of the list that holds x is the one area that does.      *)
LEMMA FirstFound ==
  ASSUME List!AreasApart, ListInv, FindInv,
         NEW p \in 1 .. nr_tasks - 1, NEW x \in Addresses
  PROVE  List!find_vma(p, x) = {a \in List!ProgramAreas(ramdisk) : List!Holds(a, x)}
<1>1. PICK w : Has(p, w) /\ AreasIn(w, node) = List!ProgramAreas(ramdisk)
  BY DEF FindInv
<1>2. MaxNodes \in Nat
  BY PartsAssumption DEF List!VmaListAssumption
<1>3. w \in Seq(List!Nodes) /\ Len(w) \in Nat /\ Len(w) <= MaxNodes
  <2>1. w \in Seq(List!Nodes) /\ Len(w) \in Nat /\ Len(w) <= used
    BY <1>1 DEF Has, IsList, HandedOut
  <2> QED
    BY <1>2, <2>1 DEF ListInv
<1>4. List!Walk(p) = w
  BY <1>1, <1>2, <1>3, WalkIsList DEF Has
<1> DEFINE area(k) == node[w[k]].area
           hits == {k \in 1 .. Len(w) : List!Holds(area(k), x)}
           first == {k \in hits : \A j \in hits : k <= j}
           held == {a \in List!ProgramAreas(ramdisk) : List!Holds(a, x)}
<1>5. List!find_vma(p, x) = {area(k) : k \in first}
  BY <1>4, Zenon DEF List!find_vma
<1>6. ASSUME NEW a \in held, NEW b \in held PROVE a = b
  BY DEF FindInv, List!AreasApart
<1>7. held = {area(k) : k \in hits}
  BY <1>1 DEF AreasIn
<1>8. first \subseteq hits /\ (hits # {} => first # {})
  <2>1. hits \subseteq Nat
    BY <1>3
  <2> HIDE DEF hits
  <2> QED
    BY <2>1, Least
<1> HIDE DEF first, hits, held
<1>9. {area(k) : k \in first} \subseteq held
  BY <1>7, <1>8
<1>10. held \subseteq {area(k) : k \in first}
  <2> SUFFICES ASSUME NEW a \in held PROVE \E k \in first : a = area(k)
    OBVIOUS
  <2>1. PICK k \in first : TRUE
    BY <1>7, <1>8
  <2>2. area(k) \in held
    BY <1>9
  <2> QED
    BY <1>6, <2>2
<1> QED
  BY <1>5, <1>9, <1>10 DEF held

(* Whatever address faults, and however many forks a task is away from the *)
(* first one, find_vma finds the segment the program has there, or none.   *)
THEOREM SegmentsFound == Spec => []FindsSegment
<1>1. Init => FindKept
  BY ListStart, FindStart DEF Init, FindKept
<1>2. FindKept => FindsSegment
  BY FirstFound, TheoremsApply DEF FindKept, FindsSegment, List!FindsSegment
<1> QED
  BY <1>1, <1>2, FindGoesOn, PTL DEF Spec
=============================================================================

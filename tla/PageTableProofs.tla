--------------------------- MODULE PageTableProofs ---------------------------
(***************************************************************************)
(* Theorems about PageTable: whatever is mapped, unshared, copied and      *)
(* forked, every table below the kernel's half belongs to one task, and    *)
(* the walks implement AddressSpaces.                                      *)
(***************************************************************************)
EXTENDS PageTable, FiniteSetTheorems, WellFoundedInduction, TLAPS

AllPages == UserPages \cup KernelPages
KernelIndices == {VPN2(h) : h \in KernelPages}

(* The task that index a of the root table of task t belongs to.           *)
Owner(t, a) == IF a \in KernelIndices THEN Swapper ELSE t

(* The tasks that have a root, as rt says.                                 *)
Rooted(rt) == {t \in Tasks : rt[t] # 0}

(* The tables of m have the right form, and what has not been given out is *)
(* empty.                                                                  *)
Tabled(m) ==
  /\ DOMAIN m = {"tab", "next"}
  /\ DOMAIN m.tab = 1 .. MaxTables
  /\ \A n \in 1 .. MaxTables : DOMAIN m.tab[n] = Indices
  /\ m.next \in 1 .. MaxTables + 1
  /\ \A n \in 1 .. MaxTables : n >= m.next =>
       \A i \in Indices : ~Valid(m.tab[n][i])

(* own[n] names the one way to table n: <<t, -1, -1>> is the root of task  *)
(* t, <<t, a, -1>> the table at its index a, <<t, a, b>> the one at index  *)
(* b of that.                                                              *)
RootOwned(m, rt, own, t) ==
  rt[t] \in 1 .. m.next - 1 /\ own[rt[t]] = <<t, -1, -1>>
MidOwned(m, rt, own, t, a) ==
  LET e == m.tab[rt[t]][a] IN
  Valid(e) => e.ppn \in 1 .. m.next - 1 /\ own[e.ppn] = <<Owner(t, a), a, -1>>
LeafOwned(m, rt, own, t, a, b) ==
  LET e == m.tab[m.tab[rt[t]][a].ppn][b] IN
  Valid(m.tab[rt[t]][a]) /\ Valid(e) =>
    e.ppn \in 1 .. m.next - 1 /\ own[e.ppn] = <<Owner(t, a), a, b>>

(* The kernel's half is the same for all, and the user's half of the       *)
(* kernel's own root is empty.                                             *)
KernelShared(m, rt) ==
  /\ \A t \in Rooted(rt), a \in KernelIndices : m.tab[rt[t]][a] = m.tab[rt[Swapper]][a]
  /\ \A a \in Indices \ KernelIndices : ~Valid(m.tab[rt[Swapper]][a])

Shape(m, rt, own) ==
  /\ Tabled(m) /\ DOMAIN own = 1 .. MaxTables
  /\ Swapper \in Rooted(rt)
  /\ \A t \in Rooted(rt) : RootOwned(m, rt, own, t)
  /\ \A t \in Rooted(rt), a \in Indices : MidOwned(m, rt, own, t, a)
  /\ \A t \in Rooted(rt), a \in Indices, b \in Indices : LeafOwned(m, rt, own, t, a, b)
  /\ KernelShared(m, rt)

(* What a walk finds.                                                      *)
View(m, rt, t, g) == check_load(m, rt[t], g)
Mapped(m, r, g) ==
  Valid(m.tab[r][VPN2(g)]) /\ Valid(m.tab[m.tab[r][VPN2(g)].ppn][VPN1(g)])

-----------------------------------------------------------------------------
(* Page numbers and indices *)

LEMMA Division ==
  ASSUME NEW d \in Nat \ {0}, NEW a \in Nat
  PROVE  /\ a \div d \in Nat /\ a % d \in 0 .. d - 1
         /\ a = d * (a \div d) + (a % d)
<1>1. d \in Nat /\ d > 0
  OBVIOUS
<1>2. a \div d \in Nat /\ a % d \in 0 .. d - 1
  BY <1>1
<1>3. a % d = a - d * (a \div d)
  BY <1>1
<1> QED
  BY <1>1, <1>2, <1>3

LEMMA IndicesFit ==
  ASSUME PageTableAssumption, NEW g \in AllPages
  PROVE  VPN2(g) \in Indices /\ VPN1(g) \in Indices /\ VPN0(g) \in Indices
<1> DEFINE R == Radix
           S == R * R
           q == g \div S
<1>1. R \in Nat \ {0} /\ R \in Nat /\ R > 0 /\ g \in Nat /\ g < S * R
  BY DEF PageTableAssumption, AllPages, Span
<1>2. S \in Nat \ {0} /\ S \in Nat /\ S > 0
  BY <1>1
<1> HIDE DEF S, R
<1>3. /\ q \in Nat /\ g % S \in 0 .. S - 1 /\ g = S * q + (g % S)
      /\ (g \div R) % R \in 0 .. R - 1 /\ g % R \in 0 .. R - 1
  <2>1. q \in Nat /\ g % S \in 0 .. S - 1 /\ g = S * q + (g % S)
    BY <1>1, <1>2, Division, Zenon
  <2>2. g \div R \in Nat /\ g % R \in 0 .. R - 1
    BY <1>1, Division, Zenon
  <2>3. (g \div R) % R \in 0 .. R - 1
    BY <1>1, <2>2, Division, Zenon
  <2> QED
    BY <2>1, <2>2, <2>3
<1> HIDE DEF q
<1>4. q < R
  <2> SUFFICES ASSUME q >= R PROVE FALSE
    BY <1>1, <1>3
  <2>1. S * q >= S * R
    BY <1>1, <1>2, <1>3
  <2>2. S * q \in Nat /\ S * R \in Nat
    BY <1>1, <1>2, <1>3
  <2> QED
    BY <1>1, <1>2, <1>3, <2>1, <2>2
<1> QED
  BY <1>1, <1>3, <1>4 DEF Indices, VPN2, VPN1, VPN0, q, S, R

(* The three indices determine the page.                                   *)
LEMMA IndicesTell ==
  ASSUME PageTableAssumption, NEW g \in AllPages, NEW h \in AllPages,
         VPN2(g) = VPN2(h), VPN1(g) = VPN1(h), VPN0(g) = VPN0(h)
  PROVE  g = h
<1> DEFINE R == Radix
           S == R * R
<1>1. R \in Nat \ {0} /\ R \in Nat /\ R > 0 /\ g \in Nat /\ h \in Nat
  BY DEF PageTableAssumption, AllPages, Span
<1>2. S \in Nat \ {0} /\ S \in Nat /\ S > 0
  BY <1>1
<1>3. \A x \in Nat : x \div S = (x \div R) \div R
  <2> SUFFICES ASSUME NEW x \in Nat PROVE x \div S = (x \div R) \div R
    OBVIOUS
  <2> DEFINE y == x \div R
             z == y \div R
             u == x % R
             v == y % R
  <2>1. y \in Nat /\ u \in 0 .. R - 1 /\ x = R * y + u
    <3> HIDE DEF R
    <3> QED
      BY <1>1, Division, Zenon
  <2> HIDE DEF y, u
  <2>2. z \in Nat /\ v \in 0 .. R - 1 /\ y = R * z + v
    <3> HIDE DEF R
    <3> QED
      BY <1>1, <2>1, Division, Zenon
  <2> HIDE DEF z, v, R
  <2>3. x = S * z + (R * v + u)
    <3>1. R * y = R * (R * z) + R * v
      BY <1>1, <2>1, <2>2
    <3>2. R * (R * z) = S * z
      BY <1>1, <2>2
    <3> HIDE DEF S
    <3>3. R * v \in Nat /\ S * z \in Nat
      BY <1>1, <1>2, <2>2
    <3> QED
      BY <1>1, <2>1, <3>1, <3>2, <3>3
  <2>4. R * v + u \in 0 .. S - 1
    <3>1. R * v <= R * (R - 1) /\ R * (R - 1) = S - R
      BY <1>1, <2>2
    <3>2. R * v \in Nat
      BY <1>1, <2>2
    <3> HIDE DEF S
    <3> QED
      BY <1>1, <1>2, <2>1, <3>1, <3>2
  <2> DEFINE w == R * v + u
  <2> HIDE DEF S, w
  <2>5. x \div S = z
    BY <1>2, <2>2, <2>3, <2>4 DEF w
  <2> QED
    BY <2>5 DEF z, y
<1> HIDE DEF S
<1>4. (g \div R) \div R = (h \div R) \div R /\ (g \div R) % R = (h \div R) % R /\ g % R = h % R
  BY <1>1, <1>3 DEF VPN2, VPN1, VPN0, S
<1> HIDE DEF R
<1>5. /\ g \div R \in Nat /\ g = R * (g \div R) + (g % R)
      /\ h \div R \in Nat /\ h = R * (h \div R) + (h % R)
  BY <1>1, Division, Zenon
<1>6. /\ g \div R = R * ((g \div R) \div R) + ((g \div R) % R)
      /\ h \div R = R * ((h \div R) \div R) + ((h \div R) % R)
  BY <1>1, <1>5, Division, Zenon
<1>7. g \div R = h \div R
  BY <1>4, <1>6, Zenon
<1> QED
  BY <1>4, <1>5, <1>7, Zenon

-----------------------------------------------------------------------------
(* Walks *)

LeafEntry(m, r, g) == m.tab[m.tab[m.tab[r][VPN2(g)].ppn][VPN1(g)].ppn][VPN0(g)]

LEMMA LoadIs ==
  ASSUME NEW m, NEW r, NEW g
  PROVE  check_load(m, r, g) = IF Mapped(m, r, g) /\ Valid(LeafEntry(m, r, g))
                               THEN LeafEntry(m, r, g) ELSE NoEntry
BY DEF check_load, Mapped, LeafEntry

LEMMA NothingInvalid == ~Valid(NoEntry)
BY DEF Valid, NoEntry

(* The table at the end of a way has that way for its own.                 *)
HasWays(m, rt, own) ==
  /\ \A t \in Rooted(rt) : rt[t] \in 1 .. m.next - 1 /\ own[rt[t]] = <<t, -1, -1>>
  /\ \A t \in Rooted(rt), a \in Indices :
       Valid(m.tab[rt[t]][a]) =>
         /\ m.tab[rt[t]][a].ppn \in 1 .. m.next - 1
         /\ own[m.tab[rt[t]][a].ppn] = <<Owner(t, a), a, -1>>
  /\ \A t \in Rooted(rt), a \in Indices, b \in Indices :
       Valid(m.tab[rt[t]][a]) /\ Valid(m.tab[m.tab[rt[t]][a].ppn][b]) =>
         /\ m.tab[m.tab[rt[t]][a].ppn][b].ppn \in 1 .. m.next - 1
         /\ own[m.tab[m.tab[rt[t]][a].ppn][b].ppn] = <<Owner(t, a), a, b>>
LEMMA Ways ==
  ASSUME NEW m, NEW rt, NEW own, Shape(m, rt, own)
  PROVE  HasWays(m, rt, own)
<1>1. \A t \in Rooted(rt) : RootOwned(m, rt, own, t)
  BY DEF Shape
<1>2. \A t \in Rooted(rt), a \in Indices : MidOwned(m, rt, own, t, a)
  BY DEF Shape
<1>3. \A t \in Rooted(rt), a \in Indices, b \in Indices : LeafOwned(m, rt, own, t, a, b)
  BY DEF Shape
<1> QED
  BY <1>1, <1>2, <1>3, Zenon DEF HasWays, RootOwned, MidOwned, LeafOwned

LEMMA NoMinusOne == \A a \in Indices : a # -1
BY DEF Indices

(* Two tasks that share an index of their root tables have the same entry  *)
(* there.                                                                  *)
LEMMA SameOwner ==
  ASSUME NEW m, NEW rt, NEW own, Shape(m, rt, own),
         NEW t \in Rooted(rt), NEW u \in Rooted(rt), NEW a \in Indices,
         Owner(t, a) = Owner(u, a)
  PROVE  m.tab[rt[t]][a] = m.tab[rt[u]][a]
<1>1. KernelShared(m, rt)
  BY DEF Shape
<1>2. CASE a \in KernelIndices
  BY <1>1, <1>2 DEF KernelShared
<1>3. CASE a \notin KernelIndices
  BY <1>3 DEF Owner
<1> QED
  BY <1>2, <1>3

(* m2 is m with entry e for page g below root r.                           *)
Written(m, r, g, e, m2) ==
  /\ DOMAIN m2 = {"tab", "next"} /\ m2.next = m.next
  /\ m2.tab = [m.tab EXCEPT ![Place(m, r, g)[1]][VPN0(g)] = e]

(* Writing the entry of a page changes what is found for that page by the  *)
(* tasks that share it, and nothing else.                                  *)
LEMMA EntryWritten ==
  ASSUME PageTableAssumption, NEW m, NEW rt, NEW own, Shape(m, rt, own),
         NEW t \in Rooted(rt), NEW g \in AllPages, Mapped(m, rt[t], g), NEW e,
         NEW m2, Written(m, rt[t], g, e, m2)
  PROVE  /\ Shape(m2, rt, own)
         /\ \A u \in Rooted(rt), h \in AllPages :
              View(m2, rt, u, h) =
                IF Owner(u, VPN2(h)) = Owner(t, VPN2(g)) /\ h = g
                THEN IF Valid(e) THEN e ELSE NoEntry
                ELSE View(m, rt, u, h)
<1> DEFINE a == VPN2(g)
           b == VPN1(g)
           i == VPN0(g)
           p == m.tab[rt[t]][a].ppn
           n == m.tab[p][b].ppn
<1>0. HasWays(m, rt, own)
  BY Ways
<1>1. a \in Indices /\ b \in Indices /\ i \in Indices /\ a # -1 /\ b # -1
  BY IndicesFit, NoMinusOne
<1>2. n \in 1 .. m.next - 1 /\ own[n] = <<Owner(t, a), a, b>>
  <2>1. Valid(m.tab[rt[t]][a]) /\ Valid(m.tab[p][b])
    BY DEF Mapped
  <2> HIDE DEF a, b
  <2> QED
    BY <1>0, <1>1, <2>1 DEF HasWays
<1>3. Tabled(m) /\ m.next \in 1 .. MaxTables + 1 /\ MaxTables \in Nat
  BY DEF Shape, Tabled, PageTableAssumption
<1>4. m2.tab = [m.tab EXCEPT ![n][i] = e] /\ DOMAIN m2 = {"tab", "next"} /\ m2.next = m.next
  BY DEF Place, Written
<1> HIDE DEF n, i
<1>5. n \in 1 .. MaxTables /\ m2.next = m.next
  BY <1>2, <1>3, <1>4
<1>6. /\ DOMAIN m2.tab = 1 .. MaxTables
      /\ \A x \in 1 .. MaxTables : x # n => m2.tab[x] = m.tab[x]
      /\ DOMAIN m2.tab[n] = Indices
      /\ m2.tab[n][i] = e
      /\ \A j \in Indices : j # i => m2.tab[n][j] = m.tab[n][j]
  BY <1>1, <1>3, <1>4, <1>5 DEF Tabled
<1>7. Tabled(m2)
  <2>1. ASSUME NEW x \in 1 .. MaxTables, x >= m2.next PROVE x # n
    BY <1>2, <1>3, <1>4, <2>1
  <2> QED
    BY <1>3, <1>4, <1>6, <2>1 DEF Tabled
<1>8. \A u \in Rooted(rt) : rt[u] \in 1 .. MaxTables /\ m2.tab[rt[u]] = m.tab[rt[u]]
  <2> SUFFICES ASSUME NEW u \in Rooted(rt)
               PROVE  rt[u] \in 1 .. MaxTables /\ m2.tab[rt[u]] = m.tab[rt[u]]
    OBVIOUS
  <2>1. rt[u] \in 1 .. m.next - 1 /\ own[rt[u]] = <<u, -1, -1>>
    BY <1>0 DEF HasWays
  <2>2. rt[u] # n
    BY <1>1, <1>2, <2>1
  <2>3. rt[u] \in 1 .. MaxTables
    BY <1>3, <2>1
  <2> QED
    BY <1>6, <2>2, <2>3
<1>9. \A u \in Rooted(rt), c \in Indices :
        Valid(m.tab[rt[u]][c]) => m2.tab[m.tab[rt[u]][c].ppn] = m.tab[m.tab[rt[u]][c].ppn]
  <2> SUFFICES ASSUME NEW u \in Rooted(rt), NEW c \in Indices, Valid(m.tab[rt[u]][c])
               PROVE  m2.tab[m.tab[rt[u]][c].ppn] = m.tab[m.tab[rt[u]][c].ppn]
    OBVIOUS
  <2> DEFINE x == m.tab[rt[u]][c].ppn
  <2>1. x \in 1 .. m.next - 1 /\ own[x] = <<Owner(u, c), c, -1>>
    BY <1>0 DEF HasWays
  <2> HIDE DEF x
  <2>2. x # n /\ x \in 1 .. MaxTables
    BY <1>1, <1>2, <1>3, <2>1
  <2> QED
    BY <1>6, <2>2 DEF x
<1>10. Shape(m2, rt, own)
  <2>1. \A u \in Rooted(rt) : RootOwned(m2, rt, own, u)
    BY <1>5 DEF Shape, RootOwned
  <2>2. ASSUME NEW u \in Rooted(rt), NEW c \in Indices PROVE MidOwned(m2, rt, own, u, c)
    <3>1. MidOwned(m, rt, own, u, c)
      BY DEF Shape
    <3> QED
      BY <1>5, <1>8, <3>1 DEF MidOwned
  <2>3. ASSUME NEW u \in Rooted(rt), NEW c \in Indices, NEW d \in Indices
        PROVE  LeafOwned(m2, rt, own, u, c, d)
    <3>1. LeafOwned(m, rt, own, u, c, d)
      BY DEF Shape
    <3> QED
      BY <1>5, <1>8, <1>9, <3>1 DEF LeafOwned
  <2>4. KernelShared(m2, rt)
    <3>1. Swapper \in Rooted(rt) /\ KernelShared(m, rt)
      BY DEF Shape
    <3> QED
      BY <1>8, <3>1 DEF KernelShared
  <2> QED
    BY <1>7, <2>1, <2>2, <2>3, <2>4 DEF Shape
<1>11. ASSUME NEW u \in Rooted(rt), NEW h \in AllPages
       PROVE  View(m2, rt, u, h) =
                IF Owner(u, VPN2(h)) = Owner(t, VPN2(g)) /\ h = g
                THEN IF Valid(e) THEN e ELSE NoEntry
                ELSE View(m, rt, u, h)
  <2> DEFINE c == VPN2(h)
             d == VPN1(h)
             j == VPN0(h)
             q == m.tab[rt[u]][c].ppn
             x == m.tab[q][d].ppn
  <2>1. c \in Indices /\ d \in Indices /\ j \in Indices
    BY IndicesFit
  <2>2. /\ Mapped(m2, rt[u], h) <=> Mapped(m, rt[u], h)
        /\ Mapped(m, rt[u], h) => /\ LeafEntry(m2, rt[u], h) = m2.tab[x][j]
                                  /\ LeafEntry(m, rt[u], h) = m.tab[x][j]
    BY <1>8, <1>9, <2>1 DEF Mapped, LeafEntry
  <2>3. Owner(u, c) = Owner(t, a) /\ h = g => q = p
    <3> SUFFICES ASSUME Owner(u, a) = Owner(t, a) PROVE m.tab[rt[u]][a] = m.tab[rt[t]][a]
      OBVIOUS
    <3> HIDE DEF a
    <3> QED
      BY <1>1, SameOwner
  <2>4. ASSUME Owner(u, c) = Owner(t, a), h = g
        PROVE  Mapped(m, rt[u], h) /\ x = n /\ j = i
    <3>1. q = p
      BY <2>3, <2>4
    <3>2. m.tab[rt[u]][a] = m.tab[rt[t]][a]
      <4> HIDE DEF a
      <4> QED
        BY <1>1, <2>4, SameOwner DEF a
    <3> QED
      BY <2>4, <3>1, <3>2 DEF Mapped, n, i
  <2>5. ASSUME Mapped(m, rt[u], h), x = n, j = i
        PROVE  Owner(u, c) = Owner(t, a) /\ h = g
    <3>1. Valid(m.tab[rt[u]][c]) /\ Valid(m.tab[q][d])
      BY <2>5 DEF Mapped
    <3>2. own[x] = <<Owner(u, c), c, d>>
      <4> HIDE DEF c, d
      <4> QED
        BY <1>0, <2>1, <3>1 DEF HasWays
    <3>3. Owner(u, c) = Owner(t, a) /\ c = a /\ d = b
      BY <1>2, <2>5, <3>2
    <3> QED
      BY <2>5, <3>3, IndicesTell DEF i
  <2>6. CASE ~Mapped(m, rt[u], h)
    BY <2>2, <2>4, <2>6, LoadIs DEF View
  <2>7. CASE Mapped(m, rt[u], h)
    <3>1. x \in 1 .. MaxTables
      <4>1. Valid(m.tab[rt[u]][c]) /\ Valid(m.tab[q][d])
        BY <2>7 DEF Mapped
      <4>2. x \in 1 .. m.next - 1
        <5> HIDE DEF c, d
        <5> QED
          BY <1>0, <2>1, <4>1 DEF HasWays
      <4> HIDE DEF x
      <4> QED
        BY <1>3, <4>2
    <3> HIDE DEF x, j, c, a
    <3>2. CASE x = n /\ j = i
      <4>1. m2.tab[x][j] = e
        BY <1>6, <3>2
      <4>2. View(m2, rt, u, h) = IF Valid(e) THEN e ELSE NoEntry
        BY <2>2, <2>7, <4>1, LoadIs DEF View
      <4> QED
        BY <2>5, <2>7, <3>2, <4>2 DEF a, c
    <3>3. CASE ~(x = n /\ j = i)
      <4>1. m2.tab[x][j] = m.tab[x][j]
        BY <1>6, <2>1, <3>1, <3>3
      <4>2. View(m2, rt, u, h) = View(m, rt, u, h)
        BY <2>2, <2>7, <4>1, LoadIs DEF View
      <4> QED
        BY <2>4, <3>3, <4>2 DEF a, c
    <3> QED
      BY <3>2, <3>3
  <2> QED
    BY <2>6, <2>7
<1> QED
  BY <1>10, <1>11

(* m2 is m with a new, empty table entered at index i of table n.          *)
Grown(m, n, i, m2) ==
  /\ Tabled(m2) /\ m2.next = m.next + 1 /\ m.next \in 1 .. MaxTables /\ n # m.next
  /\ \A k \in 1 .. MaxTables : k # n => m2.tab[k] = m.tab[k]
  /\ \A j \in Indices : j # i => m2.tab[n][j] = m.tab[n][j]
  /\ Valid(m2.tab[n][i]) /\ m2.tab[n][i].ppn = m.next
  /\ \A j \in Indices : ~Valid(m2.tab[m.next][j])

LEMMA TableMade ==
  ASSUME PageTableAssumption, NEW m, Tabled(m), m.next <= MaxTables,
         NEW n \in 1 .. m.next - 1, NEW i \in Indices
  PROVE  Grown(m, n, i, WithTable(m, n, i))
<1> DEFINE x == m.next
           e == [ppn |-> x, perm |-> {"V"}]
           m2 == WithTable(m, n, i)
<1>1. /\ MaxTables \in Nat /\ x \in 1 .. MaxTables + 1
      /\ DOMAIN m.tab = 1 .. MaxTables
      /\ \A k \in 1 .. MaxTables : DOMAIN m.tab[k] = Indices
      /\ \A k \in 1 .. MaxTables : k >= x => \A j \in Indices : ~Valid(m.tab[k][j])
  BY DEF Tabled, PageTableAssumption
<1>2. /\ m2.tab = [m.tab EXCEPT ![n][i] = e] /\ m2.next = x + 1
      /\ DOMAIN m2 = {"tab", "next"}
  BY DEF WithTable
<1>3. Valid(e) /\ e.ppn = x
  BY DEF Valid
<1> HIDE DEF m2, e, x
<1>4. x \in 1 .. MaxTables /\ n \in 1 .. MaxTables /\ n # x /\ n < x /\ x \in Nat /\ n \in Nat
  BY <1>1 DEF x
<1>5. /\ DOMAIN m2.tab = 1 .. MaxTables
      /\ \A k \in 1 .. MaxTables : k # n => m2.tab[k] = m.tab[k]
      /\ DOMAIN m2.tab[n] = Indices /\ m2.tab[n][i] = e
      /\ \A j \in Indices : j # i => m2.tab[n][j] = m.tab[n][j]
  BY <1>1, <1>2, <1>4
<1>6. x + 1 \in 1 .. MaxTables + 1
  BY <1>1, <1>4
<1>7. \A k \in 1 .. MaxTables : k >= x + 1 => k # n /\ k >= x
  BY <1>1, <1>4
<1>8. m2.next = x + 1 /\ DOMAIN m2 = {"tab", "next"}
  BY <1>2
<1>9. Tabled(m2)
  BY <1>1, <1>5, <1>6, <1>7, <1>8 DEF Tabled
<1>10. \A j \in Indices : ~Valid(m2.tab[x][j])
  BY <1>1, <1>4, <1>5
<1> QED
  BY <1>3, <1>4, <1>5, <1>8, <1>9, <1>10 DEF Grown, x, m2

(* A new table at index i of the root of task t: no walk finds anything    *)
(* new.                                                                    *)
LEMMA MidMade ==
  ASSUME PageTableAssumption, NEW m, NEW rt, NEW own, Shape(m, rt, own),
         NEW t \in Rooted(rt), NEW i \in Indices, ~Valid(m.tab[rt[t]][i]),
         IF t = Swapper THEN i \in KernelIndices /\ Rooted(rt) = {Swapper}
                        ELSE i \notin KernelIndices,
         NEW m2, Grown(m, rt[t], i, m2)
  PROVE  /\ \E o : Shape(m2, rt, o)
         /\ \A u \in Rooted(rt), h \in AllPages : View(m2, rt, u, h) = View(m, rt, u, h)
<1> DEFINE x == m.next
           o2 == [own EXCEPT ![m.next] = <<t, i, -1>>]
<1>0. HasWays(m, rt, own)
  BY Ways
<1>1. /\ MaxTables \in Nat /\ x \in 1 .. MaxTables /\ x \in Nat /\ DOMAIN own = 1 .. MaxTables
      /\ Tabled(m2) /\ m2.next = x + 1
      /\ \A k \in 1 .. MaxTables : k # rt[t] => m2.tab[k] = m.tab[k]
      /\ \A j \in Indices : j # i => m2.tab[rt[t]][j] = m.tab[rt[t]][j]
      /\ Valid(m2.tab[rt[t]][i]) /\ m2.tab[rt[t]][i].ppn = x
      /\ \A j \in Indices : ~Valid(m2.tab[x][j])
  BY DEF Grown, Shape, PageTableAssumption
<1>2. /\ DOMAIN o2 = 1 .. MaxTables /\ o2[x] = <<t, i, -1>>
      /\ \A k \in 1 .. x - 1 : k \in 1 .. MaxTables /\ k \in 1 .. m2.next - 1 /\ o2[k] = own[k]
      /\ x \in 1 .. m2.next - 1
  BY <1>1
<1>3. Owner(t, i) = t
  BY DEF Owner
<1>4. \A a \in Indices : a # -1
  BY NoMinusOne
<1> HIDE DEF o2, x
<1>5. \A u \in Rooted(rt) :
        /\ rt[u] \in 1 .. x - 1 /\ own[rt[u]] = <<u, -1, -1>>
        /\ u # t => rt[u] # rt[t]
  <2>1. \A u \in Rooted(rt) : rt[u] \in 1 .. x - 1 /\ own[rt[u]] = <<u, -1, -1>>
    BY <1>0 DEF HasWays, x
  <2> QED
    BY <2>1
<1>6. \A u \in Rooted(rt), a \in Indices :
        ~(u = t /\ a = i) => m2.tab[rt[u]][a] = m.tab[rt[u]][a]
  BY <1>1, <1>2, <1>5
<1>7. \A u \in Rooted(rt), a \in Indices : Valid(m.tab[rt[u]][a]) =>
        LET p == m.tab[rt[u]][a].ppn IN
        p \in 1 .. x - 1 /\ own[p] = <<Owner(u, a), a, -1>> /\ m2.tab[p] = m.tab[p]
  <2> SUFFICES ASSUME NEW u \in Rooted(rt), NEW a \in Indices, Valid(m.tab[rt[u]][a])
               PROVE  LET p == m.tab[rt[u]][a].ppn IN
                      p \in 1 .. x - 1 /\ own[p] = <<Owner(u, a), a, -1>> /\ m2.tab[p] = m.tab[p]
    OBVIOUS
  <2> DEFINE p == m.tab[rt[u]][a].ppn
  <2>1. p \in 1 .. x - 1 /\ own[p] = <<Owner(u, a), a, -1>>
    BY <1>0 DEF HasWays, x
  <2> HIDE DEF p
  <2>2. p # rt[t]
    BY <1>4, <1>5, <2>1
  <2>3. m2.tab[p] = m.tab[p]
    BY <1>1, <1>2, <2>1, <2>2
  <2> QED
    BY <2>1, <2>3 DEF p
<1>8. \A u \in Rooted(rt), a \in Indices, b \in Indices :
        Valid(m.tab[rt[u]][a]) /\ Valid(m.tab[m.tab[rt[u]][a].ppn][b]) =>
          LET n == m.tab[m.tab[rt[u]][a].ppn][b].ppn IN
          n \in 1 .. x - 1 /\ own[n] = <<Owner(u, a), a, b>> /\ m2.tab[n] = m.tab[n]
  <2> SUFFICES ASSUME NEW u \in Rooted(rt), NEW a \in Indices, NEW b \in Indices,
                      Valid(m.tab[rt[u]][a]), Valid(m.tab[m.tab[rt[u]][a].ppn][b])
               PROVE  LET n == m.tab[m.tab[rt[u]][a].ppn][b].ppn IN
                      n \in 1 .. x - 1 /\ own[n] = <<Owner(u, a), a, b>> /\ m2.tab[n] = m.tab[n]
    OBVIOUS
  <2> DEFINE n == m.tab[m.tab[rt[u]][a].ppn][b].ppn
  <2>1. n \in 1 .. x - 1 /\ own[n] = <<Owner(u, a), a, b>>
    BY <1>0 DEF HasWays, x
  <2> HIDE DEF n
  <2>2. n # rt[t]
    BY <1>4, <1>5, <2>1
  <2>3. m2.tab[n] = m.tab[n]
    BY <1>1, <1>2, <2>1, <2>2
  <2> QED
    BY <2>1, <2>3 DEF n
<1>9. \A u \in Rooted(rt) : RootOwned(m2, rt, o2, u)
  BY <1>2, <1>5 DEF RootOwned
<1>10. ASSUME NEW u \in Rooted(rt), NEW a \in Indices PROVE MidOwned(m2, rt, o2, u, a)
  <2>1. CASE u = t /\ a = i
    BY <1>1, <1>2, <1>3, <2>1 DEF MidOwned
  <2>2. CASE ~(u = t /\ a = i)
    <3>1. m2.tab[rt[u]][a] = m.tab[rt[u]][a]
      BY <1>6, <2>2
    <3>2. ASSUME Valid(m.tab[rt[u]][a])
          PROVE  /\ m.tab[rt[u]][a].ppn \in 1 .. m2.next - 1
                 /\ o2[m.tab[rt[u]][a].ppn] = <<Owner(u, a), a, -1>>
      BY <1>2, <1>7, <3>2
    <3> QED
      BY <3>1, <3>2 DEF MidOwned
  <2> QED
    BY <2>1, <2>2
<1>11. ASSUME NEW u \in Rooted(rt), NEW a \in Indices, NEW b \in Indices
       PROVE  LeafOwned(m2, rt, o2, u, a, b)
  <2>1. CASE u = t /\ a = i
    BY <1>1, <2>1 DEF LeafOwned
  <2>2. CASE ~(u = t /\ a = i)
    <3>1. m2.tab[rt[u]][a] = m.tab[rt[u]][a]
      BY <1>6, <2>2
    <3> DEFINE p == m.tab[rt[u]][a].ppn
    <3>2. ASSUME Valid(m.tab[rt[u]][a]) PROVE m2.tab[p] = m.tab[p]
      BY <1>7, <3>2
    <3>3. ASSUME Valid(m.tab[rt[u]][a]), Valid(m.tab[p][b])
          PROVE  /\ m.tab[p][b].ppn \in 1 .. m2.next - 1
                 /\ o2[m.tab[p][b].ppn] = <<Owner(u, a), a, b>>
      BY <1>2, <1>8, <3>3
    <3> QED
      BY <3>1, <3>2, <3>3 DEF LeafOwned
  <2> QED
    BY <2>1, <2>2
<1>12. Swapper \in Rooted(rt) /\ KernelShared(m, rt)
  BY DEF Shape
<1>13. KernelShared(m2, rt)
  <2>1. KernelIndices \subseteq Indices
    BY IndicesFit DEF KernelIndices, AllPages
  <2>2. CASE t = Swapper
    BY <1>6, <1>12, <2>1, <2>2 DEF KernelShared
  <2>3. CASE t # Swapper
    BY <1>6, <1>12, <2>1, <2>3 DEF KernelShared
  <2> QED
    BY <2>2, <2>3
<1>14. Shape(m2, rt, o2)
  BY <1>1, <1>2, <1>9, <1>10, <1>11, <1>12, <1>13 DEF Shape
<1>15. ASSUME NEW u \in Rooted(rt), NEW h \in AllPages
       PROVE  View(m2, rt, u, h) = View(m, rt, u, h)
  <2> DEFINE a == VPN2(h)
             b == VPN1(h)
             p == m.tab[rt[u]][a].ppn
  <2>1. a \in Indices /\ b \in Indices
    BY IndicesFit
  <2>2. CASE u = t /\ a = i
    <3>1. ~Mapped(m, rt[u], h) /\ ~Mapped(m2, rt[u], h)
      BY <1>1, <2>1, <2>2 DEF Mapped
    <3> QED
      BY <3>1, LoadIs DEF View
  <2>3. CASE ~(u = t /\ a = i)
    <3>1. m2.tab[rt[u]][a] = m.tab[rt[u]][a]
      BY <1>6, <2>1, <2>3
    <3>2. CASE ~Valid(m.tab[rt[u]][a])
      BY <3>1, <3>2, LoadIs DEF View, Mapped
    <3>3. CASE Valid(m.tab[rt[u]][a])
      <4>1. m2.tab[p] = m.tab[p]
        BY <1>7, <2>1, <3>3
      <4>2. Valid(m.tab[p][b]) => m2.tab[m.tab[p][b].ppn] = m.tab[m.tab[p][b].ppn]
        BY <1>8, <2>1, <3>3
      <4>3. Mapped(m2, rt[u], h) <=> Mapped(m, rt[u], h)
        BY <3>1, <4>1 DEF Mapped
      <4>4. Mapped(m, rt[u], h) => LeafEntry(m2, rt[u], h) = LeafEntry(m, rt[u], h)
        BY <3>1, <4>1, <4>2 DEF Mapped, LeafEntry
      <4> QED
        BY <4>3, <4>4, LoadIs DEF View
    <3> QED
      BY <3>2, <3>3
  <2> QED
    BY <2>2, <2>3
<1> QED
  BY <1>14, <1>15 DEF o2

(* Table q is at index a of the root of task t.                            *)
IsMid(m, rt, t, a, q) == Valid(m.tab[rt[t]][a]) /\ q = m.tab[rt[t]][a].ppn

(* The same for a new table at index i of the table at index a of the root *)
(* of task t.                                                              *)
LEMMA LeafMade ==
  ASSUME PageTableAssumption, NEW m, NEW rt, NEW own, Shape(m, rt, own),
         NEW t \in Rooted(rt), NEW a \in Indices, NEW i \in Indices,
         NEW q, IsMid(m, rt, t, a, q), ~Valid(m.tab[q][i]),
         NEW m2, Grown(m, q, i, m2)
  PROVE  /\ \E o : Shape(m2, rt, o)
         /\ \A u \in Rooted(rt), h \in AllPages : View(m2, rt, u, h) = View(m, rt, u, h)
<1> DEFINE x == m.next
           o2 == [own EXCEPT ![m.next] = <<Owner(t, a), a, i>>]
<1>0. HasWays(m, rt, own)
  BY Ways
<1>1. /\ MaxTables \in Nat /\ x \in 1 .. MaxTables /\ x \in Nat /\ DOMAIN own = 1 .. MaxTables
      /\ Tabled(m2) /\ m2.next = x + 1
      /\ \A k \in 1 .. MaxTables : k # q => m2.tab[k] = m.tab[k]
      /\ \A j \in Indices : j # i => m2.tab[q][j] = m.tab[q][j]
      /\ Valid(m2.tab[q][i]) /\ m2.tab[q][i].ppn = x /\ q # x
      /\ \A j \in Indices : ~Valid(m2.tab[x][j])
  <2>1. MaxTables \in Nat /\ DOMAIN own = 1 .. MaxTables
    BY DEF Shape, PageTableAssumption
  <2>2. Grown(m, q, i, m2)
    OBVIOUS
  <2>3. /\ x \in 1 .. MaxTables /\ Tabled(m2) /\ m2.next = x + 1
        /\ \A k \in 1 .. MaxTables : k # q => m2.tab[k] = m.tab[k]
        /\ \A j \in Indices : j # i => m2.tab[q][j] = m.tab[q][j]
        /\ Valid(m2.tab[q][i]) /\ m2.tab[q][i].ppn = x /\ q # x
        /\ \A j \in Indices : ~Valid(m2.tab[x][j])
    BY <2>2, Zenon DEF Grown
  <2>4. x \in Nat
    <3> HIDE DEF x
    <3> QED
      BY <2>1, <2>3
  <2> QED
    BY <2>1, <2>3, <2>4, Zenon
<1>2. /\ DOMAIN o2 = 1 .. MaxTables /\ o2[x] = <<Owner(t, a), a, i>>
      /\ \A k \in 1 .. x - 1 : k \in 1 .. MaxTables /\ k \in 1 .. m2.next - 1 /\ o2[k] = own[k]
      /\ x \in 1 .. m2.next - 1
  BY <1>1
<1>3. \A c \in Indices : c # -1
  BY NoMinusOne
<1> HIDE DEF o2, x
<1>4. q \in 1 .. x - 1 /\ own[q] = <<Owner(t, a), a, -1>> /\ ~Valid(m.tab[q][i])
  BY <1>0 DEF HasWays, IsMid, x
<1>5. \A u \in Rooted(rt) :
        /\ rt[u] \in 1 .. x - 1 /\ own[rt[u]] = <<u, -1, -1>>
        /\ m2.tab[rt[u]] = m.tab[rt[u]]
  <2>1. \A u \in Rooted(rt) : rt[u] \in 1 .. x - 1 /\ own[rt[u]] = <<u, -1, -1>>
    BY <1>0 DEF HasWays, x
  <2>2. \A u \in Rooted(rt) : rt[u] # q
    BY <1>3, <1>4, <2>1
  <2> QED
    BY <1>1, <1>2, <2>1, <2>2
<1>6. \A u \in Rooted(rt), c \in Indices : Valid(m.tab[rt[u]][c]) =>
        LET p == m.tab[rt[u]][c].ppn IN
        /\ p \in 1 .. x - 1 /\ own[p] = <<Owner(u, c), c, -1>>
        /\ \A d \in Indices : ~(p = q /\ d = i) => m2.tab[p][d] = m.tab[p][d]
  <2> SUFFICES ASSUME NEW u \in Rooted(rt), NEW c \in Indices, Valid(m.tab[rt[u]][c])
               PROVE  LET p == m.tab[rt[u]][c].ppn IN
                      /\ p \in 1 .. x - 1 /\ own[p] = <<Owner(u, c), c, -1>>
                      /\ \A d \in Indices : ~(p = q /\ d = i) => m2.tab[p][d] = m.tab[p][d]
    OBVIOUS
  <2> DEFINE p == m.tab[rt[u]][c].ppn
  <2>1. p \in 1 .. x - 1 /\ own[p] = <<Owner(u, c), c, -1>>
    BY <1>0 DEF HasWays, x
  <2> HIDE DEF p
  <2>2. \A d \in Indices : ~(p = q /\ d = i) => m2.tab[p][d] = m.tab[p][d]
    BY <1>1, <1>2, <2>1
  <2> QED
    BY <2>1, <2>2 DEF p
<1>7. \A u \in Rooted(rt), c \in Indices, d \in Indices :
        Valid(m.tab[rt[u]][c]) /\ Valid(m.tab[m.tab[rt[u]][c].ppn][d]) =>
          LET n == m.tab[m.tab[rt[u]][c].ppn][d].ppn IN
          n \in 1 .. x - 1 /\ own[n] = <<Owner(u, c), c, d>> /\ m2.tab[n] = m.tab[n]
  <2> SUFFICES ASSUME NEW u \in Rooted(rt), NEW c \in Indices, NEW d \in Indices,
                      Valid(m.tab[rt[u]][c]), Valid(m.tab[m.tab[rt[u]][c].ppn][d])
               PROVE  LET n == m.tab[m.tab[rt[u]][c].ppn][d].ppn IN
                      n \in 1 .. x - 1 /\ own[n] = <<Owner(u, c), c, d>> /\ m2.tab[n] = m.tab[n]
    OBVIOUS
  <2> DEFINE n == m.tab[m.tab[rt[u]][c].ppn][d].ppn
  <2>1. n \in 1 .. x - 1 /\ own[n] = <<Owner(u, c), c, d>>
    BY <1>0 DEF HasWays, x
  <2> HIDE DEF n
  <2>2. n # q
    BY <1>3, <1>4, <2>1
  <2>3. m2.tab[n] = m.tab[n]
    BY <1>1, <1>2, <2>1, <2>2
  <2> QED
    BY <2>1, <2>3 DEF n
<1>8. \A u \in Rooted(rt) : RootOwned(m2, rt, o2, u)
  BY <1>2, <1>5 DEF RootOwned
<1>9. ASSUME NEW u \in Rooted(rt), NEW c \in Indices PROVE MidOwned(m2, rt, o2, u, c)
  <2>1. m2.tab[rt[u]][c] = m.tab[rt[u]][c]
    BY <1>5
  <2>2. ASSUME Valid(m.tab[rt[u]][c])
        PROVE  /\ m.tab[rt[u]][c].ppn \in 1 .. m2.next - 1
               /\ o2[m.tab[rt[u]][c].ppn] = <<Owner(u, c), c, -1>>
    BY <1>2, <1>6, <2>2
  <2> QED
    BY <2>1, <2>2 DEF MidOwned
<1>10. ASSUME NEW u \in Rooted(rt), NEW c \in Indices, NEW d \in Indices
       PROVE  LeafOwned(m2, rt, o2, u, c, d)
  <2>1. m2.tab[rt[u]][c] = m.tab[rt[u]][c]
    BY <1>5
  <2> DEFINE p == m.tab[rt[u]][c].ppn
  <2> SUFFICES ASSUME Valid(m.tab[rt[u]][c]), Valid(m2.tab[p][d])
               PROVE  /\ m2.tab[p][d].ppn \in 1 .. m2.next - 1
                      /\ o2[m2.tab[p][d].ppn] = <<Owner(u, c), c, d>>
    BY <2>1 DEF LeafOwned
  <2>2. p \in 1 .. x - 1 /\ own[p] = <<Owner(u, c), c, -1>>
    BY <1>6
  <2>3. CASE p = q /\ d = i
    <3>1. Owner(u, c) = Owner(t, a) /\ c = a
      BY <1>4, <2>2, <2>3
    <3> HIDE DEF p
    <3> QED
      BY <1>1, <1>2, <2>3, <3>1
  <2>4. CASE ~(p = q /\ d = i)
    <3>1. m2.tab[p][d] = m.tab[p][d]
      BY <1>6, <2>4
    <3>2. m.tab[p][d].ppn \in 1 .. x - 1 /\ own[m.tab[p][d].ppn] = <<Owner(u, c), c, d>>
      BY <1>7, <3>1
    <3> HIDE DEF p
    <3> QED
      BY <1>2, <3>1, <3>2
  <2> QED
    BY <2>3, <2>4
<1>11. Swapper \in Rooted(rt) /\ KernelShared(m, rt)
  BY DEF Shape
<1>12. KernelShared(m2, rt)
  BY <1>5, <1>11 DEF KernelShared
<1>13. Shape(m2, rt, o2)
  BY <1>1, <1>2, <1>8, <1>9, <1>10, <1>11, <1>12 DEF Shape
<1>14. ASSUME NEW u \in Rooted(rt), NEW h \in AllPages
       PROVE  View(m2, rt, u, h) = View(m, rt, u, h)
  <2> DEFINE c == VPN2(h)
             d == VPN1(h)
             p == m.tab[rt[u]][c].ppn
  <2>1. c \in Indices /\ d \in Indices /\ VPN0(h) \in Indices
    BY IndicesFit
  <2>2. m2.tab[rt[u]][c] = m.tab[rt[u]][c]
    BY <1>5
  <2>3. CASE ~Valid(m.tab[rt[u]][c])
    BY <2>2, <2>3, LoadIs DEF View, Mapped
  <2>4. CASE Valid(m.tab[rt[u]][c]) /\ p = q /\ d = i
    <3>1. ~Mapped(m, rt[u], h)
      BY <1>4, <2>4 DEF Mapped
    <3>2. ~Valid(LeafEntry(m2, rt[u], h))
      <4>1. m2.tab[m2.tab[rt[u]][c].ppn][d].ppn = x
        BY <1>1, <2>2, <2>4
      <4> QED
        BY <1>1, <2>1, <4>1 DEF LeafEntry
    <3> QED
      BY <3>1, <3>2, LoadIs DEF View
  <2>5. CASE Valid(m.tab[rt[u]][c]) /\ ~(p = q /\ d = i)
    <3>1. m2.tab[p][d] = m.tab[p][d]
      BY <1>6, <2>1, <2>5
    <3>2. Valid(m.tab[p][d]) => m2.tab[m.tab[p][d].ppn] = m.tab[m.tab[p][d].ppn]
      BY <1>7, <2>1, <2>5
    <3>3. Mapped(m2, rt[u], h) <=> Mapped(m, rt[u], h)
      BY <2>2, <3>1 DEF Mapped
    <3>4. Mapped(m, rt[u], h) => LeafEntry(m2, rt[u], h) = LeafEntry(m, rt[u], h)
      BY <2>2, <3>1, <3>2 DEF Mapped, LeafEntry
    <3> QED
      BY <3>3, <3>4, LoadIs DEF View
  <2> QED
    BY <2>3, <2>4, <2>5
<1> QED
  BY <1>13, <1>14 DEF o2

(* The pages task t may map: its own in the user's half; in the kernel's,  *)
(* the kernel's own root while there is no other.                          *)
MayMap(rt, t, g) ==
  IF t = Swapper THEN g \in KernelPages /\ Rooted(rt) = {Swapper} ELSE g \in UserPages

LEMMA UserHalf ==
  ASSUME PageTableAssumption, NEW g \in UserPages
  PROVE  VPN2(g) \notin KernelIndices
BY DEF PageTableAssumption, KernelIndices

LEMMA ReachedNext ==
  ASSUME NEW m, m.next \in Nat, NEW n, NEW i
  PROVE  LET s == Reached(m, n, i) IN
         /\ s.next \in Nat /\ m.next <= s.next /\ s.next <= m.next + 1
         /\ Valid(m.tab[n][i]) => s = m
         /\ ~Valid(m.tab[n][i]) => s = WithTable(m, n, i) /\ s.next = m.next + 1
BY DEF Reached, WithTable

LEMMA NextTyped ==
  ASSUME PageTableAssumption, NEW m, Tabled(m)
  PROVE  m.next \in Nat /\ m.next >= 1 /\ m.next <= MaxTables + 1 /\ MaxTables \in Nat
BY DEF Tabled, PageTableAssumption

(* The first step of a walk that makes what it lacks.                      *)
LEMMA RootReached ==
  ASSUME PageTableAssumption, NEW m, NEW rt, NEW own, Shape(m, rt, own),
         NEW t \in Rooted(rt), NEW a \in Indices,
         IF t = Swapper THEN a \in KernelIndices /\ Rooted(rt) = {Swapper}
                        ELSE a \notin KernelIndices,
         Reached(m, rt[t], a).next <= MaxTables + 1
  PROVE  LET s == Reached(m, rt[t], a) IN
         /\ \E o : Shape(s, rt, o)
         /\ Valid(s.tab[rt[t]][a])
         /\ \A u \in Rooted(rt), h \in AllPages : View(s, rt, u, h) = View(m, rt, u, h)
<1> DEFINE r == rt[t]
           s == Reached(m, r, a)
<1>1. Tabled(m) /\ r \in 1 .. m.next - 1
  BY Ways DEF HasWays, Shape
<1>2. m.next \in Nat /\ MaxTables \in Nat
  BY <1>1, NextTyped
<1>3. CASE Valid(m.tab[r][a])
  <2>1. s = m
    BY <1>2, <1>3, ReachedNext
  <2> QED
    BY <1>3, <2>1
<1>4. CASE ~Valid(m.tab[r][a])
  <2>1. s = WithTable(m, r, a) /\ s.next = m.next + 1
    BY <1>2, <1>4, ReachedNext
  <2>2. m.next <= MaxTables
    BY <1>2, <2>1
  <2>3. Grown(m, r, a, s)
    <3> HIDE DEF s, r
    <3> QED
      BY <1>1, <2>1, <2>2, TableMade
  <2>4. Valid(s.tab[r][a])
    <3> HIDE DEF s, r
    <3> QED
      BY <2>3 DEF Grown
  <2>5. /\ \E o : Shape(s, rt, o)
        /\ \A u \in Rooted(rt), h \in AllPages : View(s, rt, u, h) = View(m, rt, u, h)
    <3> HIDE DEF s
    <3> QED
      BY <1>4, <2>3, MidMade
  <2> HIDE DEF s
  <2> QED
    BY <2>4, <2>5 DEF s
<1> QED
  BY <1>3, <1>4

(* The second step.                                                        *)
LEMMA MidReached ==
  ASSUME PageTableAssumption, NEW m, NEW rt, NEW own, Shape(m, rt, own),
         NEW t \in Rooted(rt), NEW a \in Indices, NEW b \in Indices, Valid(m.tab[rt[t]][a]),
         Reached(m, m.tab[rt[t]][a].ppn, b).next <= MaxTables + 1
  PROVE  LET q == m.tab[rt[t]][a].ppn
             s == Reached(m, q, b)
         IN
         /\ \E o : Shape(s, rt, o)
         /\ s.tab[rt[t]][a] = m.tab[rt[t]][a] /\ Valid(s.tab[q][b])
         /\ \A u \in Rooted(rt), h \in AllPages : View(s, rt, u, h) = View(m, rt, u, h)
<1> DEFINE r == rt[t]
           q == m.tab[r][a].ppn
           s == Reached(m, q, b)
<1>1. /\ Tabled(m) /\ q \in 1 .. m.next - 1 /\ r \in 1 .. m.next - 1
      /\ own[r] = <<t, -1, -1>> /\ own[q] = <<Owner(t, a), a, -1>>
  <2>1. HasWays(m, rt, own)
    BY Ways
  <2>2. Tabled(m)
    BY DEF Shape
  <2> QED
    BY <2>1, <2>2 DEF HasWays
<1>2. m.next \in Nat /\ MaxTables \in Nat
  BY <1>1, NextTyped
<1>3. CASE Valid(m.tab[q][b])
  <2>1. s = m
    BY <1>2, <1>3, ReachedNext
  <2> QED
    BY <1>3, <2>1
<1>4. CASE ~Valid(m.tab[q][b])
  <2>1. s = WithTable(m, q, b) /\ s.next = m.next + 1
    BY <1>2, <1>4, ReachedNext
  <2>2. m.next <= MaxTables
    BY <1>2, <2>1
  <2>3. Grown(m, q, b, s)
    <3> HIDE DEF s, q
    <3> QED
      BY <1>1, <2>1, <2>2, TableMade
  <2>4. r # q /\ r \in 1 .. MaxTables
    <3> HIDE DEF r, q
    <3> QED
      BY <1>1, <1>2, <2>2, NoMinusOne
  <2>5. Valid(s.tab[q][b]) /\ s.tab[r][a] = m.tab[r][a]
    <3> HIDE DEF s, r, q
    <3> QED
      BY <2>3, <2>4 DEF Grown
  <2>6. /\ \E o : Shape(s, rt, o)
        /\ \A u \in Rooted(rt), h \in AllPages : View(s, rt, u, h) = View(m, rt, u, h)
    <3>1. IsMid(m, rt, t, a, q) /\ ~Valid(m.tab[q][b]) /\ Grown(m, q, b, s)
      BY <1>4, <2>3 DEF IsMid
    <3> HIDE DEF s, q
    <3> QED
      BY <3>1, LeafMade
  <2> HIDE DEF s
  <2> QED
    BY <2>5, <2>6 DEF s
<1> QED
  BY <1>3, <1>4

(* create_mapping: page g of task t has entry e, no other page of any task *)
(* has changed, and at most two tables were made, none if the page was     *)
(* there.                                                                  *)
LEMMA MappingCreated ==
  ASSUME PageTableAssumption, NEW m, NEW rt, NEW own, Shape(m, rt, own),
         NEW t \in Rooted(rt), NEW g, MayMap(rt, t, g), NEW e, Valid(e),
         create_mapping(m, rt[t], g, e).next <= MaxTables + 1
  PROVE  LET m2 == create_mapping(m, rt[t], g, e) IN
         /\ \E o : Shape(m2, rt, o)
         /\ \A u \in Rooted(rt), h \in AllPages :
              View(m2, rt, u, h) = IF u = t /\ h = g THEN e ELSE View(m, rt, u, h)
<1> DEFINE r == rt[t]
           a == VPN2(g)
           b == VPN1(g)
           s2 == Reached(m, r, a)
           q == s2.tab[r][a].ppn
           s1 == Reached(s2, q, b)
           n == s1.tab[q][b].ppn
           m2 == create_mapping(m, r, g, e)
<1>1. g \in AllPages /\ a \in Indices /\ b \in Indices
  <2>1. g \in AllPages
    BY DEF MayMap, AllPages
  <2> QED
    BY <2>1, IndicesFit
<1>2. IF t = Swapper THEN a \in KernelIndices /\ Rooted(rt) = {Swapper}
                     ELSE a \notin KernelIndices
  BY UserHalf DEF MayMap, KernelIndices
<1>3. m2 = [s1 EXCEPT !.tab[n][VPN0(g)] = e]
  BY Zenon DEF create_mapping
<1> HIDE DEF m2
<1>4. Tabled(m)
  BY DEF Shape
<1>5. m.next \in Nat /\ MaxTables \in Nat
  BY <1>4, NextTyped
<1> HIDE DEF r, a, b
<1>6. s2.next \in Nat
  BY <1>5, ReachedNext
<1> HIDE DEF s2
<1>7. s1.next \in Nat /\ s2.next <= s1.next
  BY <1>6, ReachedNext
<1> HIDE DEF s1
<1>8. s1.next <= MaxTables + 1
  <2>1. m2.next = s1.next
    <3> HIDE DEF n
    <3> QED
      BY <1>3
  <2>2. m2.next <= MaxTables + 1
    BY DEF m2, r
  <2> QED
    BY <2>1, <2>2
<1>9. s2.next <= MaxTables + 1
  BY <1>5, <1>6, <1>7, <1>8
<1>10. PICK o2 : Shape(s2, rt, o2)
  BY <1>1, <1>2, <1>9, RootReached DEF s2, r
<1>11. /\ Valid(s2.tab[r][a])
       /\ \A u \in Rooted(rt), h \in AllPages : View(s2, rt, u, h) = View(m, rt, u, h)
  BY <1>1, <1>2, <1>9, RootReached DEF s2, r
<1>12. /\ \E o : Shape(s1, rt, o)
       /\ s1.tab[r][a] = s2.tab[r][a] /\ Valid(s1.tab[q][b])
       /\ \A u \in Rooted(rt), h \in AllPages : View(s1, rt, u, h) = View(s2, rt, u, h)
  BY <1>1, <1>8, <1>10, <1>11, MidReached DEF s1, q, r
<1>13. PICK o1 : Shape(s1, rt, o1)
  BY <1>12
<1>14. Mapped(s1, r, g)
  BY <1>11, <1>12 DEF Mapped, a, b, q
<1>15. Written(s1, r, g, e, m2)
  <2>1. Place(s1, r, g)[1] = n
    BY <1>12 DEF Place, a, b, q
  <2>2. DOMAIN s1 = {"tab", "next"}
    BY <1>13 DEF Shape, Tabled
  <2> HIDE DEF n
  <2>3. /\ DOMAIN m2 = {"tab", "next"} /\ m2.next = s1.next
        /\ m2.tab = [s1.tab EXCEPT ![n][VPN0(g)] = e]
    BY <1>3, <2>2
  <2> QED
    BY <2>1, <2>3 DEF Written
<1>16. /\ Shape(m2, rt, o1)
       /\ \A u \in Rooted(rt), h \in AllPages :
            View(m2, rt, u, h) =
              IF Owner(u, VPN2(h)) = Owner(t, VPN2(g)) /\ h = g
              THEN IF Valid(e) THEN e ELSE NoEntry
              ELSE View(s1, rt, u, h)
  BY <1>1, <1>13, <1>14, <1>15, EntryWritten DEF r
<1>17. \A u \in Rooted(rt) : Owner(u, VPN2(g)) = Owner(t, VPN2(g)) <=> u = t
  BY <1>2 DEF Owner, a
<1>18. \A u \in Rooted(rt), h \in AllPages :
         View(m2, rt, u, h) = IF u = t /\ h = g THEN e ELSE View(m, rt, u, h)
  BY <1>11, <1>12, <1>16, <1>17
<1> QED
  BY <1>16, <1>18 DEF m2, r

(* How many tables it makes: two at most, none for a page that is there.   *)
LEMMA TablesMade ==
  ASSUME PageTableAssumption, NEW m, m.next \in Nat, NEW r, NEW g, NEW e
  PROVE  LET m2 == create_mapping(m, r, g, e) IN
         /\ m2.next \in Nat /\ m.next <= m2.next /\ m2.next <= m.next + 2
         /\ Mapped(m, r, g) => m2.next = m.next
<1> DEFINE a == VPN2(g)
           b == VPN1(g)
           s2 == Reached(m, r, a)
           q == s2.tab[r][a].ppn
           s1 == Reached(s2, q, b)
           n == s1.tab[q][b].ppn
           m2 == create_mapping(m, r, g, e)
<1>1. m2 = [s1 EXCEPT !.tab[n][VPN0(g)] = e]
  BY Zenon DEF create_mapping
<1> HIDE DEF m2, a, b
<1>2. /\ s2.next \in Nat /\ m.next <= s2.next /\ s2.next <= m.next + 1
      /\ Valid(m.tab[r][a]) => s2 = m
  BY ReachedNext
<1> HIDE DEF s2
<1>3. /\ s1.next \in Nat /\ s2.next <= s1.next /\ s1.next <= s2.next + 1
      /\ Valid(s2.tab[q][b]) => s1 = s2
  BY <1>2, ReachedNext
<1>4. Mapped(m, r, g) => s1.next = m.next
  BY <1>2, <1>3 DEF Mapped, a, b
<1> HIDE DEF s1, n
<1>5. m2.next = s1.next
  BY <1>1
<1> QED
  BY <1>2, <1>3, <1>4, <1>5 DEF m2

-----------------------------------------------------------------------------
(* Rights *)

IsEntry(e) == e = [ppn |-> e.ppn, perm |-> e.perm]

LEMMA PermWritten ==
  ASSUME PageTableAssumption, NEW m, NEW rt, NEW own, Shape(m, rt, own),
         NEW t \in Rooted(rt), NEW g \in AllPages, Mapped(m, rt[t], g),
         NEW e, e = LeafEntry(m, rt[t], g), IsEntry(e), NEW perm
  PROVE  Written(m, rt[t], g, [ppn |-> e.ppn, perm |-> perm], WithPerm(m, rt[t], g, perm))
<1> DEFINE r == rt[t]
           n == Place(m, r, g)[1]
           i == VPN0(g)
           m2 == WithPerm(m, r, g, perm)
           e2 == [ppn |-> e.ppn, perm |-> perm]
<1>1. Place(m, r, g)[2] = i
  BY DEF Place
<1>2. e = m.tab[n][i]
  BY DEF LeafEntry, Place
<1>3. n \in 1 .. m.next - 1
  <2>1. HasWays(m, rt, own)
    BY Ways
  <2>2. VPN2(g) \in Indices /\ VPN1(g) \in Indices
    BY IndicesFit
  <2> QED
    BY <2>1, <2>2 DEF HasWays, Mapped, Place
<1>4. Tabled(m)
  BY DEF Shape
<1>5. i \in Indices
  BY IndicesFit
<1>6. [e EXCEPT !.perm = perm] = e2
  BY DEF IsEntry
<1> HIDE DEF n, r, i, e2
<1>7. n \in 1 .. MaxTables
  BY <1>3, <1>4, NextTyped
<1>8. /\ DOMAIN m = {"tab", "next"} /\ DOMAIN m.tab = 1 .. MaxTables
      /\ DOMAIN m.tab[n] = Indices
  BY <1>4, <1>7 DEF Tabled
<1>9. m2 = [m EXCEPT !.tab[n][i].perm = perm]
  BY <1>1 DEF WithPerm, n
<1> HIDE DEF m2
<1>10. /\ DOMAIN m2 = {"tab", "next"} /\ m2.next = m.next
       /\ m2.tab = [m.tab EXCEPT ![n][i] = [m.tab[n][i] EXCEPT !.perm = perm]]
  BY <1>8, <1>9
<1>11. m2.tab = [m.tab EXCEPT ![n][i] = e2]
  BY <1>2, <1>6, <1>10
<1> QED
  BY <1>10, <1>11 DEF Written, m2, n, r, i, e2

(* The page of a task gets other rights in its frame.                      *)
LEMMA RightsChanged ==
  ASSUME PageTableAssumption, NEW m, NEW rt, NEW own, Shape(m, rt, own),
         NEW t \in Rooted(rt) \ {Swapper}, NEW g \in UserPages,
         Valid(View(m, rt, t, g)), IsEntry(View(m, rt, t, g)), NEW perm, "V" \in perm
  PROVE  LET m2 == WithPerm(m, rt[t], g, perm) IN
         /\ Shape(m2, rt, own) /\ m2.next = m.next /\ Mapped(m2, rt[t], g)
         /\ \A u \in Rooted(rt), h \in AllPages :
              View(m2, rt, u, h) = IF u = t /\ h = g
                                   THEN [ppn |-> View(m, rt, t, g).ppn, perm |-> perm]
                                   ELSE View(m, rt, u, h)
<1> DEFINE e == LeafEntry(m, rt[t], g)
           e2 == [ppn |-> e.ppn, perm |-> perm]
           m2 == WithPerm(m, rt[t], g, perm)
<1>1. g \in AllPages /\ VPN2(g) \notin KernelIndices
  BY UserHalf DEF AllPages
<1>2. Mapped(m, rt[t], g) /\ View(m, rt, t, g) = e
  BY LoadIs, NothingInvalid DEF View
<1>3. Valid(e2)
  BY DEF Valid
<1>4. Written(m, rt[t], g, e2, m2)
  <2> HIDE DEF e, m2
  <2>1. e = LeafEntry(m, rt[t], g) /\ IsEntry(e)
    BY <1>2 DEF e
  <2> QED
    BY <1>1, <1>2, <2>1, PermWritten DEF m2
<1> HIDE DEF e, e2, m2
<1>5. /\ Shape(m2, rt, own)
      /\ \A u \in Rooted(rt), h \in AllPages :
           View(m2, rt, u, h) =
             IF Owner(u, VPN2(h)) = Owner(t, VPN2(g)) /\ h = g
             THEN IF Valid(e2) THEN e2 ELSE NoEntry
             ELSE View(m, rt, u, h)
  BY <1>1, <1>2, <1>4, EntryWritten
<1>6. \A u \in Rooted(rt) : Owner(u, VPN2(g)) = Owner(t, VPN2(g)) <=> u = t
  BY <1>1 DEF Owner
<1>7. \A u \in Rooted(rt), h \in AllPages :
        View(m2, rt, u, h) = IF u = t /\ h = g THEN e2 ELSE View(m, rt, u, h)
  BY <1>3, <1>5, <1>6
<1>8. Mapped(m2, rt[t], g)
  <2>1. View(m2, rt, t, g) = e2
    BY <1>1, <1>7
  <2> QED
    BY <1>3, <2>1, LoadIs, NothingInvalid DEF View
<1>9. m2.next = m.next
  BY <1>4 DEF Written
<1> QED
  BY <1>2, <1>5, <1>7, <1>8, <1>9 DEF m2, e2

(* What both tasks have of a page after a fork.                            *)
ReadOnly(e) == [ppn |-> e.ppn, perm |-> e.perm \ {"W"}]

LEMMA PageShared ==
  ASSUME PageTableAssumption, NEW m, NEW rt, NEW own, Shape(m, rt, own),
         NEW t \in Rooted(rt) \ {Swapper}, NEW c \in Rooted(rt) \ {Swapper}, t # c,
         NEW g \in UserPages, Valid(View(m, rt, t, g)), IsEntry(View(m, rt, t, g)),
         m.next + 2 <= MaxTables + 1
  PROVE  LET m2 == Share(m, rt[t], rt[c], g) IN
         /\ \E o : Shape(m2, rt, o)
         /\ m2.next \in Nat /\ m2.next <= m.next + 2
         /\ \A u \in Rooted(rt), h \in AllPages :
              View(m2, rt, u, h) = IF u \in {t, c} /\ h = g
                                   THEN ReadOnly(View(m, rt, t, g)) ELSE View(m, rt, u, h)
<1> DEFINE v == View(m, rt, t, g)
           m1 == pte_entry_ret(m, rt[t], g)
           e == View(m1, rt, t, g)
           m2 == Share(m, rt[t], rt[c], g)
<1>1. "V" \in v.perm \ {"W"}
  BY DEF Valid
<1>2. m1 = WithPerm(m, rt[t], g, v.perm \ {"W"})
  BY DEF pte_entry_ret, View
<1>3. /\ Shape(m1, rt, own) /\ m1.next = m.next
      /\ \A u \in Rooted(rt), h \in AllPages :
           View(m1, rt, u, h) = IF u = t /\ h = g THEN ReadOnly(v) ELSE View(m, rt, u, h)
  BY <1>1, <1>2, RightsChanged DEF ReadOnly
<1>4. m2 = create_mapping(m1, rt[c], g, e)
  BY DEF Share, View
<1>5. g \in AllPages
  BY DEF AllPages
<1>6. e = ReadOnly(v)
  BY <1>3, <1>5
<1>7. Valid(e)
  BY <1>1, <1>6 DEF ReadOnly, Valid
<1> HIDE DEF v, m1, e, m2
<1>8. Tabled(m1)
  BY <1>3 DEF Shape
<1>9. m1.next \in Nat /\ MaxTables \in Nat
  BY <1>8, NextTyped
<1>10. m2.next \in Nat /\ m2.next <= m1.next + 2
  BY <1>4, <1>9, TablesMade
<1>11. m2.next <= MaxTables + 1
  BY <1>3, <1>9, <1>10
<1>12. /\ \E o : Shape(m2, rt, o)
       /\ \A u \in Rooted(rt), h \in AllPages :
            View(m2, rt, u, h) = IF u = c /\ h = g THEN e ELSE View(m1, rt, u, h)
  <2>1. MayMap(rt, c, g)
    BY DEF MayMap
  <2> QED
    BY <1>3, <1>4, <1>7, <1>11, <2>1, MappingCreated
<1>13. \A u \in Rooted(rt), h \in AllPages :
         View(m2, rt, u, h) = IF u \in {t, c} /\ h = g THEN ReadOnly(v) ELSE View(m, rt, u, h)
  BY <1>3, <1>6, <1>12
<1> QED
  BY <1>3, <1>10, <1>12, <1>13 DEF m2, v

-----------------------------------------------------------------------------
(* The root table of a new task *)

NewRoots(rt, c, n) == [rt EXCEPT ![c] = n]

LEMMA RootCopied ==
  ASSUME PageTableAssumption, NEW m, NEW rt, NEW own, Shape(m, rt, own), DOMAIN rt = Tasks,
         NEW c \in Tasks \ Rooted(rt), m.next <= MaxTables
  PROVE  LET m2  == WithRoot(m, m.tab[rt[Swapper]])
             rt2 == NewRoots(rt, c, m.next)
         IN
         /\ \E o : Shape(m2, rt2, o)
         /\ m2.next = m.next + 1 /\ Rooted(rt2) = Rooted(rt) \cup {c}
         /\ \A u \in Rooted(rt), h \in AllPages : View(m2, rt2, u, h) = View(m, rt, u, h)
         /\ \A h \in AllPages : View(m2, rt2, c, h) = View(m, rt, Swapper, h)
<1> DEFINE x == m.next
           s == rt[Swapper]
           m2 == WithRoot(m, m.tab[s])
           rt2 == NewRoots(rt, c, x)
           o2 == [own EXCEPT ![x] = <<c, -1, -1>>]
<1>0. HasWays(m, rt, own)
  BY Ways
<1>1. /\ Tabled(m) /\ DOMAIN own = 1 .. MaxTables /\ KernelShared(m, rt)
      /\ Swapper \in Rooted(rt)
  BY DEF Shape
<1>2. MaxTables \in Nat /\ x \in Nat /\ x \in 1 .. MaxTables
  BY <1>1, NextTyped
<1>3. /\ m2.tab = [m.tab EXCEPT ![x] = m.tab[s]] /\ m2.next = x + 1
      /\ DOMAIN m2 = {"tab", "next"}
  BY DEF WithRoot
<1>4. c # Swapper /\ Swapper \in Tasks
  BY <1>1 DEF Rooted
<1>5. /\ rt2[c] = x /\ \A u \in Tasks : u # c => rt2[u] = rt[u]
      /\ Rooted(rt2) = Rooted(rt) \cup {c}
  <2>1. rt2[c] = x /\ \A u \in Tasks : u # c => rt2[u] = rt[u]
    BY DEF NewRoots
  <2> QED
    BY <1>2, <2>1 DEF Rooted
<1>6. /\ DOMAIN o2 = 1 .. MaxTables /\ o2[x] = <<c, -1, -1>>
      /\ \A k \in 1 .. x - 1 : k \in 1 .. MaxTables /\ k # x /\ k \in 1 .. x /\ o2[k] = own[k]
      /\ x \in 1 .. x
  BY <1>1, <1>2
<1>7. /\ m2.tab[x] = m.tab[s]
      /\ \A k \in 1 .. MaxTables : k # x => m2.tab[k] = m.tab[k]
      /\ DOMAIN m2.tab = 1 .. MaxTables
  BY <1>1, <1>2, <1>3 DEF Tabled
<1>8. m2.next = x + 1 /\ DOMAIN m2 = {"tab", "next"} /\ m2.next - 1 = x
  BY <1>2, <1>3
<1>9. s \in 1 .. x - 1 /\ s \in 1 .. MaxTables
  BY <1>0, <1>1, <1>6 DEF HasWays
<1> HIDE DEF m2, rt2, o2, x, s
<1>10. Tabled(m2)
  <2>1. ASSUME NEW n \in 1 .. MaxTables PROVE DOMAIN m2.tab[n] = Indices
    BY <1>1, <1>7, <1>9 DEF Tabled
  <2>2. ASSUME NEW n \in 1 .. MaxTables, n >= m2.next, NEW i \in Indices
        PROVE  ~Valid(m2.tab[n][i])
    <3>1. n # x /\ n >= x
      BY <1>2, <1>8, <2>2
    <3> QED
      BY <1>1, <1>7, <3>1 DEF Tabled, x
  <2>3. x + 1 \in 1 .. MaxTables + 1
    BY <1>2
  <2> QED
    BY <1>7, <1>8, <2>1, <2>2, <2>3 DEF Tabled
(* A root in rt2, and the task of rt whose entries it has.                 *)
<1> DEFINE Model(u) == IF u = c THEN Swapper ELSE u
<1>11. \A u \in Rooted(rt2) :
         /\ Model(u) \in Rooted(rt) /\ rt2[u] \in 1 .. x /\ o2[rt2[u]] = <<u, -1, -1>>
         /\ m2.tab[rt2[u]] = m.tab[rt[Model(u)]]
  <2> SUFFICES ASSUME NEW u \in Rooted(rt2)
               PROVE  /\ Model(u) \in Rooted(rt) /\ rt2[u] \in 1 .. x
                      /\ o2[rt2[u]] = <<u, -1, -1>>
                      /\ m2.tab[rt2[u]] = m.tab[rt[Model(u)]]
    OBVIOUS
  <2>1. CASE u = c
    BY <1>1, <1>5, <1>6, <1>7, <2>1 DEF s
  <2>2. CASE u # c
    <3>1. u \in Rooted(rt) /\ u \in Tasks
      BY <1>5, <2>2 DEF Rooted
    <3>2. rt[u] \in 1 .. x - 1 /\ own[rt[u]] = <<u, -1, -1>>
      BY <1>0, <3>1 DEF HasWays, x
    <3>3. rt2[u] = rt[u]
      BY <1>5, <2>2, <3>1
    <3> QED
      BY <1>6, <1>7, <2>2, <3>1, <3>2, <3>3
  <2> QED
    BY <2>1, <2>2
<1>12. \A u \in Rooted(rt2), a \in Indices :
         Valid(m.tab[rt[Model(u)]][a]) => Owner(u, a) = Owner(Model(u), a)
  <2> SUFFICES ASSUME NEW u \in Rooted(rt2), NEW a \in Indices,
                      Valid(m.tab[rt[Model(u)]][a])
               PROVE  Owner(u, a) = Owner(Model(u), a)
    OBVIOUS
  <2>1. CASE u = c
    BY <1>1, <2>1 DEF KernelShared, Owner
  <2>2. CASE u # c
    BY <2>2
  <2> QED
    BY <2>1, <2>2
<1>13. \A u \in Rooted(rt2), a \in Indices : Valid(m.tab[rt[Model(u)]][a]) =>
         LET p == m.tab[rt[Model(u)]][a].ppn IN
         p \in 1 .. x - 1 /\ own[p] = <<Owner(u, a), a, -1>> /\ m2.tab[p] = m.tab[p]
  <2> SUFFICES ASSUME NEW u \in Rooted(rt2), NEW a \in Indices, Valid(m.tab[rt[Model(u)]][a])
               PROVE  LET p == m.tab[rt[Model(u)]][a].ppn IN
                      p \in 1 .. x - 1 /\ own[p] = <<Owner(u, a), a, -1>> /\ m2.tab[p] = m.tab[p]
    OBVIOUS
  <2> DEFINE w == Model(u)
             p == m.tab[rt[w]][a].ppn
  <2>1. w \in Rooted(rt) /\ Owner(u, a) = Owner(w, a)
    BY <1>11, <1>12
  <2> HIDE DEF w
  <2>2. p \in 1 .. x - 1 /\ own[p] = <<Owner(w, a), a, -1>>
    BY <1>0, <2>1 DEF HasWays, x, w
  <2> HIDE DEF p
  <2>3. m2.tab[p] = m.tab[p]
    BY <1>6, <1>7, <2>2
  <2> QED
    BY <2>1, <2>2, <2>3 DEF p, w
<1>14. \A u \in Rooted(rt2), a \in Indices, b \in Indices :
         Valid(m.tab[rt[Model(u)]][a]) /\ Valid(m.tab[m.tab[rt[Model(u)]][a].ppn][b]) =>
           LET n == m.tab[m.tab[rt[Model(u)]][a].ppn][b].ppn IN
           n \in 1 .. x - 1 /\ own[n] = <<Owner(u, a), a, b>> /\ m2.tab[n] = m.tab[n]
  <2> SUFFICES ASSUME NEW u \in Rooted(rt2), NEW a \in Indices, NEW b \in Indices,
                      Valid(m.tab[rt[Model(u)]][a]),
                      Valid(m.tab[m.tab[rt[Model(u)]][a].ppn][b])
               PROVE  LET n == m.tab[m.tab[rt[Model(u)]][a].ppn][b].ppn IN
                      n \in 1 .. x - 1 /\ own[n] = <<Owner(u, a), a, b>> /\ m2.tab[n] = m.tab[n]
    OBVIOUS
  <2> DEFINE w == Model(u)
             n == m.tab[m.tab[rt[w]][a].ppn][b].ppn
  <2>1. w \in Rooted(rt) /\ Owner(u, a) = Owner(w, a)
    BY <1>11, <1>12
  <2> HIDE DEF w
  <2>2. n \in 1 .. x - 1 /\ own[n] = <<Owner(w, a), a, b>>
    BY <1>0, <2>1 DEF HasWays, x, w
  <2> HIDE DEF n
  <2>3. m2.tab[n] = m.tab[n]
    BY <1>6, <1>7, <2>2
  <2> QED
    BY <2>1, <2>2, <2>3 DEF n, w
<1> HIDE DEF Model
<1>15. ASSUME NEW u \in Rooted(rt2) PROVE RootOwned(m2, rt2, o2, u)
  BY <1>8, <1>11 DEF RootOwned
<1>16. ASSUME NEW u \in Rooted(rt2), NEW a \in Indices PROVE MidOwned(m2, rt2, o2, u, a)
  <2>1. m2.tab[rt2[u]][a] = m.tab[rt[Model(u)]][a]
    BY <1>11
  <2>2. ASSUME Valid(m.tab[rt[Model(u)]][a])
        PROVE  /\ m.tab[rt[Model(u)]][a].ppn \in 1 .. m2.next - 1
               /\ o2[m.tab[rt[Model(u)]][a].ppn] = <<Owner(u, a), a, -1>>
    BY <1>6, <1>8, <1>13, <2>2
  <2> QED
    BY <2>1, <2>2 DEF MidOwned
<1>17. ASSUME NEW u \in Rooted(rt2), NEW a \in Indices, NEW b \in Indices
       PROVE  LeafOwned(m2, rt2, o2, u, a, b)
  <2>1. m2.tab[rt2[u]][a] = m.tab[rt[Model(u)]][a]
    BY <1>11
  <2> DEFINE p == m.tab[rt[Model(u)]][a].ppn
  <2> SUFFICES ASSUME Valid(m.tab[rt[Model(u)]][a]), Valid(m2.tab[p][b])
               PROVE  /\ m2.tab[p][b].ppn \in 1 .. m2.next - 1
                      /\ o2[m2.tab[p][b].ppn] = <<Owner(u, a), a, b>>
    BY <2>1 DEF LeafOwned
  <2>2. m2.tab[p] = m.tab[p]
    BY <1>13
  <2>3. m.tab[p][b].ppn \in 1 .. x - 1 /\ own[m.tab[p][b].ppn] = <<Owner(u, a), a, b>>
    BY <1>14, <2>2
  <2> HIDE DEF p
  <2> QED
    BY <1>6, <1>8, <2>2, <2>3
<1>18. Swapper \in Rooted(rt2) /\ Model(Swapper) = Swapper
  BY <1>1, <1>4, <1>5 DEF Model
<1>19. KernelShared(m2, rt2)
  BY <1>1, <1>11, <1>18 DEF KernelShared
<1>20. Shape(m2, rt2, o2)
  BY <1>6, <1>10, <1>15, <1>16, <1>17, <1>18, <1>19 DEF Shape
<1>21. ASSUME NEW u \in Rooted(rt2), NEW h \in AllPages
       PROVE  View(m2, rt2, u, h) = View(m, rt, Model(u), h)
  <2> DEFINE a == VPN2(h)
             b == VPN1(h)
             p == m.tab[rt[Model(u)]][a].ppn
  <2>1. a \in Indices /\ b \in Indices
    BY IndicesFit
  <2>2. m2.tab[rt2[u]][a] = m.tab[rt[Model(u)]][a]
    BY <1>11
  <2>3. Valid(m.tab[rt[Model(u)]][a]) => m2.tab[p] = m.tab[p]
    BY <1>13, <2>1
  <2>4. Valid(m.tab[rt[Model(u)]][a]) /\ Valid(m.tab[p][b]) =>
          m2.tab[m.tab[p][b].ppn] = m.tab[m.tab[p][b].ppn]
    BY <1>14, <2>1
  <2>5. Mapped(m2, rt2[u], h) <=> Mapped(m, rt[Model(u)], h)
    BY <2>2, <2>3 DEF Mapped
  <2>6. Mapped(m, rt[Model(u)], h) => LeafEntry(m2, rt2[u], h) = LeafEntry(m, rt[Model(u)], h)
    BY <2>2, <2>3, <2>4 DEF Mapped, LeafEntry
  <2> QED
    BY <2>5, <2>6, LoadIs DEF View
<1>22. \A u \in Rooted(rt) : u \in Rooted(rt2) /\ Model(u) = u
  BY <1>5 DEF Model
<1>23. c \in Rooted(rt2) /\ Model(c) = Swapper
  BY <1>5 DEF Model
<1>24. /\ \A u \in Rooted(rt), h \in AllPages : View(m2, rt2, u, h) = View(m, rt, u, h)
       /\ \A h \in AllPages : View(m2, rt2, c, h) = View(m, rt, Swapper, h)
  BY <1>21, <1>22, <1>23
<1> QED
  BY <1>5, <1>8, <1>20, <1>24 DEF m2, rt2, x, s

-----------------------------------------------------------------------------
(* Loops over the virtual pages *)

(* Induction over 0 .. N, with a set for the property.                     *)
LEMMA Counting ==
  ASSUME NEW N \in Nat, NEW T, 0 \in T, \A k \in 1 .. N : k - 1 \in T => k \in T
  PROVE  \A k \in 0 .. N : k \in T
<1> DEFINE S == {k \in 0 .. N : k \notin T}
<1> SUFFICES ASSUME S # {} PROVE FALSE
  OBVIOUS
<1>1. S \subseteq Nat /\ \A k \in S : k \in 1 .. N /\ k \notin T
  OBVIOUS
<1>2. IsWellFoundedOn(OpToRel(<, Nat), Nat)
  BY NatLessThanWellFounded
<1>3. \A k \in S : k - 1 \in S
  BY <1>1
<1> HIDE DEF S
<1>4. PICK k \in S : \A j \in S : ~ (<<j, k>> \in OpToRel(<, Nat))
  BY <1>1, <1>2, WFMin
<1>5. k - 1 \in S /\ k - 1 \in Nat /\ k \in Nat /\ k - 1 < k
  BY <1>1, <1>3
<1>6. <<k - 1, k>> \in OpToRel(<, Nat)
  BY <1>5 DEF OpToRel
<1> QED
  BY <1>4, <1>5, <1>6

LEMMA SpanNat == PageTableAssumption => Span \in Nat /\ \A h \in AllPages : h \in 0 .. Span - 1
BY DEF PageTableAssumption, Span, AllPages

(* No user page is in the kernel's own tables.                             *)
LEMMA SwapperEmpty ==
  ASSUME PageTableAssumption, NEW m, NEW rt, NEW own, Shape(m, rt, own), NEW g \in UserPages
  PROVE  View(m, rt, Swapper, g) = NoEntry
<1>1. VPN2(g) \in Indices \ KernelIndices
  <2>1. g \in AllPages
    BY DEF AllPages
  <2> QED
    BY <2>1, UserHalf, IndicesFit
<1>2. ~Valid(m.tab[rt[Swapper]][VPN2(g)])
  BY <1>1 DEF Shape, KernelShared
<1> QED
  BY <1>2, LoadIs DEF View, Mapped

(* setup_vm_final: every page of the kernel has its entry, no other page   *)
(* has one.                                                                *)
FirstRoots == [t \in Tasks |-> IF t = Swapper THEN 1 ELSE 0]

LEMMA KernelStep ==
  ASSUME PageTableAssumption, NEW k \in 1 .. Span, NEW m,
         NEW m2, m2 = (IF k - 1 \in KernelPages
                       THEN create_mapping(m, 1, k - 1, KernelEntry(k - 1)) ELSE m),
         m2.next <= MaxTables + 1, \E o : Shape(m, FirstRoots, o),
         \A h \in AllPages : View(m, FirstRoots, Swapper, h) =
                               IF h \in KernelPages /\ h < k - 1 THEN KernelEntry(h) ELSE NoEntry
  PROVE  /\ \E o : Shape(m2, FirstRoots, o)
         /\ \A h \in AllPages : View(m2, FirstRoots, Swapper, h) =
                                  IF h \in KernelPages /\ h < k THEN KernelEntry(h) ELSE NoEntry
<1>1. \A h \in AllPages : h \in Nat /\ (h < k <=> h < k - 1 \/ h = k - 1)
  BY SpanNat
<1>2. CASE k - 1 \notin KernelPages
  BY <1>1, <1>2
<1>3. CASE k - 1 \in KernelPages
  <2>1. PICK own : Shape(m, FirstRoots, own)
    OBVIOUS
  <2>2. Swapper \in Tasks /\ FirstRoots[Swapper] = 1 /\ Rooted(FirstRoots) = {Swapper}
    <3>1. Swapper \in Tasks
      BY DEF PageTableAssumption, Tasks, Swapper
    <3> QED
      BY <3>1 DEF FirstRoots, Rooted
  <2>3. MayMap(FirstRoots, Swapper, k - 1) /\ Valid(KernelEntry(k - 1))
    BY <1>3, <2>2 DEF MayMap, PageTableAssumption
  <2>4. m2 = create_mapping(m, FirstRoots[Swapper], k - 1, KernelEntry(k - 1))
    BY <1>3, <2>2
  <2>5. /\ \E o : Shape(m2, FirstRoots, o)
        /\ \A u \in Rooted(FirstRoots), h \in AllPages :
             View(m2, FirstRoots, u, h) =
               IF u = Swapper /\ h = k - 1 THEN KernelEntry(k - 1) ELSE View(m, FirstRoots, u, h)
    BY <2>1, <2>2, <2>3, <2>4, MappingCreated
  <2>6. ASSUME NEW h \in AllPages
        PROVE  View(m2, FirstRoots, Swapper, h) =
                 IF h \in KernelPages /\ h < k THEN KernelEntry(h) ELSE NoEntry
    <3>1. View(m2, FirstRoots, Swapper, h) =
            IF h = k - 1 THEN KernelEntry(k - 1) ELSE View(m, FirstRoots, Swapper, h)
      BY <2>2, <2>5
    <3>2. CASE h = k - 1
      BY <1>1, <1>3, <3>1, <3>2
    <3>3. CASE h # k - 1
      BY <1>1, <3>1, <3>3
    <3> QED
      BY <3>2, <3>3
  <2> QED
    BY <2>5, <2>6
<1> QED
  BY <1>2, <1>3

LEMMA EmptyTables ==
  ASSUME PageTableAssumption, 2 <= MaxTables + 1
  PROVE  /\ \E o : Shape(Empty, FirstRoots, o)
         /\ \A h \in AllPages : View(Empty, FirstRoots, Swapper, h) = NoEntry
<1> DEFINE o == [n \in 1 .. MaxTables |-> <<Swapper, -1, -1>>]
<1>1. MaxTables \in Nat /\ 1 \in 1 .. MaxTables /\ 2 \in 1 .. MaxTables + 1 /\ 1 \in 1 .. 2 - 1
  BY DEF PageTableAssumption
<1>2. /\ DOMAIN Empty = {"tab", "next"} /\ DOMAIN Empty.tab = 1 .. MaxTables /\ Empty.next = 2
      /\ \A n \in 1 .. MaxTables : DOMAIN Empty.tab[n] = Indices
      /\ \A n \in 1 .. MaxTables, i \in Indices : ~Valid(Empty.tab[n][i])
  BY NothingInvalid DEF Empty, NoTable
<1>3. Swapper \in Tasks /\ FirstRoots[Swapper] = 1 /\ Rooted(FirstRoots) = {Swapper}
  <2>1. Swapper \in Tasks
    BY DEF PageTableAssumption, Tasks, Swapper
  <2> QED
    BY <2>1 DEF FirstRoots, Rooted
<1>4. DOMAIN o = 1 .. MaxTables /\ o[1] = <<Swapper, -1, -1>>
  BY <1>1
<1> HIDE DEF o
<1>5. Tabled(Empty)
  BY <1>1, <1>2 DEF Tabled
<1>6. \A t \in Rooted(FirstRoots), a \in Indices : ~Valid(Empty.tab[FirstRoots[t]][a])
  BY <1>1, <1>2, <1>3
<1>7. \A t \in Rooted(FirstRoots) : RootOwned(Empty, FirstRoots, o, t)
  BY <1>1, <1>2, <1>3, <1>4 DEF RootOwned
<1>8. KernelShared(Empty, FirstRoots)
  BY <1>3, <1>6 DEF KernelShared
<1>9. Shape(Empty, FirstRoots, o)
  BY <1>3, <1>4, <1>5, <1>6, <1>7, <1>8 DEF Shape, MidOwned, LeafOwned
<1>10. ASSUME NEW h \in AllPages PROVE View(Empty, FirstRoots, Swapper, h) = NoEntry
  <2>1. VPN2(h) \in Indices
    BY IndicesFit
  <2> QED
    BY <1>3, <1>6, <2>1, LoadIs DEF View, Mapped
<1> QED
  BY <1>9, <1>10

LEMMA KernelMapped ==
  ASSUME PageTableAssumption
  PROVE  /\ \E o : Shape(KernelTables, FirstRoots, o)
         /\ \A h \in AllPages : View(KernelTables, FirstRoots, Swapper, h) =
                                  IF h \in KernelPages THEN KernelEntry(h) ELSE NoEntry
<1> DEFINE n == Span
           Step(m, k) == IF k - 1 \in KernelPages
                         THEN create_mapping(m, 1, k - 1, KernelEntry(k - 1)) ELSE m
           Eq(f, j) == f = [k \in 0 .. j |-> IF k = 0 THEN Empty ELSE Step(f[k - 1], k)]
<1>0. n \in Nat
  BY SpanNat
<1>1. KernelTables = (CHOOSE f : Eq(f, n))[n]
  BY Zenon DEF KernelTables
<1> HIDE DEF n
<1>2. \E f : Eq(f, n)
  <2> DEFINE T == {m \in 0 .. n : \E f : Eq(f, m)}
  <2>1. 0 \in T
    <3> DEFINE f == [k \in 0 .. 0 |-> Empty]
    <3>1. Eq(f, 0)
      <4> HIDE DEF Step
      <4> QED
        OBVIOUS
    <3> HIDE DEF Eq
    <3> QED
      BY <1>0, <3>1
  <2>2. ASSUME NEW m \in 1 .. n, m - 1 \in T PROVE m \in T
    <3>1. PICK f : Eq(f, m - 1)
      BY <2>2
    <3> DEFINE g == [k \in 0 .. m |-> IF k = m THEN Step(f[m - 1], m) ELSE f[k]]
    <3>2. ASSUME NEW k \in 0 .. m
          PROVE  g[k] = IF k = 0 THEN Empty ELSE Step(g[k - 1], k)
      <4>1. CASE k = m
        <5>1. k \in 0 .. m /\ k - 1 \in 0 .. m /\ k - 1 # m /\ k # 0
          BY <4>1
        <5> HIDE DEF Step
        <5>2. g[k] = Step(f[k - 1], k) /\ g[k - 1] = f[k - 1]
          BY <4>1, <5>1
        <5> QED
          BY <5>1, <5>2
      <4>2. CASE k # m
        <5>1. k \in 0 .. m - 1 /\ (k # 0 => k - 1 \in 0 .. m /\ k - 1 # m)
          BY <4>2
        <5> HIDE DEF Step
        <5>2. g[k] = f[k] /\ (k # 0 => g[k - 1] = f[k - 1])
          BY <4>2, <5>1
        <5>3. f[k] = IF k = 0 THEN Empty ELSE Step(f[k - 1], k)
          BY <3>1, <5>1
        <5> QED
          BY <5>2, <5>3
      <4> QED
        BY <4>1, <4>2
    <3>3. Eq(g, m)
      <4> HIDE DEF Step
      <4>1. g = [k \in 0 .. m |-> g[k]]
        OBVIOUS
      <4> HIDE DEF g
      <4> QED
        BY <3>2, <4>1
    <3> HIDE DEF Eq, g
    <3> QED
      BY <3>3
  <2> HIDE DEF T
  <2>3. \A m \in 1 .. n : m - 1 \in T => m \in T
    BY <2>2
  <2>4. \A m \in 0 .. n : m \in T
    BY <1>0, <2>1, <2>3, Counting
  <2>5. n \in T
    BY <1>0, <2>4
  <2> QED
    BY <2>5 DEF T
<1> DEFINE f == CHOOSE f : Eq(f, n)
<1>3. Eq(f, n)
  <2> HIDE DEF Eq
  <2> QED
    BY <1>2, Zenon
<1> HIDE DEF f
<1>4. f[0] = Empty /\ \A k \in 1 .. n : f[k] = Step(f[k - 1], k)
  <2> HIDE DEF Step
  <2> QED
    BY <1>0, <1>3
<1> HIDE DEF Eq
<1>5. KernelTables = f[n]
  BY <1>1 DEF f
(* Tables are only added, so all the loop makes fits.                      *)
<1> DEFINE L == {k \in 0 .. n : f[k].next \in Nat}
           U == {k \in 0 .. n : f[n - k].next <= f[n].next}
<1>6. 0 \in L
  BY <1>0, <1>4 DEF Empty
<1>7. ASSUME NEW k \in 1 .. n, f[k - 1].next \in Nat
      PROVE  f[k].next \in Nat /\ f[k - 1].next <= f[k].next
  <2>1. f[k] = Step(f[k - 1], k)
    BY <1>4
  <2> QED
    BY <1>7, <2>1, TablesMade
<1>8. \A k \in 0 .. n : f[k].next \in Nat
  <2>1. \A k \in 1 .. n : k - 1 \in L => k \in L
    BY <1>0, <1>7
  <2> HIDE DEF L
  <2>2. \A k \in 0 .. n : k \in L
    BY <1>0, <1>6, <2>1, Counting
  <2> QED
    BY <2>2 DEF L
<1>9. \A k \in 0 .. n : f[k].next <= f[n].next
  <2>1. 0 \in U
    BY <1>0, <1>8
  <2>2. ASSUME NEW k \in 1 .. n, k - 1 \in U PROVE k \in U
    <3>1. n - k \in 0 .. n /\ n - (k - 1) \in 1 .. n /\ (n - (k - 1)) - 1 = n - k
      BY <1>0
    <3>2. f[n - k].next <= f[n - (k - 1)].next
      BY <1>7, <1>8, <3>1
    <3>3. n - (k - 1) \in 0 .. n /\ n \in 0 .. n
      BY <1>0, <3>1
    <3> QED
      BY <1>0, <1>8, <2>2, <3>1, <3>2, <3>3
  <2>3. \A k \in 1 .. n : k - 1 \in U => k \in U
    BY <2>2
  <2> HIDE DEF U
  <2>4. \A k \in 0 .. n : k \in U
    BY <1>0, <2>1, <2>3, Counting
  <2>5. ASSUME NEW k \in 0 .. n PROVE f[k].next <= f[n].next
    <3>1. n - k \in 0 .. n /\ n - (n - k) = k
      BY <1>0
    <3>2. n - k \in U
      BY <2>4, <3>1
    <3> QED
      BY <3>1, <3>2 DEF U
  <2> QED
    BY <2>5
<1> HIDE DEF L, U
<1>10. \A k \in 0 .. n : f[k].next <= MaxTables + 1
  <2>1. n \in 0 .. n /\ f[n].next <= MaxTables /\ MaxTables \in Nat
    BY <1>0, <1>5 DEF PageTableAssumption
  <2> QED
    BY <1>8, <1>9, <2>1
<1> DEFINE Made(m, k) ==
             /\ \E o : Shape(m, FirstRoots, o)
             /\ \A h \in AllPages : View(m, FirstRoots, Swapper, h) =
                  IF h \in KernelPages /\ h < k THEN KernelEntry(h) ELSE NoEntry
           T == {k \in 0 .. n : Made(f[k], k)}
<1>11. 0 \in T
  <2>1. Empty.next = 2
    BY DEF Empty
  <2>2. 2 <= MaxTables + 1
    BY <1>0, <1>4, <1>10, <2>1
  <2>3. \A h \in AllPages : ~(h < 0)
    BY SpanNat
  <2>4. Made(Empty, 0)
    BY <2>2, <2>3, EmptyTables
  <2> HIDE DEF Made
  <2> QED
    BY <1>0, <1>4, <2>4
<1>12. ASSUME NEW k \in 1 .. n, k - 1 \in T PROVE k \in T
  <2>1. f[k] = Step(f[k - 1], k) /\ f[k].next <= MaxTables + 1
    BY <1>4, <1>10
  <2>2. Made(f[k - 1], k - 1) /\ k \in 1 .. Span /\ k \in 0 .. n
    BY <1>0, <1>12 DEF n
  <2>3. Made(f[k], k)
    BY <2>1, <2>2, KernelStep
  <2> HIDE DEF Made
  <2> QED
    BY <2>2, <2>3
<1>13. \A k \in 1 .. n : k - 1 \in T => k \in T
  BY <1>12
<1> HIDE DEF T, Made
<1>14. n \in T
  <2>1. \A k \in 0 .. n : k \in T
    BY <1>0, <1>11, <1>13, Counting
  <2> QED
    BY <1>0, <2>1
<1>15. Made(f[n], n)
  BY <1>14 DEF T
<1>16. \A h \in AllPages : h < n
  BY SpanNat DEF n
<1> QED
  BY <1>5, <1>15, <1>16 DEF Made

(* do_fork_cow: m is m0 with the pages of P below k shared by t and c.     *)
SharedBelow(m, rt, t, c, P, m0, k) ==
  /\ \E o : Shape(m, rt, o)
  /\ m.next \in Nat /\ m.next <= m0.next + 2 * Cardinality({g \in P : g < k})
  /\ \A u \in Rooted(rt), h \in AllPages :
       View(m, rt, u, h) = IF u \in {t, c} /\ h \in P /\ h < k
                           THEN ReadOnly(View(m0, rt, t, h)) ELSE View(m0, rt, u, h)

LEMMA ShareStep ==
  ASSUME PageTableAssumption, NEW rt,
         NEW t \in Rooted(rt) \ {Swapper}, NEW c \in Rooted(rt) \ {Swapper}, t # c,
         NEW P \in SUBSET UserPages, NEW m0, m0.next \in Nat,
         \A g \in P : Valid(View(m0, rt, t, g)) /\ IsEntry(View(m0, rt, t, g)),
         m0.next + 2 * Cardinality(P) <= MaxTables,
         NEW k \in 1 .. Span, NEW m, SharedBelow(m, rt, t, c, P, m0, k - 1),
         NEW m2, m2 = (IF k - 1 \in P THEN Share(m, rt[t], rt[c], k - 1) ELSE m)
  PROVE  SharedBelow(m2, rt, t, c, P, m0, k)
<1> DEFINE B == {g \in P : g < k - 1}
           C == {g \in P : g < k}
<1>1. \A h \in AllPages : h \in Nat /\ (h < k <=> h < k - 1 \/ h = k - 1)
  BY SpanNat
<1>2. P \subseteq AllPages
  BY DEF AllPages
<1>3. CASE k - 1 \notin P
  <2>1. C = B
    BY <1>1, <1>2, <1>3
  <2>2. \A h \in AllPages : h \in P => (h < k <=> h < k - 1)
    BY <1>1, <1>3
  <2> HIDE DEF B, C
  <2>3. m2 = m
    BY <1>3
  <2>4. m.next \in Nat /\ m.next <= m0.next + 2 * Cardinality(C)
    BY <2>1 DEF SharedBelow, B
  <2>5. \A u \in Rooted(rt), h \in AllPages :
          View(m, rt, u, h) = IF u \in {t, c} /\ h \in P /\ h < k
                              THEN ReadOnly(View(m0, rt, t, h)) ELSE View(m0, rt, u, h)
    BY <2>2 DEF SharedBelow
  <2> QED
    BY <2>3, <2>4, <2>5 DEF SharedBelow, C
<1>4. CASE k - 1 \in P
  <2> DEFINE x == k - 1
  <2>1. /\ IsFiniteSet(P) /\ Cardinality(P) \in Nat
    <3>1. P \subseteq 0 .. Span - 1 /\ Span \in Nat
      BY <1>2, SpanNat
    <3>2. IsFiniteSet(0 .. Span - 1)
      BY <3>1, FS_Interval
    <3> QED
      BY <3>1, <3>2, FS_Subset, FS_CardinalityType
  <2>2. C = B \cup {x} /\ x \notin B /\ B \subseteq P /\ C \subseteq P
    BY <1>1, <1>2, <1>4
  <2> HIDE DEF B, C
  <2>3. /\ Cardinality(B) \in Nat /\ Cardinality(C) = Cardinality(B) + 1
        /\ Cardinality(C) <= Cardinality(P)
    <3>1. IsFiniteSet(B) /\ IsFiniteSet(C)
      BY <2>1, <2>2, FS_Subset
    <3>2. Cardinality(B) \in Nat /\ Cardinality(C) <= Cardinality(P)
      BY <2>1, <2>2, <3>1, FS_CardinalityType, FS_Subset
    <3>3. Cardinality(B \cup {x}) = Cardinality(B) + 1
      BY <2>2, <3>1, FS_AddElement
    <3> QED
      BY <2>2, <3>2, <3>3
  <2>4. PICK own : Shape(m, rt, own)
    BY DEF SharedBelow
  <2>5. m.next \in Nat /\ m.next <= m0.next + 2 * Cardinality(B)
    BY DEF SharedBelow, B
  <2>6. \A u \in Rooted(rt), h \in AllPages :
          View(m, rt, u, h) = IF u \in {t, c} /\ h \in P /\ h < x
                              THEN ReadOnly(View(m0, rt, t, h)) ELSE View(m0, rt, u, h)
    BY DEF SharedBelow
  <2>7. MaxTables \in Nat
    BY DEF PageTableAssumption
  <2>8. m.next + 2 <= m0.next + 2 * Cardinality(C) /\ m.next + 2 <= MaxTables + 1
    <3> DEFINE b == Cardinality(B)
               d == Cardinality(C)
               e == Cardinality(P)
               nx == m.next
               n0 == m0.next
    <3>1. /\ b \in Nat /\ d = b + 1 /\ d <= e /\ e \in Nat /\ nx \in Nat /\ n0 \in Nat
          /\ nx <= n0 + 2 * b /\ n0 + 2 * e <= MaxTables
      BY <2>1, <2>3, <2>5
    <3> HIDE DEF b, d, e, nx, n0
    <3>2. nx + 2 <= n0 + 2 * d /\ nx + 2 <= MaxTables + 1
      BY <2>7, <3>1
    <3> QED
      BY <3>2 DEF d, nx, n0
  <2>9. x \in UserPages /\ x \in AllPages /\ ~(x < x)
    BY <1>2, <1>4
  <2>10. View(m, rt, t, x) = View(m0, rt, t, x)
    BY <2>6, <2>9
  <2>11. Valid(View(m, rt, t, x)) /\ IsEntry(View(m, rt, t, x))
    BY <1>4, <2>10
  <2>12. m2 = Share(m, rt[t], rt[c], x)
    BY <1>4
  <2> HIDE DEF x
  <2>13. /\ \E o : Shape(m2, rt, o)
         /\ m2.next \in Nat /\ m2.next <= m.next + 2
         /\ \A u \in Rooted(rt), h \in AllPages :
              View(m2, rt, u, h) = IF u \in {t, c} /\ h = x
                                   THEN ReadOnly(View(m, rt, t, x)) ELSE View(m, rt, u, h)
    BY <2>4, <2>8, <2>9, <2>11, <2>12, PageShared
  <2>14. m2.next <= m0.next + 2 * Cardinality(C)
    BY <2>3, <2>5, <2>8, <2>13
  <2>15. ASSUME NEW u \in Rooted(rt), NEW h \in AllPages
         PROVE  View(m2, rt, u, h) = IF u \in {t, c} /\ h \in P /\ h < k
                                     THEN ReadOnly(View(m0, rt, t, h)) ELSE View(m0, rt, u, h)
    <3>1. h < k <=> h < x \/ h = x
      BY <1>1 DEF x
    <3>2. x \in P
      BY <1>4 DEF x
    <3>3. CASE h = x
      BY <2>6, <2>9, <2>10, <2>13, <3>1, <3>2, <3>3
    <3>4. CASE h # x
      BY <2>6, <2>13, <3>1, <3>4
    <3> QED
      BY <3>3, <3>4
  <2> QED
    BY <2>13, <2>14, <2>15 DEF SharedBelow, C
<1> QED
  BY <1>3, <1>4

LEMMA AllShared ==
  ASSUME PageTableAssumption, NEW rt, NEW own, NEW m0, Shape(m0, rt, own),
         NEW t \in Rooted(rt) \ {Swapper}, NEW c \in Rooted(rt) \ {Swapper}, t # c,
         NEW p, p = root[t], rt[t] = p, m0 = WithRoot(ram, SwapperRoot(ram, p)),
         \A g \in Present(ram, p) : Valid(View(m0, rt, t, g)) /\ IsEntry(View(m0, rt, t, g)),
         m0.next + 2 * Cardinality(Present(ram, p)) <= MaxTables
  PROVE  LET m2 == ShareAll(p, rt[c]) IN
         /\ \E o : Shape(m2, rt, o)
         /\ \A u \in Rooted(rt), h \in AllPages :
              View(m2, rt, u, h) = IF u \in {t, c} /\ h \in Present(ram, p)
                                   THEN ReadOnly(View(m0, rt, t, h)) ELSE View(m0, rt, u, h)
<1> DEFINE n == Span
           P == Present(ram, p)
           Step(m, k) == IF k - 1 \in P THEN Share(m, p, rt[c], k - 1) ELSE m
           Eq(f, j) == f = [k \in 0 .. j |->
                              IF k = 0 THEN WithRoot(ram, SwapperRoot(ram, p)) ELSE Step(f[k - 1], k)]
<1>0. n \in Nat
  BY SpanNat
<1>1. ShareAll(p, rt[c]) = (CHOOSE f : Eq(f, n))[n]
  BY Zenon DEF ShareAll
<1> HIDE DEF n, P
<1>2. \E f : Eq(f, n)
  <2> DEFINE T == {m \in 0 .. n : \E f : Eq(f, m)}
  <2>1. 0 \in T
    <3> DEFINE f == [k \in 0 .. 0 |-> WithRoot(ram, SwapperRoot(ram, p))]
    <3>1. Eq(f, 0)
      <4> HIDE DEF Step
      <4> QED
        OBVIOUS
    <3> HIDE DEF Eq
    <3> QED
      BY <1>0, <3>1
  <2>2. ASSUME NEW m \in 1 .. n, m - 1 \in T PROVE m \in T
    <3>1. PICK f : Eq(f, m - 1)
      BY <2>2
    <3> DEFINE g == [k \in 0 .. m |-> IF k = m THEN Step(f[m - 1], m) ELSE f[k]]
    <3>2. ASSUME NEW k \in 0 .. m
          PROVE  g[k] = IF k = 0 THEN WithRoot(ram, SwapperRoot(ram, p)) ELSE Step(g[k - 1], k)
      <4>1. CASE k = m
        <5>1. k \in 0 .. m /\ k - 1 \in 0 .. m /\ k - 1 # m /\ k # 0
          BY <4>1
        <5> HIDE DEF Step
        <5>2. g[k] = Step(f[k - 1], k) /\ g[k - 1] = f[k - 1]
          BY <4>1, <5>1
        <5> QED
          BY <5>1, <5>2
      <4>2. CASE k # m
        <5>1. k \in 0 .. m - 1 /\ (k # 0 => k - 1 \in 0 .. m /\ k - 1 # m)
          BY <4>2
        <5> HIDE DEF Step
        <5>2. g[k] = f[k] /\ (k # 0 => g[k - 1] = f[k - 1])
          BY <4>2, <5>1
        <5>3. f[k] = IF k = 0 THEN WithRoot(ram, SwapperRoot(ram, p)) ELSE Step(f[k - 1], k)
          BY <3>1, <5>1
        <5> QED
          BY <5>2, <5>3
      <4> QED
        BY <4>1, <4>2
    <3>3. Eq(g, m)
      <4> HIDE DEF Step
      <4>1. g = [k \in 0 .. m |-> g[k]]
        OBVIOUS
      <4> HIDE DEF g
      <4> QED
        BY <3>2, <4>1
    <3> HIDE DEF Eq, g
    <3> QED
      BY <3>3
  <2> HIDE DEF T
  <2>3. \A m \in 1 .. n : m - 1 \in T => m \in T
    BY <2>2
  <2>4. \A m \in 0 .. n : m \in T
    BY <1>0, <2>1, <2>3, Counting
  <2>5. n \in T
    BY <1>0, <2>4
  <2> QED
    BY <2>5 DEF T
<1> DEFINE f == CHOOSE f : Eq(f, n)
<1>3. Eq(f, n)
  <2> HIDE DEF Eq
  <2> QED
    BY <1>2, Zenon
<1> HIDE DEF f
<1>4. f[0] = WithRoot(ram, SwapperRoot(ram, p)) /\ \A k \in 1 .. n : f[k] = Step(f[k - 1], k)
  <2> HIDE DEF Step
  <2> QED
    BY <1>0, <1>3
<1> HIDE DEF Eq
<1>5. f[0] = m0 /\ \A k \in 1 .. n : f[k] = Step(f[k - 1], k)
  BY <1>4
<1>6. P \in SUBSET UserPages
  BY DEF P, Present
<1>7. m0.next \in Nat
  BY NextTyped DEF Shape
<1> DEFINE T == {k \in 0 .. n : SharedBelow(f[k], rt, t, c, P, m0, k)}
<1>8. 0 \in T
  <2>1. P \subseteq AllPages /\ \A h \in AllPages : ~(h < 0)
    BY <1>6, SpanNat DEF AllPages
  <2>2. {g \in P : g < 0} = {}
    BY <2>1
  <2>3. Cardinality({g \in P : g < 0}) = 0
    BY <2>2, FS_EmptySet
  <2>4. m0.next <= m0.next + 2 * Cardinality({g \in P : g < 0})
    BY <1>7, <2>3
  <2>5. SharedBelow(m0, rt, t, c, P, m0, 0)
    BY <1>7, <2>1, <2>4 DEF SharedBelow
  <2> QED
    BY <1>0, <1>5, <2>5
<1>9. ASSUME NEW k \in 1 .. n, k - 1 \in T PROVE k \in T
  <2>1. k \in 1 .. Span /\ k \in 0 .. n
    BY <1>0 DEF n
  <2>2. SharedBelow(f[k - 1], rt, t, c, P, m0, k - 1)
    BY <1>9
  <2>3. f[k] = IF k - 1 \in P THEN Share(f[k - 1], rt[t], rt[c], k - 1) ELSE f[k - 1]
    BY <1>5
  <2>4. /\ \A g \in P : Valid(View(m0, rt, t, g)) /\ IsEntry(View(m0, rt, t, g))
        /\ m0.next + 2 * Cardinality(P) <= MaxTables
    BY DEF P
  <2> HIDE DEF T, Step
  <2>5. SharedBelow(f[k], rt, t, c, P, m0, k)
    BY <1>6, <1>7, <2>1, <2>2, <2>3, <2>4, ShareStep
  <2> QED
    BY <2>1, <2>5 DEF T
<1>10. \A k \in 1 .. n : k - 1 \in T => k \in T
  BY <1>9
<1> HIDE DEF T
<1>11. n \in T
  <2>1. \A k \in 0 .. n : k \in T
    BY <1>0, <1>8, <1>10, Counting
  <2> QED
    BY <1>0, <2>1
<1>12. SharedBelow(f[n], rt, t, c, P, m0, n)
  BY <1>11 DEF T
<1>13. \A h \in AllPages : h < n
  BY SpanNat DEF n
<1>14. ShareAll(p, rt[c]) = f[n]
  BY <1>1 DEF f
<1>15. /\ \E o : Shape(f[n], rt, o)
       /\ \A u \in Rooted(rt), h \in AllPages :
            View(f[n], rt, u, h) = IF u \in {t, c} /\ h \in P
                                   THEN ReadOnly(View(m0, rt, t, h)) ELSE View(m0, rt, u, h)
  BY <1>12, <1>13 DEF SharedBelow
<1> QED
  BY <1>14, <1>15 DEF P

-----------------------------------------------------------------------------
(* The tables of a task are the kernel's and its own: the way to a table   *)
(* that two tasks have begins in the kernel's half.                        *)

MidWay(t, a, n)     == Valid(ram.tab[root[t]][a]) /\ n = ram.tab[root[t]][a].ppn
LeafWay(t, a, b, n) ==
  /\ Valid(ram.tab[root[t]][a]) /\ Valid(ram.tab[ram.tab[root[t]][a].ppn][b])
  /\ n = ram.tab[ram.tab[root[t]][a].ppn][b].ppn

LEMMA InTables ==
  ASSUME NEW t, NEW n
  PROVE  n \in Tables(t) <=> \E a \in Indices : MidWay(t, a, n) \/ \E b \in Indices : LeafWay(t, a, b, n)
<1>1. n \in Below(root[t]) <=> \E a \in Indices : MidWay(t, a, n)
  BY DEF Below, MidWay
<1>2. n \in UNION {Below(p) : p \in Below(root[t])}
        <=> \E a \in Indices, b \in Indices : LeafWay(t, a, b, n)
  BY DEF Below, LeafWay
<1> QED
  BY <1>1, <1>2 DEF Tables

LEMMA WaysApart ==
  ASSUME NEW own, Shape(ram, root, own) PROVE TablesPrivate
<1>1. HasWays(ram, root, own) /\ KernelShared(ram, root) /\ Swapper \in Rooted(root)
  BY Ways DEF Shape
<1>2. Live = Rooted(root)
  BY DEF Live, Rooted
<1>3. ASSUME NEW t \in Live PROVE Tables(Swapper) \subseteq Tables(t)
  <2> SUFFICES ASSUME NEW n \in Tables(Swapper) PROVE n \in Tables(t)
    OBVIOUS
  <2>1. PICK a \in Indices : MidWay(Swapper, a, n) \/ \E b \in Indices : LeafWay(Swapper, a, b, n)
    BY InTables
  <2>2. Valid(ram.tab[root[Swapper]][a])
    BY <2>1 DEF MidWay, LeafWay
  <2>3. a \in KernelIndices
    BY <1>1, <2>2 DEF KernelShared
  <2>4. ram.tab[root[t]][a] = ram.tab[root[Swapper]][a]
    BY <1>1, <1>2, <2>3 DEF KernelShared
  <2>5. MidWay(t, a, n) \/ \E b \in Indices : LeafWay(t, a, b, n)
    BY <2>1, <2>4 DEF MidWay, LeafWay
  <2> QED
    BY <2>5, InTables
<1>4. ASSUME NEW t \in Live, NEW u \in Live, t # u, NEW n \in Tables(t), n \in Tables(u)
      PROVE  n \in Tables(Swapper)
  <2>1. PICK a \in Indices : MidWay(t, a, n) \/ \E b \in Indices : LeafWay(t, a, b, n)
    BY InTables
  <2>2. PICK c \in Indices : MidWay(u, c, n) \/ \E b \in Indices : LeafWay(u, c, b, n)
    BY <1>4, InTables
  <2> DEFINE w == own[n]
  <2>0. ASSUME NEW s \in Live, NEW d \in Indices,
               MidWay(s, d, n) \/ \E b \in Indices : LeafWay(s, d, b, n)
        PROVE  w[1] = Owner(s, d) /\ w[2] = d
    <3>1. CASE MidWay(s, d, n)
      <4>1. w = <<Owner(s, d), d, -1>>
        BY <1>1, <1>2, <3>1, Zenon DEF HasWays, MidWay
      <4> HIDE DEF w
      <4> QED
        BY <4>1
    <3>2. CASE \E b \in Indices : LeafWay(s, d, b, n)
      <4>1. PICK b \in Indices : LeafWay(s, d, b, n)
        BY <3>2
      <4>2. w = <<Owner(s, d), d, b>>
        BY <1>1, <1>2, <4>1, Zenon DEF HasWays, LeafWay
      <4> HIDE DEF w
      <4> QED
        BY <4>2
    <3> QED
      BY <2>0, <3>1, <3>2
  <2> HIDE DEF w
  <2>3. w[1] = Owner(t, a) /\ w[2] = a
    BY <2>0, <2>1
  <2>4. w[1] = Owner(u, c) /\ w[2] = c
    BY <2>0, <2>2
  <2>5. a \in KernelIndices
    BY <1>4, <2>3, <2>4 DEF Owner
  <2>6. ram.tab[root[t]][a] = ram.tab[root[Swapper]][a]
    BY <1>1, <1>2, <2>5 DEF KernelShared
  <2>7. MidWay(Swapper, a, n) \/ \E b \in Indices : LeafWay(Swapper, a, b, n)
    BY <2>1, <2>6 DEF MidWay, LeafWay
  <2> QED
    BY <2>7, InTables
<1>5. ASSUME NEW t \in Live, NEW u \in Live, t # u
      PROVE  Tables(t) \cap Tables(u) = Tables(Swapper)
  BY <1>3, <1>4, <1>5
<1> QED
  BY <1>5 DEF TablesPrivate

-----------------------------------------------------------------------------
(* The inductive invariant, and what the tables stand for                  *)

UserEntry(e) == Valid(e) => IsEntry(e) /\ e.ppn \in Frames
WalkInv ==
  /\ DOMAIN root = Tasks
  /\ \E own : Shape(ram, root, own)
  /\ \A t \in Rooted(root), h \in KernelPages : View(ram, root, t, h) = KernelEntry(h)
  /\ \A t \in Rooted(root), g \in UserPages : UserEntry(View(ram, root, t, g))

Space(m, rt) == [t \in Tasks |-> IF t \notin Rooted(rt) THEN NoEntry
                                 ELSE [g \in AllPages |-> View(m, rt, t, g)]]
SpaceNow == Space(ram, root)

LEMMA SpaceIs ==
  /\ [t \in Tasks |-> IF root[t] = 0 THEN NoEntry ELSE
        [g \in UserPages \cup KernelPages |-> check_load(ram, root[t], g)]] = SpaceNow
  /\ Live = Rooted(root)
BY DEF Space, SpaceNow, View, Rooted, AllPages, Live

LEMMA SpaceWillBe ==
  [t \in Tasks |-> IF root[t] = 0 THEN NoEntry ELSE
     [g \in UserPages \cup KernelPages |-> check_load(ram, root[t], g)]]' = SpaceNow'
BY DEF Space, SpaceNow, View, Rooted, AllPages

LEMMA WalkInit ==
  ASSUME PageTableAssumption, Init PROVE WalkInv /\ Walks!Init
<1> DEFINE K == KernelTables
           n == K.next
<1>1. PICK own : Shape(K, FirstRoots, own)
  BY KernelMapped
<1>2. /\ Swapper \in Tasks /\ 1 \in Tasks /\ 1 # Swapper
      /\ Rooted(FirstRoots) = {Swapper} /\ DOMAIN FirstRoots = Tasks
      /\ FirstRoots[Swapper] = 1
  <2>1. Swapper \in Tasks /\ 1 \in Tasks /\ 1 # Swapper
    BY DEF PageTableAssumption, Tasks, Swapper
  <2> QED
    BY <2>1 DEF FirstRoots, Rooted
<1>3. root = NewRoots(FirstRoots, 1, n) /\ ram = WithRoot(K, K.tab[FirstRoots[Swapper]])
  <2>1. ram = WithRoot(K, K.tab[1]) /\ root = [t \in Tasks |-> IF t = Swapper THEN 1 ELSE IF t = 1 THEN n ELSE 0]
    BY DEF Init
  <2> HIDE DEF n, K
  <2> QED
    BY <1>2, <2>1 DEF NewRoots, FirstRoots
<1>4. n <= MaxTables
  BY DEF PageTableAssumption
<1>5. \A h \in AllPages : View(K, FirstRoots, Swapper, h) =
                            IF h \in KernelPages THEN KernelEntry(h) ELSE NoEntry
  BY KernelMapped
<1> HIDE DEF K
<1>6. /\ \E o : Shape(ram, root, o)
      /\ Rooted(root) = {Swapper, 1}
      /\ \A h \in AllPages : View(ram, root, Swapper, h) = View(K, FirstRoots, Swapper, h)
      /\ \A h \in AllPages : View(ram, root, 1, h) = View(K, FirstRoots, Swapper, h)
  BY <1>1, <1>2, <1>3, <1>4, RootCopied
<1>7. \A t \in Rooted(root), h \in AllPages :
        View(ram, root, t, h) = IF h \in KernelPages THEN KernelEntry(h) ELSE NoEntry
  BY <1>5, <1>6
<1>8. \A g \in UserPages : g \in AllPages /\ g \notin KernelPages
  BY DEF AllPages, PageTableAssumption
<1>9. WalkInv
  <2>1. DOMAIN root = Tasks
    BY DEF Init
  <2>2. \A t \in Rooted(root), h \in KernelPages : View(ram, root, t, h) = KernelEntry(h)
    BY <1>7 DEF AllPages
  <2>3. \A t \in Rooted(root), g \in UserPages : UserEntry(View(ram, root, t, g))
    BY <1>7, <1>8, NothingInvalid DEF UserEntry
  <2> QED
    BY <1>6, <2>1, <2>2, <2>3 DEF WalkInv
<1>10. SpaceNow = [t \in Tasks |-> IF t \in {0, 1} THEN Walks!Kernel ELSE Walks!NoEntry]
  <2>1. Walks!Kernel = [g \in AllPages |-> IF g \in KernelPages THEN KernelEntry(g) ELSE NoEntry]
    BY DEF Walks!Kernel, Walks!NoEntry, NoEntry, AllPages
  <2>2. Walks!NoEntry = NoEntry /\ Rooted(root) = {0, 1}
    BY <1>6 DEF Walks!NoEntry, NoEntry, Swapper
  <2>3. ASSUME NEW t \in Rooted(root)
        PROVE  [g \in AllPages |-> View(ram, root, t, g)] = Walks!Kernel
    BY <1>7, <2>1
  <2> QED
    BY <2>2, <2>3 DEF SpaceNow, Space
<1>11. Live = {0, 1}
  BY <1>6, SpaceIs DEF Swapper
<1>12. Walks!Init
  BY <1>10, <1>11, SpaceIs DEF Walks!Init
<1> QED
  BY <1>9, <1>12

(* A step that gives page g of task t the entry e.                         *)
PageSet(t, g, e) ==
  /\ UNCHANGED root
  /\ \E o : Shape(ram', root, o)
  /\ \A u \in Rooted(root), h \in AllPages :
       View(ram', root, u, h) = IF u = t /\ h = g THEN e ELSE View(ram, root, u, h)

LEMMA SetKeeps ==
  ASSUME PageTableAssumption, WalkInv, NEW t \in Rooted(root) \ {Swapper}, NEW g \in UserPages,
         NEW e, PageSet(t, g, e), UserEntry(e)
  PROVE  /\ WalkInv'
         /\ SpaceNow' = [SpaceNow EXCEPT ![t][g] = e] /\ SpaceNow'[t][g] = e
         /\ SpaceNow[t][g] = View(ram, root, t, g) /\ UNCHANGED Live
<1>1. root' = root
  BY DEF PageSet
<1>2. /\ \E o : Shape(ram', root, o)
      /\ \A u \in Rooted(root), h \in AllPages :
           View(ram', root, u, h) = IF u = t /\ h = g THEN e ELSE View(ram, root, u, h)
  BY DEF PageSet
<1>3. g \in AllPages /\ g \notin KernelPages /\ t \in Tasks /\ t \in Rooted(root)
  BY DEF AllPages, PageTableAssumption, Rooted
<1>4. WalkInv'
  <2> DEFINE Inv(m) ==
        /\ \E own : Shape(m, root, own)
        /\ \A u \in Rooted(root), h \in KernelPages : View(m, root, u, h) = KernelEntry(h)
        /\ \A u \in Rooted(root), h \in UserPages : UserEntry(View(m, root, u, h))
  <2>1. \A u \in Rooted(root), h \in KernelPages : View(ram', root, u, h) = KernelEntry(h)
    <3>1. \A h \in KernelPages : h \in AllPages /\ h # g
      BY <1>3 DEF AllPages
    <3> QED
      BY <1>2, <3>1 DEF WalkInv
  <2>2. \A u \in Rooted(root), h \in UserPages : UserEntry(View(ram', root, u, h))
    BY <1>2 DEF WalkInv, AllPages
  <2>3. Inv(ram')
    BY <1>2, <2>1, <2>2
  <2> HIDE DEF Inv
  <2>4. DOMAIN root = Tasks
    BY DEF WalkInv
  <2>5. DOMAIN root' = Tasks /\ Rooted(root)' = Rooted(root)
    BY <1>1, <2>4 DEF Rooted, Tasks
  <2> QED
    BY <1>1, <2>3, <2>5 DEF WalkInv, Inv, UserEntry, View
<1>5. SpaceNow' = Space(ram', root)
  BY <1>1 DEF SpaceNow
<1>6. SpaceNow = Space(ram, root)
  BY DEF SpaceNow
<1>7. Space(ram', root) = [Space(ram, root) EXCEPT ![t][g] = e]
  <2> DEFINE s1 == Space(ram, root)
             s2 == Space(ram', root)
  <2>1. /\ s1 = [u \in Tasks |-> s1[u]] /\ s2 = [u \in Tasks |-> s2[u]]
        /\ \A u \in Tasks \ Rooted(root) : s1[u] = NoEntry /\ s2[u] = NoEntry
        /\ \A u \in Rooted(root) : u \in Tasks
    BY DEF Space, Rooted
  <2>2. \A u \in Rooted(root) :
          /\ s1[u] = [h \in AllPages |-> View(ram, root, u, h)]
          /\ s2[u] = [h \in AllPages |-> View(ram', root, u, h)]
    BY DEF Space, Rooted
  <2> HIDE DEF s1, s2
  <2>3. \A u \in Tasks : u # t => s2[u] = s1[u]
    <3>1. ASSUME NEW u \in Rooted(root), u # t PROVE s2[u] = s1[u]
      BY <1>2, <2>2, <3>1
    <3> QED
      BY <2>1, <3>1
  <2>4. s2[t] = [s1[t] EXCEPT ![g] = e]
    <3>1. s2[t] = [h \in AllPages |-> View(ram', root, t, h)]
      BY <1>3, <2>2
    <3>2. s1[t] = [h \in AllPages |-> View(ram, root, t, h)]
      BY <1>3, <2>2
    <3>3. \A h \in AllPages : View(ram', root, t, h) = IF h = g THEN e ELSE View(ram, root, t, h)
      BY <1>2, <1>3
    <3>4. s2[t] = [h \in AllPages |-> IF h = g THEN e ELSE View(ram, root, t, h)]
      BY <3>1, <3>3
    <3> QED
      BY <3>2, <3>4
  <2>5. s2 = [s1 EXCEPT ![t] = [s1[t] EXCEPT ![g] = e]]
    BY <1>3, <2>1, <2>3, <2>4
  <2> QED
    BY <2>5 DEF s1, s2
<1>8. Space(ram', root)[t][g] = e /\ Space(ram, root)[t][g] = View(ram, root, t, g)
  BY <1>2, <1>3 DEF Space
<1>9. Live' = Live
  BY <1>1 DEF Live, Tasks
<1> QED
  BY <1>4, <1>5, <1>6, <1>7, <1>8, <1>9

LEMMA AbsentStep ==
  ASSUME PageTableAssumption, WalkInv, NEW t \in Rooted(root) \ {Swapper}, NEW g \in UserPages,
         NEW f \in Frames, NEW perm \in Rights, FaultAbsent(t, g, f, perm)
  PROVE  WalkInv' /\ Walks!Map(t, g)
<1> DEFINE e == [ppn |-> f, perm |-> perm \cup {"U", "V"}]
           m2 == create_mapping(ram, root[t], g, e)
<1>1. ram' = m2 /\ m2.next <= MaxTables + 1 /\ root' = root
  BY DEF FaultAbsent, Fits
<1>2. ~Valid(View(ram, root, t, g))
  BY DEF FaultAbsent, Present, View
<1>3. Valid(e) /\ IsEntry(e) /\ e.ppn \in Frames /\ {"U", "V"} \subseteq e.perm
  BY DEF Valid, IsEntry
<1> HIDE DEF e, m2
<1>4. MayMap(root, t, g)
  BY DEF MayMap
<1>5. PICK own : Shape(ram, root, own)
  BY DEF WalkInv
<1>6. PageSet(t, g, e)
  BY <1>1, <1>3, <1>4, <1>5, MappingCreated DEF PageSet, m2
<1>7. /\ WalkInv'
      /\ SpaceNow' = [SpaceNow EXCEPT ![t][g] = e] /\ SpaceNow'[t][g] = e
      /\ SpaceNow[t][g] = View(ram, root, t, g) /\ UNCHANGED Live
  <2>1. UserEntry(e)
    BY <1>3 DEF UserEntry
  <2> QED
    BY <1>6, <2>1, SetKeeps
<1>8. Walks!Map(t, g)
  <2>1. ~Walks!Valid(SpaceNow[t][g])
    BY <1>2, <1>7 DEF Valid, Walks!Valid
  <2>2. \E x \in {SpaceNow'[t][g]} :
          /\ x.ppn \in Frames /\ {"U", "V"} \subseteq x.perm
          /\ SpaceNow' = [SpaceNow EXCEPT ![t][g] = x] /\ UNCHANGED Live
    BY <1>3, <1>7
  <2> HIDE DEF Live
  <2> QED
    BY <2>1, <2>2, SpaceIs, SpaceWillBe, Zenon DEF Walks!Map, Walks!Becomes
<1> QED
  BY <1>7, <1>8

(* A page that is there gets a frame of its own, or keeps the one it has.  *)
LEMMA WritableStep ==
  ASSUME PageTableAssumption, WalkInv, NEW t \in Rooted(root) \ {Swapper}, NEW g \in UserPages,
         NEW v, v = View(ram, root, t, g), Valid(v), NEW f \in Frames,
         PageSet(t, g, [ppn |-> f, perm |-> v.perm \cup {"W"}])
  PROVE  WalkInv' /\ Walks!MakeWritable(t, g)
<1> DEFINE e == [ppn |-> f, perm |-> v.perm \cup {"W"}]
<1>1. Valid(e) /\ IsEntry(e) /\ e.ppn = f
  BY DEF Valid, IsEntry
<1>2. e = [ppn |-> f, perm |-> v.perm \cup {"W"}]
  OBVIOUS
<1>3. PageSet(t, g, e) /\ UserEntry(e)
  BY <1>1 DEF UserEntry
<1> HIDE DEF e
<1>4. /\ WalkInv'
      /\ SpaceNow' = [SpaceNow EXCEPT ![t][g] = e] /\ SpaceNow'[t][g] = e
      /\ SpaceNow[t][g] = v /\ UNCHANGED Live
  BY <1>3, SetKeeps
<1>5. Walks!Valid(SpaceNow[t][g])
  BY <1>4 DEF Valid, Walks!Valid
<1>6. \E x \in {SpaceNow'[t][g].ppn} \cap Frames :
        /\ SpaceNow' = [SpaceNow EXCEPT ![t][g] =
                          [ppn |-> x, perm |-> SpaceNow[t][g].perm \cup {"W"}]]
        /\ UNCHANGED Live
  <2>1. f \in {SpaceNow'[t][g].ppn} \cap Frames
    BY <1>1, <1>4
  <2>2. SpaceNow' = [SpaceNow EXCEPT ![t][g] =
                       [ppn |-> f, perm |-> SpaceNow[t][g].perm \cup {"W"}]]
    BY <1>2, <1>4
  <2> QED
    BY <1>4, <2>1, <2>2
<1>7. Walks!MakeWritable(t, g)
  BY <1>5, <1>6, SpaceIs, SpaceWillBe, Zenon DEF Walks!MakeWritable, Walks!Becomes
<1> QED
  BY <1>4, <1>7

LEMMA PresentHere ==
  ASSUME PageTableAssumption, WalkInv, NEW t \in Rooted(root), NEW g \in Present(ram, root[t])
  PROVE  /\ g \in UserPages /\ g \in AllPages
         /\ Valid(View(ram, root, t, g)) /\ IsEntry(View(ram, root, t, g))
         /\ View(ram, root, t, g).ppn \in Frames
<1>1. g \in UserPages /\ g \in AllPages /\ Valid(View(ram, root, t, g))
  BY DEF Present, View, AllPages
<1> QED
  BY <1>1 DEF WalkInv, UserEntry

LEMMA UnshareStep ==
  ASSUME PageTableAssumption, WalkInv, NEW t \in Rooted(root) \ {Swapper}, NEW g \in UserPages,
         FaultUnshare(t, g)
  PROVE  WalkInv' /\ Walks!MakeWritable(t, g)
<1> DEFINE v == View(ram, root, t, g)
           m1 == pte_entry_ret(ram, root[t], g)
           v1 == View(m1, root, t, g)
           m2 == change_perm(m1, root[t], g)
<1>1. g \in Present(ram, root[t]) /\ ram' = m2 /\ root' = root
  BY DEF FaultUnshare
<1>2. /\ Valid(v) /\ IsEntry(v) /\ v.ppn \in Frames /\ g \in AllPages
      /\ "V" \in v.perm \ {"W"}
  BY <1>1, PresentHere DEF Valid
<1>3. PICK own : Shape(ram, root, own)
  BY DEF WalkInv
<1>4. m1 = WithPerm(ram, root[t], g, v.perm \ {"W"})
  BY DEF pte_entry_ret, View
<1>5. /\ Shape(m1, root, own)
      /\ \A u \in Rooted(root), h \in AllPages :
           View(m1, root, u, h) = IF u = t /\ h = g
                                  THEN [ppn |-> v.ppn, perm |-> v.perm \ {"W"}]
                                  ELSE View(ram, root, u, h)
  BY <1>2, <1>3, <1>4, RightsChanged
<1>6. v1 = [ppn |-> v.ppn, perm |-> v.perm \ {"W"}]
  BY <1>2, <1>5
<1>7. m2 = WithPerm(m1, root[t], g, v1.perm \cup {"W"})
  BY DEF change_perm, View
<1>8. /\ Valid(v1) /\ IsEntry(v1) /\ v1.ppn = v.ppn
      /\ v1.perm \cup {"W"} = v.perm \cup {"W"} /\ "V" \in v.perm \cup {"W"}
  BY <1>2, <1>6 DEF Valid, IsEntry
<1> DEFINE e == [ppn |-> v.ppn, perm |-> v.perm \cup {"W"}]
           e1 == [ppn |-> v.ppn, perm |-> v.perm \ {"W"}]
           p == v1.perm \cup {"W"}
<1>9. [ppn |-> v1.ppn, perm |-> p] = e /\ "V" \in p
  BY <1>8
<1> HIDE DEF m1, v1, m2, v, e, e1, p
<1>10. /\ Shape(m2, root, own)
       /\ \A u \in Rooted(root), h \in AllPages :
            View(m2, root, u, h) = IF u = t /\ h = g THEN [ppn |-> v1.ppn, perm |-> p]
                                                     ELSE View(m1, root, u, h)
  <2>1. m2 = WithPerm(m1, root[t], g, p)
    BY <1>7 DEF p
  <2> QED
    BY <1>5, <1>8, <1>9, <2>1, RightsChanged DEF v1
<1>11. \A u \in Rooted(root), h \in AllPages :
         View(m1, root, u, h) = IF u = t /\ h = g THEN e1 ELSE View(ram, root, u, h)
  BY <1>5 DEF e1
<1>12. PageSet(t, g, e)
  <2>1. \A u \in Rooted(root), h \in AllPages :
          View(ram', root, u, h) = IF u = t /\ h = g THEN e ELSE View(ram, root, u, h)
    BY <1>1, <1>9, <1>10, <1>11
  <2> QED
    BY <1>1, <1>10, <2>1 DEF PageSet
<1> QED
  BY <1>2, <1>12, WritableStep DEF v, e

LEMMA CopyStep ==
  ASSUME PageTableAssumption, WalkInv, NEW t \in Rooted(root) \ {Swapper}, NEW g \in UserPages,
         NEW f \in Frames, FaultCopy(t, g, f)
  PROVE  WalkInv' /\ Walks!MakeWritable(t, g)
<1> DEFINE v == View(ram, root, t, g)
           m1 == pte_entry_ret(ram, root[t], g)
           e == [ppn |-> f, perm |-> v.perm \cup {"W"}]
           e1 == [ppn |-> v.ppn, perm |-> v.perm \ {"W"}]
           m2 == create_mapping(m1, root[t], g, e)
<1>1. g \in Present(ram, root[t]) /\ ram' = m2 /\ root' = root
  BY DEF FaultCopy, View
<1>2. /\ Valid(v) /\ IsEntry(v) /\ v.ppn \in Frames /\ g \in AllPages
      /\ "V" \in v.perm \ {"W"}
  BY <1>1, PresentHere DEF Valid
<1>3. PICK own : Shape(ram, root, own)
  BY DEF WalkInv
<1>4. m1 = WithPerm(ram, root[t], g, v.perm \ {"W"})
  BY DEF pte_entry_ret, View
<1>5. /\ Shape(m1, root, own) /\ Mapped(m1, root[t], g)
      /\ \A u \in Rooted(root), h \in AllPages :
           View(m1, root, u, h) = IF u = t /\ h = g THEN e1 ELSE View(ram, root, u, h)
  BY <1>2, <1>3, <1>4, RightsChanged
<1>6. Valid(e) /\ MayMap(root, t, g)
  BY <1>2 DEF Valid, MayMap
<1> HIDE DEF m1, m2, e, e1
<1>7. m2.next <= MaxTables + 1
  <2>1. m1.next \in Nat /\ m1.next <= MaxTables + 1
    BY <1>5, NextTyped DEF Shape
  <2>2. m2.next = m1.next
    BY <1>5, <2>1, TablesMade DEF m2
  <2> QED
    BY <2>1, <2>2
<1>8. /\ \E o : Shape(m2, root, o)
      /\ \A u \in Rooted(root), h \in AllPages :
           View(m2, root, u, h) = IF u = t /\ h = g THEN e ELSE View(m1, root, u, h)
  BY <1>5, <1>6, <1>7, MappingCreated DEF m2
<1>9. PageSet(t, g, e)
  <2>1. \A u \in Rooted(root), h \in AllPages :
          View(ram', root, u, h) = IF u = t /\ h = g THEN e ELSE View(ram, root, u, h)
    BY <1>1, <1>5, <1>8
  <2> QED
    BY <1>1, <1>8, <2>1 DEF PageSet
<1> QED
  BY <1>2, <1>9, WritableStep DEF e

(* Parent and child have the parent's pages, read-only.                    *)
SharedEntry(t, h) ==
  IF h \in UserPages THEN [View(ram, root, t, h) EXCEPT !.perm = @ \ {"W"}]
                     ELSE View(ram, root, t, h)

LEMMA SharedIs ==
  ASSUME PageTableAssumption, WalkInv, NEW t \in Rooted(root), NEW h \in AllPages
  PROVE  SharedEntry(t, h) = IF h \in Present(ram, root[t])
                             THEN ReadOnly(View(ram, root, t, h)) ELSE View(ram, root, Swapper, h)
<1> DEFINE v == View(ram, root, t, h)
<1>1. PICK own : Shape(ram, root, own)
  BY DEF WalkInv
<1>2. Swapper \in Rooted(root)
  BY <1>1 DEF Shape
<1>3. CASE h \in Present(ram, root[t])
  <2>1. h \in UserPages /\ IsEntry(v)
    BY <1>3, PresentHere
  <2> HIDE DEF v
  <2>2. [v EXCEPT !.perm = @ \ {"W"}] = ReadOnly(v)
    BY <2>1 DEF IsEntry, ReadOnly
  <2> QED
    BY <1>3, <2>1, <2>2 DEF SharedEntry, v
<1>4. CASE h \in UserPages \ Present(ram, root[t])
  <2>1. ~Valid(v)
    BY <1>4 DEF Present, View
  <2>2. v = NoEntry
    BY <2>1, LoadIs DEF View
  <2>3. [NoEntry EXCEPT !.perm = @ \ {"W"}] = NoEntry
    BY DEF NoEntry
  <2>4. View(ram, root, Swapper, h) = NoEntry
    BY <1>1, <1>4, SwapperEmpty
  <2> QED
    BY <1>4, <2>2, <2>3, <2>4 DEF SharedEntry
<1>5. CASE h \notin UserPages
  <2>1. h \in KernelPages /\ h \notin Present(ram, root[t])
    BY <1>5 DEF AllPages, Present
  <2> QED
    BY <1>2, <1>5, <2>1 DEF SharedEntry, WalkInv
<1> QED
  BY <1>3, <1>4, <1>5

LEMMA ForkViews ==
  ASSUME PageTableAssumption, WalkInv, NEW t \in Rooted(root) \ {Swapper}, NEW c \in Tasks,
         Fork(t, c)
  PROVE  /\ DOMAIN root' = Tasks /\ \E o : Shape(ram', root', o)
         /\ c \notin Rooted(root) /\ Rooted(root') = Rooted(root) \cup {c}
         /\ \A u \in Rooted(root), h \in AllPages :
              View(ram', root', u, h) = IF u = t THEN SharedEntry(t, h) ELSE View(ram, root, u, h)
         /\ \A h \in AllPages : View(ram', root', c, h) = SharedEntry(t, h)
<1> DEFINE p == root[t]
           P == Present(ram, p)
           rt2 == NewRoots(root, c, ram.next)
           m0 == WithRoot(ram, SwapperRoot(ram, p))
           m2 == ShareAll(p, ram.next)
<1>1. /\ root[c] = 0 /\ ram.next + 1 + 2 * Cardinality(P) <= MaxTables
      /\ root' = rt2 /\ ram' = m2
  BY DEF Fork, NewRoots
<1>2. PICK own : Shape(ram, root, own)
  BY DEF WalkInv
<1>3. DOMAIN root = Tasks /\ Swapper \in Rooted(root) /\ ram.next \in Nat
  BY <1>2, NextTyped DEF WalkInv, Shape
<1>4. c \in Tasks \ Rooted(root) /\ c # t /\ c # Swapper
  BY <1>1, <1>3 DEF Rooted
<1>5. Cardinality(P) \in Nat
  <2>1. P \subseteq 0 .. Span - 1 /\ Span \in Nat
    BY SpanNat DEF Present, AllPages
  <2>2. IsFiniteSet(0 .. Span - 1)
    BY <2>1, FS_Interval
  <2> HIDE DEF P
  <2> QED
    BY <2>1, <2>2, FS_Subset, FS_CardinalityType
<1>6. MaxTables \in Nat
  BY DEF PageTableAssumption
<1> HIDE DEF P, m2
<1>7. ram.next <= MaxTables
  BY <1>1, <1>3, <1>5, <1>6
<1>8. m0 = WithRoot(ram, ram.tab[root[Swapper]])
  BY DEF SwapperRoot
<1> HIDE DEF m0, rt2
<1>9. /\ \E o : Shape(m0, rt2, o)
      /\ m0.next = ram.next + 1 /\ Rooted(rt2) = Rooted(root) \cup {c}
      /\ \A u \in Rooted(root), h \in AllPages : View(m0, rt2, u, h) = View(ram, root, u, h)
      /\ \A h \in AllPages : View(m0, rt2, c, h) = View(ram, root, Swapper, h)
  BY <1>2, <1>3, <1>4, <1>7, <1>8, RootCopied DEF rt2
<1>10. PICK o2 : Shape(m0, rt2, o2)
  BY <1>9
<1>11. rt2[t] = p /\ rt2[c] = ram.next /\ DOMAIN rt2 = Tasks
  BY <1>3, <1>4 DEF NewRoots, rt2
<1>12. t \in Rooted(rt2) \ {Swapper} /\ c \in Rooted(rt2) \ {Swapper}
  BY <1>4, <1>9
<1>13. \A g \in P : /\ g \in AllPages /\ Valid(View(m0, rt2, t, g)) /\ IsEntry(View(m0, rt2, t, g))
                    /\ View(m0, rt2, t, g) = View(ram, root, t, g)
  <2> SUFFICES ASSUME NEW g \in P
               PROVE  /\ g \in AllPages /\ Valid(View(m0, rt2, t, g)) /\ IsEntry(View(m0, rt2, t, g))
                      /\ View(m0, rt2, t, g) = View(ram, root, t, g)
    OBVIOUS
  <2>1. g \in AllPages /\ Valid(View(ram, root, t, g)) /\ IsEntry(View(ram, root, t, g))
    BY PresentHere DEF P
  <2> QED
    BY <1>9, <2>1
<1>14. m0.next + 2 * Cardinality(P) <= MaxTables
  BY <1>1, <1>9
<1> HIDE DEF p
<1>15. /\ \E o : Shape(m2, rt2, o)
       /\ \A u \in Rooted(rt2), h \in AllPages :
            View(m2, rt2, u, h) = IF u \in {t, c} /\ h \in P
                                  THEN ReadOnly(View(m0, rt2, t, h)) ELSE View(m0, rt2, u, h)
  <2>1. p = root[t] /\ m0 = WithRoot(ram, SwapperRoot(ram, p))
    BY DEF p, m0
  <2>2. /\ m2 = ShareAll(p, rt2[c])
        /\ \A g \in Present(ram, p) : Valid(View(m0, rt2, t, g)) /\ IsEntry(View(m0, rt2, t, g))
        /\ m0.next + 2 * Cardinality(Present(ram, p)) <= MaxTables
    BY <1>11, <1>13, <1>14 DEF m2, P
  <2> QED
    BY <1>4, <1>10, <1>11, <1>12, <2>1, <2>2, AllShared DEF P
<1>16. ASSUME NEW h \in AllPages
       PROVE  SharedEntry(t, h) = IF h \in P THEN ReadOnly(View(ram, root, t, h))
                                             ELSE View(ram, root, Swapper, h)
  BY SharedIs DEF P, p
<1>17. ASSUME NEW u \in Rooted(root), NEW h \in AllPages
       PROVE  View(m2, rt2, u, h) = IF u = t THEN SharedEntry(t, h) ELSE View(ram, root, u, h)
  <2>1. u \in Rooted(rt2) /\ u # c
    BY <1>4, <1>9
  <2>2. View(m2, rt2, u, h) = IF u = t /\ h \in P THEN ReadOnly(View(m0, rt2, t, h))
                                                  ELSE View(m0, rt2, u, h)
    BY <1>15, <2>1
  <2>3. View(m0, rt2, u, h) = View(ram, root, u, h)
    BY <1>9
  <2>4. u = t /\ h \notin P => View(ram, root, t, h) = SharedEntry(t, h)
    <3> SUFFICES ASSUME h \notin P PROVE View(ram, root, t, h) = SharedEntry(t, h)
      OBVIOUS
    <3>1. CASE h \in UserPages
      <4>1. ~Valid(View(ram, root, t, h))
        BY <3>1 DEF P, p, Present, View
      <4>2. View(ram, root, t, h) = NoEntry
        BY <4>1, LoadIs DEF View
      <4>3. [NoEntry EXCEPT !.perm = @ \ {"W"}] = NoEntry
        BY DEF NoEntry
      <4> QED
        BY <3>1, <4>2, <4>3 DEF SharedEntry
    <3>2. CASE h \notin UserPages
      BY <3>2 DEF SharedEntry
    <3> QED
      BY <3>1, <3>2
  <2> QED
    BY <1>13, <1>16, <2>2, <2>3, <2>4
<1>18. ASSUME NEW h \in AllPages PROVE View(m2, rt2, c, h) = SharedEntry(t, h)
  <2>1. View(m2, rt2, c, h) = IF h \in P THEN ReadOnly(View(m0, rt2, t, h))
                                         ELSE View(m0, rt2, c, h)
    BY <1>12, <1>15
  <2> QED
    BY <1>9, <1>13, <1>16, <2>1
<1> QED
  BY <1>1, <1>4, <1>9, <1>11, <1>15, <1>17, <1>18

LEMMA ForkStep ==
  ASSUME PageTableAssumption, WalkInv, NEW t \in Rooted(root) \ {Swapper}, NEW c \in Tasks,
         Fork(t, c)
  PROVE  WalkInv' /\ Walks!Fork(t, c)
<1> DEFINE rt2 == root'
           m2 == ram'
<1>1. /\ DOMAIN rt2 = Tasks /\ \E o : Shape(m2, rt2, o)
      /\ c \notin Rooted(root) /\ Rooted(rt2) = Rooted(root) \cup {c}
      /\ \A u \in Rooted(root), h \in AllPages :
           View(m2, rt2, u, h) = IF u = t THEN SharedEntry(t, h) ELSE View(ram, root, u, h)
      /\ \A h \in AllPages : View(m2, rt2, c, h) = SharedEntry(t, h)
  BY ForkViews
<1>2. t \in Rooted(root) /\ t \in Tasks /\ c # t /\ DOMAIN root = Tasks
  BY <1>1 DEF Rooted, WalkInv
<1>3. \A h \in KernelPages : h \in AllPages /\ SharedEntry(t, h) = KernelEntry(h)
  <2>1. \A h \in KernelPages : h \in AllPages /\ h \notin UserPages
    BY DEF AllPages, PageTableAssumption
  <2> QED
    BY <1>2, <2>1 DEF SharedEntry, WalkInv
<1>4. \A h \in UserPages : h \in AllPages /\ UserEntry(SharedEntry(t, h))
  <2> SUFFICES ASSUME NEW h \in UserPages PROVE h \in AllPages /\ UserEntry(SharedEntry(t, h))
    OBVIOUS
  <2>1. h \in AllPages
    BY DEF AllPages
  <2>2. CASE h \in Present(ram, root[t])
    <3>1. /\ SharedEntry(t, h) = ReadOnly(View(ram, root, t, h))
          /\ View(ram, root, t, h).ppn \in Frames
      BY <1>2, <2>1, <2>2, SharedIs, PresentHere
    <3>2. UserEntry(ReadOnly(View(ram, root, t, h)))
      BY <3>1 DEF UserEntry, IsEntry, ReadOnly
    <3> QED
      BY <2>1, <3>1, <3>2
  <2>3. CASE h \notin Present(ram, root[t])
    <3>1. PICK own : Shape(ram, root, own)
      BY DEF WalkInv
    <3>2. View(ram, root, Swapper, h) = NoEntry
      BY <3>1, SwapperEmpty
    <3>3. SharedEntry(t, h) = NoEntry
      BY <1>2, <2>1, <2>3, <3>2, SharedIs
    <3> QED
      BY <2>1, <3>3, NothingInvalid DEF UserEntry
  <2> QED
    BY <2>2, <2>3
<1>5. ASSUME NEW u \in Rooted(rt2)
      PROVE  /\ \A h \in KernelPages : View(m2, rt2, u, h) = KernelEntry(h)
             /\ \A h \in UserPages : UserEntry(View(m2, rt2, u, h))
  <2>1. CASE u \in {t, c}
    BY <1>1, <1>2, <1>3, <1>4, <2>1
  <2>2. CASE u \notin {t, c}
    <3>1. u \in Rooted(root) /\ u # t
      BY <1>1, <2>2
    <3>2. \A h \in AllPages : View(m2, rt2, u, h) = View(ram, root, u, h)
      BY <1>1, <3>1
    <3> QED
      BY <1>3, <1>4, <3>1, <3>2 DEF WalkInv
  <2> QED
    BY <2>1, <2>2
<1>6. WalkInv'
  <2> DEFINE Inv(m, rt) ==
        /\ DOMAIN rt = Tasks
        /\ \E own : Shape(m, rt, own)
        /\ \A u \in Rooted(rt), h \in KernelPages : View(m, rt, u, h) = KernelEntry(h)
        /\ \A u \in Rooted(rt), h \in UserPages : UserEntry(View(m, rt, u, h))
  <2>1. Inv(m2, rt2)
    BY <1>1, <1>5
  <2> HIDE DEF Inv
  <2> QED
    BY <2>1 DEF WalkInv, Inv, UserEntry, View, Tasks, Rooted
<1> DEFINE shared == [h \in AllPages |-> SharedEntry(t, h)]
           s1 == Space(ram, root)
           s2 == Space(m2, rt2)
<1>7. s2 = [s1 EXCEPT ![t] = shared, ![c] = shared]
  <2>1. /\ s1 = [u \in Tasks |-> s1[u]] /\ s2 = [u \in Tasks |-> s2[u]]
        /\ \A u \in Tasks : u \notin Rooted(root) => s1[u] = NoEntry
        /\ \A u \in Tasks : u \notin Rooted(rt2) => s2[u] = NoEntry
    BY DEF Space
  <2>2. \A u \in Tasks : u \in Rooted(root) =>
          s1[u] = [h \in AllPages |-> View(ram, root, u, h)]
    BY DEF Space
  <2>3. \A u \in Tasks : u \in Rooted(rt2) =>
          s2[u] = [h \in AllPages |-> View(m2, rt2, u, h)]
    BY DEF Space
  <2> HIDE DEF s1, s2, rt2, m2
  <2>4. s2[t] = shared /\ s2[c] = shared
    <3>1. [h \in AllPages |-> View(m2, rt2, t, h)] = shared
      BY <1>1, <1>2
    <3>2. [h \in AllPages |-> View(m2, rt2, c, h)] = shared
      BY <1>1
    <3> QED
      BY <1>1, <1>2, <2>3, <3>1, <3>2
  <2>5. ASSUME NEW u \in Tasks, u # t, u # c PROVE s2[u] = s1[u]
    <3>1. CASE u \in Rooted(root)
      <4>1. [h \in AllPages |-> View(m2, rt2, u, h)] = [h \in AllPages |-> View(ram, root, u, h)]
        BY <1>1, <2>5, <3>1
      <4> QED
        BY <1>1, <2>2, <2>3, <3>1, <4>1
    <3>2. CASE u \notin Rooted(root)
      BY <1>1, <2>1, <2>5, <3>2
    <3> QED
      BY <3>1, <3>2
  <2> HIDE DEF shared
  <2> QED
    BY <1>2, <2>1, <2>4, <2>5
<1>8. SpaceNow = s1 /\ SpaceNow' = s2
  BY DEF SpaceNow
<1>9. Live = Rooted(root) /\ Live' = Rooted(rt2)
  BY DEF Live, Rooted, Tasks
<1>10. shared = [h \in UserPages \cup KernelPages |->
                   IF h \in UserPages THEN [SpaceNow[t][h] EXCEPT !.perm = @ \ {"W"}]
                                      ELSE SpaceNow[t][h]]
  <2>1. s1[t] = [h \in AllPages |-> View(ram, root, t, h)]
    BY <1>2 DEF Space
  <2> HIDE DEF s1
  <2>2. \A h \in AllPages : SpaceNow[t][h] = View(ram, root, t, h)
    BY <1>8, <2>1
  <2>3. \A h \in AllPages :
          SharedEntry(t, h) = IF h \in UserPages THEN [SpaceNow[t][h] EXCEPT !.perm = @ \ {"W"}]
                                                 ELSE SpaceNow[t][h]
    BY <2>2 DEF SharedEntry
  <2> QED
    BY <2>3 DEF AllPages
<1> HIDE DEF shared, s1, s2, rt2, m2
<1>11. /\ c \in Tasks \ Live /\ Live' = Live \cup {c}
       /\ SpaceNow' = [SpaceNow EXCEPT ![t] = shared, ![c] = shared]
  BY <1>1, <1>7, <1>8, <1>9
<1> DEFINE S == [u \in Tasks |-> IF root[u] = 0 THEN NoEntry ELSE
                   [g \in UserPages \cup KernelPages |-> check_load(ram, root[u], g)]]
<1>12. S = SpaceNow
  BY SpaceIs
<1>13. S' = SpaceNow'
  BY SpaceWillBe
<1>14. /\ c \in Tasks \ Live /\ Live' = Live \cup {c}
       /\ S' = [S EXCEPT ![t] = shared, ![c] = shared]
       /\ shared = [h \in UserPages \cup KernelPages |->
                      IF h \in UserPages THEN [S[t][h] EXCEPT !.perm = @ \ {"W"}] ELSE S[t][h]]
  <2> HIDE DEF S
  <2> QED
    BY <1>10, <1>11, <1>12, <1>13
<1>15. Walks!Fork(t, c)
  BY <1>14, Zenon DEF Walks!Fork
<1> QED
  BY <1>6, <1>15

LEMMA WalkStep ==
  ASSUME PageTableAssumption
  PROVE  WalkInv /\ [Next]_vars => WalkInv' /\ [Walks!Next]_(Walks!vars)
<1> SUFFICES ASSUME WalkInv, [Next]_vars
             PROVE  WalkInv' /\ (Walks!Next \/ UNCHANGED Walks!vars)
  OBVIOUS
<1>1. CASE UNCHANGED vars
  <2>1. root' = root /\ ram' = ram
    BY <1>1 DEF vars
  <2>2. WalkInv' /\ SpaceNow' = SpaceNow /\ Live' = Live
    BY <2>1 DEF WalkInv, SpaceNow, Live, Tasks, Rooted, View, UserEntry
  <2>3. UNCHANGED Walks!vars
    BY <2>2, SpaceIs, SpaceWillBe, Zenon DEF Walks!vars
  <2> QED
    BY <2>2, <2>3
<1>2. CASE Next
  <2>1. PICK t \in Tasks \ {Swapper} :
          /\ root[t] # 0
          /\ \/ \E g \in UserPages, f \in Frames :
                  \/ \E perm \in Rights : FaultAbsent(t, g, f, perm)
                  \/ FaultCopy(t, g, f)
             \/ \E g \in UserPages : FaultUnshare(t, g)
             \/ \E c \in Tasks : Fork(t, c)
    BY <1>2, Zenon DEF Next
  <2>2. t \in Rooted(root) \ {Swapper} /\ t \in Live \ {0}
    BY <2>1 DEF Rooted, Live, Swapper
  <2>3. ASSUME NEW g \in UserPages, NEW f \in Frames, NEW perm \in Rights,
               FaultAbsent(t, g, f, perm)
        PROVE  WalkInv' /\ Walks!Next
    BY <2>2, <2>3, AbsentStep, Zenon DEF Walks!Next
  <2>4. ASSUME NEW g \in UserPages, NEW f \in Frames, FaultCopy(t, g, f)
        PROVE  WalkInv' /\ Walks!Next
    BY <2>2, <2>4, CopyStep, Zenon DEF Walks!Next
  <2>5. ASSUME NEW g \in UserPages, FaultUnshare(t, g) PROVE WalkInv' /\ Walks!Next
    BY <2>2, <2>5, UnshareStep, Zenon DEF Walks!Next
  <2>6. ASSUME NEW c \in Tasks, Fork(t, c) PROVE WalkInv' /\ Walks!Next
    BY <2>2, <2>6, ForkStep, Zenon DEF Walks!Next
  <2> QED
    BY <2>1, <2>3, <2>4, <2>5, <2>6
<1> QED
  BY <1>1, <1>2

LEMMA WalkPrivate == WalkInv => TablesPrivate
BY WaysApart DEF WalkInv

LEMMA WalkInvariant == ASSUME PageTableAssumption PROVE Spec => []WalkInv
<1>1. Init => WalkInv
  BY WalkInit
<1>2. WalkInv /\ [Next]_vars => WalkInv'
  BY WalkStep
<1> QED
  BY <1>1, <1>2, PTL DEF Spec

(* Whatever the kernel maps, however often the tasks fork, two tasks have  *)
(* no table in common but the kernel's own.                                *)
THEOREM TablesStayPrivate == ASSUME PageTableAssumption PROVE Spec => []TablesPrivate
BY WalkInvariant, WalkPrivate, PTL

(* The walks of create_mapping, check_load, pte_entry_ret and change_perm  *)
(* behave like one function per task: Spec implements AddressSpaces.       *)
THEOREM WalksAreFunctions == ASSUME PageTableAssumption PROVE Spec => AddressSpaces
<1>1. Init => WalkInv /\ Walks!Init
  BY WalkInit
<1>2. WalkInv /\ [Next]_vars => WalkInv' /\ [Walks!Next]_(Walks!vars)
  BY WalkStep
<1> QED
  BY <1>1, <1>2, PTL DEF Spec, AddressSpaces, Walks!Spec
=============================================================================

-------------------------- MODULE IndexScheduleProofs -------------------------
(***************************************************************************)
(* Proofs about IndexSchedule, for any matrix, process grid, distribution  *)
(* of the pairs and script of calls: every element arrives at its place,   *)
(* although a message says neither what it is nor of which call.  The      *)
(* first part is about BlockCyclic, where a matrix element is found in the *)
(* two storage forms; the second about lists and messages made from it.    *)
(***************************************************************************)
EXTENDS IndexSchedule, SequenceTheorems, FiniteSetTheorems, WellFoundedInduction,
        TLAPS

(* Multiplication is monotonic, in the two forms used below.               *)
LEMMA Monotonic ==
  ASSUME NEW a \in Nat, NEW b \in Nat, NEW c \in Nat
  PROVE  /\ a <= b => c * a <= c * b
         /\ a < b => c * a + c <= c * b
         /\ c * a \in Nat
OBVIOUS

(* Quotient and remainder.                                                 *)
LEMMA DivMod ==
  \A n \in Nat, d \in Nat \ {0} :
    /\ n \div d \in Nat /\ n % d \in Nat /\ n % d < d
    /\ n = d * (n \div d) + (n % d)
OBVIOUS

(* They are the only numbers of that kind.                                 *)
LEMMA DivUnique ==
  \A d \in Nat \ {0}, q, r, n \in Nat :
    r < d /\ n = d * q + r => n \div d = q /\ n % d = r
<1> SUFFICES ASSUME NEW d \in Nat \ {0}, NEW q \in Nat, NEW r \in Nat, NEW n \in Nat,
                    r < d, n = d * q + r
             PROVE  n \div d = q /\ n % d = r
  OBVIOUS
<1>1. PICK e \in Nat, s \in Nat : /\ e = n \div d /\ s = n % d /\ s < d
                                  /\ n = d * e + s
  BY DivMod
<1>2. PICK x \in Nat, y \in Nat : x = d * q /\ y = d * e
  BY <1>1, Monotonic
<1>3. ~ (q < e)
  <2> SUFFICES ASSUME q < e PROVE FALSE
    OBVIOUS
  <2>1. x + d <= y
    BY <1>2, Monotonic
  <2>2. QED
    BY <2>1, <1>1, <1>2
<1>4. ~ (e < q)
  <2> SUFFICES ASSUME e < q PROVE FALSE
    OBVIOUS
  <2>1. y + d <= x
    BY <1>2, Monotonic
  <2>2. QED
    BY <2>1, <1>1, <1>2
<1>5. q = e
  BY <1>1, <1>3, <1>4
<1>6. r = s
  BY <1>1, <1>2, <1>5
<1>7. QED
  BY <1>1, <1>5, <1>6

(* Induction up to N, over a set instead of a predicate.                   *)
LEMMA UpTo ==
  ASSUME NEW N \in Nat, NEW G, 0 \in G, \A m \in 0 .. N - 1 : m \in G => m + 1 \in G
  PROVE  0 .. N \subseteq G
<1> DEFINE B == {m \in 0 .. N : m \notin G}
<1> SUFFICES ASSUME B # {} PROVE FALSE
  OBVIOUS
<1>1. B \in SUBSET Nat
  OBVIOUS
<1> HIDE DEF B
<1>2. \E x \in B : \A y \in B : ~ (<<y, x>> \in OpToRel(<, Nat))
  BY <1>1, NatLessThanWellFounded, WFMin, Zenon
<1>3. PICK x \in B : \A y \in B : ~ (y < x)
  BY <1>1, <1>2 DEF OpToRel
<1> USE DEF B
<1>4. x \in 0 .. N /\ x # 0 /\ x \notin G
  BY <1>3
<1>5. x - 1 \in 0 .. N - 1 /\ x - 1 < x
  BY <1>4
<1>6. x - 1 \notin B
  BY <1>3, <1>5
<1>7. x - 1 \in G
  BY <1>5, <1>6
<1>8. (x - 1) + 1 = x
  BY <1>4
<1>9. QED
  BY <1>4, <1>5, <1>7, <1>8

-----------------------------------------------------------------------------
(* The table of first indices, with an entry behind the last atom.         *)
First(sizes, m, f) ==
  f = [b \in 1 .. m + 1 |-> IF b = 1 THEN 0 ELSE f[b - 1] + sizes[b - 1]]

(* There is such a table for any number of atoms.                          *)
LEMMA Tabled ==
  ASSUME NEW sizes, NEW n \in Nat
  PROVE  \E f : First(sizes, n, f)
<1> DEFINE G == {m \in Nat : \E f : First(sizes, m, f)}
<1>1. 0 \in G
  <2> DEFINE f == [b \in 1 .. 1 |-> 0]
  <2>1. First(sizes, 0, f)
    BY DEF First
  <2>2. QED
    BY <2>1
<1>2. ASSUME NEW m \in Nat, m \in G PROVE m + 1 \in G
  <2>1. PICK f : First(sizes, m, f)
    BY <1>2
  <2> DEFINE k == m + 2
             g == [b \in 1 .. k |-> IF b = k THEN f[k - 1] + sizes[k - 1] ELSE f[b]]
  <2>2. \A b \in 1 .. k : b # 1 => g[b - 1] = f[b - 1]
    OBVIOUS
  <2>3. \A b \in 1 .. k : g[b] = IF b = 1 THEN 0 ELSE g[b - 1] + sizes[b - 1]
    <3> SUFFICES ASSUME NEW b \in 1 .. k
                 PROVE  g[b] = IF b = 1 THEN 0 ELSE g[b - 1] + sizes[b - 1]
      OBVIOUS
    <3>1. CASE b = k
      BY <3>1, <2>2
    <3>2. CASE b # k
      <4>1. b \in 1 .. m + 1
        BY <3>2
      <4>2. f[b] = IF b = 1 THEN 0 ELSE f[b - 1] + sizes[b - 1]
        BY <2>1, <4>1 DEF First
      <4>3. g[b] = f[b]
        BY <3>2
      <4>4. QED
        BY <4>2, <4>3, <2>2
    <3>3. QED
      BY <3>1, <3>2
  <2>4. g = [b \in 1 .. k |-> IF b = 1 THEN 0 ELSE g[b - 1] + sizes[b - 1]]
    BY <2>3
  <2>5. k = (m + 1) + 1
    OBVIOUS
  <2>6. First(sizes, m + 1, g)
    BY <2>4, <2>5 DEF First
  <2>7. QED
    BY <2>6
<1> HIDE DEF G
<1>3. 0 .. n \subseteq G
  BY <1>1, <1>2, UpTo
<1> USE DEF G
<1>4. QED
  BY <1>3

(* Each atom's functions begin where those of the last one end.            *)
LEMMA PartRanges ==
  ASSUME NEW sizes \in Seq(Nat)
  PROVE  /\ PartRange(sizes, 1) = 0
         /\ \A a \in 1 .. Len(sizes) :
              PartRange(sizes, a + 1) = PartRange(sizes, a) + sizes[a]
         /\ \A a \in 1 .. Len(sizes) + 1 :
              /\ PartRange(sizes, a) \in Nat
              /\ \A b \in 1 .. a : PartRange(sizes, b) <= PartRange(sizes, a)
<1>1. PICK n \in Nat : n = Len(sizes)
  BY LenProperties
<1>2. PICK f : f = CHOOSE first : First(sizes, n, first)
  OBVIOUS
<1>3. First(sizes, n, f)
  BY <1>2, Tabled
<1>4. \A a : PartRange(sizes, a) = f[a]
  BY <1>1, <1>2 DEF PartRange, First
<1>5. f[1] = 0
  BY <1>3 DEF First
<1>6. ASSUME NEW a \in 1 .. n PROVE f[a + 1] = f[a] + sizes[a] /\ sizes[a] \in Nat
  <2>1. a + 1 \in 1 .. n + 1 /\ a + 1 # 1 /\ (a + 1) - 1 = a
    OBVIOUS
  <2>2. sizes[a] \in Nat
    BY <1>1, ElementOfSeq
  <2>3. QED
    BY <1>3, <2>1, <2>2 DEF First
<1> DEFINE G == {m \in Nat : m <= n => \A b \in 1 .. m + 1 :
                                         f[b] \in Nat /\ f[b] <= f[m + 1]}
<1>7. 0 .. n \subseteq G
  <2>1. 0 \in G
    BY <1>5
  <2>2. ASSUME NEW m \in 0 .. n - 1, m \in G PROVE m + 1 \in G
    <3>1. m + 1 \in 1 .. n /\ \A b \in 1 .. m + 1 : f[b] \in Nat /\ f[b] <= f[m + 1]
      BY <2>2
    <3>2. f[(m + 1) + 1] = f[m + 1] + sizes[m + 1] /\ sizes[m + 1] \in Nat
      BY <3>1, <1>6
    <3>3. PICK x \in Nat, z \in Nat : x = f[m + 1] /\ z = sizes[m + 1]
      BY <3>1, <3>2
    <3>4. f[(m + 1) + 1] = x + z
      BY <3>2, <3>3
    <3>5. ASSUME NEW b \in 1 .. (m + 1) + 1 PROVE f[b] \in Nat /\ f[b] <= x + z
      <4>1. CASE b = (m + 1) + 1
        BY <4>1, <3>4
      <4>2. CASE b # (m + 1) + 1
        <5>1. b \in 1 .. m + 1
          BY <4>2
        <5>2. f[b] \in Nat /\ f[b] <= x
          BY <5>1, <3>1, <3>3
        <5>3. QED
          BY <5>2
      <4>3. QED
        BY <4>1, <4>2
    <3>6. QED
      BY <3>4, <3>5
  <2> HIDE DEF G
  <2>3. QED
    BY <2>1, <2>2, UpTo
<1>8. ASSUME NEW a \in 1 .. n + 1
      PROVE  f[a] \in Nat /\ \A b \in 1 .. a : f[b] <= f[a]
  <2>1. a - 1 \in 0 .. n /\ (a - 1) + 1 = a /\ a - 1 <= n
    OBVIOUS
  <2>2. a - 1 \in G
    BY <1>7, <2>1
  <2>3. QED
    BY <2>1, <2>2
<1>9. QED
  BY <1>1, <1>4, <1>5, <1>6, <1>8

(* Each index belongs to one atom, the one found, and is a place in it.    *)
InAtom(sizes, g, a) ==
  a \in DOMAIN sizes /\ PartRange(sizes, a) <= g /\ g < PartRange(sizes, a + 1)

(* No index belongs to two atoms, ...                                      *)
LEMMA OneAtom ==
  ASSUME NEW sizes \in Seq(Nat), NEW g \in Int, NEW a, NEW b,
         InAtom(sizes, g, a), InAtom(sizes, g, b)
  PROVE  a = b
<1>1. PICK n \in Nat : n = Len(sizes) /\ DOMAIN sizes = 1 .. n
  BY LenProperties
<1>2. a \in 1 .. n /\ b \in 1 .. n
  BY <1>1 DEF InAtom
<1>3. ASSUME NEW x \in 1 .. n, NEW y \in 1 .. n, InAtom(sizes, g, x), InAtom(sizes, g, y)
      PROVE  ~ (x < y)
  <2> SUFFICES ASSUME x < y PROVE FALSE
    OBVIOUS
  <2>1. y \in 1 .. n + 1 /\ x + 1 \in 1 .. y /\ x + 1 \in 1 .. n + 1
    OBVIOUS
  <2>2. PartRange(sizes, x + 1) <= PartRange(sizes, y)
    BY <2>1, <1>1, PartRanges
  <2>3. PartRange(sizes, y) \in Nat /\ PartRange(sizes, x + 1) \in Nat
    BY <2>1, <1>1, PartRanges
  <2>4. PartRange(sizes, y) <= g /\ g < PartRange(sizes, x + 1)
    BY <1>3 DEF InAtom
  <2>5. QED
    BY <2>2, <2>3, <2>4
<1>4. ~ (a < b) /\ ~ (b < a)
  BY <1>2, <1>3
<1>5. QED
  BY <1>2, <1>4

(* ... every index of the basis belongs to one, ...                        *)
LEMMA AtomExists ==
  ASSUME NEW sizes \in Seq(Nat), NEW g \in 0 .. Total(sizes) - 1
  PROVE  \E a : InAtom(sizes, g, a)
<1>1. PICK n \in Nat : n = Len(sizes) /\ DOMAIN sizes = 1 .. n
  BY LenProperties
<1> DEFINE G == {m \in Nat : m <= n /\ g < PartRange(sizes, m + 1)
                               => \E a : InAtom(sizes, g, a)}
<1>2. 0 .. n \subseteq G
  <2>1. 0 \in G
    <3>1. PartRange(sizes, 0 + 1) = 0
      BY PartRanges
    <3>2. g \in Nat
      OBVIOUS
    <3>3. QED
      BY <3>1, <3>2
  <2>2. ASSUME NEW m \in 0 .. n - 1, m \in G PROVE m + 1 \in G
    <3> SUFFICES ASSUME g < PartRange(sizes, (m + 1) + 1)
                 PROVE  \E a : InAtom(sizes, g, a)
      OBVIOUS
    <3>1. CASE g < PartRange(sizes, m + 1)
      BY <2>2, <3>1
    <3>2. CASE ~ (g < PartRange(sizes, m + 1))
      <4>1. m + 1 \in 1 .. n + 1 /\ m + 1 \in DOMAIN sizes
        BY <1>1
      <4>2. PartRange(sizes, m + 1) \in Nat
        BY <4>1, <1>1, PartRanges
      <4>3. PartRange(sizes, m + 1) <= g
        BY <4>2, <3>2
      <4>4. InAtom(sizes, g, m + 1)
        BY <4>1, <4>3 DEF InAtom
      <4>5. QED
        BY <4>4
    <3>3. QED
      BY <3>1, <3>2
  <2> HIDE DEF G
  <2>3. QED
    BY <2>1, <2>2, UpTo
<1>3. n \in G /\ n + 1 \in 1 .. n + 1
  BY <1>2
<1>4. PartRange(sizes, n + 1) \in Nat
  BY <1>1, <1>3, PartRanges
<1>5. g < PartRange(sizes, n + 1)
  BY <1>1, <1>4 DEF Total
<1>6. QED
  BY <1>3, <1>5

(* ... and GetIAtom and GetLocalIndex find the atom and the place in it.   *)
LEMMA Atoms ==
  ASSUME NEW sizes \in Seq(Nat)
  PROVE  /\ Total(sizes) \in Nat
         /\ \A g \in 0 .. Total(sizes) - 1 :
              /\ GetIAtom(sizes, g) \in DOMAIN sizes
              /\ GetLocalIndex(sizes, g) \in 0 .. sizes[GetIAtom(sizes, g)] - 1
              /\ PartRange(sizes, GetIAtom(sizes, g)) + GetLocalIndex(sizes, g) = g
         /\ \A a \in DOMAIN sizes : \A i \in 0 .. sizes[a] - 1 :
              /\ PartRange(sizes, a) + i \in 0 .. Total(sizes) - 1
              /\ GetIAtom(sizes, PartRange(sizes, a) + i) = a
              /\ GetLocalIndex(sizes, PartRange(sizes, a) + i) = i
<1>1. PICK n \in Nat : n = Len(sizes) /\ DOMAIN sizes = 1 .. n
  BY LenProperties
<1>2. ASSUME NEW a \in 1 .. n
      PROVE  /\ PartRange(sizes, a) \in Nat /\ sizes[a] \in Nat
             /\ PartRange(sizes, a + 1) = PartRange(sizes, a) + sizes[a]
             /\ PartRange(sizes, a + 1) <= Total(sizes)
  <2>1. a \in 1 .. n + 1 /\ a + 1 \in 1 .. n + 1 /\ n + 1 \in 1 .. n + 1
    OBVIOUS
  <2>2. PartRange(sizes, a + 1) <= PartRange(sizes, n + 1)
    BY <2>1, <1>1, PartRanges
  <2>3. sizes[a] \in Nat
    BY <1>1, ElementOfSeq
  <2>4. QED
    BY <2>1, <2>2, <2>3, <1>1, PartRanges DEF Total
<1>3. Total(sizes) \in Nat
  <2>1. n + 1 \in 1 .. n + 1
    OBVIOUS
  <2>2. QED
    BY <2>1, <1>1, PartRanges DEF Total
<1>4. ASSUME NEW g \in 0 .. Total(sizes) - 1
      PROVE  /\ GetIAtom(sizes, g) \in DOMAIN sizes
             /\ GetLocalIndex(sizes, g) \in 0 .. sizes[GetIAtom(sizes, g)] - 1
             /\ PartRange(sizes, GetIAtom(sizes, g)) + GetLocalIndex(sizes, g) = g
  <2>1. PICK a : a = GetIAtom(sizes, g)
    OBVIOUS
  <2>2. InAtom(sizes, g, a)
    BY <2>1, AtomExists DEF GetIAtom, InAtom
  <2>3. a \in 1 .. n /\ PartRange(sizes, a) <= g /\ g < PartRange(sizes, a + 1)
    BY <2>2, <1>1 DEF InAtom
  <2>4. PICK x \in Nat, y \in Nat : x = PartRange(sizes, a) /\ y = sizes[a]
    BY <2>3, <1>2
  <2>5. x <= g /\ g < x + y
    BY <2>3, <2>4, <1>2
  <2>6. g - x \in 0 .. y - 1 /\ x + (g - x) = g
    BY <2>5
  <2>7. QED
    BY <2>1, <2>3, <2>4, <2>6, <1>1 DEF GetLocalIndex
<1>5. ASSUME NEW a \in DOMAIN sizes, NEW i \in 0 .. sizes[a] - 1
      PROVE  /\ PartRange(sizes, a) + i \in 0 .. Total(sizes) - 1
             /\ GetIAtom(sizes, PartRange(sizes, a) + i) = a
             /\ GetLocalIndex(sizes, PartRange(sizes, a) + i) = i
  <2>1. PICK x \in Nat, y \in Nat : x = PartRange(sizes, a) /\ y = sizes[a]
    BY <1>1, <1>2
  <2>2. PartRange(sizes, a + 1) = x + y /\ x + y <= Total(sizes)
    BY <2>1, <1>1, <1>2
  <2>3. i \in 0 .. y - 1
    BY <2>1
  <2>4. PICK g \in Nat : g = x + i /\ g < x + y /\ x <= g /\ g - x = i
    BY <2>3
  <2>5. InAtom(sizes, g, a)
    BY <2>1, <2>2, <2>4 DEF InAtom
  <2>6. InAtom(sizes, g, GetIAtom(sizes, g))
    BY <2>5 DEF GetIAtom, InAtom
  <2>7. GetIAtom(sizes, g) = a
    BY <2>5, <2>6, OneAtom
  <2>8. g \in 0 .. Total(sizes) - 1
    BY <2>2, <2>4, <1>3
  <2>9. QED
    BY <2>1, <2>4, <2>7, <2>8 DEF GetLocalIndex
<1>6. QED
  BY <1>3, <1>4, <1>5

-----------------------------------------------------------------------------
(* A matrix in an array: each place is in one row and one column.          *)
Places(nr, nc) == 0 .. nr * nc - 1

(* From a row and a column to a place and back, ...                        *)
LEMMA Flattened ==
  ASSUME NEW d, d.rowMajor \in BOOLEAN, NEW nr \in Nat, NEW nc \in Nat,
         NEW i \in 0 .. nr - 1, NEW j \in 0 .. nc - 1
  PROVE  /\ Flat(d, nr, nc, i, j) \in Places(nr, nc)
         /\ Unflat(d, nr, nc, Flat(d, nr, nc, i, j)) = <<i, j>>
<1>1. ASSUME NEW m \in Nat, NEW n \in Nat, NEW x \in 0 .. m - 1, NEW y \in 0 .. n - 1
      PROVE  /\ x * n + y \in 0 .. m * n - 1
             /\ (x * n + y) \div n = x /\ (x * n + y) % n = y
  <2>1. PICK z \in Nat, w \in Nat : z = n * x /\ w = n * m
    BY Monotonic
  <2>2. z + n <= w
    BY <2>1, Monotonic
  <2>3. x * n = z /\ m * n = w
    BY <2>1
  <2>4. PICK s \in Nat : s = z + y
    BY <2>1
  <2>5. s \in 0 .. w - 1
    BY <2>2, <2>4
  <2>6. n \in Nat \ {0} /\ x \in Nat /\ y \in Nat /\ y < n
    OBVIOUS
  <2>7. s = n * x + y
    BY <2>1, <2>4
  <2>8. s \div n = x /\ s % n = y
    BY <2>6, <2>7, DivUnique
  <2>9. QED
    BY <2>3, <2>4, <2>5, <2>8
<1>2. CASE d.rowMajor
  <2>1. PICK s : s = i * nc + j
    OBVIOUS
  <2>2. Flat(d, nr, nc, i, j) = s /\ Unflat(d, nr, nc, s) = <<s \div nc, s % nc>>
    BY <1>2, <2>1 DEF Flat, Unflat
  <2>3. s \in 0 .. nr * nc - 1 /\ s \div nc = i /\ s % nc = j
    BY <1>1, <2>1
  <2>4. QED
    BY <2>2, <2>3 DEF Places
<1>3. CASE ~ d.rowMajor
  <2>1. nc * nr = nr * nc
    OBVIOUS
  <2>2. PICK s : s = j * nr + i
    OBVIOUS
  <2>3. Flat(d, nr, nc, i, j) = s /\ Unflat(d, nr, nc, s) = <<s % nr, s \div nr>>
    BY <1>3, <2>2 DEF Flat, Unflat
  <2>4. s \in 0 .. nc * nr - 1 /\ s \div nr = j /\ s % nr = i
    BY <1>1, <2>2
  <2>5. QED
    BY <2>1, <2>3, <2>4 DEF Places
<1>4. QED
  BY <1>2, <1>3

(* ... and from a place to a row and a column and back.                    *)
LEMMA Unflattened ==
  ASSUME NEW d, d.rowMajor \in BOOLEAN, NEW nr \in Nat, NEW nc \in Nat,
         NEW s \in Places(nr, nc)
  PROVE  \E i \in 0 .. nr - 1, j \in 0 .. nc - 1 :
            Unflat(d, nr, nc, s) = <<i, j>> /\ Flat(d, nr, nc, i, j) = s
<1>1. ASSUME NEW m \in Nat, NEW n \in Nat, s \in 0 .. m * n - 1
      PROVE  \E x \in 0 .. m - 1, y \in 0 .. n - 1 :
                s \div n = x /\ s % n = y /\ x * n + y = s
  <2>1. PICK w \in Nat : w = m * n
    BY Monotonic
  <2>2. n # 0 /\ s \in Nat /\ s < w
    <3>1. s < w /\ s \in Nat
      BY <1>1, <2>1 DEF Places
    <3>2. n = 0 => w = 0
      BY <2>1
    <3>3. QED
      BY <3>1, <3>2
  <2>3. PICK x \in Nat, y \in Nat : x = s \div n /\ y = s % n /\ y < n /\ s = n * x + y
    BY <2>2, DivMod
  <2>4. x < m
    <3> SUFFICES ASSUME m <= x PROVE FALSE
      BY <2>3
    <3>1. PICK z \in Nat : z = n * x
      BY Monotonic
    <3>2. n * m <= z /\ n * m = w
      BY <3>1, <2>1, Monotonic
    <3>3. QED
      BY <3>1, <3>2, <2>2, <2>3
  <2>5. x * n + y = s
    BY <2>3
  <2>6. x \in 0 .. m - 1 /\ y \in 0 .. n - 1
    BY <2>3, <2>4
  <2>7. QED
    BY <2>3, <2>5, <2>6
<1>2. CASE d.rowMajor
  BY <1>1, <1>2 DEF Flat, Unflat, Places
<1>3. CASE ~ d.rowMajor
  <2>1. nc * nr = nr * nc
    OBVIOUS
  <2>2. PICK x \in 0 .. nc - 1, y \in 0 .. nr - 1 :
           s \div nr = x /\ s % nr = y /\ x * nr + y = s
    BY <1>1, <2>1 DEF Places
  <2>3. QED
    BY <1>3, <2>2 DEF Flat, Unflat
<1>4. QED
  BY <1>2, <1>3

-----------------------------------------------------------------------------
(* Dealing blocks of nb indices to np processes in turn: an index is the   *)
(* r-th of the block that process k places on gets in the q-th round.      *)
LEMMA Coordinates ==
  ASSUME NEW nb \in Nat \ {0}, NEW np \in Nat \ {0}, NEW q \in Nat,
         NEW k \in 0 .. np - 1, NEW r \in 0 .. nb - 1, NEW g,
         g = (nb * np) * q + nb * k + r
  PROVE  /\ g \in Nat /\ g \div nb = np * q + k /\ g % nb = r
         /\ g \div (nb * np) = q
<1>1. PICK n \in Nat, x \in Nat, y \in Nat, z \in Nat :
         n = nb * np /\ x = nb * k /\ y = np * q /\ z = n * q
  BY Monotonic
<1>2. x + nb <= n /\ n # 0
  <2>1. k \in Nat /\ k < np
    OBVIOUS
  <2>2. nb * k + nb <= nb * np
    BY <2>1, Monotonic
  <2>3. QED
    BY <2>2, <1>1
<1>3. g = z + x + r /\ g \in Nat
  BY <1>1
<1>4. PICK b \in Nat : b = y + k
  BY <1>1
<1>5. nb * b = z + x
  <2>1. nb * b = nb * (np * q) + nb * k
    BY <1>1, <1>4
  <2>2. nb * (np * q) = (nb * np) * q
    OBVIOUS
  <2>3. QED
    BY <2>1, <2>2, <1>1
<1>6. g \div nb = b /\ g % nb = r
  <2>1. g = nb * b + r /\ r \in Nat /\ r < nb
    BY <1>3, <1>5
  <2>2. QED
    BY <2>1, <1>3, DivUnique
<1>7. g \div n = q
  <2>1. PICK s \in Nat : s = x + r /\ s < n
    BY <1>1, <1>2
  <2>2. g = n * q + s
    BY <2>1, <1>1, <1>3
  <2>3. QED
    BY <2>1, <2>2, <1>2, <1>3, DivUnique
<1>8. QED
  BY <1>1, <1>3, <1>4, <1>6, <1>7

(* Every index has a round, a process in it and a place in its block.      *)
LEMMA CoordinatesExist ==
  ASSUME NEW nb \in Nat \ {0}, NEW np \in Nat \ {0}, NEW g \in Nat
  PROVE  \E q \in Nat, k \in 0 .. np - 1, r \in 0 .. nb - 1 :
            g = (nb * np) * q + nb * k + r
<1>1. PICK b \in Nat, r \in Nat : g = nb * b + r /\ r < nb
  BY DivMod
<1>2. PICK q \in Nat, k \in Nat : b = np * q + k /\ k < np
  BY DivMod
<1>3. nb * b = nb * (np * q) + nb * k
  BY <1>2
<1>4. nb * (np * q) = (nb * np) * q
  OBVIOUS
<1>5. PICK x, y : x = nb * k /\ y = (nb * np) * q
  OBVIOUS
<1>6. g = y + x + r
  BY <1>1, <1>3, <1>4, <1>5
<1>7. k \in 0 .. np - 1 /\ r \in 0 .. nb - 1
  BY <1>1, <1>2
<1>8. QED
  BY <1>5, <1>6, <1>7

(* The process of the k-th block of a round, counted from the source.      *)
LEMMA Residue ==
  ASSUME NEW np \in Nat \ {0}, NEW src \in 0 .. np - 1, NEW k \in 0 .. np - 1,
         NEW q \in Nat
  PROVE  (src + (np * q + k)) % np = IF src + k < np THEN src + k ELSE src + k - np
<1>1. PICK y \in Nat : y = np * q
  BY Monotonic
<1>2. CASE src + k < np
  <2>1. PICK n \in Nat, m \in Nat : n = src + (y + k) /\ m = src + k /\ m < np
    BY <1>1, <1>2
  <2>2. n = np * q + m
    BY <1>1, <2>1
  <2>3. n % np = m
    BY <2>1, <2>2, DivUnique
  <2>4. QED
    BY <1>1, <1>2, <2>1, <2>3
<1>3. CASE ~ (src + k < np)
  <2>1. PICK n \in Nat, m \in Nat : n = src + (y + k) /\ m = src + k - np /\ m < np
    BY <1>1, <1>3
  <2>2. np * (q + 1) = y + np
    BY <1>1
  <2>3. PICK e \in Nat : e = q + 1
    OBVIOUS
  <2>4. n = np * e + m
    <3>1. n = y + np + m
      BY <2>1
    <3>2. QED
      BY <3>1, <2>2, <2>3
  <2>5. n % np = m
    <3>1. m < np
      BY <2>1
    <3>2. QED
      BY <3>1, <2>4, DivUnique
  <2>6. QED
    BY <1>1, <1>3, <2>1, <2>5
<1>4. QED
  BY <1>2, <1>3

(* The conversions between a global index and a process's local one are    *)
(* inverse to each other, and the local order is the global one.           *)
LEMMA BlockCyclicIndices ==
  ASSUME NEW nb \in Nat \ {0}, NEW np \in Nat \ {0}, NEW src \in 0 .. np - 1,
         NEW me \in 0 .. np - 1
  PROVE  /\ \A g \in Nat :
              /\ indxg2p(g, nb, src, np) \in 0 .. np - 1 /\ indxg2l(g, nb, np) \in Nat
              /\ indxg2p(g, nb, src, np) = me
                   => indxl2g(indxg2l(g, nb, np), nb, me, src, np) = g
         /\ \A l \in Nat :
              /\ indxl2g(l, nb, me, src, np) \in Nat
              /\ indxg2p(indxl2g(l, nb, me, src, np), nb, src, np) = me
              /\ indxg2l(indxl2g(l, nb, me, src, np), nb, np) = l
         /\ \A l, m \in Nat :
              l < m => indxl2g(l, nb, me, src, np) < indxl2g(m, nb, me, src, np)
<1>1. PICK n \in Nat : n = nb * np
  BY Monotonic
<1>2. PICK off \in 0 .. np - 1 :
         /\ off = (np + me - src) % np
         /\ off = IF src <= me THEN me - src ELSE np + me - src
  <2>1. CASE src <= me
    <3>1. PICK x \in Nat, y \in Nat : x = np + me - src /\ y = me - src /\ y < np
      BY <2>1
    <3>2. x = np * 1 + y
      BY <3>1
    <3>3. x % np = y
      BY <3>1, <3>2, DivUnique
    <3>4. QED
      BY <2>1, <3>1, <3>3
  <2>2. CASE ~ (src <= me)
    <3>1. PICK y \in Nat : y = np + me - src /\ y < np
      BY <2>2
    <3>2. y = np * 0 + y
      BY <3>1
    <3>3. y % np = y
      BY <3>1, <3>2, DivUnique
    <3>4. QED
      BY <2>2, <3>1, <3>3
  <2>3. QED
    BY <2>1, <2>2
<1>3. \A k \in 0 .. np - 1 :
        (IF src + k < np THEN src + k ELSE src + k - np) = me <=> k = off
  BY <1>2
<1> DEFINE G(q, k, r) == n * q + nb * k + r
           L(q, r) == nb * q + r
<1>4. ASSUME NEW q \in Nat, NEW k \in 0 .. np - 1, NEW r \in 0 .. nb - 1
      PROVE  /\ G(q, k, r) \in Nat
             /\ indxg2p(G(q, k, r), nb, src, np) \in 0 .. np - 1
             /\ indxg2p(G(q, k, r), nb, src, np) = me <=> k = off
             /\ indxg2l(G(q, k, r), nb, np) = L(q, r)
  <2>1. PICK g : g = G(q, k, r)
    OBVIOUS
  <2>2. /\ g \in Nat /\ g \div nb = np * q + k /\ g % nb = r /\ g \div n = q
    BY <2>1, <1>1, Coordinates
  <2>3. indxg2p(g, nb, src, np) = IF src + k < np THEN src + k ELSE src + k - np
    <3> HIDE DEF G
    <3>1. indxg2p(g, nb, src, np) = (src + (np * q + k)) % np
      BY <2>2 DEF indxg2p
    <3>2. QED
      BY <3>1, Residue
  <2>4. indxg2l(g, nb, np) = nb * q + r
    BY <2>2, <1>1 DEF indxg2l
  <2>5. (IF src + k < np THEN src + k ELSE src + k - np) \in 0 .. np - 1
    OBVIOUS
  <2> HIDE DEF G
  <2>6. indxg2p(g, nb, src, np) \in 0 .. np - 1
    BY <2>3, <2>5
  <2>7. indxg2p(g, nb, src, np) = me <=> k = off
    BY <2>3, <1>3
  <2>8. QED
    BY <2>1, <2>2, <2>4, <2>6, <2>7
<1>5. ASSUME NEW q \in Nat, NEW r \in 0 .. nb - 1
      PROVE  /\ L(q, r) \in Nat
             /\ indxl2g(L(q, r), nb, me, src, np) = G(q, off, r)
  <2>1. PICK x \in Nat, y \in Nat : x = nb * q /\ y = n * q
    BY Monotonic
  <2>2. PICK l \in Nat : l = L(q, r) /\ l = x + r
    BY <2>1
  <2>3. l \div nb = q /\ l % nb = r
    <3>1. l = nb * q + r /\ r \in Nat /\ r < nb
      BY <2>1, <2>2
    <3>2. QED
      BY <3>1, <2>2, DivUnique
  <2>4. indxl2g(l, nb, me, src, np) = np * nb * q + r + off * nb
    BY <2>3, <1>2 DEF indxl2g
  <2>5. np * nb * q = n * q /\ off * nb = nb * off
    BY <1>1
  <2>6. PICK z \in Nat : z = nb * off
    BY Monotonic
  <2>7. QED
    BY <2>1, <2>2, <2>4, <2>5, <2>6
<1>6. ASSUME NEW l \in Nat
      PROVE  \E q \in Nat, r \in 0 .. nb - 1 : l = L(q, r)
  <2>1. PICK q \in Nat, r \in Nat : l = nb * q + r /\ r < nb
    BY DivMod
  <2>2. r \in 0 .. nb - 1
    BY <2>1
  <2>3. QED
    BY <2>1, <2>2
<1>7. ASSUME NEW l \in Nat, NEW m \in Nat, l < m
      PROVE  indxl2g(l, nb, me, src, np) < indxl2g(m, nb, me, src, np)
  <2>1. PICK q \in Nat, r \in 0 .. nb - 1 : l = L(q, r)
    BY <1>6
  <2>2. PICK q2 \in Nat, r2 \in 0 .. nb - 1 : m = L(q2, r2)
    BY <1>6
  <2>3. PICK x \in Nat, y \in Nat, x2 \in Nat, y2 \in Nat, z \in Nat :
           x = nb * q /\ y = n * q /\ x2 = nb * q2 /\ y2 = n * q2 /\ z = nb * off
    BY Monotonic
  <2>4. l = x + r /\ m = x2 + r2
    BY <2>1, <2>2, <2>3
  <2>5. /\ indxl2g(l, nb, me, src, np) = y + z + r
        /\ indxl2g(m, nb, me, src, np) = y2 + z + r2
    BY <1>5, <2>1, <2>2, <2>3
  <2>6. CASE q = q2
    <3>1. x = x2 /\ y = y2
      BY <2>3, <2>6
    <3>2. r < r2
      BY <3>1, <2>4, <1>7
    <3>3. QED
      BY <3>1, <3>2, <2>5
  <2>7. CASE q < q2
    <3>1. y + n <= y2
      BY <2>3, <2>7, Monotonic
    <3>2. nb <= n
      <4>1. nb * 1 <= nb * np
        BY Monotonic
      <4>2. QED
        BY <4>1, <1>1
    <3>3. QED
      BY <3>1, <3>2, <2>3, <2>5
  <2>8. CASE q2 < q
    <3>1. x2 + nb <= x
      BY <2>3, <2>8, Monotonic
    <3>2. QED
      BY <3>1, <2>4, <2>3, <1>7
  <2>9. QED
    BY <2>6, <2>7, <2>8
<1>8. ASSUME NEW g \in Nat
      PROVE  \E q \in Nat, k \in 0 .. np - 1, r \in 0 .. nb - 1 : g = G(q, k, r)
  <2>1. PICK q \in Nat, k \in 0 .. np - 1, r \in 0 .. nb - 1 :
           g = (nb * np) * q + nb * k + r
    BY CoordinatesExist
  <2>2. g = G(q, k, r)
    BY <2>1, <1>1
  <2> HIDE DEF G
  <2>3. QED
    BY <2>2
<1>9. ASSUME NEW g \in Nat
      PROVE  /\ indxg2p(g, nb, src, np) \in 0 .. np - 1 /\ indxg2l(g, nb, np) \in Nat
             /\ indxg2p(g, nb, src, np) = me
                  => indxl2g(indxg2l(g, nb, np), nb, me, src, np) = g
  <2>1. PICK q \in Nat, k \in 0 .. np - 1, r \in 0 .. nb - 1 : g = G(q, k, r)
    BY <1>8
  <2> HIDE DEF G, L
  <2>2. QED
    BY <2>1, <1>4, <1>5
<1>10. ASSUME NEW l \in Nat
       PROVE  /\ indxl2g(l, nb, me, src, np) \in Nat
              /\ indxg2p(indxl2g(l, nb, me, src, np), nb, src, np) = me
              /\ indxg2l(indxl2g(l, nb, me, src, np), nb, np) = l
  <2>1. PICK q \in Nat, r \in 0 .. nb - 1 : l = L(q, r)
    BY <1>6
  <2> HIDE DEF G, L
  <2>2. QED
    BY <2>1, <1>4, <1>5, <1>2
<1>11. QED
  BY <1>7, <1>9, <1>10

(* The local index counts the indices before it on the same process.       *)
Before(g, nb, src, np, me) == {h \in 0 .. g - 1 : indxg2p(h, nb, src, np) = me}

(* It is their number, and less than what the process has in all.          *)
LEMMA LocalIndexCounts ==
  ASSUME NEW nb \in Nat \ {0}, NEW np \in Nat \ {0}, NEW src \in 0 .. np - 1,
         NEW me \in 0 .. np - 1, NEW n \in Nat, NEW g \in 0 .. n - 1,
         indxg2p(g, nb, src, np) = me
  PROVE  /\ Cardinality(Before(g, nb, src, np, me)) = indxg2l(g, nb, np)
         /\ Cardinality(Before(n, nb, src, np, me)) \in Nat
         /\ indxg2l(g, nb, np) < Cardinality(Before(n, nb, src, np, me))
<1> DEFINE S == {h \in 0 .. g - 1 : indxg2p(h, nb, src, np) = me}
           T == {h \in 0 .. n - 1 : indxg2p(h, nb, src, np) = me}
<1>1. PICK m \in Nat : m = indxg2l(g, nb, np)
  BY BlockCyclicIndices
<1> DEFINE f == [i \in 1 .. m |-> indxl2g(i - 1, nb, me, src, np)]
<1>2. indxl2g(m, nb, me, src, np) = g
  BY <1>1, BlockCyclicIndices
<1>3. ASSUME NEW i \in 1 .. m
      PROVE  /\ f[i] = indxl2g(i - 1, nb, me, src, np) /\ i - 1 \in Nat
             /\ f[i] \in S
  <2>1. PICK l \in Nat : l = i - 1 /\ l < m
    OBVIOUS
  <2>2. PICK h \in Nat : h = indxl2g(l, nb, me, src, np)
    BY BlockCyclicIndices
  <2>3. h < g
    BY <1>2, <2>1, <2>2, BlockCyclicIndices
  <2>4. h \in 0 .. g - 1
    BY <2>3
  <2>5. h \in S
    BY <2>2, <2>4, BlockCyclicIndices
  <2>6. QED
    BY <2>1, <2>2, <2>5
<1>4. ASSUME NEW i \in 1 .. m, NEW j \in 1 .. m, f[i] = f[j]
      PROVE  i = j
  <2>1. PICK x \in Nat, y \in Nat : x = i - 1 /\ y = j - 1
    BY <1>3
  <2>2. indxl2g(x, nb, me, src, np) = indxl2g(y, nb, me, src, np)
    BY <1>3, <1>4, <2>1
  <2>3. indxg2l(indxl2g(x, nb, me, src, np), nb, np) = x
    BY BlockCyclicIndices
  <2>4. indxg2l(indxl2g(y, nb, me, src, np), nb, np) = y
    BY BlockCyclicIndices
  <2>5. QED
    BY <2>1, <2>2, <2>3, <2>4
<1>5. ASSUME NEW h \in S
      PROVE  \E i \in 1 .. m : f[i] = h
  <2>1. h \in Nat /\ h < g /\ indxg2p(h, nb, src, np) = me
    OBVIOUS
  <2>2. PICK l \in Nat : l = indxg2l(h, nb, np)
    BY <2>1, BlockCyclicIndices
  <2>3. indxl2g(l, nb, me, src, np) = h
    BY <2>1, <2>2, BlockCyclicIndices
  <2>4. l < m
    <3>1. ~ (m < l)
      <4> SUFFICES ASSUME m < l PROVE FALSE
        OBVIOUS
      <4>1. g < h
        BY <1>2, <2>3, BlockCyclicIndices
      <4>2. QED
        BY <4>1, <2>1
    <3>2. l # m
      BY <2>1, <2>3, <1>2
    <3>3. QED
      BY <3>1, <3>2
  <2>5. l + 1 \in 1 .. m /\ (l + 1) - 1 = l
    BY <2>4
  <2>6. f[l + 1] = h
    BY <2>3, <2>5
  <2>7. QED
    BY <2>5, <2>6
<1>6. Cardinality(S) = m
  <2> HIDE DEF S
  <2>1. f \in [1 .. m -> S]
    BY <1>3
  <2>2. DOMAIN f = 1 .. m
    OBVIOUS
  <2> HIDE DEF f
  <2>3. f \in Bijection(1 .. m, S)
    BY <2>1, <2>2, <1>4, <1>5 DEF Bijection, Injection, Surjection, IsInjective
  <2>4. QED
    BY <2>3, FS_CountingElements DEF ExistsBijection
<1>7. IsFiniteSet(T)
  <2>1. IsFiniteSet(0 .. n - 1)
    BY FS_Interval
  <2>2. T \in SUBSET (0 .. n - 1)
    OBVIOUS
  <2>3. QED
    BY <2>1, <2>2, FS_Subset
<1>8. S \cup {g} \in SUBSET T /\ S \in SUBSET T /\ g \notin S
  OBVIOUS
<1> HIDE DEF S, T
<1>9. IsFiniteSet(S)
  BY <1>7, <1>8, FS_Subset
<1>10. Cardinality(S \cup {g}) = m + 1
  BY <1>6, <1>8, <1>9, FS_AddElement
<1>11. Cardinality(S \cup {g}) <= Cardinality(T)
  BY <1>7, <1>8, FS_Subset
<1>12. Cardinality(T) \in Nat
  BY <1>7, FS_CardinalityType
<1>13. m < Cardinality(T)
  BY <1>10, <1>11, <1>12
<1>14. QED
  BY <1>1, <1>6, <1>12, <1>13 DEF S, T, Before

-----------------------------------------------------------------------------
(* What a descriptor says of the sizes of its matrix.                      *)
LEMMA DescriptorTypes ==
  ASSUME NEW d \in Descriptor
  PROVE  /\ d.rows \in Seq(Nat) /\ d.cols \in Seq(Nat) /\ d.rowMajor \in BOOLEAN
         /\ Total(d.rows) \in Nat /\ Total(d.cols) \in Nat
<1>1. d.rows \in Seq(Nat) /\ d.cols \in Seq(Nat) /\ d.rowMajor \in BOOLEAN
  BY DEF Descriptor
<1>2. QED
  BY <1>1, Atoms

(* Elements lists the rows by the columns.                                 *)
LEMMA ElementsAreAll ==
  ASSUME NEW d \in Descriptor
  PROVE  /\ {Elements(d)[k] : k \in DOMAIN Elements(d)} = Rows(d) \X Cols(d)
         /\ Elements(d) \in Seq(Rows(d) \X Cols(d))
<1>1. PICK nr \in Nat, nc \in Nat : nr = Total(d.rows) /\ nc = Total(d.cols)
  BY DescriptorTypes
<1>2. d.rowMajor \in BOOLEAN
  BY DescriptorTypes
<1>3. Rows(d) = 0 .. nr - 1 /\ Cols(d) = 0 .. nc - 1
  BY <1>1 DEF Rows, Cols
<1>4. PICK n \in Nat : n = nr * nc
  BY Monotonic
<1>5. Elements(d) = [k \in 1 .. n |-> Unflat(d, nr, nc, k - 1)]
  BY <1>1, <1>4 DEF Elements
<1>6. ASSUME NEW k \in 1 .. n
      PROVE  Elements(d)[k] \in Rows(d) \X Cols(d)
  <2>1. PICK s : s = k - 1 /\ s \in Places(nr, nc)
    BY <1>4 DEF Places
  <2>2. Elements(d)[k] = Unflat(d, nr, nc, s)
    BY <1>5, <2>1
  <2>3. PICK i \in 0 .. nr - 1, j \in 0 .. nc - 1 : Unflat(d, nr, nc, s) = <<i, j>>
    BY <1>2, <2>1, Unflattened
  <2>4. QED
    BY <2>2, <2>3, <1>3
<1>7. ASSUME NEW i \in 0 .. nr - 1, NEW j \in 0 .. nc - 1
      PROVE  \E k \in 1 .. n : Elements(d)[k] = <<i, j>>
  <2>1. PICK s : s = Flat(d, nr, nc, i, j)
    OBVIOUS
  <2>2. s \in 0 .. n - 1 /\ Unflat(d, nr, nc, s) = <<i, j>>
    BY <2>1, <1>2, <1>4, Flattened DEF Places
  <2>3. s + 1 \in 1 .. n /\ (s + 1) - 1 = s
    BY <2>2
  <2>4. Elements(d)[s + 1] = <<i, j>>
    BY <2>2, <2>3, <1>5
  <2>5. QED
    BY <2>3, <2>4
<1>8. DOMAIN Elements(d) = 1 .. n
  BY <1>5
<1>9. Elements(d) \in [1 .. n -> Rows(d) \X Cols(d)]
  BY <1>5, <1>6
<1>10. Elements(d) \in Seq(Rows(d) \X Cols(d))
  BY <1>9, IsASeq
<1>11. Rows(d) \X Cols(d) \subseteq {Elements(d)[k] : k \in DOMAIN Elements(d)}
  <2> SUFFICES ASSUME NEW e \in Rows(d) \X Cols(d)
               PROVE  \E k \in DOMAIN Elements(d) : Elements(d)[k] = e
    OBVIOUS
  <2>1. PICK i \in 0 .. nr - 1, j \in 0 .. nc - 1 : e = <<i, j>>
    BY <1>3
  <2>2. QED
    BY <2>1, <1>7, <1>8
<1>12. QED
  BY <1>6, <1>8, <1>10, <1>11

(* The process of an element has it in its piece, at the place the         *)
(* descriptor says, and counting gives the same.                           *)
LEMMA ElementInPiece ==
  ASSUME NEW d \in Descriptor, SourceInGrid(d), NEW e \in Rows(d) \X Cols(d),
         NEW p, p = ProcBlacs(d, e[1], e[2])
  PROVE  /\ p \in Procs(d)
         /\ SlotInPiece(d, p, e) \in DOMAIN Piece(d, p)
         /\ Piece(d, p)[SlotInPiece(d, p, e)] = e
         /\ CountedSlot(d, p, e) = SlotInPiece(d, p, e)
<1>1. /\ d.nprows \in Nat \ {0} /\ d.npcols \in Nat \ {0} /\ d.mb \in Nat \ {0}
      /\ d.nb \in Nat \ {0} /\ d.irsrc \in 0 .. d.nprows - 1
      /\ d.icsrc \in 0 .. d.npcols - 1
  BY DEF Descriptor, SourceInGrid
<1>2. PICK nr \in Nat, nc \in Nat : nr = Total(d.rows) /\ nc = Total(d.cols)
  BY DescriptorTypes
<1>3. d.rowMajor \in BOOLEAN
  BY DescriptorTypes
<1>4. PICK i \in 0 .. nr - 1, j \in 0 .. nc - 1 : e = <<i, j>>
  BY <1>2 DEF Rows, Cols
<1>5. i \in Nat /\ j \in Nat
  OBVIOUS
<1>6. PICK x \in 0 .. d.nprows - 1 : x = RowProc(d, i)
  BY <1>1, <1>5, BlockCyclicIndices DEF RowProc
<1>7. PICK y \in 0 .. d.npcols - 1 : y = ColProc(d, j)
  BY <1>1, <1>5, BlockCyclicIndices DEF ColProc
<1>8. p = x * d.npcols + y
  BY <1>4, <1>6, <1>7 DEF ProcBlacs, GetPnum
<1>9. p \in Procs(d) /\ MyPRow(d, p) = x /\ MyPCol(d, p) = y
  <2>1. PICK n \in Nat \ {0}, m \in Nat : n = d.npcols /\ m = d.nprows
    BY <1>1
  <2>2. PICK z \in Nat, w \in Nat : z = n * x /\ w = n * m
    BY Monotonic
  <2>3. z + n <= w
    BY <2>1, <2>2, Monotonic
  <2>4. p = z + y /\ p \in Nat /\ p < w
    BY <1>8, <2>1, <2>2, <2>3
  <2>5. p = n * x + y /\ p \in Nat /\ x \in Nat /\ y \in Nat /\ y < n
    BY <2>1, <2>2, <2>4
  <2>6. p \div n = x /\ p % n = y
    BY <2>5, DivUnique
  <2>7. m * n = w
    BY <2>2
  <2>8. QED
    BY <2>1, <2>4, <2>6, <2>7 DEF Procs, MyPRow, MyPCol
<1>10. /\ MLoc(d, p) \in Nat /\ G2LRow(d, i) \in 0 .. MLoc(d, p) - 1
       /\ L2GRow(d, p, G2LRow(d, i)) = i
       /\ Cardinality({h \in 0 .. i - 1 : RowProc(d, h) = MyPRow(d, p)})
            = G2LRow(d, i)
  <2>1. PICK nb \in Nat \ {0}, np \in Nat \ {0}, src \in Nat :
           src \in 0 .. np - 1 /\ nb = d.mb /\ np = d.nprows /\ src = d.irsrc
    BY <1>1
  <2>2. x \in 0 .. np - 1 /\ src \in 0 .. np - 1 /\ indxg2p(i, nb, src, np) = x
    BY <1>6, <2>1 DEF RowProc
  <2>3. PICK l \in Nat : l = indxg2l(i, nb, np)
    BY <2>2, <1>5, BlockCyclicIndices
  <2>4. indxl2g(l, nb, x, src, np) = i
    BY <2>2, <2>3, <1>5, BlockCyclicIndices
  <2>5. PICK m : m = Cardinality(Before(nr, nb, src, np, x))
    OBVIOUS
  <2>6. Cardinality(Before(i, nb, src, np, x)) = l /\ m \in Nat /\ l < m
    BY <2>2, <2>3, <2>5, LocalIndexCounts
  <2>7. MLoc(d, p) = m
    BY <1>2, <1>9, <2>1, <2>5 DEF MLoc, Rows, RowProc, Before
  <2>8. G2LRow(d, i) = l /\ L2GRow(d, p, l) = i
    BY <2>1, <2>3, <2>4, <1>9 DEF G2LRow, L2GRow
  <2>9. {h \in 0 .. i - 1 : RowProc(d, h) = MyPRow(d, p)}
          = Before(i, nb, src, np, x)
    BY <2>1, <1>9 DEF RowProc, Before
  <2>10. l \in 0 .. m - 1
    BY <2>6
  <2>11. QED
    BY <2>6, <2>7, <2>8, <2>9, <2>10
<1>11. /\ NLoc(d, p) \in Nat /\ G2LCol(d, j) \in 0 .. NLoc(d, p) - 1
       /\ L2GCol(d, p, G2LCol(d, j)) = j
       /\ Cardinality({h \in 0 .. j - 1 : ColProc(d, h) = MyPCol(d, p)})
            = G2LCol(d, j)
  <2>1. PICK nb \in Nat \ {0}, np \in Nat \ {0}, src \in Nat :
           src \in 0 .. np - 1 /\ nb = d.nb /\ np = d.npcols /\ src = d.icsrc
    BY <1>1
  <2>2. y \in 0 .. np - 1 /\ src \in 0 .. np - 1 /\ indxg2p(j, nb, src, np) = y
    BY <1>7, <2>1 DEF ColProc
  <2>3. PICK l \in Nat : l = indxg2l(j, nb, np)
    BY <2>2, <1>5, BlockCyclicIndices
  <2>4. indxl2g(l, nb, y, src, np) = j
    BY <2>2, <2>3, <1>5, BlockCyclicIndices
  <2>5. PICK m : m = Cardinality(Before(nc, nb, src, np, y))
    OBVIOUS
  <2>6. Cardinality(Before(j, nb, src, np, y)) = l /\ m \in Nat /\ l < m
    BY <2>2, <2>3, <2>5, LocalIndexCounts
  <2>7. NLoc(d, p) = m
    BY <1>2, <1>9, <2>1, <2>5 DEF NLoc, Cols, ColProc, Before
  <2>8. G2LCol(d, j) = l /\ L2GCol(d, p, l) = j
    BY <2>1, <2>3, <2>4, <1>9 DEF G2LCol, L2GCol
  <2>9. {h \in 0 .. j - 1 : ColProc(d, h) = MyPCol(d, p)}
          = Before(j, nb, src, np, y)
    BY <2>1, <1>9 DEF ColProc, Before
  <2>10. l \in 0 .. m - 1
    BY <2>6
  <2>11. QED
    BY <2>6, <2>7, <2>8, <2>9, <2>10
<1>12. PICK ir \in 0 .. MLoc(d, p) - 1, ic \in 0 .. NLoc(d, p) - 1 :
         ir = G2LRow(d, i) /\ ic = G2LCol(d, j)
  BY <1>10, <1>11
<1>13. PICK s : s = SlotInPiece(d, p, e)
  OBVIOUS
<1>14. s = Flat(d, MLoc(d, p), NLoc(d, p), ir, ic)
  BY <1>4, <1>12, <1>13 DEF SlotInPiece
<1>15. /\ s \in Places(MLoc(d, p), NLoc(d, p))
       /\ Unflat(d, MLoc(d, p), NLoc(d, p), s) = <<ir, ic>>
  BY <1>3, <1>10, <1>11, <1>14, Flattened
<1>16. s \in DOMAIN Piece(d, p) /\ Piece(d, p)[s] = <<i, j>>
  BY <1>10, <1>11, <1>12, <1>15 DEF Piece, Places
<1>17. CountedSlot(d, p, e) = s
  BY <1>4, <1>10, <1>11, <1>12, <1>14 DEF CountedSlot
<1>18. QED
  BY <1>4, <1>9, <1>13, <1>16, <1>17

(* In column-major order the callers have one basis for rows and columns.  *)
SameBasis(d) == d.rowMajor \/ d.rows = d.cols

(* So the stride that is used is the one the block has.                    *)
LEMMA BlockStride ==
  ASSUME NEW d \in Descriptor, SameBasis(d), NEW e, NEW I, NEW J,
         PairOf(d, e) = <<I, J>>
  PROVE  SlotInBlock(d, e) = Flat(d, d.rows[I], d.cols[J],
                               GetLocalIndex(d.rows, e[1]), GetLocalIndex(d.cols, e[2]))
<1>1. SlotInBlock(d, e) = Flat(d, d.cols[I], d.cols[J],
                            GetLocalIndex(d.rows, e[1]), GetLocalIndex(d.cols, e[2]))
  BY DEF SlotInBlock
<1>2. CASE d.rowMajor
  BY <1>1, <1>2 DEF Flat
<1>3. CASE d.rows = d.cols
  BY <1>1, <1>3
<1>4. QED
  BY <1>2, <1>3 DEF SameBasis

(* Every element has a place in the block of its pair, and a block's       *)
(* places have elements of that pair.                                      *)
LEMMA ElementInBlock ==
  ASSUME NEW d \in Descriptor, SameBasis(d), NEW e \in Rows(d) \X Cols(d)
  PROVE  /\ PairOf(d, e) \in Pairs(d)
         /\ SlotInBlock(d, e) \in DOMAIN Block(d, PairOf(d, e))
         /\ Block(d, PairOf(d, e))[SlotInBlock(d, e)] = e
<1>1. d.rows \in Seq(Nat) /\ d.cols \in Seq(Nat) /\ d.rowMajor \in BOOLEAN
  BY DescriptorTypes
<1>2. PICK g \in 0 .. Total(d.rows) - 1, h \in 0 .. Total(d.cols) - 1 : e = <<g, h>>
  BY DEF Rows, Cols
<1>3. PICK I \in DOMAIN d.rows, J \in DOMAIN d.cols :
         I = GetIAtom(d.rows, g) /\ J = GetIAtom(d.cols, h)
  BY <1>1, Atoms
<1>4. PairOf(d, e) = <<I, J>> /\ PairOf(d, e) \in Pairs(d)
  BY <1>2, <1>3 DEF PairOf, Pairs
<1>5. PICK nr \in Nat, nc \in Nat : nr = d.rows[I] /\ nc = d.cols[J]
  <2>1. d.rows[I] \in Nat /\ d.cols[J] \in Nat
    BY <1>1, ElementOfSeq, LenProperties
  <2>2. QED
    BY <2>1
<1>6. PICK i, j : i = GetLocalIndex(d.rows, g) /\ j = GetLocalIndex(d.cols, h)
  OBVIOUS
<1>7. /\ i \in 0 .. nr - 1 /\ PartRange(d.rows, I) + i = g
      /\ j \in 0 .. nc - 1 /\ PartRange(d.cols, J) + j = h
  BY <1>1, <1>3, <1>5, <1>6, Atoms
<1>8. SlotInBlock(d, e) = Flat(d, nr, nc, i, j)
  BY <1>2, <1>4, <1>5, <1>6, BlockStride
<1>9. PICK s : s = SlotInBlock(d, e)
  OBVIOUS
<1>10. s \in Places(nr, nc) /\ Unflat(d, nr, nc, s) = <<i, j>>
  BY <1>1, <1>7, <1>8, <1>9, Flattened
<1>11. Block(d, <<I, J>>) =
         [slot \in Places(nr, nc) |->
            LET at == Unflat(d, nr, nc, slot)
            IN <<PartRange(d.rows, I) + at[1], PartRange(d.cols, J) + at[2]>>]
  BY <1>5 DEF Block, Places
<1>12. s \in DOMAIN Block(d, <<I, J>>) /\ Block(d, <<I, J>>)[s] = <<g, h>>
  BY <1>7, <1>10, <1>11
<1>13. QED
  BY <1>2, <1>4, <1>9, <1>12

(* Conversely, a place of a block is that of an element of its pair.       *)
LEMMA BlockOfPair ==
  ASSUME NEW d \in Descriptor, SameBasis(d), NEW IJ \in Pairs(d),
         NEW s \in DOMAIN Block(d, IJ)
  PROVE  /\ Block(d, IJ)[s] \in Rows(d) \X Cols(d)
         /\ PairOf(d, Block(d, IJ)[s]) = IJ
         /\ SlotInBlock(d, Block(d, IJ)[s]) = s
<1>1. d.rows \in Seq(Nat) /\ d.cols \in Seq(Nat) /\ d.rowMajor \in BOOLEAN
  BY DescriptorTypes
<1>2. PICK I \in DOMAIN d.rows, J \in DOMAIN d.cols : IJ = <<I, J>>
  BY DEF Pairs
<1>3. PICK nr \in Nat, nc \in Nat : nr = d.rows[I] /\ nc = d.cols[J]
  <2>1. d.rows[I] \in Nat /\ d.cols[J] \in Nat
    BY <1>1, ElementOfSeq, LenProperties
  <2>2. QED
    BY <2>1
<1>4. Block(d, IJ) =
         [slot \in Places(nr, nc) |->
            LET at == Unflat(d, nr, nc, slot)
            IN <<PartRange(d.rows, I) + at[1], PartRange(d.cols, J) + at[2]>>]
  BY <1>2, <1>3 DEF Block, Places
<1>5. s \in Places(nr, nc)
  BY <1>4
<1>6. PICK i \in 0 .. nr - 1, j \in 0 .. nc - 1 :
         Unflat(d, nr, nc, s) = <<i, j>> /\ Flat(d, nr, nc, i, j) = s
  BY <1>1, <1>5, Unflattened
<1>7. PICK g, h : g = PartRange(d.rows, I) + i /\ h = PartRange(d.cols, J) + j
  OBVIOUS
<1>8. Block(d, IJ)[s] = <<g, h>>
  BY <1>4, <1>5, <1>6, <1>7
<1>9. /\ g \in 0 .. Total(d.rows) - 1 /\ GetIAtom(d.rows, g) = I
      /\ GetLocalIndex(d.rows, g) = i
  BY <1>1, <1>3, <1>7, Atoms
<1>10. /\ h \in 0 .. Total(d.cols) - 1 /\ GetIAtom(d.cols, h) = J
       /\ GetLocalIndex(d.cols, h) = j
  BY <1>1, <1>3, <1>7, Atoms
<1>11. PairOf(d, <<g, h>>) = <<I, J>>
  BY <1>9, <1>10 DEF PairOf
<1>12. SlotInBlock(d, <<g, h>>) = Flat(d, nr, nc, i, j)
  BY <1>3, <1>9, <1>10, <1>11, BlockStride
<1>13. <<g, h>> \in Rows(d) \X Cols(d)
  BY <1>9, <1>10 DEF Rows, Cols
<1>14. QED
  BY <1>2, <1>6, <1>8, <1>11, <1>12, <1>13

-----------------------------------------------------------------------------
(* What the tables are relied upon for.                                    *)
TablesTyped(t) ==
  LET E == DOMAIN t.holder
  IN /\ t.order \in Seq(E) /\ \A e \in E : \E k \in DOMAIN t.order : t.order[k] = e
     /\ t.holder \in [E -> DOMAIN t.piece] /\ DOMAIN t.pair = E
     /\ Nobody \notin DOMAIN t.piece
     /\ \A o \in DOMAIN t.owners : \A e \in E :
          t.owners[o][t.pair[e]] \in DOMAIN t.piece \cup {Nobody}

PiecesFound(t) ==
  \A e \in DOMAIN t.holder :
    /\ t.inPiece[e] \in DOMAIN t.piece[t.holder[e]]
    /\ t.piece[t.holder[e]][t.inPiece[e]] = e
    /\ t.counted[e] = t.inPiece[e]

BlocksFound(t) ==
  /\ \A e \in DOMAIN t.holder :
       /\ t.inBlock[e] \in DOMAIN t.block /\ t.block[t.inBlock[e]] = e
       /\ t.inBlock[e][1] = t.pair[e]
  /\ \A id \in DOMAIN t.block :
       /\ t.block[id] \in DOMAIN t.holder /\ t.inBlock[t.block[id]] = id
       /\ t.pair[t.block[id]] = id[1]

Sound(t) == TablesTyped(t) /\ PiecesFound(t) /\ BlocksFound(t)

(* They are, for every descriptor with one basis.                          *)
LEMMA TableIsSound ==
  ASSUME NEW l \in Layout, SameBasis(l.d)
  PROVE  Sound(Table(l)) /\ Table(l).owners = l.owners
<1> DEFINE d == l.d
           E == Rows(d) \X Cols(d)
<1>1. d \in Descriptor /\ SourceInGrid(d)
  BY LayoutAssumption
<1> DEFINE t == [owners  |-> l.owners,
      order   |-> Elements(d),
      pair    |-> [e \in E |-> PairOf(d, e)],
      holder  |-> [e \in E |-> ProcBlacs(d, e[1], e[2])],
      inPiece |-> [e \in E |-> <<Whole, SlotInPiece(d, ProcBlacs(d, e[1], e[2]), e)>>],
      inBlock |-> [e \in E |-> <<PairOf(d, e), SlotInBlock(d, e)>>],
      piece   |-> [p \in Procs(d) |-> Pieces(d, p)],
      block   |-> Blocks(d),
      counted |-> [e \in E |-> <<Whole, CountedSlot(d, ProcBlacs(d, e[1], e[2]), e)>>]]
<1>2. Table(l) = t
  BY <1>1, ElementsAreAll DEF Table
<1>3. DOMAIN t.holder = E /\ DOMAIN t.pair = E /\ DOMAIN t.piece = Procs(d)
  OBVIOUS
<1>4. ASSUME NEW e \in E
      PROVE  /\ t.holder[e] \in Procs(d)
             /\ t.inPiece[e] \in DOMAIN t.piece[t.holder[e]]
             /\ t.piece[t.holder[e]][t.inPiece[e]] = e
             /\ t.counted[e] = t.inPiece[e]
  <2>1. PICK p : p = ProcBlacs(d, e[1], e[2])
    OBVIOUS
  <2>2. PICK s : s = SlotInPiece(d, p, e)
    OBVIOUS
  <2>3. /\ p \in Procs(d) /\ s \in DOMAIN Piece(d, p) /\ Piece(d, p)[s] = e
        /\ CountedSlot(d, p, e) = s
    BY <1>1, <2>1, <2>2, ElementInPiece
  <2>4. /\ t.holder[e] = p /\ t.inPiece[e] = <<Whole, s>>
        /\ t.counted[e] = <<Whole, s>> /\ t.piece[p] = Pieces(d, p)
    BY <2>1, <2>2, <2>3
  <2>5. /\ <<Whole, s>> \in DOMAIN Pieces(d, p)
        /\ Pieces(d, p)[<<Whole, s>>] = Piece(d, p)[s]
    BY <2>3 DEF Pieces
  <2> HIDE DEF t
  <2>6. QED
    BY <2>3, <2>4, <2>5
<1>5. ASSUME NEW e \in E
      PROVE  /\ t.pair[e] \in Pairs(d)
             /\ t.inBlock[e] \in DOMAIN t.block /\ t.block[t.inBlock[e]] = e
             /\ t.inBlock[e][1] = t.pair[e]
  <2>1. PICK IJ, s : IJ = PairOf(d, e) /\ s = SlotInBlock(d, e)
    OBVIOUS
  <2>2. IJ \in Pairs(d) /\ s \in DOMAIN Block(d, IJ) /\ Block(d, IJ)[s] = e
    BY <1>1, <2>1, ElementInBlock
  <2>3. t.pair[e] = IJ /\ t.inBlock[e] = <<IJ, s>> /\ t.block = Blocks(d)
    BY <2>1
  <2>4. <<IJ, s>> \in DOMAIN Blocks(d) /\ Blocks(d)[<<IJ, s>>] = Block(d, IJ)[s]
    BY <2>2 DEF Blocks
  <2> HIDE DEF t
  <2>5. QED
    BY <2>2, <2>3, <2>4
<1>6. ASSUME NEW id \in DOMAIN t.block
      PROVE  /\ t.block[id] \in E /\ t.inBlock[t.block[id]] = id
             /\ t.pair[t.block[id]] = id[1]
  <2>1. t.block = Blocks(d)
    OBVIOUS
  <2>2. PICK IJ \in Pairs(d) : \E s \in DOMAIN Block(d, IJ) : id = <<IJ, s>>
    BY <2>1 DEF Blocks
  <2>3. PICK s \in DOMAIN Block(d, IJ) : id = <<IJ, s>>
    BY <2>2
  <2>4. Blocks(d)[id] = Block(d, IJ)[s]
    BY <2>1, <2>3 DEF Blocks
  <2>5. PICK e : e = Block(d, IJ)[s]
    OBVIOUS
  <2>6. e \in E /\ PairOf(d, e) = IJ /\ SlotInBlock(d, e) = s
    BY <1>1, <2>5, BlockOfPair
  <2>7. t.inBlock[e] = <<IJ, s>> /\ t.pair[e] = IJ
    BY <2>6
  <2> HIDE DEF t
  <2>8. QED
    BY <2>1, <2>3, <2>4, <2>5, <2>6, <2>7
<1>7. t.order \in Seq(E) /\ \A e \in E : \E k \in DOMAIN t.order : t.order[k] = e
  <2>1. t.order = Elements(d)
    OBVIOUS
  <2> HIDE DEF t
  <2>2. QED
    BY <2>1, <1>1, ElementsAreAll
<1>8. ASSUME NEW o \in DOMAIN t.owners, NEW e \in E
      PROVE  t.owners[o][t.pair[e]] \in DOMAIN t.piece \cup {Nobody}
  <2>1. t.owners = l.owners
    OBVIOUS
  <2>2. l.owners[o] \in [Pairs(d) -> Procs(d) \cup {Nobody}]
    BY <2>1, LayoutAssumption
  <2> HIDE DEF t
  <2>3. QED
    BY <2>1, <2>2, <1>3, <1>5
<1>9. Nobody \notin Procs(d)
  BY LayoutAssumption
<1>10. t.holder \in [E -> DOMAIN t.piece]
  BY <1>3, <1>4
<1>11. TablesTyped(t)
  <2> HIDE DEF t
  <2>1. QED
    BY <1>3, <1>7, <1>8, <1>9, <1>10 DEF TablesTyped
<1>12. PiecesFound(t)
  <2> HIDE DEF t
  <2>1. QED
    BY <1>3, <1>4 DEF PiecesFound
<1>13. BlocksFound(t)
  <2> HIDE DEF t
  <2>1. QED
    BY <1>3, <1>5, <1>6 DEF BlocksFound
<1>14. QED
  BY <1>2, <1>11, <1>12, <1>13 DEF Sound

-----------------------------------------------------------------------------
(* The walk through all elements: the list after k of them, from before.   *)
Noted(t, p, q, owner, e) == owner[t.pair[e]] = p /\ t.holder[e] = q

Walk(t, p, q, owner, k, list) ==
  IF k = 0 THEN <<>>
  ELSE IF Noted(t, p, q, owner, t.order[k]) THEN Append(list, t.order[k])
                                              ELSE list

(* The walk exists as a function, so Between is its last list.             *)
LEMMA BetweenDefined ==
  ASSUME NEW t, NEW E, t.order \in Seq(E), NEW p, NEW q, NEW owner
  PROVE  \E f : /\ f = [k \in 0 .. Len(t.order) |-> Walk(t, p, q, owner, k, f[k - 1])]
                /\ Between(t, p, q, owner) = f[Len(t.order)]
<1> DEFINE To(m) == \E f : f = [k \in 0 .. m |-> Walk(t, p, q, owner, k, f[k - 1])]
           G == {m \in Nat : To(m)}
<1>1. Len(t.order) \in Nat
  BY LenProperties
<1>2. 0 \in G
  <2> DEFINE g == [k \in 0 .. 0 |-> <<>>]
  <2>1. g = [k \in 0 .. 0 |-> Walk(t, p, q, owner, k, g[k - 1])]
    BY DEF Walk
  <2>2. QED
    BY <2>1
<1>3. ASSUME NEW n \in Nat, To(n) PROVE To(n + 1)
  <2>1. PICK f : f = [k \in 0 .. n |-> Walk(t, p, q, owner, k, f[k - 1])]
    BY <1>3
  <2> DEFINE m == n + 1
             g == [k \in 0 .. m |-> IF k = m THEN Walk(t, p, q, owner, m, f[m - 1]) ELSE f[k]]
  <2>2. \A k \in 0 .. n : g[k] = f[k]
    OBVIOUS
  <2>3. \A k \in 0 .. m : k # 0 => g[k - 1] = f[k - 1]
    BY <2>2
  <2>4. \A k \in 0 .. m : g[k] = Walk(t, p, q, owner, k, g[k - 1])
    <3> SUFFICES ASSUME NEW k \in 0 .. m PROVE g[k] = Walk(t, p, q, owner, k, g[k - 1])
      OBVIOUS
    <3>1. CASE k = m
      BY <3>1, <2>3
    <3>2. CASE k # m
      <4>1. k \in 0 .. n
        BY <3>2
      <4>2. g[k] = Walk(t, p, q, owner, k, f[k - 1])
        BY <4>1, <2>1, <2>2
      <4>3. QED
        BY <4>2, <2>3 DEF Walk
    <3>3. QED
      BY <3>1, <3>2
  <2>5. g = [k \in 0 .. m |-> Walk(t, p, q, owner, k, g[k - 1])]
    BY <2>4
  <2>6. QED
    BY <2>5
<1> HIDE DEF To
<1>4. To(Len(t.order))
  <2>1. \A m \in 0 .. Len(t.order) - 1 : m \in G => m + 1 \in G
    BY <1>1, <1>3
  <2> HIDE DEF G
  <2>2. 0 .. Len(t.order) \subseteq G
    BY <1>1, <1>2, <2>1, UpTo
  <2> USE DEF G
  <2>3. QED
    BY <1>1, <2>2
<1> USE DEF To
<1> DEFINE F(f) == f = [k \in 0 .. Len(t.order) |-> Walk(t, p, q, owner, k, f[k - 1])]
<1>5. F(CHOOSE f : F(f))
  BY <1>4
<1>6. Between(t, p, q, owner) = (CHOOSE f : F(f))[Len(t.order)]
  BY DEF Between, Walk, Noted
<1>7. QED
  BY <1>5, <1>6

(* It notes what one process has in blocks and the other in its piece.     *)
LEMMA BetweenFacts ==
  ASSUME NEW t, TablesTyped(t), NEW p, NEW q, NEW owner
  PROVE  /\ Between(t, p, q, owner) \in Seq(DOMAIN t.holder)
         /\ \A i \in DOMAIN Between(t, p, q, owner) :
              Noted(t, p, q, owner, Between(t, p, q, owner)[i])
         /\ \A e \in DOMAIN t.holder : Noted(t, p, q, owner, e) =>
              \E i \in DOMAIN Between(t, p, q, owner) : Between(t, p, q, owner)[i] = e
<1> DEFINE E == DOMAIN t.holder
           s == t.order
<1>1. s \in Seq(E) /\ \A e \in E : \E k \in DOMAIN s : s[k] = e
  BY DEF TablesTyped
<1> HIDE DEF E
<1>2. Len(s) \in Nat /\ DOMAIN s = 1 .. Len(s) /\ \A i \in 1 .. Len(s) : s[i] \in E
  BY <1>1, LenProperties, ElementOfSeq
<1>3. PICK f : /\ f = [k \in 0 .. Len(s) |-> Walk(t, p, q, owner, k, f[k - 1])]
               /\ Between(t, p, q, owner) = f[Len(s)]
  BY <1>1, BetweenDefined
<1> DEFINE Good(m) == /\ f[m] \in Seq(E)
                      /\ \A i \in DOMAIN f[m] : Noted(t, p, q, owner, f[m][i])
                      /\ \A k \in 1 .. m : Noted(t, p, q, owner, s[k]) =>
                           \E i \in DOMAIN f[m] : f[m][i] = s[k]
           G == {m \in 0 .. Len(s) : Good(m)}
<1>4. Good(0)
  <2>1. f[0] = <<>>
    BY <1>2, <1>3 DEF Walk
  <2>2. <<>> \in Seq(E) /\ DOMAIN <<>> = {}
    BY EmptySeq
  <2>3. QED
    BY <2>1, <2>2
<1>5. ASSUME NEW m \in 0 .. Len(s) - 1, Good(m) PROVE Good(m + 1)
  <2>1. m + 1 \in 1 .. Len(s) /\ m \in Nat /\ (m + 1) - 1 = m
    BY <1>2
  <2>2. PICK x : x = s[m + 1] /\ x \in E
    BY <1>2, <2>1
  <2>3. f[m + 1] = IF Noted(t, p, q, owner, x) THEN Append(f[m], x) ELSE f[m]
    <3>1. f[m + 1] = Walk(t, p, q, owner, m + 1, f[(m + 1) - 1])
      BY <2>1, <1>2, <1>3
    <3>2. QED
      BY <3>1, <2>1, <2>2 DEF Walk
  <2>4. \A k \in 1 .. m + 1 : k \in 1 .. m \/ s[k] = x
    BY <2>1, <2>2
  <2>5. CASE ~ Noted(t, p, q, owner, x)
    <3>1. f[m + 1] = f[m]
      BY <2>3, <2>5
    <3>2. \A k \in 1 .. m + 1 : Noted(t, p, q, owner, s[k]) => k \in 1 .. m
      BY <2>4, <2>5
    <3>3. QED
      BY <3>1, <3>2, <1>5
  <2>6. CASE Noted(t, p, q, owner, x)
    <3> DEFINE v == f[m]
               u == Append(v, x)
    <3>1. v \in Seq(E) /\ Len(v) \in Nat /\ DOMAIN v = 1 .. Len(v)
      BY <1>5, LenProperties
    <3>2. /\ u \in Seq(E) /\ Len(u) = Len(v) + 1 /\ u[Len(v) + 1] = x
          /\ \A i \in 1 .. Len(v) : u[i] = v[i]
      BY <3>1, <2>2, AppendProperties
    <3>3. DOMAIN u = 1 .. Len(v) + 1
      BY <3>2, LenProperties
    <3>4. f[m + 1] = u
      BY <2>3, <2>6
    <3>5. \A i \in 1 .. Len(v) : Noted(t, p, q, owner, v[i])
      BY <3>1, <1>5
    <3>6. \A k \in 1 .. m : Noted(t, p, q, owner, s[k]) => \E i \in 1 .. Len(v) : v[i] = s[k]
      BY <3>1, <1>5
    <3> HIDE DEF v, u, s, Good, G
    <3>7. \A i \in DOMAIN u : Noted(t, p, q, owner, u[i])
      <4>1. \A i \in 1 .. Len(v) + 1 : i \in 1 .. Len(v) \/ i = Len(v) + 1
        BY <3>1
      <4>2. QED
        BY <4>1, <3>2, <3>3, <3>5, <2>6
    <3>8. ASSUME NEW k \in 1 .. m + 1, Noted(t, p, q, owner, s[k])
          PROVE  \E i \in DOMAIN u : u[i] = s[k]
      <4>1. CASE k \in 1 .. m
        <5>1. PICK i \in 1 .. Len(v) : v[i] = s[k]
          BY <4>1, <3>6, <3>8
        <5>2. i \in DOMAIN u /\ u[i] = s[k]
          BY <5>1, <3>1, <3>2, <3>3
        <5>3. QED
          BY <5>2
      <4>2. CASE s[k] = x
        <5>1. Len(v) + 1 \in DOMAIN u
          BY <3>1, <3>3
        <5>2. QED
          BY <5>1, <4>2, <3>2
      <4>3. QED
        BY <4>1, <4>2, <2>4
    <3> USE DEF Good
    <3>9. QED
      BY <3>2, <3>4, <3>7, <3>8
  <2>7. QED
    BY <2>5, <2>6
<1> HIDE DEF Good, s
<1>6. Good(Len(s))
  <2>1. 0 \in G /\ \A m \in 0 .. Len(s) - 1 : m \in G => m + 1 \in G
    BY <1>2, <1>4, <1>5
  <2> HIDE DEF G
  <2>2. 0 .. Len(s) \subseteq G
    BY <1>2, <2>1, UpTo
  <2> USE DEF G
  <2>3. QED
    BY <1>2, <2>2
<1>7. QED
  BY <1>1, <1>2, <1>3, <1>6 DEF Good, E
-----------------------------------------------------------------------------
(* The inductive invariant.  The elements p sends to q in step k of the    *)
(* script, and the message that is made of them.                           *)
Exchanged(t, s, k, p, q) ==
  IF p = q \/ s[k].op = "init" THEN <<>>
  ELSE IF s[k].op = "to blacs" THEN Between(t, p, q, t.owners[s[k].owners])
                               ELSE Between(t, q, p, t.owners[s[k].owners])

Message(t, s, k, p, q) ==
  [i \in DOMAIN Exchanged(t, s, k, p, q) |-> Value(k, Exchanged(t, s, k, p, q)[i])]

(* A number says of which step it is, so a message does too.               *)
StepOf(m) == m[1][1]

(* The steps of which there is a message to q and not yet taken, where p   *)
(* has started those up to n and q has ended those up to m.                *)
Due(t, s, m, n, p, q) ==
  {k \in Nat : m < k /\ k <= n /\ Exchanged(t, s, k, p, q) # <<>>}

Started(p) == IF waiting[p] THEN done[p] + 1 ELSE done[p]

(* The lists of a process for given owners, and what it copies itself.     *)
MyPairs(t, p, owner) ==
  {t.pair[e] : e \in {e \in DOMAIN t.pair : owner[t.pair[e]] = p}}

Lists(t, p, owner) ==
  [pairs |-> MyPairs(t, p, owner),
   blacs |-> [q \in DOMAIN t.piece |-> IF q = p THEN <<>>
                ELSE Slots(t.inPiece, Between(t, q, p, owner))],
   ap    |-> [q \in DOMAIN t.piece |-> IF q = p THEN <<>>
                ELSE Slots(t.inBlock, Between(t, p, q, owner))]]

Own(t, s, k, p) ==
  LET pairs == MyPairs(t, p, t.owners[s[k].owners])
  IN IF s[k].op = "to blacs"
       THEN [id \in DOMAIN t.piece[p] |->
               LET e == t.piece[p][id]
               IN IF t.pair[e] \in pairs THEN Value(k, e) ELSE Zero]
       ELSE [id \in {id \in DOMAIN t.block : id[1] \in pairs} |->
               LET e == t.block[id]
               IN IF t.holder[e] = p THEN Value(k, e) ELSE Zero]

TypeInv ==
  /\ layout \in {Table(l) : l \in Layout} /\ script \in Script /\ eager \in BOOLEAN
  /\ done \in [Proc -> 0 .. Len(script)] /\ waiting \in [Proc -> BOOLEAN]
  /\ DOMAIN local = Proc
  /\ chan \in [Proc \X Proc -> Seq(Seq(Nat \X DOMAIN layout.holder))]

(* A process has the lists of the last step it ended.                      *)
ListsInv ==
  sched = [p \in Proc |-> IF done[p] = 0 THEN NoSchedule
                          ELSE Lists(layout, p, Owner(done[p]))]

WaitInv ==
  \A p \in Proc : waiting[p] =>
    /\ done[p] < Len(script) /\ Now(p) # "init"
    /\ local[p] = Own(layout, script, done[p] + 1, p)

(* The messages on the way are those due, in the order of the steps; and   *)
(* none was taken before it was sent.                                      *)
InOrder(c, t, s, m, n, p, q) ==
  /\ \A i \in DOMAIN c : /\ StepOf(c[i]) \in Due(t, s, m, n, p, q)
                         /\ c[i] = Message(t, s, StepOf(c[i]), p, q)
  /\ \A i, j \in DOMAIN c : i < j => StepOf(c[i]) < StepOf(c[j])
  /\ \A k \in Due(t, s, m, n, p, q) : \E i \in DOMAIN c : StepOf(c[i]) = k
  /\ \A k \in Nat : n < k /\ k <= m => Exchanged(t, s, k, p, q) = <<>>

ChanInv ==
  \A p, q \in Proc :
    InOrder(chan[<<p, q>>], layout, script, done[q], Started(p), p, q)

IInv == TypeInv /\ ListsInv /\ WaitInv /\ ChanInv

(* The assumption on the bases.                                            *)
OneBasis == \A l \in Layout : SameBasis(l.d)

-----------------------------------------------------------------------------
(* What the invariant says of the tables and of the script.                *)
LEMMA LayoutSound ==
  ASSUME OneBasis, TypeInv
  PROVE  Sound(layout)
BY TableIsSound DEF OneBasis, TypeInv

(* The steps of a script; a conversion has the owners of the one before.   *)
LEMMA ScriptFacts ==
  ASSUME OneBasis, TypeInv
  PROVE  /\ Len(script) \in Nat
         /\ \A k \in 1 .. Len(script) :
              /\ script[k].op \in {"init", "to blacs", "to ap"}
              /\ script[k].owners \in DOMAIN layout.owners
              /\ script[k].op # "init" => /\ k - 1 \in 1 .. Len(script)
                                          /\ script[k - 1].owners = script[k].owners
<1>1. PICK l \in Layout : layout = Table(l)
  BY DEF TypeInv
<1>2. layout.owners = l.owners
  BY <1>1, TableIsSound DEF OneBasis
<1>3. script \in Script
  BY DEF TypeInv
<1> DEFINE S == [op: {"init", "to blacs", "to ap"},
                 owners: UNION {DOMAIN m.owners : m \in Layout}]
<1>4. script \in Seq(S)
  BY <1>3, ScriptAssumption
<1>5. Len(script) \in Nat /\ DOMAIN script = 1 .. Len(script)
  BY <1>4, LenProperties
<1>6. ASSUME NEW k \in 1 .. Len(script)
      PROVE  /\ script[k].op \in {"init", "to blacs", "to ap"}
             /\ script[k].owners \in DOMAIN layout.owners
             /\ script[1].op = "init"
             /\ script[k].op # "init" => script[k].owners = script[k - 1].owners
  <2>1. script[k] \in S
    BY <1>4, ElementOfSeq
  <2>2. script[k].op \in {"init", "to blacs", "to ap"}
    BY <2>1
  <2>3. QED
    BY <2>2, <1>2, <1>3, <1>5, ScriptAssumption
<1>7. ASSUME NEW k \in 1 .. Len(script), script[k].op # "init"
      PROVE  k - 1 \in 1 .. Len(script)
  <2>1. k # 1
    BY <1>6, <1>7
  <2>2. QED
    BY <2>1, <1>5
<1>8. QED
  BY <1>5, <1>6, <1>7

(* The elements of a message: what its sender has and its receiver lacks.  *)
Moved(t, s, k, p, q, e) ==
  LET owner == t.owners[s[k].owners]
  IN /\ p # q /\ s[k].op # "init"
     /\ IF s[k].op = "to blacs" THEN Noted(t, p, q, owner, e)
                                ELSE Noted(t, q, p, owner, e)

(* The list has these elements and no other.                               *)
LEMMA ExchangedFacts ==
  ASSUME NEW t, TablesTyped(t), NEW s, NEW k, NEW p, NEW q,
         NEW x, x = Exchanged(t, s, k, p, q)
  PROVE  /\ x \in Seq(DOMAIN t.holder)
         /\ \A i \in DOMAIN x : x[i] \in DOMAIN t.holder /\ Moved(t, s, k, p, q, x[i])
         /\ \A e \in DOMAIN t.holder :
              Moved(t, s, k, p, q, e) => \E i \in DOMAIN x : x[i] = e
<1>1. PICK owner : owner = t.owners[s[k].owners]
  OBVIOUS
<1>2. CASE p = q \/ s[k].op = "init"
  <2>1. x = <<>>
    BY <1>2 DEF Exchanged
  <2>2. <<>> \in Seq(DOMAIN t.holder) /\ DOMAIN <<>> = {}
    BY EmptySeq
  <2>3. QED
    BY <2>1, <2>2, <1>2 DEF Moved
<1>3. CASE ~ (p = q \/ s[k].op = "init") /\ s[k].op = "to blacs"
  <2>1. x = Between(t, p, q, owner)
    BY <1>1, <1>3 DEF Exchanged
  <2>2. x \in Seq(DOMAIN t.holder)
    BY <2>1, BetweenFacts
  <2>3. \A i \in DOMAIN x : x[i] \in DOMAIN t.holder
    BY <2>2, LenProperties, ElementOfSeq
  <2>4. \A i \in DOMAIN x : Noted(t, p, q, owner, x[i])
    BY <2>1, BetweenFacts
  <2>5. \A e \in DOMAIN t.holder :
           Noted(t, p, q, owner, e) => \E i \in DOMAIN x : x[i] = e
    BY <2>1, BetweenFacts
  <2>6. \A e : Moved(t, s, k, p, q, e) <=> Noted(t, p, q, owner, e)
    BY <1>1, <1>3 DEF Moved
  <2>7. QED
    BY <2>2, <2>3, <2>4, <2>5, <2>6
<1>4. CASE ~ (p = q \/ s[k].op = "init") /\ s[k].op # "to blacs"
  <2>1. x = Between(t, q, p, owner)
    BY <1>1, <1>4 DEF Exchanged
  <2>2. x \in Seq(DOMAIN t.holder)
    BY <2>1, BetweenFacts
  <2>3. \A i \in DOMAIN x : x[i] \in DOMAIN t.holder
    BY <2>2, LenProperties, ElementOfSeq
  <2>4. \A i \in DOMAIN x : Noted(t, q, p, owner, x[i])
    BY <2>1, BetweenFacts
  <2>5. \A e \in DOMAIN t.holder :
           Noted(t, q, p, owner, e) => \E i \in DOMAIN x : x[i] = e
    BY <2>1, BetweenFacts
  <2>6. \A e : Moved(t, s, k, p, q, e) <=> Noted(t, q, p, owner, e)
    BY <1>1, <1>4 DEF Moved
  <2>7. QED
    BY <2>2, <2>3, <2>4, <2>5, <2>6
<1>5. QED
  BY <1>2, <1>3, <1>4

(* A message is as long as its list, and says of which step it is.         *)
LEMMA MessageTyped ==
  ASSUME NEW t, TablesTyped(t), NEW s, NEW k \in Nat, NEW p, NEW q
  PROVE  Message(t, s, k, p, q) \in Seq(Nat \X DOMAIN t.holder)
<1>1. PICK x : x = Exchanged(t, s, k, p, q)
  OBVIOUS
<1>2. x \in Seq(DOMAIN t.holder) /\ \A i \in DOMAIN x : x[i] \in DOMAIN t.holder
  BY <1>1, ExchangedFacts
<1>3. Message(t, s, k, p, q) = [i \in DOMAIN x |-> <<k, x[i]>>]
  BY <1>1 DEF Message, Value
<1>4. Len(x) \in Nat /\ DOMAIN x = 1 .. Len(x)
  BY <1>2, LenProperties
<1>5. Message(t, s, k, p, q) \in [1 .. Len(x) -> Nat \X DOMAIN t.holder]
  BY <1>2, <1>3, <1>4
<1>6. QED
  BY <1>4, <1>5, IsASeq

(* A message that is not empty says of which step it is.                   *)
LEMMA MessageStep ==
  ASSUME NEW t, TablesTyped(t), NEW s, NEW k, NEW p, NEW q,
         Exchanged(t, s, k, p, q) # <<>>
  PROVE  StepOf(Message(t, s, k, p, q)) = k
<1>1. PICK x : x = Exchanged(t, s, k, p, q)
  OBVIOUS
<1>2. x \in Seq(DOMAIN t.holder) /\ x # <<>>
  BY <1>1, ExchangedFacts
<1>3. 1 \in DOMAIN x
  BY <1>2, LenProperties, EmptySeq
<1>4. Message(t, s, k, p, q)[1] = <<k, x[1]>>
  BY <1>1, <1>3 DEF Message, Value
<1>5. QED
  BY <1>4 DEF StepOf

-----------------------------------------------------------------------------
(* A channel when its sender starts a step: with a message, ...            *)
LEMMA InOrderSent ==
  ASSUME NEW S, NEW c \in Seq(S), NEW t, TablesTyped(t), NEW s, NEW m \in Nat,
         NEW n \in Nat, NEW p, NEW q, InOrder(c, t, s, m, n, p, q),
         Exchanged(t, s, n + 1, p, q) # <<>>, Message(t, s, n + 1, p, q) \in S
  PROVE  InOrder(Append(c, Message(t, s, n + 1, p, q)), t, s, m, n + 1, p, q)
<1>1. PICK k \in Nat : k = n + 1
  OBVIOUS
<1>2. PICK x \in S : x = Message(t, s, k, p, q)
  BY <1>1
<1>3. PICK d : d = Append(c, x)
  OBVIOUS
<1>4. Len(c) \in Nat /\ DOMAIN c = 1 .. Len(c)
  BY LenProperties
<1>5. /\ d \in Seq(S) /\ Len(d) = Len(c) + 1 /\ d[Len(c) + 1] = x
      /\ \A i \in 1 .. Len(c) : d[i] = c[i]
  BY <1>3, AppendProperties
<1>6. DOMAIN d = 1 .. Len(c) + 1
  BY <1>5, LenProperties
<1>7. StepOf(x) = k /\ Exchanged(t, s, k, p, q) # <<>>
  <2>1. Exchanged(t, s, k, p, q) # <<>>
    BY <1>1
  <2>2. StepOf(Message(t, s, k, p, q)) = k
    BY <2>1, MessageStep
  <2>3. QED
    BY <2>1, <2>2, <1>2
<1>8. m < k
  <2>1. \A j \in Nat : n < j /\ j <= m => Exchanged(t, s, j, p, q) = <<>>
    BY DEF InOrder
  <2>2. n < k
    BY <1>1
  <2>3. ~ (k <= m)
    BY <2>1, <2>2, <1>7
  <2>4. QED
    BY <2>3
<1>9. ASSUME NEW i \in 1 .. Len(c)
      PROVE  /\ StepOf(c[i]) \in Due(t, s, m, n, p, q) /\ i \in DOMAIN c
             /\ c[i] = Message(t, s, StepOf(c[i]), p, q)
             /\ StepOf(c[i]) \in Nat /\ StepOf(c[i]) < k
  <2>1. StepOf(c[i]) \in Due(t, s, m, n, p, q) /\ c[i] = Message(t, s, StepOf(c[i]), p, q)
    BY <1>4 DEF InOrder
  <2>2. PICK j : j = StepOf(c[i])
    OBVIOUS
  <2>3. j \in Nat /\ j <= n
    BY <2>1, <2>2 DEF Due
  <2>4. QED
    BY <2>1, <2>2, <2>3, <1>1, <1>4
<1>10. \A j \in Due(t, s, m, n, p, q) : j \in Due(t, s, m, k, p, q)
  BY <1>1 DEF Due
<1>11. k \in Due(t, s, m, k, p, q)
  BY <1>7, <1>8 DEF Due
<1>12. \A j \in Due(t, s, m, k, p, q) : j \in Due(t, s, m, n, p, q) \/ j = k
  BY <1>1 DEF Due
<1>13. \A i \in 1 .. Len(c) + 1 : i \in 1 .. Len(c) \/ i = Len(c) + 1
  BY <1>4
<1>14. ASSUME NEW i \in DOMAIN d
       PROVE  /\ StepOf(d[i]) \in Due(t, s, m, k, p, q)
              /\ d[i] = Message(t, s, StepOf(d[i]), p, q)
  <2>1. CASE i \in 1 .. Len(c)
    BY <2>1, <1>5, <1>9, <1>10
  <2>2. CASE i = Len(c) + 1
    BY <2>2, <1>2, <1>5, <1>7, <1>11
  <2>3. QED
    BY <2>1, <2>2, <1>6, <1>13
<1>15. ASSUME NEW i \in DOMAIN d, NEW j \in DOMAIN d, i < j
       PROVE  StepOf(d[i]) < StepOf(d[j])
  <2>1. i \in 1 .. Len(c)
    BY <1>4, <1>6, <1>15
  <2>2. CASE j \in 1 .. Len(c)
    BY <2>1, <2>2, <1>4, <1>5, <1>15 DEF InOrder
  <2>3. CASE j = Len(c) + 1
    BY <2>1, <2>3, <1>5, <1>7, <1>9
  <2>4. QED
    BY <2>2, <2>3, <1>6, <1>13
<1>16. ASSUME NEW j \in Due(t, s, m, k, p, q)
       PROVE  \E i \in DOMAIN d : StepOf(d[i]) = j
  <2>1. CASE j \in Due(t, s, m, n, p, q)
    <3>1. PICK i \in 1 .. Len(c) : StepOf(c[i]) = j
      BY <2>1, <1>4 DEF InOrder
    <3>2. i \in DOMAIN d /\ d[i] = c[i]
      BY <1>4, <1>5, <1>6
    <3>3. QED
      BY <3>1, <3>2
  <2>2. CASE j = k
    <3>1. Len(c) + 1 \in DOMAIN d
      BY <1>4, <1>6
    <3>2. QED
      BY <3>1, <2>2, <1>5, <1>7
  <2>3. QED
    BY <2>1, <2>2, <1>12
<1>17. ASSUME NEW j \in Nat, k < j, j <= m PROVE Exchanged(t, s, j, p, q) = <<>>
  BY <1>8, <1>17
<1>18. InOrder(d, t, s, m, k, p, q)
  BY <1>14, <1>15, <1>16, <1>17 DEF InOrder
<1>19. QED
  BY <1>1, <1>2, <1>3, <1>18

(* ... and without one.                                                    *)
LEMMA InOrderNotSent ==
  ASSUME NEW c, NEW t, NEW s, NEW m \in Nat, NEW n \in Nat, NEW p, NEW q,
         InOrder(c, t, s, m, n, p, q), Exchanged(t, s, n + 1, p, q) = <<>>
  PROVE  InOrder(c, t, s, m, n + 1, p, q)
<1>1. PICK k \in Nat : k = n + 1
  OBVIOUS
<1>2. Due(t, s, m, k, p, q) = Due(t, s, m, n, p, q)
  <2>1. \A j \in Nat : Exchanged(t, s, j, p, q) # <<>> => (j <= k <=> j <= n)
    BY <1>1
  <2>2. QED
    BY <2>1 DEF Due
<1>3. \A j \in Nat : k < j => n < j
  BY <1>1
<1>4. InOrder(c, t, s, m, k, p, q)
  BY <1>2, <1>3 DEF InOrder
<1>5. QED
  BY <1>1, <1>4

(* A channel when its receiver ends a step: the first message is the one   *)
(* of this step, if there is any, ...                                      *)
LEMMA InOrderTaken ==
  ASSUME NEW S, NEW c \in Seq(S), c # <<>>, NEW t, NEW s, NEW m \in Nat,
         NEW n \in Nat, NEW p, NEW q, InOrder(c, t, s, m, n, p, q),
         Exchanged(t, s, m + 1, p, q) # <<>>
  PROVE  /\ Head(c) = Message(t, s, m + 1, p, q)
         /\ Tail(c) \in Seq(S)
         /\ InOrder(Tail(c), t, s, m + 1, n, p, q)
<1>1. PICK k \in Nat : k = m + 1
  OBVIOUS
<1>2. PICK l \in Nat : l = Len(c) /\ l # 0 /\ DOMAIN c = 1 .. l
  BY LenProperties, EmptySeq
<1>3. PICK d : d = Tail(c)
  OBVIOUS
<1>4. d \in Seq(S) /\ Len(d) = l - 1 /\ \A i \in 1 .. l - 1 : d[i] = c[i + 1]
  BY <1>2, <1>3, HeadTailProperties
<1>5. DOMAIN d = 1 .. l - 1
  BY <1>4, LenProperties
<1>6. Head(c) = c[1] /\ 1 \in DOMAIN c
  BY <1>2
<1>7. \A i \in DOMAIN c : /\ StepOf(c[i]) \in Due(t, s, m, n, p, q)
                          /\ c[i] = Message(t, s, StepOf(c[i]), p, q)
  BY DEF InOrder
<1>8. \A i, j \in DOMAIN c : i < j => StepOf(c[i]) < StepOf(c[j])
  BY DEF InOrder
<1>9. k <= n
  <2>1. PICK j \in Nat : j = StepOf(c[1]) /\ m < j /\ j <= n
    BY <1>6, <1>7 DEF Due
  <2>2. QED
    BY <2>1, <1>1
<1>10. k \in Due(t, s, m, n, p, q)
  BY <1>1, <1>9 DEF Due
<1>11. StepOf(c[1]) = k
  <2>1. PICK i \in DOMAIN c : StepOf(c[i]) = k
    BY <1>10 DEF InOrder
  <2>2. CASE i = 1
    BY <2>1, <2>2
  <2>3. CASE i # 1
    <3>1. 1 < i
      BY <2>3, <1>2
    <3>2. StepOf(c[1]) < k
      BY <2>1, <3>1, <1>6, <1>8
    <3>3. PICK j \in Nat : j = StepOf(c[1]) /\ m < j
      BY <1>6, <1>7 DEF Due
    <3>4. QED
      BY <3>2, <3>3, <1>1
  <2>4. QED
    BY <2>2, <2>3
<1>12. Head(c) = Message(t, s, k, p, q)
  BY <1>6, <1>7, <1>11
<1>13. \A j : j \in Due(t, s, k, n, p, q) <=> j \in Due(t, s, m, n, p, q) /\ j # k
  BY <1>1 DEF Due
<1>14. ASSUME NEW i \in DOMAIN d
       PROVE  /\ i + 1 \in DOMAIN c /\ d[i] = c[i + 1] /\ i \in Nat
              /\ StepOf(d[i]) \in Due(t, s, k, n, p, q)
              /\ d[i] = Message(t, s, StepOf(d[i]), p, q)
  <2>1. i + 1 \in DOMAIN c /\ d[i] = c[i + 1] /\ 1 < i + 1 /\ i \in Nat
    BY <1>2, <1>4, <1>5
  <2>2. StepOf(c[1]) < StepOf(c[i + 1])
    BY <2>1, <1>6, <1>8
  <2>3. StepOf(c[i + 1]) # k
    BY <2>2, <1>11
  <2>4. QED
    BY <2>1, <2>3, <1>7, <1>13
<1>15. ASSUME NEW i \in DOMAIN d, NEW j \in DOMAIN d, i < j
       PROVE  StepOf(d[i]) < StepOf(d[j])
  <2>1. i + 1 < j + 1
    BY <1>14, <1>15
  <2>2. QED
    BY <2>1, <1>8, <1>14
<1>16. ASSUME NEW j \in Due(t, s, k, n, p, q)
       PROVE  \E i \in DOMAIN d : StepOf(d[i]) = j
  <2>1. j \in Due(t, s, m, n, p, q) /\ j # k
    BY <1>13
  <2>2. PICK i \in DOMAIN c : StepOf(c[i]) = j
    BY <2>1 DEF InOrder
  <2>3. i # 1
    BY <2>1, <2>2, <1>11
  <2>4. i - 1 \in DOMAIN d /\ (i - 1) + 1 = i
    BY <2>3, <1>2, <1>5
  <2>5. d[i - 1] = c[i]
    BY <2>4, <1>14
  <2>6. QED
    BY <2>2, <2>4, <2>5
<1>17. ASSUME NEW j \in Nat, n < j, j <= k PROVE Exchanged(t, s, j, p, q) = <<>>
  BY <1>9, <1>17
<1>18. InOrder(d, t, s, k, n, p, q)
  BY <1>14, <1>15, <1>16, <1>17 DEF InOrder
<1>19. QED
  BY <1>1, <1>3, <1>4, <1>12, <1>18

(* ... and stays if there is none.                                         *)
LEMMA InOrderNotTaken ==
  ASSUME NEW c, NEW t, NEW s, NEW m \in Nat, NEW n \in Nat, NEW p, NEW q,
         InOrder(c, t, s, m, n, p, q), Exchanged(t, s, m + 1, p, q) = <<>>
  PROVE  InOrder(c, t, s, m + 1, n, p, q)
<1>1. PICK k \in Nat : k = m + 1
  OBVIOUS
<1>2. Due(t, s, k, n, p, q) = Due(t, s, m, n, p, q)
  <2>1. \A j \in Nat : Exchanged(t, s, j, p, q) # <<>> => (k < j <=> m < j)
    BY <1>1
  <2>2. QED
    BY <2>1 DEF Due
<1>3. \A j \in Nat : n < j /\ j <= k => Exchanged(t, s, j, p, q) = <<>>
  <2>1. \A j \in Nat : j <= k => j <= m \/ j = k
    BY <1>1
  <2>2. QED
    BY <2>1, <1>1 DEF InOrder
<1>4. InOrder(c, t, s, k, n, p, q)
  BY <1>2, <1>3 DEF InOrder
<1>5. QED
  BY <1>1, <1>4

-----------------------------------------------------------------------------
(* The slots of a list, and of an empty one.                               *)
LEMMA SlotsFacts ==
  ASSUME NEW S, NEW x \in Seq(S), NEW f
  PROVE  /\ DOMAIN Slots(f, x) = DOMAIN x
         /\ \A i \in DOMAIN x : Slots(f, x)[i] = f[x[i]]
         /\ Slots(f, x) = <<>> <=> x = <<>>
<1>1. DOMAIN Slots(f, x) = DOMAIN x /\ \A i \in DOMAIN x : Slots(f, x)[i] = f[x[i]]
  BY DEF Slots
<1>2. Len(x) \in Nat /\ DOMAIN x = 1 .. Len(x)
  BY LenProperties
<1>3. DOMAIN <<>> = {}
  OBVIOUS
<1>4. ASSUME x = <<>> PROVE Slots(f, x) = <<>>
  <2>1. DOMAIN x = {}
    BY <1>3, <1>4
  <2>2. Slots(f, x) = [i \in {} |-> f[x[i]]]
    BY <2>1 DEF Slots
  <2>3. QED
    BY <2>2
<1>5. ASSUME Slots(f, x) = <<>> PROVE x = <<>>
  <2>1. DOMAIN x = {}
    BY <1>1, <1>3, <1>5
  <2>2. Len(x) = 0
    <3>1. Len(x) # 0 => 1 \in DOMAIN x
      BY <1>2
    <3>2. QED
      BY <2>1, <3>1
  <2>3. QED
    BY <2>2, EmptySeq
<1>6. QED
  BY <1>1, <1>4, <1>5

(* The slots the numbers of a message are taken from, and put into.        *)
FromSlots(t, op) == IF op = "to blacs" THEN t.inBlock ELSE t.inPiece
ToSlots(t, op)   == IF op = "to blacs" THEN t.inPiece ELSE t.inBlock

(* The lists a process uses in a conversion are those for its owners.      *)
LEMMA ListsUsed ==
  ASSUME OneBasis, IInv, NEW p \in Proc, done[p] < Len(script), Now(p) # "init"
  PROVE  /\ done[p] + 1 \in 1 .. Len(script)
         /\ sched[p] = Lists(layout, p, Owner(done[p] + 1))
<1>1. TypeInv /\ ListsInv
  BY DEF IInv
<1>2. done[p] \in 0 .. Len(script) /\ Len(script) \in Nat
  BY <1>1, ScriptFacts DEF TypeInv
<1>3. PICK k \in 1 .. Len(script) : k = done[p] + 1
  BY <1>2
<1>4. script[k].op # "init"
  BY <1>3 DEF Now
<1>5. k - 1 \in 1 .. Len(script) /\ script[k - 1].owners = script[k].owners
  BY <1>1, <1>4, ScriptFacts
<1>6. k - 1 = done[p]
  BY <1>2, <1>3
<1>7. done[p] # 0
  BY <1>5, <1>6
<1>8. Owner(done[p]) = Owner(k)
  BY <1>5, <1>6 DEF Owner
<1>9. sched[p] = Lists(layout, p, Owner(done[p]))
  BY <1>1, <1>7 DEF ListsInv
<1>10. QED
  BY <1>3, <1>8, <1>9

(* What it sends and receives are the lists of slots of the elements.      *)
LEMMA SlotLists ==
  ASSUME OneBasis, IInv, NEW p \in Proc, done[p] < Len(script), Now(p) # "init",
         NEW q \in Proc
  PROVE  /\ Outgoing(p)[q] = Slots(FromSlots(layout, Now(p)),
                               Exchanged(layout, script, done[p] + 1, p, q))
         /\ Incoming(p)[q] = Slots(ToSlots(layout, Now(p)),
                               Exchanged(layout, script, done[p] + 1, q, p))
<1> DEFINE k     == done[p] + 1
           owner == Owner(k)
<1>1. sched[p] = Lists(layout, p, owner)
  BY ListsUsed
<1>2. /\ sched[p].blacs[q] = IF q = p THEN <<>>
                             ELSE Slots(layout.inPiece, Between(layout, q, p, owner))
      /\ sched[p].ap[q] = IF q = p THEN <<>>
                          ELSE Slots(layout.inBlock, Between(layout, p, q, owner))
  <2> HIDE DEF owner
  <2>1. QED
    BY <1>1 DEF Lists, Proc
<1>3. script[k].op = Now(p) /\ owner = layout.owners[script[k].owners]
  BY DEF Now, Owner
<1>4. ASSUME NEW f PROVE Slots(f, <<>>) = <<>>
  <2>1. <<>> \in Seq({})
    BY EmptySeq
  <2>2. QED
    BY <2>1, SlotsFacts
<1> HIDE DEF k, owner
<1>5. CASE Now(p) = "to blacs"
  <2>1. Outgoing(p)[q] = sched[p].ap[q] /\ Incoming(p)[q] = sched[p].blacs[q]
    BY <1>5 DEF Outgoing, Incoming
  <2>2. /\ FromSlots(layout, Now(p)) = layout.inBlock
        /\ ToSlots(layout, Now(p)) = layout.inPiece
    BY <1>5 DEF FromSlots, ToSlots
  <2>3. /\ Exchanged(layout, script, k, p, q)
             = IF p = q THEN <<>> ELSE Between(layout, p, q, owner)
        /\ Exchanged(layout, script, k, q, p)
             = IF p = q THEN <<>> ELSE Between(layout, q, p, owner)
    BY <1>3, <1>5 DEF Exchanged
  <2>4. QED
    BY <2>1, <2>2, <2>3, <1>2, <1>4 DEF k
<1>6. CASE Now(p) # "to blacs"
  <2>1. Outgoing(p)[q] = sched[p].blacs[q] /\ Incoming(p)[q] = sched[p].ap[q]
    BY <1>6 DEF Outgoing, Incoming
  <2>2. /\ FromSlots(layout, Now(p)) = layout.inPiece
        /\ ToSlots(layout, Now(p)) = layout.inBlock
    BY <1>6 DEF FromSlots, ToSlots
  <2>3. /\ Exchanged(layout, script, k, p, q)
             = IF p = q THEN <<>> ELSE Between(layout, q, p, owner)
        /\ Exchanged(layout, script, k, q, p)
             = IF p = q THEN <<>> ELSE Between(layout, p, q, owner)
    BY <1>3, <1>6 DEF Exchanged
  <2>4. QED
    BY <2>1, <2>2, <2>3, <1>2, <1>4 DEF k
<1>7. QED
  BY <1>5, <1>6

(* What is packed is the message, and what is copied the own part.         *)
LEMMA PackedIsMessage ==
  ASSUME OneBasis, IInv, NEW p \in Proc, done[p] < Len(script), Now(p) # "init",
         NEW q \in Proc
  PROVE  /\ Outgoing(p)[q] # <<>> <=> Exchanged(layout, script, done[p] + 1, p, q) # <<>>
         /\ Packed(p, Outgoing(p)[q]) = Message(layout, script, done[p] + 1, p, q)
<1>1. PICK x : x = Exchanged(layout, script, done[p] + 1, p, q)
  OBVIOUS
<1>2. PICK ids : ids = Outgoing(p)[q]
  OBVIOUS
<1>3. TablesTyped(layout) /\ PiecesFound(layout) /\ BlocksFound(layout)
  BY LayoutSound DEF IInv, Sound
<1>4. x \in Seq(DOMAIN layout.holder)
  BY <1>1, <1>3, ExchangedFacts
<1>5. ids = Slots(FromSlots(layout, Now(p)), x)
  BY <1>1, <1>2, SlotLists
<1>6. /\ DOMAIN ids = DOMAIN x
      /\ \A i \in DOMAIN x : ids[i] = FromSlots(layout, Now(p))[x[i]]
      /\ ids = <<>> <=> x = <<>>
  BY <1>4, <1>5, SlotsFacts
<1>7. script[done[p] + 1].op = Now(p)
  BY DEF Now
<1>8. \A i \in DOMAIN x : /\ x[i] \in DOMAIN layout.holder
                          /\ Now(p) # "to blacs" => layout.holder[x[i]] = p
  <2>1. \A i \in DOMAIN x : /\ x[i] \in DOMAIN layout.holder
                            /\ Moved(layout, script, done[p] + 1, p, q, x[i])
    BY <1>1, <1>3, ExchangedFacts
  <2>2. QED
    BY <2>1, <1>7 DEF Moved, Noted
<1> DEFINE arrays == IF Now(p) = "to blacs" THEN layout.block ELSE layout.piece[p]
<1>9. ASSUME NEW i \in DOMAIN x
      PROVE  ids[i] \in DOMAIN arrays /\ arrays[ids[i]] = x[i]
  <2>1. CASE Now(p) = "to blacs"
    <3>1. ids[i] = layout.inBlock[x[i]] /\ arrays = layout.block
      BY <2>1, <1>6 DEF FromSlots
    <3>2. QED
      BY <3>1, <1>3, <1>8 DEF BlocksFound
  <2>2. CASE Now(p) # "to blacs"
    BY <2>2, <1>3, <1>6, <1>8 DEF PiecesFound, FromSlots
  <2>3. QED
    BY <2>1, <2>2
<1>10. Packed(p, ids) =
         [i \in DOMAIN ids |-> IF ids[i] \in DOMAIN arrays
                                 THEN Value(done[p] + 1, arrays[ids[i]]) ELSE Unknown]
  BY DEF Packed
<1>11. Message(layout, script, done[p] + 1, p, q)
         = [i \in DOMAIN x |-> Value(done[p] + 1, x[i])]
  BY <1>1 DEF Message
<1> HIDE DEF arrays
<1>12. Packed(p, ids) = Message(layout, script, done[p] + 1, p, q)
  BY <1>6, <1>9, <1>10, <1>11
<1>13. QED
  BY <1>1, <1>2, <1>6, <1>12

(* What a process copies by index is its own part of the step.             *)
LEMMA OwnPartIsOwn ==
  ASSUME OneBasis, IInv, NEW p \in Proc, done[p] < Len(script), Now(p) # "init"
  PROVE  OwnPart(p) = Own(layout, script, done[p] + 1, p)
<1> DEFINE k     == done[p] + 1
           pairs == MyPairs(layout, p, Owner(k))
<1>1. sched[p].pairs = pairs
  <2>1. sched[p] = Lists(layout, p, Owner(k))
    BY ListsUsed
  <2> HIDE DEF k, pairs
  <2>2. sched[p].pairs = MyPairs(layout, p, Owner(k))
    BY <2>1 DEF Lists
  <2>3. QED
    BY <2>2 DEF pairs
<1>2. MyBlocks(p) = {id \in DOMAIN layout.block : id[1] \in pairs}
  BY <1>1 DEF MyBlocks
<1>3. script[k].op = Now(p) /\ Owner(k) = layout.owners[script[k].owners]
  BY DEF Now, Owner
<1>4. QED
  BY <1>1, <1>2, <1>3 DEF OwnPart, Own

-----------------------------------------------------------------------------
(* It holds at the start, and every step preserves it.                     *)
LEMMA InitIInv ==
  ASSUME OneBasis, Init
  PROVE  IInv
<1>1. Len(script) \in Nat
  <2>1. script \in Seq([op: {"init", "to blacs", "to ap"},
                        owners: UNION {DOMAIN l.owners : l \in Layout}])
    BY ScriptAssumption DEF Init
  <2>2. QED
    BY <2>1, LenProperties
<1>2. <<>> \in Seq(Seq(Nat \X DOMAIN layout.holder)) /\ DOMAIN <<>> = {}
  BY EmptySeq
<1>3. TypeInv
  <2>1. done \in [Proc -> 0 .. Len(script)]
    BY <1>1 DEF Init
  <2>2. chan \in [Proc \X Proc -> Seq(Seq(Nat \X DOMAIN layout.holder))]
    BY <1>2 DEF Init
  <2>3. QED
    BY <2>1, <2>2 DEF Init, TypeInv
<1>4. ListsInv
  BY DEF Init, ListsInv
<1>5. WaitInv
  BY DEF Init, WaitInv
<1>6. ASSUME NEW p \in Proc, NEW q \in Proc
      PROVE  InOrder(chan[<<p, q>>], layout, script, done[q], Started(p), p, q)
  <2>1. chan[<<p, q>>] = <<>> /\ done[q] = 0 /\ Started(p) = 0
    BY DEF Init, Started
  <2>2. Due(layout, script, 0, 0, p, q) = {}
    BY DEF Due
  <2>3. InOrder(<<>>, layout, script, 0, 0, p, q)
    BY <2>2, <1>2 DEF InOrder
  <2>4. QED
    BY <2>1, <2>3
<1>7. QED
  BY <1>3, <1>4, <1>5, <1>6 DEF IInv, ChanInv

(* The facts about one pair of processes used in each case.                *)
LEMMA PairFacts ==
  ASSUME OneBasis, IInv, NEW p \in Proc, NEW q \in Proc
  PROVE  /\ done[p] \in Nat /\ done[q] \in Nat /\ Started(p) \in Nat
         /\ chan[<<p, q>>] \in Seq(Seq(Nat \X DOMAIN layout.holder))
         /\ InOrder(chan[<<p, q>>], layout, script, done[q], Started(p), p, q)
         /\ TablesTyped(layout)
<1>1. done[p] \in 0 .. Len(script) /\ done[q] \in 0 .. Len(script) /\ Len(script) \in Nat
  BY ScriptFacts DEF IInv, TypeInv
<1>2. done[p] \in Nat /\ done[q] \in Nat
  BY <1>1
<1>3. Started(p) \in Nat
  BY <1>2 DEF Started
<1>4. chan[<<p, q>>] \in Seq(Seq(Nat \X DOMAIN layout.holder))
  BY DEF IInv, TypeInv
<1>5. TablesTyped(layout)
  BY LayoutSound DEF IInv, Sound
<1>6. QED
  BY <1>2, <1>3, <1>4, <1>5 DEF IInv, ChanInv

(* A new schedule: the lists are those of the step now ended.              *)
LEMMA InitializePreservesIInv ==
  ASSUME OneBasis, IInv, NEW p \in Proc, Initialize(p)
  PROVE  IInv'
<1>1. TypeInv /\ ListsInv /\ WaitInv
  BY DEF IInv
<1>2. /\ layout' = layout /\ script' = script /\ eager' = eager /\ waiting' = waiting
      /\ local' = local /\ chan' = chan /\ Proc' = Proc
  BY DEF Initialize, Proc
<1>3. PICK k \in Nat : k = done[p] + 1 /\ (done[p] < Len(script) => k \in 1 .. Len(script))
  <2>1. done[p] \in 0 .. Len(script) /\ Len(script) \in Nat
    BY <1>1, ScriptFacts DEF TypeInv
  <2>2. QED
    BY <2>1
<1>4. /\ ~ waiting[p] /\ k \in 1 .. Len(script) /\ script[k].op = "init"
  BY <1>3 DEF Initialize, Now
<1>5. done' = [done EXCEPT ![p] = k]
  BY <1>3 DEF Initialize
<1>6. done'[p] = k /\ \A q \in Proc : q # p => done'[q] = done[q]
  BY <1>1, <1>5 DEF TypeInv
<1>7. TypeInv'
  <2>1. done' \in [Proc -> 0 .. Len(script)]
    BY <1>1, <1>4, <1>5 DEF TypeInv
  <2>2. QED
    BY <2>1, <1>1, <1>2 DEF TypeInv
<1>8. ListsInv'
  <2>1. Schedule(p, Owner(k)) = Lists(layout, p, Owner(k))
    BY DEF Schedule, Lists, MyPairs, Proc
  <2>2. sched' = [sched EXCEPT ![p] = Lists(layout, p, Owner(k))]
    BY <2>1, <1>3 DEF Initialize
  <2>3. \A j : Owner(j)' = Owner(j)
    BY <1>2 DEF Owner
  <2> DEFINE L(q, n) == IF n = 0 THEN NoSchedule ELSE Lists(layout, q, Owner(n))
  <2>4. sched = [q \in Proc |-> L(q, done[q])]
    BY <1>1 DEF ListsInv
  <2>5. k # 0
    BY <1>4
  <2>6. L(p, k) = Lists(layout, p, Owner(k))
    BY <2>5
  <2> HIDE DEF L
  <2>7. sched' = [q \in Proc |-> L(q, done'[q])]
    BY <2>2, <2>4, <2>6, <1>6
  <2> USE DEF L
  <2>8. QED
    BY <2>3, <2>7, <1>2 DEF ListsInv
<1>9. WaitInv'
  <2> SUFFICES ASSUME NEW q \in Proc, waiting[q]
               PROVE  /\ done'[q] < Len(script) /\ script[done'[q] + 1].op # "init"
                      /\ local[q] = Own(layout, script, done'[q] + 1, q)
    BY <1>2 DEF WaitInv, Now
  <2>1. q # p
    BY <1>4
  <2>2. QED
    BY <2>1, <1>1, <1>6 DEF WaitInv, Now
<1>10. ASSUME NEW a \in Proc, NEW b \in Proc
       PROVE  InOrder(chan[<<a, b>>], layout, script, done'[b], Started(a)', a, b)
  <2>1. /\ done[a] \in Nat /\ done[b] \in Nat /\ Started(a) \in Nat
        /\ InOrder(chan[<<a, b>>], layout, script, done[b], Started(a), a, b)
    BY PairFacts
  <2>2. Exchanged(layout, script, k, a, b) = <<>>
    BY <1>4 DEF Exchanged
  <2>3. InOrder(chan[<<a, b>>], layout, script, done'[b], Started(a), a, b)
    <3>1. CASE b = p
      <4>1. done'[b] = done[b] + 1 /\ Exchanged(layout, script, done[b] + 1, a, b) = <<>>
        BY <3>1, <2>2, <1>3, <1>6
      <4>2. QED
        BY <4>1, <2>1, InOrderNotTaken
    <3>2. CASE b # p
      BY <3>2, <2>1, <1>6
    <3>3. QED
      BY <3>1, <3>2
  <2>4. done'[b] \in Nat
    BY <2>1, <1>6
  <2>5. CASE a = p
    <3>1. Started(a) = done[a] /\ Started(a)' = done[a] + 1
      BY <2>5, <1>2, <1>3, <1>4, <1>6 DEF Started
    <3>2. Exchanged(layout, script, Started(a) + 1, a, b) = <<>>
      BY <2>2, <2>5, <3>1, <1>3
    <3>3. Started(a)' = Started(a) + 1
      BY <3>1
    <3>4. InOrder(chan[<<a, b>>], layout, script, done'[b], Started(a) + 1, a, b)
      BY <2>1, <2>3, <2>4, <3>2, InOrderNotSent
    <3>5. QED
      BY <3>3, <3>4
  <2>6. CASE a # p
    <3>1. Started(a)' = Started(a)
      BY <2>6, <1>2, <1>6 DEF Started
    <3>2. QED
      BY <2>3, <3>1
  <2>7. QED
    BY <2>5, <2>6
<1>11. ChanInv'
  BY <1>2, <1>10 DEF ChanInv
<1>12. QED
  BY <1>7, <1>8, <1>9, <1>11 DEF IInv

(* A conversion starts: a message more on each of its ways.                *)
LEMMA StartPreservesIInv ==
  ASSUME OneBasis, IInv, NEW p \in Proc, Start(p)
  PROVE  IInv'
<1>1. TypeInv /\ ListsInv /\ WaitInv /\ TablesTyped(layout)
  BY PairFacts DEF IInv
<1>2. /\ layout' = layout /\ script' = script /\ eager' = eager /\ sched' = sched
      /\ done' = done /\ Proc' = Proc
  BY DEF Start, Proc
<1>3. PICK k \in Nat : k = done[p] + 1
  <2>1. done[p] \in Nat
    BY PairFacts
  <2>2. QED
    BY <2>1
<1>4. ~ waiting[p] /\ done[p] < Len(script) /\ Now(p) # "init"
  BY DEF Start
<1>5. waiting' = [waiting EXCEPT ![p] = TRUE]
  BY DEF Start
<1>6. waiting'[p] /\ \A q \in Proc : q # p => waiting'[q] = waiting[q]
  BY <1>1, <1>5 DEF TypeInv
<1> DEFINE S == Seq(Nat \X DOMAIN layout.holder)
<1>7. ASSUME NEW a \in Proc, NEW b \in Proc
      PROVE  /\ chan'[<<a, b>>] =
                  IF a = p /\ Exchanged(layout, script, k, a, b) # <<>>
                    THEN Append(chan[<<a, b>>], Message(layout, script, k, a, b))
                    ELSE chan[<<a, b>>]
             /\ chan'[<<a, b>>] \in Seq(S)
  <2>1. <<a, b>> \in DOMAIN chan
    BY <1>1 DEF TypeInv
  <2>2. chan'[<<a, b>>] = IF a = p /\ Outgoing(p)[b] # <<>>
                            THEN Append(chan[<<a, b>>], Packed(p, Outgoing(p)[b]))
                            ELSE chan[<<a, b>>]
    BY <2>1 DEF Start
  <2>3. /\ Outgoing(p)[b] # <<>> <=> Exchanged(layout, script, k, p, b) # <<>>
        /\ Packed(p, Outgoing(p)[b]) = Message(layout, script, k, p, b)
    BY <1>3, <1>4, PackedIsMessage
  <2>4. chan'[<<a, b>>] =
                  IF a = p /\ Exchanged(layout, script, k, a, b) # <<>>
                    THEN Append(chan[<<a, b>>], Message(layout, script, k, a, b))
                    ELSE chan[<<a, b>>]
    BY <2>2, <2>3
  <2>5. chan[<<a, b>>] \in Seq(S)
    BY PairFacts
  <2>6. Message(layout, script, k, a, b) \in S
    BY <1>1, MessageTyped
  <2> HIDE DEF S
  <2>7. Append(chan[<<a, b>>], Message(layout, script, k, a, b)) \in Seq(S)
    BY <2>5, <2>6, AppendProperties
  <2>8. QED
    BY <2>4, <2>5, <2>7
<1>8. TypeInv'
  <2>1. chan' \in [Proc \X Proc -> Seq(S)]
    <3>1. DOMAIN chan = Proc \X Proc
      BY <1>1 DEF TypeInv
    <3>2. chan' = [pq \in Proc \X Proc |-> chan'[pq]]
      BY <3>1 DEF Start
    <3> HIDE DEF S
    <3>3. \A pq \in Proc \X Proc : chan'[pq] \in Seq(S)
      BY <1>7
    <3>4. QED
      BY <3>2, <3>3
  <2>2. waiting' \in [Proc -> BOOLEAN]
    BY <1>1, <1>5 DEF TypeInv
  <2>3. DOMAIN local' = Proc
    BY <1>1 DEF TypeInv, Start
  <2>4. QED
    BY <2>1, <2>2, <2>3, <1>1, <1>2 DEF TypeInv
<1>9. ListsInv'
  <2>1. \A j : Owner(j)' = Owner(j)
    BY <1>2 DEF Owner
  <2>2. QED
    BY <2>1, <1>1, <1>2 DEF ListsInv
<1>10. WaitInv'
  <2> SUFFICES ASSUME NEW q \in Proc, waiting'[q]
               PROVE  /\ done[q] < Len(script) /\ script[done[q] + 1].op # "init"
                      /\ local'[q] = Own(layout, script, done[q] + 1, q)
    BY <1>2 DEF WaitInv, Now
  <2>1. CASE q = p
    <3>1. local'[p] = OwnPart(p)
      BY <1>1 DEF TypeInv, Start
    <3>2. OwnPart(p) = Own(layout, script, done[p] + 1, p)
      BY <1>4, OwnPartIsOwn
    <3>3. QED
      BY <2>1, <3>1, <3>2, <1>4 DEF Now
  <2>2. CASE q # p
    <3>1. local'[q] = local[q]
      BY <2>2, <1>1 DEF TypeInv, Start
    <3>2. waiting[q]
      BY <2>2, <1>6
    <3>3. QED
      BY <3>1, <3>2, <1>1 DEF WaitInv, Now
  <2>3. QED
    BY <2>1, <2>2
<1>11. ASSUME NEW a \in Proc, NEW b \in Proc
       PROVE  InOrder(chan'[<<a, b>>], layout, script, done[b], Started(a)', a, b)
  <2>1. /\ done[a] \in Nat /\ done[b] \in Nat /\ Started(a) \in Nat
        /\ chan[<<a, b>>] \in Seq(S)
        /\ InOrder(chan[<<a, b>>], layout, script, done[b], Started(a), a, b)
    BY PairFacts
  <2>2. CASE a # p
    <3>1. Started(a)' = Started(a) /\ chan'[<<a, b>>] = chan[<<a, b>>]
      BY <2>2, <1>2, <1>6, <1>7 DEF Started
    <3>2. QED
      BY <3>1, <2>1
  <2>3. CASE a = p
    <3>1. Started(a) = done[a] /\ Started(a)' = done[a] + 1 /\ k = done[a] + 1
      BY <2>3, <1>2, <1>3, <1>4, <1>6 DEF Started
    <3>2. CASE Exchanged(layout, script, k, a, b) # <<>>
      <4>1. chan'[<<a, b>>] = Append(chan[<<a, b>>], Message(layout, script, k, a, b))
        BY <2>3, <3>2, <1>7
      <4>2. Message(layout, script, k, a, b) \in S
        BY <1>1, MessageTyped
      <4> HIDE DEF S
      <4>3. InOrder(Append(chan[<<a, b>>], Message(layout, script, done[a] + 1, a, b)),
                    layout, script, done[b], done[a] + 1, a, b)
        BY <2>1, <3>1, <3>2, <4>2, <1>1, InOrderSent
      <4>4. QED
        BY <3>1, <4>1, <4>3
    <3>3. CASE Exchanged(layout, script, k, a, b) = <<>>
      <4>1. chan'[<<a, b>>] = chan[<<a, b>>]
        BY <3>3, <1>7
      <4>2. InOrder(chan[<<a, b>>], layout, script, done[b], done[a] + 1, a, b)
        BY <2>1, <3>1, <3>3, InOrderNotSent
      <4>3. QED
        BY <3>1, <4>1, <4>2
    <3>4. QED
      BY <3>2, <3>3
  <2>4. QED
    BY <2>2, <2>3
<1>12. ChanInv'
  BY <1>2, <1>11 DEF ChanInv
<1>13. QED
  BY <1>8, <1>9, <1>10, <1>12 DEF IInv

(* A process in MPI_Waitall has slots for the elements that are sent to    *)
(* it, and the first message it finds there is the one of its step.        *)
LEMMA IncomingFacts ==
  ASSUME OneBasis, IInv, NEW p \in Proc, waiting[p], NEW q \in Proc,
         NEW k, k = done[p] + 1, NEW x, x = Exchanged(layout, script, k, q, p)
  PROVE  /\ k \in 1 .. Len(script) /\ script[k].op # "init" /\ script[k].op = Now(p)
         /\ DOMAIN Incoming(p)[q] = DOMAIN x
         /\ \A i \in DOMAIN x : Incoming(p)[q][i] = ToSlots(layout, Now(p))[x[i]]
         /\ Incoming(p)[q] = <<>> <=> x = <<>>
<1>1. done[p] < Len(script) /\ Now(p) # "init"
  BY DEF IInv, WaitInv
<1>2. script[k].op = Now(p)
  BY DEF Now
<1>3. TablesTyped(layout)
  BY PairFacts
<1>4. x \in Seq(DOMAIN layout.holder)
  BY <1>3, ExchangedFacts
<1>5. Incoming(p)[q] = Slots(ToSlots(layout, Now(p)), x)
  BY <1>1, SlotLists
<1>6. k \in 1 .. Len(script)
  BY <1>1, ListsUsed
<1>7. QED
  BY <1>1, <1>2, <1>4, <1>5, <1>6, SlotsFacts

(* The first message of a process that owes one is that of the step.       *)
LEMMA FirstMessage ==
  ASSUME OneBasis, IInv, NEW p \in Proc, NEW q \in Proc,
         chan[<<q, p>>] # <<>>, Exchanged(layout, script, done[p] + 1, q, p) # <<>>
  PROVE  Head(chan[<<q, p>>]) = Message(layout, script, done[p] + 1, q, p)
<1> DEFINE S == Seq(Nat \X DOMAIN layout.holder)
<1>1. /\ done[p] \in Nat /\ Started(q) \in Nat /\ chan[<<q, p>>] \in Seq(S)
      /\ InOrder(chan[<<q, p>>], layout, script, done[p], Started(q), q, p)
  BY PairFacts
<1> HIDE DEF S
<1>2. QED
  BY <1>1, InOrderTaken

(* A conversion ends: a message less on each way to the process.           *)
LEMMA FinishPreservesIInv ==
  ASSUME OneBasis, IInv, NEW p \in Proc, Finish(p)
  PROVE  IInv'
<1>1. TypeInv /\ ListsInv /\ WaitInv
  BY DEF IInv
<1>2. /\ layout' = layout /\ script' = script /\ eager' = eager /\ sched' = sched
      /\ Proc' = Proc
  BY DEF Finish, Proc
<1>3. waiting[p] /\ done[p] < Len(script) /\ Now(p) # "init"
  BY <1>1 DEF Finish, WaitInv
<1>4. PICK k \in Nat : k = done[p] + 1
  <2>1. done[p] \in Nat
    BY PairFacts
  <2>2. QED
    BY <2>1
<1>5. k \in 1 .. Len(script) /\ sched[p] = Lists(layout, p, Owner(k))
  BY <1>3, <1>4, ListsUsed
<1>6. done' = [done EXCEPT ![p] = k] /\ waiting' = [waiting EXCEPT ![p] = FALSE]
  BY <1>4 DEF Finish
<1>7. /\ done'[p] = k /\ ~ waiting'[p]
      /\ \A q \in Proc : q # p => done'[q] = done[q] /\ waiting'[q] = waiting[q]
  BY <1>1, <1>6 DEF TypeInv
<1> DEFINE S == Seq(Nat \X DOMAIN layout.holder)
<1>8. ASSUME NEW a \in Proc, NEW b \in Proc
      PROVE  /\ chan'[<<a, b>>] =
                  IF b = p /\ Exchanged(layout, script, k, a, b) # <<>>
                    THEN Tail(chan[<<a, b>>]) ELSE chan[<<a, b>>]
             /\ chan'[<<a, b>>] \in Seq(S)
             /\ InOrder(chan'[<<a, b>>], layout, script, done'[b], Started(a), a, b)
  <2>1. <<a, b>> \in DOMAIN chan
    BY <1>1 DEF TypeInv
  <2>2. chan'[<<a, b>>] = IF b = p /\ Incoming(p)[a] # <<>>
                            THEN Tail(chan[<<a, b>>]) ELSE chan[<<a, b>>]
    BY <2>1 DEF Finish
  <2>3. Incoming(p)[a] = <<>> <=> Exchanged(layout, script, k, a, p) = <<>>
    BY <1>3, <1>4, IncomingFacts
  <2>4. chan'[<<a, b>>] =
                  IF b = p /\ Exchanged(layout, script, k, a, b) # <<>>
                    THEN Tail(chan[<<a, b>>]) ELSE chan[<<a, b>>]
    BY <2>2, <2>3
  <2>5. /\ chan[<<a, b>>] \in Seq(S) /\ done[b] \in Nat /\ Started(a) \in Nat
        /\ InOrder(chan[<<a, b>>], layout, script, done[b], Started(a), a, b)
    BY PairFacts
  <2>6. CASE b = p /\ Exchanged(layout, script, k, a, b) # <<>>
    <3>1. chan[<<a, b>>] # <<>>
      BY <2>3, <2>6 DEF Finish, Complete
    <3>2. Exchanged(layout, script, done[b] + 1, a, b) # <<>>
      BY <2>6, <1>4
    <3> HIDE DEF S
    <3>3. /\ Tail(chan[<<a, b>>]) \in Seq(S)
          /\ InOrder(Tail(chan[<<a, b>>]), layout, script, done[b] + 1, Started(a), a, b)
      BY <2>5, <3>1, <3>2, InOrderTaken
    <3>4. done'[b] = done[b] + 1
      BY <2>6, <1>4, <1>7
    <3>5. QED
      BY <2>4, <2>6, <3>3, <3>4
  <2>7. CASE b = p /\ Exchanged(layout, script, k, a, b) = <<>>
    <3>1. chan'[<<a, b>>] = chan[<<a, b>>] /\ done'[b] = done[b] + 1
      BY <2>4, <2>7, <1>4, <1>7
    <3>2. Exchanged(layout, script, done[b] + 1, a, b) = <<>>
      BY <2>7, <1>4
    <3>3. InOrder(chan[<<a, b>>], layout, script, done[b] + 1, Started(a), a, b)
      BY <2>5, <3>2, InOrderNotTaken
    <3>4. QED
      BY <2>4, <2>5, <3>1, <3>3
  <2>8. CASE b # p
    BY <2>4, <2>5, <2>8, <1>7
  <2>9. QED
    BY <2>6, <2>7, <2>8
<1>9. TypeInv'
  <2>1. chan' \in [Proc \X Proc -> Seq(S)]
    <3>1. DOMAIN chan = Proc \X Proc
      BY <1>1 DEF TypeInv
    <3>2. chan' = [pq \in Proc \X Proc |-> chan'[pq]]
      BY <3>1 DEF Finish
    <3> HIDE DEF S
    <3>3. \A pq \in Proc \X Proc : chan'[pq] \in Seq(S)
      BY <1>8
    <3>4. QED
      BY <3>2, <3>3
  <2>2. waiting' \in [Proc -> BOOLEAN] /\ done' \in [Proc -> 0 .. Len(script)]
    BY <1>1, <1>5, <1>6 DEF TypeInv
  <2>3. DOMAIN local' = Proc
    BY <1>1 DEF TypeInv, Finish
  <2>4. QED
    BY <2>1, <2>2, <2>3, <1>1, <1>2 DEF TypeInv
<1>10. ListsInv'
  <2>1. \A j : Owner(j)' = Owner(j)
    BY <1>2 DEF Owner
  <2> DEFINE L(q, n) == IF n = 0 THEN NoSchedule ELSE Lists(layout, q, Owner(n))
  <2>2. sched = [q \in Proc |-> L(q, done[q])]
    BY <1>1 DEF ListsInv
  <2>3. sched[p] = L(p, k)
    <3>1. k # 0
      BY <1>5
    <3>2. QED
      BY <3>1, <1>5
  <2> HIDE DEF L
  <2>4. sched = [q \in Proc |-> L(q, done'[q])]
    BY <2>2, <2>3, <1>7
  <2> USE DEF L
  <2>5. QED
    BY <2>1, <2>4, <1>2 DEF ListsInv
<1>11. WaitInv'
  <2> SUFFICES ASSUME NEW q \in Proc, waiting'[q]
               PROVE  /\ done'[q] < Len(script) /\ script[done'[q] + 1].op # "init"
                      /\ local'[q] = Own(layout, script, done'[q] + 1, q)
    BY <1>2 DEF WaitInv, Now
  <2>1. q # p
    BY <1>7
  <2>2. local'[q] = local[q]
    BY <2>1, <1>1 DEF TypeInv, Finish
  <2>3. QED
    BY <2>1, <2>2, <1>1, <1>7 DEF WaitInv, Now
<1>12. \A a \in Proc : Started(a)' = Started(a)
  BY <1>3, <1>4, <1>7 DEF Started
<1>13. ChanInv'
  BY <1>2, <1>8, <1>12 DEF ChanInv
<1>14. QED
  BY <1>9, <1>10, <1>11, <1>13 DEF IInv

(* The inductive invariant, for any matrix in one basis, any process grid, *)
(* any owners and any script: each process has the lists of its last step, *)
(* and what is on the way between two is what one sent and the other did   *)
(* not yet take, in the order of the steps.                                *)
THEOREM ConversionInvariant ==
  ASSUME OneBasis
  PROVE  Spec => []IInv
<1>1. Init => IInv
  BY InitIInv
<1>2. IInv /\ [Next]_vars => IInv'
  <2> SUFFICES ASSUME IInv, [Next]_vars PROVE IInv'
    OBVIOUS
  <2>1. CASE \E p \in Proc : Initialize(p) \/ Start(p) \/ Finish(p)
    BY <2>1, InitializePreservesIInv, StartPreservesIInv, FinishPreservesIInv
  <2>2. CASE UNCHANGED vars
    BY <2>2 DEF vars, IInv, TypeInv, ListsInv, WaitInv, ChanInv, Proc, Owner, Now, Started
  <2>3. QED
    BY <2>1, <2>2 DEF Next
<1>3. QED
  BY <1>1, <1>2, PTL DEF Spec

-----------------------------------------------------------------------------
(* Every place a process keeps in its lists is one of its piece, or of a   *)
(* block it has.                                                           *)
LEMMA ListsInPlace ==
  ASSUME OneBasis, IInv, NEW p \in Proc, sched[p] # NoSchedule, NEW q \in Proc
  PROVE  /\ \A i \in DOMAIN sched[p].blacs[q] :
              sched[p].blacs[q][i] \in DOMAIN layout.piece[p]
         /\ \A i \in DOMAIN sched[p].ap[q] : sched[p].ap[q][i] \in MyBlocks(p)
<1>1. PICK owner : owner = Owner(done[p])
  OBVIOUS
<1>2. sched[p] = Lists(layout, p, owner)
  BY <1>1 DEF IInv, ListsInv
<1>3. /\ sched[p].pairs = MyPairs(layout, p, owner)
      /\ sched[p].blacs[q] = IF q = p THEN <<>>
                             ELSE Slots(layout.inPiece, Between(layout, q, p, owner))
      /\ sched[p].ap[q] = IF q = p THEN <<>>
                          ELSE Slots(layout.inBlock, Between(layout, p, q, owner))
  BY <1>2 DEF Lists, Proc
<1>4. TablesTyped(layout) /\ PiecesFound(layout) /\ BlocksFound(layout)
  BY LayoutSound DEF IInv, Sound
<1>5. ASSUME NEW i \in DOMAIN sched[p].blacs[q]
      PROVE  sched[p].blacs[q][i] \in DOMAIN layout.piece[p]
  <2>1. q # p
    BY <1>3
  <2>2. PICK x : x = Between(layout, q, p, owner)
    OBVIOUS
  <2>3. x \in Seq(DOMAIN layout.holder)
    BY <2>2, <1>4, BetweenFacts
  <2>4. i \in DOMAIN x /\ sched[p].blacs[q][i] = layout.inPiece[x[i]]
    BY <2>1, <2>2, <2>3, <1>3, SlotsFacts
  <2>5. x[i] \in DOMAIN layout.holder
    BY <2>3, <2>4, LenProperties, ElementOfSeq
  <2>6. layout.holder[x[i]] = p
    BY <2>2, <2>4, <1>4, BetweenFacts DEF Noted
  <2>7. QED
    BY <2>4, <2>5, <2>6, <1>4 DEF PiecesFound
<1>6. ASSUME NEW i \in DOMAIN sched[p].ap[q]
      PROVE  sched[p].ap[q][i] \in MyBlocks(p)
  <2>1. q # p
    BY <1>3
  <2>2. PICK x : x = Between(layout, p, q, owner)
    OBVIOUS
  <2>3. x \in Seq(DOMAIN layout.holder)
    BY <2>2, <1>4, BetweenFacts
  <2>4. i \in DOMAIN x /\ sched[p].ap[q][i] = layout.inBlock[x[i]]
    BY <2>1, <2>2, <2>3, <1>3, SlotsFacts
  <2>5. x[i] \in DOMAIN layout.holder
    BY <2>3, <2>4, LenProperties, ElementOfSeq
  <2>6. owner[layout.pair[x[i]]] = p
    BY <2>2, <2>4, <1>4, BetweenFacts DEF Noted
  <2>7. layout.pair[x[i]] \in sched[p].pairs
    BY <2>5, <2>6, <1>3, <1>4 DEF MyPairs, TablesTyped
  <2>8. QED
    BY <2>4, <2>5, <2>7, <1>4 DEF BlocksFound, MyBlocks
<1>7. QED
  BY <1>5, <1>6

(* TypeOK, for any matrix, grid, owners and script; above all: the lists   *)
(* of IndexScheduler never name a place its process does not have.         *)
THEOREM ListsNamePlaces ==
  ASSUME OneBasis
  PROVE  Spec => []TypeOK
<1>1. IInv => TypeOK
  <2> SUFFICES ASSUME IInv PROVE TypeOK
    OBVIOUS
  <2>1. TypeInv
    BY DEF IInv
  <2>2. DOMAIN chan = Proc \X Proc
    BY <2>1 DEF TypeInv
  <2>3. QED
    BY <2>1, <2>2, ListsInPlace DEF TypeOK, TypeInv
<1>2. QED
  BY <1>1, ConversionInvariant, PTL

(* MessagesMatch: though all messages have tag 0 and no process waits for  *)
(* the others between its conversions, the message taken is the one of the *)
(* call, as long as its receive, and in the end none is left.              *)
THEOREM MessagesOfTheCall ==
  ASSUME OneBasis
  PROVE  Spec => []MessagesMatch
<1>1. IInv => MessagesMatch
  <2> SUFFICES ASSUME IInv PROVE MessagesMatch
    OBVIOUS
  <2>1. ASSUME NEW p \in Proc, NEW q \in Proc, waiting[p], Incoming(p)[q] # <<>>,
               chan[<<q, p>>] # <<>>
        PROVE  /\ Len(Head(chan[<<q, p>>])) = Len(Incoming(p)[q])
               /\ \A i \in DOMAIN Head(chan[<<q, p>>]) :
                    Head(chan[<<q, p>>])[i][1] = done[p] + 1
    <3>1. PICK k, x : k = done[p] + 1 /\ x = Exchanged(layout, script, k, q, p)
      OBVIOUS
    <3>2. DOMAIN Incoming(p)[q] = DOMAIN x /\ x # <<>>
      BY <2>1, <3>1, IncomingFacts
    <3>3. PICK m : m = Head(chan[<<q, p>>]) /\ m = Message(layout, script, k, q, p)
      BY <2>1, <3>1, <3>2, FirstMessage
    <3>4. m = [i \in DOMAIN x |-> <<k, x[i]>>]
      BY <3>1, <3>3 DEF Message, Value
    <3>5. TablesTyped(layout)
      BY PairFacts
    <3>6. x \in Seq(DOMAIN layout.holder)
      BY <3>1, <3>5, ExchangedFacts
    <3>7. Len(x) \in Nat /\ DOMAIN x = 1 .. Len(x)
      BY <3>6, LenProperties
    <3>8. Len(m) = Len(x)
      BY <3>4, <3>7
    <3>9. Len(Incoming(p)[q]) = Len(x)
      <4>1. Incoming(p)[q] = Slots(ToSlots(layout, Now(p)), x)
        BY <2>1, <3>1, SlotLists DEF IInv, WaitInv
      <4>2. QED
        BY <4>1, <3>7 DEF Slots
    <3>10. \A i \in DOMAIN m : m[i][1] = k
      BY <3>4
    <3>11. Len(m) = Len(Incoming(p)[q])
      BY <3>8, <3>9
    <3>12. QED
      BY <3>1, <3>3, <3>10, <3>11
  <2>2. ASSUME AllDone, NEW p \in Proc, NEW q \in Proc
        PROVE  chan[<<p, q>>] = <<>>
    <3> DEFINE S == Seq(Nat \X DOMAIN layout.holder)
    <3>1. PICK n \in Nat : n = Len(script) /\ done[p] = n /\ done[q] = n
      BY <2>2, ScriptFacts DEF AllDone, IInv
    <3>2. ~ waiting[p]
      BY <3>1 DEF IInv, WaitInv
    <3>3. Started(p) = n
      BY <3>1, <3>2 DEF Started
    <3>4. /\ chan[<<p, q>>] \in Seq(S)
          /\ InOrder(chan[<<p, q>>], layout, script, n, n, p, q)
      BY <3>1, <3>3, PairFacts
    <3>5. Due(layout, script, n, n, p, q) = {}
      BY DEF Due
    <3>6. PICK c : c = chan[<<p, q>>]
      OBVIOUS
    <3>7. DOMAIN c = {}
      BY <3>4, <3>5, <3>6 DEF InOrder
    <3> HIDE DEF S
    <3>8. Len(c) \in Nat /\ DOMAIN c = 1 .. Len(c)
      BY <3>4, <3>6, LenProperties
    <3>9. Len(c) = 0
      BY <3>7, <3>8
    <3>10. QED
      BY <3>4, <3>6, <3>9, EmptySeq
  <2>3. AllDone => \A pq \in DOMAIN chan : chan[pq] = <<>>
    BY <2>2 DEF IInv, TypeInv
  <2>4. QED
    BY <2>1, <2>3 DEF MessagesMatch
<1>2. QED
  BY <1>1, ConversionInvariant, PTL

-----------------------------------------------------------------------------
(* A slot and a number that bring element e of the message of q to p.      *)
Brings(t, s, k, q, p, e, a) ==
  /\ Moved(t, s, k, q, p, e)
  /\ a[1] = ToSlots(t, s[k].op)[e] /\ a[2] = Value(k, e)

(* What has come when MPI_Waitall returns: the elements sent to the        *)
(* process, each with its slot.                                            *)
LEMMA ArrivedElements ==
  ASSUME OneBasis, IInv, NEW p \in Proc, waiting[p], Complete(p),
         NEW k, k = done[p] + 1
  PROVE  /\ \A a \in Arrived(p) : \E q \in Proc : \E e \in DOMAIN layout.holder :
              Brings(layout, script, k, q, p, e, a)
         /\ \A q \in Proc : \A e \in DOMAIN layout.holder :
              Moved(layout, script, k, q, p, e) =>
                \E a \in Arrived(p) : a[1] = ToSlots(layout, Now(p))[e]
<1>1. TablesTyped(layout)
  BY PairFacts
<1> DEFINE In(q) == DOMAIN Incoming(p)[q] \cap DOMAIN Head(chan[<<q, p>>])
           A(q, i) == <<Incoming(p)[q][i], Head(chan[<<q, p>>])[i]>>
<1>2. \A a : a \in Arrived(p) <=>
        \E q \in Proc : Incoming(p)[q] # <<>> /\ \E i \in In(q) : a = A(q, i)
  <2> DEFINE Q    == {q \in Proc : Incoming(p)[q] # <<>>}
             F(q) == {A(q, i) : i \in In(q)}
  <2>1. Arrived(p) = UNION {F(q) : q \in Q}
    BY DEF Arrived
  <2> HIDE DEF Q, F
  <2>2. \A a : a \in Arrived(p) <=> \E q \in Q : a \in F(q)
    BY <2>1
  <2> HIDE DEF In, A
  <2> USE DEF Q, F
  <2>3. QED
    BY <2>2
<1>3. ASSUME NEW q \in Proc, NEW x, x = Exchanged(layout, script, k, q, p), x # <<>>
      PROVE  /\ Incoming(p)[q] # <<>> /\ In(q) = DOMAIN x
             /\ \A i \in DOMAIN x :
                  A(q, i) = <<ToSlots(layout, Now(p))[x[i]], Value(k, x[i])>>
  <2>1. /\ DOMAIN Incoming(p)[q] = DOMAIN x /\ Incoming(p)[q] # <<>>
        /\ \A i \in DOMAIN x : Incoming(p)[q][i] = ToSlots(layout, Now(p))[x[i]]
    BY <1>3, IncomingFacts
  <2>2. chan[<<q, p>>] # <<>>
    BY <2>1 DEF Complete
  <2>3. PICK m : m = Head(chan[<<q, p>>]) /\ m = Message(layout, script, k, q, p)
    BY <2>2, <1>3, FirstMessage
  <2>4. m = [i \in DOMAIN x |-> Value(k, x[i])]
    BY <2>3, <1>3 DEF Message
  <2>5. DOMAIN m = DOMAIN x /\ \A i \in DOMAIN x : m[i] = Value(k, x[i])
    BY <2>4
  <2>6. QED
    BY <2>1, <2>3, <2>5
<1> HIDE DEF In, A
<1>4. ASSUME NEW a \in Arrived(p)
      PROVE  \E q \in Proc : \E e \in DOMAIN layout.holder :
              Brings(layout, script, k, q, p, e, a)
  <2>1. PICK q \in Proc : Incoming(p)[q] # <<>> /\ \E i \in In(q) : a = A(q, i)
    BY <1>2
  <2>2. PICK i \in In(q) : a = A(q, i)
    BY <2>1
  <2>3. PICK x : x = Exchanged(layout, script, k, q, p)
    OBVIOUS
  <2>4. x # <<>>
    BY <2>1, <2>3, IncomingFacts
  <2>5. i \in DOMAIN x /\ a = <<ToSlots(layout, Now(p))[x[i]], Value(k, x[i])>>
    BY <2>2, <2>3, <2>4, <1>3
  <2>6. x[i] \in DOMAIN layout.holder /\ Moved(layout, script, k, q, p, x[i])
    BY <2>3, <2>5, <1>1, ExchangedFacts
  <2>7. script[k].op = Now(p)
    BY DEF Now
  <2>8. Brings(layout, script, k, q, p, x[i], a)
    BY <2>5, <2>6, <2>7 DEF Brings
  <2>9. QED
    BY <2>6, <2>8
<1>5. ASSUME NEW q \in Proc, NEW e \in DOMAIN layout.holder,
             Moved(layout, script, k, q, p, e)
      PROVE  \E a \in Arrived(p) : a[1] = ToSlots(layout, Now(p))[e]
  <2>1. PICK x : x = Exchanged(layout, script, k, q, p)
    OBVIOUS
  <2>2. PICK i \in DOMAIN x : x[i] = e
    BY <2>1, <1>1, <1>5, ExchangedFacts
  <2>3. x # <<>>
    <3>1. DOMAIN <<>> = {}
      OBVIOUS
    <3>2. QED
      BY <3>1, <2>2
  <2>4. /\ Incoming(p)[q] # <<>> /\ i \in In(q)
        /\ A(q, i) = <<ToSlots(layout, Now(p))[x[i]], Value(k, x[i])>>
    BY <2>1, <2>2, <2>3, <1>3
  <2>5. A(q, i) \in Arrived(p)
    BY <2>4, <1>2
  <2>6. A(q, i)[1] = ToSlots(layout, Now(p))[e]
    BY <2>2, <2>4
  <2>7. QED
    BY <2>5, <2>6
<1>6. QED
  BY <1>4, <1>5

(* What was at the slot of e is replaced exactly if e is sent to p.        *)
Replaced(t, s, k, p, e, old, new) ==
  new = IF \E q \in DOMAIN t.piece : Moved(t, s, k, q, p, e) THEN Value(k, e) ELSE old

(* No two elements of a process have the same slot: what comes for a slot  *)
(* is its element.                                                         *)
LEMMA ReceivedElement ==
  ASSUME OneBasis, IInv, NEW p \in Proc, Finish(p),
         NEW k, k = done[p] + 1, NEW e \in DOMAIN layout.holder,
         Now(p) = "to blacs" => layout.holder[e] = p,
         NEW slot, slot = ToSlots(layout, Now(p))[e], slot \in DOMAIN local[p]
  PROVE  Replaced(layout, script, k, p, e, local[p][slot], local'[p][slot])
<1>1. TablesTyped(layout) /\ PiecesFound(layout) /\ BlocksFound(layout)
  BY LayoutSound DEF IInv, Sound
<1>2. waiting[p] /\ Complete(p)
  BY DEF Finish
<1>3. script[k].op = Now(p)
  BY DEF Now
<1>4. DOMAIN local = Proc
  BY DEF IInv, TypeInv
<1> DEFINE new == (CHOOSE a \in Arrived(p) : a[1] = slot)[2]
<1>5. local'[p][slot] = IF \E a \in Arrived(p) : a[1] = slot THEN new ELSE local[p][slot]
  BY <1>4 DEF Finish
<1>6. ASSUME NEW q \in Proc, NEW f \in DOMAIN layout.holder,
             Moved(layout, script, k, q, p, f), ToSlots(layout, Now(p))[f] = slot
      PROVE  f = e
  <2>1. CASE Now(p) = "to blacs"
    <3>1. layout.holder[f] = p
      BY <2>1, <1>3, <1>6 DEF Moved, Noted
    <3>2. layout.inPiece[f] = layout.inPiece[e] /\ layout.holder[e] = p
      BY <2>1, <1>6 DEF ToSlots
    <3>3. QED
      BY <3>1, <3>2, <1>1 DEF PiecesFound
  <2>2. CASE Now(p) # "to blacs"
    <3>1. layout.inBlock[f] = layout.inBlock[e]
      BY <2>2, <1>6 DEF ToSlots
    <3>2. QED
      BY <3>1, <1>1 DEF BlocksFound
  <2>3. QED
    BY <2>1, <2>2
<1>7. \A a \in Arrived(p) : \E q \in Proc : \E f \in DOMAIN layout.holder :
        Brings(layout, script, k, q, p, f, a)
  BY <1>2, ArrivedElements
<1>8. ASSUME NEW a \in Arrived(p), a[1] = slot
      PROVE  a[2] = Value(k, e) /\ \E q \in Proc : Moved(layout, script, k, q, p, e)
  <2>1. PICK q \in Proc, f \in DOMAIN layout.holder : Brings(layout, script, k, q, p, f, a)
    BY <1>7
  <2>2. /\ Moved(layout, script, k, q, p, f)
        /\ a[1] = ToSlots(layout, Now(p))[f] /\ a[2] = Value(k, f)
    BY <2>1, <1>3 DEF Brings
  <2>3. f = e
    BY <2>2, <1>6, <1>8
  <2>4. QED
    BY <2>2, <2>3
<1>9. CASE \E q \in Proc : Moved(layout, script, k, q, p, e)
  <2>1. \E a \in Arrived(p) : a[1] = slot
    BY <1>2, <1>9, ArrivedElements
  <2>2. new = Value(k, e)
    BY <2>1, <1>8
  <2> HIDE DEF new
  <2>3. QED
    BY <2>1, <2>2, <1>5, <1>9 DEF Replaced, Proc
<1>10. CASE ~ \E q \in Proc : Moved(layout, script, k, q, p, e)
  <2>1. ~ \E a \in Arrived(p) : a[1] = slot
    BY <1>8, <1>10
  <2> HIDE DEF new
  <2>2. QED
    BY <2>1, <1>5, <1>10 DEF Replaced, Proc
<1>11. QED
  BY <1>9, <1>10

(* What InPlace says of the arrays a process has of step k.                *)
Filled(t, s, k, p, arrays) ==
  LET owner == t.owners[s[k].owners]
  IN IF s[k].op = "to blacs"
       THEN \A e \in DOMAIN t.holder : t.holder[e] = p =>
              arrays[t.counted[e]] = IF owner[t.pair[e]] = Nobody THEN Zero ELSE Value(k, e)
       ELSE arrays = [id \in {id \in DOMAIN t.block : owner[id[1]] = p} |->
                        Value(k, t.block[id])]

(* So the piece of a process is as it should be, ...                       *)
LEMMA PieceIsFilled ==
  ASSUME OneBasis, IInv, NEW p \in Proc, Finish(p),
         NEW k, k = done[p] + 1, Now(p) = "to blacs",
         NEW e \in DOMAIN layout.holder, layout.holder[e] = p
  PROVE  local'[p][layout.counted[e]] =
           IF Owner(k)[layout.pair[e]] = Nobody THEN Zero ELSE Value(k, e)
<1>1. TablesTyped(layout) /\ PiecesFound(layout)
  BY LayoutSound DEF IInv, Sound
<1>2. waiting[p] /\ local[p] = Own(layout, script, k, p)
  BY DEF Finish, IInv, WaitInv
<1>3. k \in 1 .. Len(script) /\ script[k].op = Now(p)
  <2>1. done[p] < Len(script) /\ Now(p) # "init"
    BY <1>2 DEF IInv, WaitInv
  <2>2. QED
    BY <2>1, ListsUsed DEF Now
<1>4. PICK owner : owner = Owner(k) /\ owner = layout.owners[script[k].owners]
  BY DEF Owner
<1>5. PICK slot : slot = layout.inPiece[e] /\ slot = ToSlots(layout, Now(p))[e]
  BY DEF ToSlots
<1>6. /\ slot \in DOMAIN layout.piece[p] /\ layout.piece[p][slot] = e
      /\ layout.counted[e] = slot
  BY <1>1, <1>5 DEF PiecesFound
<1>7. DOMAIN layout.pair = DOMAIN layout.holder
  BY <1>1 DEF TablesTyped
<1> DEFINE has(f) == layout.pair[f] \in MyPairs(layout, p, owner)
<1>8. slot \in DOMAIN local[p] /\ local[p][slot] = IF has(e) THEN Value(k, e) ELSE Zero
  <2>1. local[p] = [id \in DOMAIN layout.piece[p] |->
                      IF has(layout.piece[p][id])
                        THEN Value(k, layout.piece[p][id]) ELSE Zero]
    BY <1>2, <1>3, <1>4 DEF Own
  <2> HIDE DEF has
  <2>2. PICK piece : piece = layout.piece[p] /\ slot \in DOMAIN piece /\ piece[slot] = e
    BY <1>6
  <2>3. local[p] = [id \in DOMAIN piece |->
                      IF has(piece[id]) THEN Value(k, piece[id]) ELSE Zero]
    BY <2>1, <2>2
  <2>4. DOMAIN local[p] = DOMAIN piece
    BY <2>3
  <2>5. local[p][slot] = IF has(piece[slot]) THEN Value(k, piece[slot]) ELSE Zero
    BY <2>2, <2>3
  <2>6. QED
    BY <2>2, <2>4, <2>5
<1>9. has(e) <=> owner[layout.pair[e]] = p
  BY <1>7 DEF MyPairs
<1>10. (\E q \in Proc : Moved(layout, script, k, q, p, e))
         <=> owner[layout.pair[e]] \in Proc /\ owner[layout.pair[e]] # p
  BY <1>3, <1>4 DEF Moved, Noted
<1>11. local'[p][slot] = IF \E q \in Proc : Moved(layout, script, k, q, p, e)
                           THEN Value(k, e) ELSE local[p][slot]
  <2>1. Replaced(layout, script, k, p, e, local[p][slot], local'[p][slot])
    BY <1>5, <1>8, ReceivedElement
  <2>2. QED
    BY <2>1 DEF Replaced, Proc
<1>12. owner[layout.pair[e]] \in Proc \cup {Nobody} /\ Nobody \notin Proc
  <2>1. script[k].owners \in DOMAIN layout.owners
    BY <1>3, ScriptFacts DEF IInv
  <2>2. QED
    BY <2>1, <1>1, <1>4 DEF TablesTyped, Proc
<1>13. QED
  BY <1>4, <1>6, <1>8, <1>9, <1>10, <1>11, <1>12

(* ... and so are its blocks.                                              *)
LEMMA BlocksAreFilled ==
  ASSUME OneBasis, IInv, NEW p \in Proc, Finish(p),
         NEW k, k = done[p] + 1, Now(p) # "to blacs"
  PROVE  local'[p] = [id \in {id \in DOMAIN layout.block : Owner(k)[id[1]] = p} |->
                        Value(k, layout.block[id])]
<1>1. TablesTyped(layout) /\ BlocksFound(layout)
  BY LayoutSound DEF IInv, Sound
<1>2. waiting[p] /\ local[p] = Own(layout, script, k, p)
  BY DEF Finish, IInv, WaitInv
<1>3. /\ k \in 1 .. Len(script) /\ script[k].op = Now(p)
      /\ script[k].op # "init" /\ script[k].op # "to blacs"
  <2>1. done[p] < Len(script) /\ Now(p) # "init"
    BY <1>2 DEF IInv, WaitInv
  <2>2. QED
    BY <2>1, ListsUsed DEF Now
<1>4. PICK owner : owner = Owner(k) /\ owner = layout.owners[script[k].owners]
  BY DEF Owner
<1> DEFINE mine == {id \in DOMAIN layout.block : owner[id[1]] = p}
<1>5. ASSUME NEW id \in DOMAIN layout.block
      PROVE  /\ layout.block[id] \in DOMAIN layout.holder
             /\ layout.inBlock[layout.block[id]] = id
             /\ layout.pair[layout.block[id]] = id[1]
             /\ id[1] \in MyPairs(layout, p, owner) <=> owner[id[1]] = p
  <2>1. PICK e \in DOMAIN layout.holder :
          e = layout.block[id] /\ layout.inBlock[e] = id /\ layout.pair[e] = id[1]
    BY <1>1 DEF BlocksFound
  <2>2. DOMAIN layout.pair = DOMAIN layout.holder
    BY <1>1 DEF TablesTyped
  <2>3. layout.pair[e] \in MyPairs(layout, p, owner) <=> owner[layout.pair[e]] = p
    BY <2>2 DEF MyPairs
  <2>4. QED
    BY <2>1, <2>3
<1>6. {id \in DOMAIN layout.block : id[1] \in MyPairs(layout, p, owner)} = mine
  BY <1>5
<1> HIDE DEF mine
<1>7. local[p] = [id \in mine |-> LET e == layout.block[id]
                                  IN IF layout.holder[e] = p THEN Value(k, e) ELSE Zero]
  BY <1>2, <1>3, <1>4, <1>6 DEF Own
<1>8. local'[p] = [id \in mine |-> local'[p][id]]
  <2>1. p \in DOMAIN local
    BY DEF IInv, TypeInv
  <2>2. DOMAIN local[p] = mine
    BY <1>7
  <2>3. QED
    BY <2>1, <2>2 DEF Finish
<1>9. ASSUME NEW id \in mine
      PROVE  local'[p][id] = Value(k, layout.block[id])
  <2>1. id \in DOMAIN layout.block /\ owner[id[1]] = p
    BY DEF mine
  <2>2. PICK e \in DOMAIN layout.holder :
          e = layout.block[id] /\ layout.inBlock[e] = id /\ layout.pair[e] = id[1]
    BY <2>1, <1>5
  <2>3. id = ToSlots(layout, Now(p))[e]
    BY <2>2 DEF ToSlots
  <2>4. /\ id \in DOMAIN local[p]
        /\ local[p][id] = IF layout.holder[e] = p THEN Value(k, e) ELSE Zero
    BY <2>2, <1>7
  <2>5. local'[p][id] = IF \E q \in Proc : Moved(layout, script, k, q, p, e)
                          THEN Value(k, e) ELSE local[p][id]
    <3>1. Replaced(layout, script, k, p, e, local[p][id], local'[p][id])
      BY <2>3, <2>4, ReceivedElement
    <3>2. QED
      BY <3>1 DEF Replaced, Proc
  <2>6. (\E q \in Proc : Moved(layout, script, k, q, p, e)) <=> layout.holder[e] # p
    <3>1. layout.holder[e] \in Proc
      BY <1>1 DEF TablesTyped, Proc
    <3>2. \A q : Moved(layout, script, k, q, p, e) <=> q # p /\ layout.holder[e] = q
      BY <2>1, <2>2, <1>3, <1>4 DEF Moved, Noted
    <3>3. QED
      BY <3>1, <3>2
  <2>7. QED
    BY <2>2, <2>4, <2>5, <2>6
<1>10. local'[p] = [id \in mine |-> Value(k, layout.block[id])]
  BY <1>8, <1>9
<1>11. QED
  BY <1>4, <1>10 DEF mine

(* InPlace, for any matrix in one basis, any process grid, any owners and  *)
(* any script: a conversion puts each element of the process's share at    *)
(* its place, though the messages are bare numbers whose meaning both ends *)
(* work out apart, and though the others may be conversions ahead.         *)
THEOREM ElementsArrive ==
  ASSUME OneBasis
  PROVE  Spec => []InPlace
<1>1. InPlace <=> \A p \in Proc :
        \/ waiting[p] \/ done[p] = 0 \/ script[done[p]].op = "init"
        \/ Filled(layout, script, done[p], p, local[p])
  BY DEF InPlace, Filled, Owner
<1>2. InPlace' <=> \A p \in Proc' :
        \/ waiting'[p] \/ done'[p] = 0 \/ script'[done'[p]].op = "init"
        \/ Filled(layout', script', done'[p], p, local'[p])
  BY DEF InPlace, Filled, Owner
<1>3. Init => InPlace
  BY <1>1 DEF Init
<1>4. ASSUME IInv, InPlace, NEW p \in Proc, Initialize(p) \/ Start(p) \/ Finish(p)
      PROVE  InPlace'
  <2>1. layout' = layout /\ script' = script /\ Proc' = Proc
    BY <1>4 DEF Initialize, Start, Finish, Proc
  <2>2. DOMAIN done = Proc /\ DOMAIN waiting = Proc /\ DOMAIN local = Proc
    BY <1>4 DEF IInv, TypeInv
  <2>3. ASSUME NEW q \in Proc, q # p
        PROVE  done'[q] = done[q] /\ waiting'[q] = waiting[q] /\ local'[q] = local[q]
    BY <2>2, <2>3, <1>4 DEF Initialize, Start, Finish
  <2>4. \/ waiting'[p] \/ script[done'[p]].op = "init"
        \/ Filled(layout, script, done'[p], p, local'[p])
    <3>1. CASE Initialize(p)
      BY <3>1, <2>2 DEF Initialize, Now
    <3>2. CASE Start(p)
      BY <3>2, <2>2 DEF Start
    <3>3. CASE Finish(p)
      <4>1. PICK k : k = done[p] + 1 /\ done'[p] = k
        BY <3>3, <2>2 DEF Finish
      <4>2. script[k].op = Now(p)
        BY <4>1 DEF Now
      <4>3. CASE Now(p) = "to blacs"
        BY <4>1, <4>2, <4>3, <3>3, <1>4, PieceIsFilled DEF Filled, Owner
      <4>4. CASE Now(p) # "to blacs"
        <5>1. local'[p] = [id \in {id \in DOMAIN layout.block : Owner(k)[id[1]] = p} |->
                             Value(k, layout.block[id])]
          BY <4>1, <4>4, <3>3, <1>4, BlocksAreFilled
        <5>2. QED
          BY <5>1, <4>1, <4>2, <4>4 DEF Filled, Owner
      <4>5. QED
        BY <4>3, <4>4
    <3>4. QED
      BY <3>1, <3>2, <3>3, <1>4
  <2>5. QED
    BY <2>1, <2>3, <2>4, <1>1, <1>2, <1>4
<1>5. ASSUME InPlace, UNCHANGED vars PROVE InPlace'
  BY <1>1, <1>2, <1>5 DEF vars, Proc
<1>6. IInv /\ InPlace /\ [Next]_vars => InPlace'
  BY <1>4, <1>5 DEF Next
<1>7. QED
  BY <1>3, <1>6, ConversionInvariant, PTL DEF Spec
=============================================================================

------------------------- MODULE AtomPairTasksProofs --------------------------
(***************************************************************************)
(* Proofs about AtomPairTasks for any process grid, any number of atoms and*)
(* any calls: the pairs are shared out with none left out or done twice,   *)
(* and the blocks are where they are worked on.                            *)
(*                                                                         *)
(* The pairs of the upper triangle are cut into cells, one for each process*)
(* of the grid, by intervals of rows and of columns.  A process and its    *)
(* point mirror lay their cells end to end in the same order, whoever of   *)
(* them looks at it, and take the halves of it.                            *)
(***************************************************************************)
EXTENDS AtomPairTasks, SequenceTheorems, WellFoundedInduction, TLAPS

(* Induction up to N, over a set instead of a predicate.                   *)
LEMMA UpTo ==
  ASSUME NEW N \in Nat, NEW G, 0 \in G, \A m \in 0 .. N - 1 : m \in G => m + 1 \in G
  PROVE  0 .. N \subseteq G
<1> DEFINE B == {m \in 0 .. N : m \notin G}
<1> SUFFICES ASSUME B # {} PROVE FALSE
  OBVIOUS
<1>1. B \in SUBSET Nat
  OBVIOUS
<1> HIDE DEF B
<1>2. \E x \in B : \A y \in B : ~ (<<y, x>> \in OpToRel(<, Nat))
  BY <1>1, NatLessThanWellFounded, WFMin, Zenon
<1>3. PICK x \in B : \A y \in B : ~ (y < x)
  BY <1>1, <1>2 DEF OpToRel
<1> USE DEF B
<1>4. x \in 0 .. N /\ x # 0 /\ x \notin G
  BY <1>3
<1>5. x - 1 \in 0 .. N - 1 /\ x - 1 < x
  BY <1>4
<1>6. x - 1 \notin B
  BY <1>3, <1>5
<1>7. x - 1 \in G
  BY <1>5, <1>6
<1>8. (x - 1) + 1 = x
  BY <1>4
<1>9. QED
  BY <1>4, <1>5, <1>7, <1>8
-----------------------------------------------------------------------------
(* What Picked has after k entries, from what it had before.               *)
After(s, T, k, before) ==
  IF k = 0 THEN <<>> ELSE IF s[k] \in T THEN Append(before, s[k]) ELSE before

(* The function in the definition of Picked exists.                        *)
LEMMA PickedDefined ==
  ASSUME NEW S, NEW s \in Seq(S), NEW T
  PROVE  \E f : /\ f = [k \in 0 .. Len(s) |-> After(s, T, k, f[k - 1])]
                /\ Picked(s, T) = f[Len(s)]
<1> DEFINE To(m) == \E f : f = [k \in 0 .. m |-> After(s, T, k, f[k - 1])]
           G == {m \in Nat : To(m)}
<1>1. Len(s) \in Nat
  BY LenProperties
<1>2. 0 \in G
  <2> DEFINE g == [k \in 0 .. 0 |-> <<>>]
  <2>1. g = [k \in 0 .. 0 |-> After(s, T, k, g[k - 1])]
    BY DEF After
  <2>2. QED
    BY <2>1
<1>3. ASSUME NEW n \in Nat, To(n) PROVE To(n + 1)
  <2>1. PICK f : f = [k \in 0 .. n |-> After(s, T, k, f[k - 1])]
    BY <1>3
  <2> DEFINE m == n + 1
             g == [k \in 0 .. m |-> IF k = m THEN After(s, T, m, f[m - 1]) ELSE f[k]]
  <2>2. \A k \in 0 .. n : g[k] = f[k]
    OBVIOUS
  <2>3. \A k \in 0 .. m : k # 0 => g[k - 1] = f[k - 1]
    BY <2>2
  <2>4. \A k \in 0 .. m : g[k] = After(s, T, k, g[k - 1])
    <3> SUFFICES ASSUME NEW k \in 0 .. m PROVE g[k] = After(s, T, k, g[k - 1])
      OBVIOUS
    <3>1. CASE k = m
      BY <3>1, <2>3
    <3>2. CASE k # m
      <4>1. k \in 0 .. n
        BY <3>2
      <4>2. g[k] = After(s, T, k, f[k - 1])
        BY <4>1, <2>1, <2>2
      <4>3. QED
        BY <4>2, <2>3 DEF After
    <3>3. QED
      BY <3>1, <3>2
  <2>5. g = [k \in 0 .. m |-> After(s, T, k, g[k - 1])]
    BY <2>4
  <2>6. QED
    BY <2>5
<1> HIDE DEF To
<1>4. To(Len(s))
  <2>1. \A m \in 0 .. Len(s) - 1 : m \in G => m + 1 \in G
    BY <1>1, <1>3
  <2> HIDE DEF G
  <2>2. 0 .. Len(s) \subseteq G
    BY <1>1, <1>2, <2>1, UpTo
  <2> USE DEF G
  <2>3. QED
    BY <1>1, <2>2
<1> USE DEF To
<1> DEFINE F(f) == f = [k \in 0 .. Len(s) |-> After(s, T, k, f[k - 1])]
<1>5. F(CHOOSE f : F(f))
  BY <1>4
<1>6. Picked(s, T) = (CHOOSE f : F(f))[Len(s)]
  BY DEF Picked, After
<1>7. QED
  BY <1>5, <1>6

(* It picks what is in T, each entry once.                                 *)
LEMMA PickedFacts ==
  ASSUME NEW S, NEW s \in Seq(S), NEW T
  PROVE  /\ Picked(s, T) \in Seq(S)
         /\ Entries(Picked(s, T)) = Entries(s) \cap T
         /\ NoRepeats(s) => NoRepeats(Picked(s, T))
<1>0. Len(s) \in Nat /\ DOMAIN s = 1 .. Len(s) /\ \A i \in 1 .. Len(s) : s[i] \in S
  BY LenProperties, ElementOfSeq
<1>1. PICK f : /\ f = [k \in 0 .. Len(s) |-> After(s, T, k, f[k - 1])]
               /\ Picked(s, T) = f[Len(s)]
  BY PickedDefined
<1> DEFINE Good(m) == /\ f[m] \in Seq(S)
                      /\ Entries(f[m]) = {s[i] : i \in 1 .. m} \cap T
                      /\ NoRepeats(s) => NoRepeats(f[m])
           G == {m \in 0 .. Len(s) : Good(m)}
<1>2. Good(0)
  <2>1. f[0] = <<>>
    BY <1>0, <1>1 DEF After
  <2>2. <<>> \in Seq(S) /\ DOMAIN <<>> = {}
    BY EmptySeq
  <2>3. QED
    BY <2>1, <2>2 DEF Entries, NoRepeats
<1>3. ASSUME NEW m \in 0 .. Len(s) - 1, Good(m) PROVE Good(m + 1)
  <2>0. m + 1 \in 1 .. Len(s) /\ m \in Nat /\ (m + 1) - 1 = m
    BY <1>0
  <2>1. f[m + 1] = IF s[m + 1] \in T THEN Append(f[m], s[m + 1]) ELSE f[m]
    <3>1. f[m + 1] = After(s, T, m + 1, f[(m + 1) - 1])
      BY <2>0, <1>0, <1>1
    <3>2. QED
      BY <3>1, <2>0 DEF After
  <2>2. {s[i] : i \in 1 .. m + 1} = {s[i] : i \in 1 .. m} \cup {s[m + 1]}
    <3>1. 1 .. m + 1 = (1 .. m) \cup {m + 1}
      BY <2>0
    <3>2. QED
      BY <3>1
  <2>3. CASE s[m + 1] \notin T
    BY <2>1, <2>2, <2>3, <1>3
  <2>4. CASE s[m + 1] \in T
    <3> DEFINE t == f[m]
               x == s[m + 1]
               u == Append(t, x)
    <3>1. t \in Seq(S) /\ x \in S /\ Len(t) \in Nat /\ DOMAIN t = 1 .. Len(t)
      BY <1>0, <1>3, <2>0, LenProperties
    <3>2. /\ u \in Seq(S) /\ Len(u) = Len(t) + 1 /\ u[Len(t) + 1] = x
          /\ \A i \in 1 .. Len(t) : u[i] = t[i]
      BY <3>1, AppendProperties
    <3>3. DOMAIN u = 1 .. Len(t) + 1
      BY <3>2, LenProperties
    <3>4. f[m + 1] = u
      BY <2>1, <2>4
    <3> HIDE DEF t, x, u
    <3>5. Entries(u) = Entries(t) \cup {x}
      <4>1. 1 .. Len(t) + 1 = (1 .. Len(t)) \cup {Len(t) + 1}
        BY <3>1
      <4>2. QED
        BY <3>1, <3>2, <3>3, <4>1 DEF Entries
    <3>6. Entries(f[m + 1]) = {s[i] : i \in 1 .. m + 1} \cap T
      BY <1>3, <2>2, <2>4, <3>4, <3>5 DEF t, x
    <3>7. ASSUME NoRepeats(s) PROVE NoRepeats(u)
      <4>1. x \notin Entries(t)
        <5>1. \A i \in 1 .. m : s[i] # x
          BY <3>7, <1>0, <2>0 DEF NoRepeats, x
        <5>2. QED
          BY <5>1, <1>3 DEF t
      <4>2. NoRepeats(t)
        BY <3>7, <1>3 DEF t
      <4>3. \A i \in 1 .. Len(t) : t[i] # x
        BY <4>1, <3>1 DEF Entries
      <4>4. QED
        BY <3>1, <3>2, <3>3, <4>2, <4>3 DEF NoRepeats
    <3>8. QED
      BY <3>2, <3>4, <3>6, <3>7
  <2>5. QED
    BY <2>3, <2>4
<1> HIDE DEF Good
<1>4. Good(Len(s))
  <2>1. 0 \in G /\ \A m \in 0 .. Len(s) - 1 : m \in G => m + 1 \in G
    BY <1>0, <1>2, <1>3
  <2> HIDE DEF G
  <2>2. 0 .. Len(s) \subseteq G
    BY <1>0, <2>1, UpTo
  <2> USE DEF G
  <2>3. QED
    BY <1>0, <2>2
<1>5. Entries(s) = {s[i] : i \in 1 .. Len(s)}
  BY <1>0 DEF Entries
<1>6. QED
  BY <1>1, <1>4, <1>5 DEF Good
-----------------------------------------------------------------------------
(* Multiplication is monotonic.                                            *)
LEMMA Monotonic ==
  ASSUME NEW a \in Nat, NEW b \in Nat, NEW c \in Nat
  PROVE  /\ a <= b => c * a <= c * b
         /\ a < b => c * a + c <= c * b
         /\ c * a \in Nat
OBVIOUS

(* Quotient and remainder, and that no other numbers are.                  *)
LEMMA DivMod ==
  \A n \in Nat, d \in Nat \ {0} :
    /\ n \div d \in Nat /\ n % d \in Nat /\ n % d < d
    /\ n = d * (n \div d) + (n % d)
OBVIOUS

LEMMA DivUnique ==
  \A d \in Nat \ {0}, q, r, e, t \in Nat :
    r < d /\ t < d /\ d * q + r = d * e + t => q = e /\ r = t
<1> SUFFICES ASSUME NEW d \in Nat \ {0}, NEW q \in Nat, NEW r \in Nat, NEW e \in Nat,
                    NEW t \in Nat, r < d, t < d, d * q + r = d * e + t
             PROVE  q = e /\ r = t
  OBVIOUS
<1>1. PICK x \in Nat, y \in Nat : x = d * q /\ y = d * e
  BY Monotonic
<1>2. q < e => x + d <= y
  BY <1>1, Monotonic
<1>3. e < q => y + d <= x
  BY <1>1, Monotonic
<1>4. q = e
  BY <1>1, <1>2, <1>3
<1>5. QED
  BY <1>1, <1>4
-----------------------------------------------------------------------------
(* The first item of process p, counted on past the last process.          *)
First(n, size, p) == (n \div size) * p + Least(n % size, p)

(* The intervals follow each other from 0 to n.                            *)
LEMMA Intervals ==
  ASSUME NEW n \in Nat, NEW size \in Nat \ {0}
  PROVE  /\ First(n, size, 0) = 0 /\ First(n, size, size) = n
         /\ \A p \in Nat : /\ First(n, size, p) \in Nat
                           /\ First(n, size, p + 1) =
                                First(n, size, p) + ShareSize(n, p, size)
         /\ \A p, q \in Nat : p <= q => First(n, size, p) <= First(n, size, q)
<1>1. PICK a \in Nat, b \in Nat :
        a = n \div size /\ b = n % size /\ b < size /\ n = size * a + b
  BY DivMod
<1>2. First(n, size, 0) = 0 /\ First(n, size, size) = n
  <2>1. a * 0 = 0 /\ Least(b, 0) = 0 /\ Least(b, size) = b /\ a * size = size * a
    BY <1>1 DEF Least
  <2>2. QED
    BY <1>1, <2>1 DEF First
<1>3. ASSUME NEW p \in Nat
      PROVE  /\ First(n, size, p) \in Nat
             /\ First(n, size, p + 1) = First(n, size, p) + ShareSize(n, p, size)
  <2>1. PICK x \in Nat : x = a * p
    BY Monotonic
  <2>2. a * (p + 1) = x + a
    BY <2>1
  <2>3. First(n, size, p) = x + Least(b, p) /\ First(n, size, p + 1) = x + a + Least(b, p + 1)
    BY <1>1, <2>1, <2>2 DEF First
  <2>4. /\ Least(b, p) \in Nat
        /\ Least(b, p + 1) = Least(b, p) + IF p < b THEN 1 ELSE 0
    BY <1>1 DEF Least
  <2>5. ShareSize(n, p, size) = a + IF p < b THEN 1 ELSE 0
    BY <1>1 DEF ShareSize
  <2>6. QED
    BY <2>1, <2>3, <2>4, <2>5
<1>4. ASSUME NEW p \in Nat, NEW q \in Nat, p <= q
      PROVE  First(n, size, p) <= First(n, size, q)
  <2>1. PICK x \in Nat, y \in Nat : x = a * p /\ y = a * q /\ x <= y
    BY <1>4, Monotonic
  <2>2. Least(b, p) \in Nat /\ Least(b, q) \in Nat /\ Least(b, p) <= Least(b, q)
    BY <1>1, <1>4 DEF Least
  <2>3. x + Least(b, p) <= y + Least(b, q)
    BY <2>1, <2>2
  <2>4. QED
    BY <1>1, <2>1, <2>3 DEF First
<1>5. QED
  BY <1>2, <1>3, <1>4

(* A sequential share is such an interval.                                 *)
LEMMA ShareIsInterval ==
  ASSUME NEW n \in Nat, NEW size \in Nat \ {0}, NEW p \in 0 .. size - 1
  PROVE  /\ Share(n, p, size, TRUE) \in Seq(Nat)
         /\ NoRepeats(Share(n, p, size, TRUE))
         /\ \A k \in Nat : k \in Entries(Share(n, p, size, TRUE)) <=>
                             First(n, size, p) <= k /\ k < First(n, size, p + 1)
<1>1. PICK a \in Nat, b \in Nat : a = First(n, size, p) /\ b = ShareSize(n, p, size)
  <2>1. p \in Nat
    OBVIOUS
  <2>2. ShareSize(n, p, size) \in Nat
    <3>1. n \div size \in Nat
      BY DivMod
    <3>2. QED
      BY <3>1 DEF ShareSize
  <2>3. QED
    BY <2>1, <2>2, Intervals
<1>2. Share(n, p, size, TRUE) = [i \in 1 .. b |-> i - 1 + a]
  <2>1. PICK x \in Nat, y \in Nat : x = (n \div size) * p /\ y = Least(n % size, p)
    <3>1. p \in Nat /\ n \div size \in Nat /\ n % size \in Nat
      BY DivMod
    <3>2. (n \div size) * p \in Nat /\ Least(n % size, p) \in Nat
      BY <3>1, Monotonic DEF Least
    <3>3. QED
      BY <3>2
  <2>2. a = x + y
    BY <1>1, <2>1 DEF First
  <2>3. Share(n, p, size, TRUE) = [i \in 1 .. b |-> i - 1 + x + y]
    BY <1>1, <2>1 DEF Share
  <2>4. \A i \in 1 .. b : i - 1 + x + y = i - 1 + a
    BY <1>1, <2>1, <2>2
  <2>5. QED
    BY <2>3, <2>4
<1> DEFINE s == [i \in 1 .. b |-> i - 1 + a]
<1>3. s \in Seq(Nat) /\ DOMAIN s = 1 .. b
  <2>1. s \in [1 .. b -> Nat]
    BY <1>1
  <2>2. QED
    BY <2>1, SeqDef
<1>4. NoRepeats(s)
  BY <1>1 DEF NoRepeats
<1>5. ASSUME NEW k \in Nat PROVE k \in Entries(s) <=> a <= k /\ k < a + b
  <2>1. k \in Entries(s) <=> \E i \in 1 .. b : k = i - 1 + a
    BY DEF Entries
  <2>2. ASSUME a <= k, k < a + b PROVE \E i \in 1 .. b : k = i - 1 + a
    <3>1. k - a + 1 \in 1 .. b /\ k = (k - a + 1) - 1 + a
      BY <1>1, <2>2
    <3>2. QED
      BY <3>1
  <2>3. ASSUME NEW i \in 1 .. b, k = i - 1 + a PROVE a <= k /\ k < a + b
    BY <1>1, <2>3
  <2>4. QED
    BY <2>1, <2>2, <2>3
<1>6. First(n, size, p + 1) = a + b
  <2>1. p \in Nat
    OBVIOUS
  <2>2. QED
    BY <1>1, <2>1, Intervals
<1>7. QED
  BY <1>1, <1>2, <1>3, <1>4, <1>5, <1>6

(* Every item is in the share of one process, and shares hold items only.  *)
LEMMA ShareOnce ==
  ASSUME NEW n \in Nat, NEW size \in Nat \ {0}
  PROVE  /\ \A p \in 0 .. size - 1 : Entries(Share(n, p, size, TRUE)) \subseteq 0 .. n - 1
         /\ \A p, q \in 0 .. size - 1 : p # q =>
              Entries(Share(n, p, size, TRUE)) \cap Entries(Share(n, q, size, TRUE)) = {}
         /\ \A k \in 0 .. n - 1 : \E p \in 0 .. size - 1 : k \in Entries(Share(n, p, size, TRUE))
<1> DEFINE Start(p) == First(n, size, p)
           Mine(p) == Entries(Share(n, p, size, TRUE))
<1>1. /\ Start(0) = 0 /\ Start(size) = n
      /\ \A p \in Nat : Start(p) \in Nat
      /\ \A p, q \in Nat : p <= q => Start(p) <= Start(q)
  BY Intervals
<1>2. \A p \in 0 .. size - 1 : /\ Mine(p) \subseteq Nat
                               /\ \A k \in Nat : k \in Mine(p) <=> Start(p) <= k /\ k < Start(p + 1)
  <2> SUFFICES ASSUME NEW p \in 0 .. size - 1
               PROVE  /\ Mine(p) \subseteq Nat
                      /\ \A k \in Nat : k \in Mine(p) <=> Start(p) <= k /\ k < Start(p + 1)
    OBVIOUS
  <2>1. Share(n, p, size, TRUE) \in Seq(Nat)
    BY ShareIsInterval
  <2>2. Mine(p) \subseteq Nat
    <3>1. \A s \in Seq(Nat) : Entries(s) \subseteq Nat
      BY ElementOfSeq, LenProperties DEF Entries
    <3>2. QED
      BY <2>1, <3>1
  <2>3. QED
    BY <2>2, ShareIsInterval
<1> HIDE DEF Start, Mine
<1>3. ASSUME NEW p \in 0 .. size - 1 PROVE Mine(p) \subseteq 0 .. n - 1
  <2>1. p + 1 \in Nat /\ size \in Nat /\ p + 1 <= size
    OBVIOUS
  <2>2. Start(p + 1) \in Nat /\ Start(p + 1) <= n
    BY <1>1, <2>1
  <2>3. QED
    BY <1>2, <2>2
<1>4. ASSUME NEW p \in 0 .. size - 1, NEW q \in 0 .. size - 1, p < q
      PROVE  Mine(p) \cap Mine(q) = {}
  <2>1. p + 1 \in Nat /\ q \in Nat /\ p + 1 <= q
    BY <1>4
  <2>2. Start(p + 1) \in Nat /\ Start(q) \in Nat /\ Start(p + 1) <= Start(q)
    BY <1>1, <2>1
  <2>3. ASSUME NEW k \in Mine(p), k \in Mine(q) PROVE FALSE
    <3>1. k \in Nat
      BY <1>2
    <3>2. k < Start(p + 1) /\ Start(q) <= k
      BY <1>2, <2>3, <3>1
    <3>3. QED
      BY <2>2, <3>1, <3>2
  <2>4. QED
    BY <2>3
<1>5. ASSUME NEW k \in 0 .. n - 1 PROVE \E p \in 0 .. size - 1 : k \in Mine(p)
  <2> SUFFICES ASSUME \A p \in 0 .. size - 1 : k \notin Mine(p) PROVE FALSE
    OBVIOUS
  <2> DEFINE G == {p \in Nat : Start(p) <= k}
  <2>1. k \in Nat /\ k < n /\ size \in Nat
    OBVIOUS
  <2>2. 0 \in G
    BY <1>1, <2>1
  <2>3. \A p \in 0 .. size - 1 : p \in G => p + 1 \in G
    <3> SUFFICES ASSUME NEW p \in 0 .. size - 1, p \in G PROVE p + 1 \in G
      OBVIOUS
    <3>1. ~ (k < Start(p + 1))
      BY <1>2, <2>1
    <3>2. p + 1 \in Nat /\ Start(p + 1) \in Nat
      BY <1>1
    <3>3. QED
      BY <2>1, <3>1, <3>2
  <2> HIDE DEF G
  <2>4. 0 .. size \subseteq G
    BY <2>1, <2>2, <2>3, UpTo
  <2>5. size \in G
    BY <2>1, <2>4
  <2> USE DEF G
  <2>6. QED
    BY <1>1, <2>1, <2>5
<1>6. \A p, q \in 0 .. size - 1 : p # q => Mine(p) \cap Mine(q) = {}
  <2> SUFFICES ASSUME NEW p \in 0 .. size - 1, NEW q \in 0 .. size - 1, p # q
               PROVE  Mine(p) \cap Mine(q) = {}
    OBVIOUS
  <2>1. p < q \/ q < p
    OBVIOUS
  <2>2. QED
    BY <2>1, <1>4
<1>7. QED
  BY <1>3, <1>5, <1>6 DEF Mine
-----------------------------------------------------------------------------
(* All pairs of an entry of rows and one of cols with the first not above  *)
(* the second, each once.                                                  *)
LEMMA UpperCell ==
  ASSUME NEW rows \in Seq(Nat), NEW cols \in Seq(Nat), NoRepeats(rows), NoRepeats(cols)
  PROVE  /\ PickUpper(rows, cols) \in Seq(Nat \X Nat)
         /\ NoRepeats(PickUpper(rows, cols))
         /\ \A i, j \in Nat : <<i, j>> \in Entries(PickUpper(rows, cols)) <=>
              i \in Entries(rows) /\ j \in Entries(cols) /\ i <= j
<1>0. PICK m \in Nat, c \in Nat :
        /\ m = Len(rows) /\ DOMAIN rows = 1 .. m /\ \A i \in 1 .. m : rows[i] \in Nat
        /\ c = Len(cols) /\ DOMAIN cols = 1 .. c /\ \A i \in 1 .. c : cols[i] \in Nat
  BY LenProperties, ElementOfSeq
<1>1. PICK l \in Nat : l = m * c /\ l = c * m
  BY Monotonic
<1> DEFINE s == [k \in 1 .. l |-> <<rows[((k - 1) \div c) + 1], cols[((k - 1) % c) + 1]>>]
(* The k-th pair is made of the entries a and b. *)
<1>2. \A k \in 1 .. l : \E a \in 1 .. m, b \in 1 .. c :
        /\ a = ((k - 1) \div c) + 1 /\ b = ((k - 1) % c) + 1
        /\ k - 1 = c * (a - 1) + (b - 1)
  <2> SUFFICES ASSUME NEW k \in 1 .. l
               PROVE  \E a \in 1 .. m, b \in 1 .. c :
                        /\ a = ((k - 1) \div c) + 1 /\ b = ((k - 1) % c) + 1
                        /\ k - 1 = c * (a - 1) + (b - 1)
    OBVIOUS
  <2>1. c # 0
    <3>1. c = 0 => l = 0
      BY <1>1
    <3>2. QED
      BY <3>1
  <2>2. PICK n \in Nat : n = k - 1 /\ n < l
    OBVIOUS
  <2>3. PICK q \in Nat, r \in Nat : q = n \div c /\ r = n % c /\ r < c /\ n = c * q + r
    BY <2>1, DivMod
  <2>4. q < m
    <3>1. m <= q => c * m <= c * q
      BY Monotonic
    <3>2. c * q \in Nat
      BY Monotonic
    <3>3. QED
      BY <1>1, <2>2, <2>3, <3>1, <3>2
  <2>5. q + 1 \in 1 .. m /\ r + 1 \in 1 .. c /\ (q + 1) - 1 = q /\ (r + 1) - 1 = r
    BY <2>3, <2>4
  <2>6. QED
    BY <2>2, <2>3, <2>5
<1>3. s \in Seq(Nat \X Nat) /\ DOMAIN s = 1 .. l
  <2>1. s \in [1 .. l -> Nat \X Nat]
    BY <1>0, <1>2
  <2> HIDE DEF s
  <2>2. QED
    BY <2>1, SeqDef
<1>4. ASSUME NEW a \in 1 .. m, NEW b \in 1 .. c
      PROVE  \E k \in 1 .. l : s[k] = <<rows[a], cols[b]>>
  <2>1. PICK q \in Nat, r \in Nat : q = a - 1 /\ r = b - 1 /\ q < m /\ r < c
    OBVIOUS
  <2>2. PICK x \in Nat : x = c * q
    BY Monotonic
  <2>3. x + c <= l
    BY <1>1, <2>1, <2>2, Monotonic
  <2>4. x + r + 1 \in 1 .. l /\ (x + r + 1) - 1 = x + r
    BY <2>1, <2>3
  <2>5. (x + r) \div c = q /\ (x + r) % c = r
    <3>0. x + r \in Nat /\ c \in Nat \ {0}
      BY <2>1
    <3>1. PICK e \in Nat, t \in Nat : /\ e = (x + r) \div c /\ t = (x + r) % c /\ t < c
                                      /\ x + r = c * e + t
      <4>1. PICK y \in Nat : y = x + r
        BY <3>0
      <4>2. /\ y \div c \in Nat /\ y % c \in Nat /\ y % c < c
            /\ y = c * (y \div c) + (y % c)
        BY <3>0, DivMod, Zenon
      <4>3. QED
        BY <4>1, <4>2, Zenon
    <3>2. c * q + r = c * e + t
      BY <2>2, <3>1
    <3>3. r < c /\ t < c /\ c * q + r = c * e + t => q = e /\ r = t
      BY <3>0, DivUnique, Zenon
    <3>4. QED
      BY <2>1, <3>1, <3>2, <3>3
  <2>6. s[x + r + 1] = <<rows[a], cols[b]>>
    <3>1. q + 1 = a /\ r + 1 = b
      BY <2>1
    <3>2. QED
      BY <2>4, <2>5, <3>1
  <2>7. QED
    BY <2>4, <2>6
<1>5. NoRepeats(s)
  <2> SUFFICES ASSUME NEW k \in 1 .. l, NEW h \in 1 .. l, s[k] = s[h] PROVE k = h
    BY <1>3 DEF NoRepeats
  <2>1. PICK a \in 1 .. m, b \in 1 .. c :
          /\ a = ((k - 1) \div c) + 1 /\ b = ((k - 1) % c) + 1
          /\ k - 1 = c * (a - 1) + (b - 1)
    BY <1>2
  <2>2. PICK d \in 1 .. m, e \in 1 .. c :
          /\ d = ((h - 1) \div c) + 1 /\ e = ((h - 1) % c) + 1
          /\ h - 1 = c * (d - 1) + (e - 1)
    BY <1>2
  <2>3. s[k] = <<rows[a], cols[b]>> /\ s[h] = <<rows[d], cols[e]>>
    BY <2>1, <2>2
  <2>4. rows[a] = rows[d] /\ cols[b] = cols[e]
    BY <2>3
  <2>5. a = d /\ b = e
    BY <1>0, <2>4 DEF NoRepeats
  <2>6. k - 1 = h - 1
    BY <2>1, <2>2, <2>5
  <2>7. QED
    BY <2>6
<1>6. ASSUME NEW i \in Nat, NEW j \in Nat
      PROVE  <<i, j>> \in Entries(s) <=> i \in Entries(rows) /\ j \in Entries(cols)
  <2>1. ASSUME NEW k \in 1 .. l, s[k] = <<i, j>>
        PROVE  i \in Entries(rows) /\ j \in Entries(cols)
    <3>1. PICK a \in 1 .. m, b \in 1 .. c :
            a = ((k - 1) \div c) + 1 /\ b = ((k - 1) % c) + 1
      BY <1>2
    <3>2. s[k] = <<rows[a], cols[b]>>
      BY <3>1
    <3>3. i = rows[a] /\ j = cols[b]
      BY <2>1, <3>2
    <3>4. QED
      BY <1>0, <3>3 DEF Entries
  <2> HIDE DEF s
  <2>2. ASSUME i \in Entries(rows), j \in Entries(cols) PROVE \E k \in 1 .. l : s[k] = <<i, j>>
    <3>1. PICK a \in 1 .. m, b \in 1 .. c : i = rows[a] /\ j = cols[b]
      BY <1>0, <2>2 DEF Entries
    <3>2. QED
      BY <1>4, <3>1
  <2>3. <<i, j>> \in Entries(s) <=> \E k \in 1 .. l : s[k] = <<i, j>>
    BY <1>3 DEF Entries
  <2>4. QED
    BY <2>1, <2>2, <2>3
<1> DEFINE T == {pair \in Nat \X Nat : pair[1] <= pair[2]}
<1>7. PickUpper(rows, cols) = Picked(s, T)
  BY <1>0, <1>1 DEF PickUpper
<1> HIDE DEF s
<1>8. /\ Picked(s, T) \in Seq(Nat \X Nat) /\ NoRepeats(Picked(s, T))
      /\ Entries(Picked(s, T)) = Entries(s) \cap T
  BY <1>3, <1>5, PickedFacts
<1>9. \A i, j \in Nat : <<i, j>> \in T <=> i <= j
  OBVIOUS
<1>10. QED
  BY <1>6, <1>7, <1>8, <1>9
-----------------------------------------------------------------------------
(* Two lists without a common entry, end to end.                           *)
LEMMA EndToEnd ==
  ASSUME NEW S, NEW s \in Seq(S), NEW t \in Seq(S), NoRepeats(s), NoRepeats(t),
         Entries(s) \cap Entries(t) = {}
  PROVE  /\ s \o t \in Seq(S) /\ NoRepeats(s \o t)
         /\ Entries(s \o t) = Entries(s) \cup Entries(t)
         /\ Len(s \o t) = Len(s) + Len(t)
<1>0. PICK m \in Nat, n \in Nat : m = Len(s) /\ DOMAIN s = 1 .. m /\ n = Len(t) /\ DOMAIN t = 1 .. n
  BY LenProperties
<1>1. /\ s \o t \in Seq(S) /\ Len(s \o t) = m + n
      /\ \A i \in 1 .. m + n : (s \o t)[i] = IF i <= m THEN s[i] ELSE t[i - m]
  BY <1>0, ConcatProperties
<1> DEFINE u == s \o t
<1>2. DOMAIN u = 1 .. m + n
  BY <1>0, <1>1, LenProperties
<1>3. \A i \in 1 .. m : i \in 1 .. m + n /\ u[i] = s[i]
  BY <1>1
<1>4. \A i \in 1 .. n : m + i \in 1 .. m + n /\ u[m + i] = t[i]
  <2> SUFFICES ASSUME NEW i \in 1 .. n PROVE m + i \in 1 .. m + n /\ u[m + i] = t[i]
    OBVIOUS
  <2>1. m + i \in 1 .. m + n /\ ~ (m + i <= m) /\ (m + i) - m = i
    OBVIOUS
  <2>2. QED
    BY <1>1, <2>1
<1>5. \A i \in 1 .. m + n : i \notin 1 .. m => i - m \in 1 .. n /\ u[i] = t[i - m]
  BY <1>1
<1>6. \A i \in 1 .. m, j \in 1 .. n : s[i] # t[j]
  BY <1>0 DEF Entries
<1> HIDE DEF u
<1>7. NoRepeats(u)
  <2> SUFFICES ASSUME NEW i \in 1 .. m + n, NEW j \in 1 .. m + n, u[i] = u[j] PROVE i = j
    BY <1>2 DEF NoRepeats
  <2>1. CASE i \in 1 .. m /\ j \in 1 .. m
    BY <1>0, <1>3, <2>1 DEF NoRepeats
  <2>2. CASE i \notin 1 .. m /\ j \notin 1 .. m
    <3>1. PICK p \in 1 .. n, q \in 1 .. n : p = i - m /\ q = j - m
      BY <1>5, <2>2
    <3>2. t[p] = t[q]
      BY <1>5, <2>2, <3>1
    <3>3. p = q
      BY <1>0, <3>2 DEF NoRepeats
    <3>4. QED
      BY <3>1, <3>3
  <2>3. CASE i \in 1 .. m /\ j \notin 1 .. m
    BY <1>3, <1>5, <1>6, <2>3
  <2>4. CASE i \notin 1 .. m /\ j \in 1 .. m
    BY <1>3, <1>5, <1>6, <2>4
  <2>5. QED
    BY <2>1, <2>2, <2>3, <2>4
<1>8. Entries(u) = Entries(s) \cup Entries(t)
  <2>1. \A x \in Entries(s) : x \in Entries(u)
    BY <1>0, <1>2, <1>3 DEF Entries
  <2>2. \A x \in Entries(t) : x \in Entries(u)
    BY <1>0, <1>2, <1>4 DEF Entries
  <2>3. \A x \in Entries(u) : x \in Entries(s) \cup Entries(t)
    <3> SUFFICES ASSUME NEW i \in 1 .. m + n PROVE u[i] \in Entries(s) \cup Entries(t)
      BY <1>2 DEF Entries
    <3>1. CASE i \in 1 .. m
      BY <1>0, <1>3, <3>1 DEF Entries
    <3>2. CASE i \notin 1 .. m
      BY <1>0, <1>5, <3>2 DEF Entries
    <3>3. QED
      BY <3>1, <3>2
  <2>4. QED
    BY <2>1, <2>2, <2>3
<1>9. QED
  BY <1>0, <1>1, <1>7, <1>8 DEF u

(* A list cut in two.                                                      *)
LEMMA CutInTwo ==
  ASSUME NEW S, NEW s \in Seq(S), NEW h \in 0 .. Len(s), NoRepeats(s)
  PROVE  LET a == SubSeq(s, 1, h)
             b == SubSeq(s, h + 1, Len(s))
         IN /\ NoRepeats(a) /\ NoRepeats(b)
            /\ Entries(a) \cup Entries(b) = Entries(s)
            /\ Entries(a) \cap Entries(b) = {}
<1>0. PICK n \in Nat : n = Len(s) /\ DOMAIN s = 1 .. n /\ \A i \in 1 .. n : s[i] \in S
  BY LenProperties, ElementOfSeq
<1> DEFINE a == SubSeq(s, 1, h)
           b == SubSeq(s, h + 1, n)
<1>1. DOMAIN a = 1 .. h /\ \A i \in 1 .. h : a[i] = s[i]
  <2>1. h \in Nat /\ h <= n
    BY <1>0
  <2>2. a = [i \in 1 .. h |-> s[i]]
    <3>1. a = [i \in 1 .. (1 + h - 1) |-> s[1 + i - 1]]
      BY <1>0, <2>1, SMT
    <3>2. (1 + h - 1) = h /\ \A i \in 1 .. h : 1 + i - 1 = i
      BY <2>1
    <3>3. QED
      BY <3>1, <3>2
  <2>3. QED
    BY <2>2
<1>2. DOMAIN b = 1 .. n - h /\ \A i \in 1 .. n - h : b[i] = s[h + i]
  <2>1. h \in Nat /\ h <= n
    BY <1>0
  <2>2. b = [i \in 1 .. n - h |-> s[h + i]]
    <3>1. b = [i \in 1 .. (1 + n - (h + 1)) |-> s[(h + 1) + i - 1]]
      BY <1>0, <2>1, SMT
    <3>2. (1 + n - (h + 1)) = n - h /\ \A i \in 1 .. n - h : (h + 1) + i - 1 = h + i
      BY <2>1
    <3>3. QED
      BY <3>1, <3>2
  <2>3. QED
    BY <2>2
<1> HIDE DEF a, b
<1>3. NoRepeats(a)
  <2>1. \A i \in 1 .. h : i \in 1 .. n
    BY <1>0
  <2>2. QED
    BY <1>0, <1>1, <2>1 DEF NoRepeats
<1>4. NoRepeats(b)
  <2> SUFFICES ASSUME NEW i \in 1 .. n - h, NEW j \in 1 .. n - h, b[i] = b[j] PROVE i = j
    BY <1>2 DEF NoRepeats
  <2>1. h + i \in 1 .. n /\ h + j \in 1 .. n
    BY <1>0
  <2>2. h + i = h + j
    BY <1>0, <1>2, <2>1 DEF NoRepeats
  <2>3. QED
    BY <1>0, <2>2
<1>5. \A x : x \in Entries(a) <=> \E i \in 1 .. h : x = s[i]
  BY <1>1 DEF Entries
<1>6. \A x : x \in Entries(b) <=> \E i \in h + 1 .. n : x = s[i]
  <2>1. \A i \in h + 1 .. n : i - h \in 1 .. n - h /\ h + (i - h) = i
    BY <1>0
  <2>2. \A i \in 1 .. n - h : h + i \in h + 1 .. n
    BY <1>0
  <2>3. \A x : x \in Entries(b) <=> \E i \in 1 .. n - h : x = s[h + i]
    BY <1>2 DEF Entries
  <2>4. QED
    BY <2>1, <2>2, <2>3
<1>7. Entries(a) \cup Entries(b) = Entries(s)
  <2>1. \A i : i \in 1 .. n <=> i \in 1 .. h \/ i \in h + 1 .. n
    BY <1>0
  <2>2. \A x : x \in Entries(s) <=> \E i \in 1 .. n : x = s[i]
    BY <1>0 DEF Entries
  <2>3. QED
    BY <2>2, <2>1, <1>5, <1>6
<1>8. Entries(a) \cap Entries(b) = {}
  <2>1. \A i \in 1 .. h, j \in h + 1 .. n : i # j /\ i \in 1 .. n /\ j \in 1 .. n
    BY <1>0
  <2>2. \A i \in 1 .. h, j \in h + 1 .. n : s[i] # s[j]
    BY <1>0, <2>1 DEF NoRepeats
  <2>3. QED
    BY <1>5, <1>6, <2>2
<1>9. QED
  BY <1>0, <1>3, <1>4, <1>7, <1>8 DEF a, b
-----------------------------------------------------------------------------
Grid(nr, nc)        == (0 .. nr - 1) \X (0 .. nc - 1)
Mirror(nr, nc, p)   == <<nr - 1 - p[1], nc - 1 - p[2]>>
Triangle(n)         == {pair \in (0 .. n - 1) \X (0 .. n - 1) : pair[1] <= pair[2]}
Cell(n, nr, nc, p)  == BlockPairs(n, nr, nc, p[1], p[2])
Tasks(n, nr, nc, p) == UpperTasks(n, nr, nc, p[1], p[2])

(* The cells of the grid cut up the triangle.                              *)
LEMMA Cells ==
  ASSUME NEW n \in Nat, NEW nr \in Nat \ {0}, NEW nc \in Nat \ {0}
  PROVE  /\ \A p \in Grid(nr, nc) : /\ Cell(n, nr, nc, p) \in Seq(Nat \X Nat)
                                    /\ NoRepeats(Cell(n, nr, nc, p))
                                    /\ Entries(Cell(n, nr, nc, p)) \subseteq Triangle(n)
         /\ \A p, q \in Grid(nr, nc) : p # q =>
              Entries(Cell(n, nr, nc, p)) \cap Entries(Cell(n, nr, nc, q)) = {}
         /\ \A x \in Triangle(n) : \E p \in Grid(nr, nc) : x \in Entries(Cell(n, nr, nc, p))
<1> DEFINE Rows(r) == Entries(Share(n, r, nr, TRUE))
           Cols(c) == Entries(Share(n, c, nc, TRUE))
<1>1. ASSUME NEW p \in Grid(nr, nc)
      PROVE  /\ Cell(n, nr, nc, p) \in Seq(Nat \X Nat)
             /\ NoRepeats(Cell(n, nr, nc, p))
             /\ Entries(Cell(n, nr, nc, p)) \subseteq Nat \X Nat
             /\ \A i, j \in Nat : <<i, j>> \in Entries(Cell(n, nr, nc, p)) <=>
                  i \in Rows(p[1]) /\ j \in Cols(p[2]) /\ i <= j
  <2>1. p[1] \in 0 .. nr - 1 /\ p[2] \in 0 .. nc - 1
    BY DEF Grid
  <2>2. /\ Share(n, p[1], nr, TRUE) \in Seq(Nat) /\ NoRepeats(Share(n, p[1], nr, TRUE))
        /\ Share(n, p[2], nc, TRUE) \in Seq(Nat) /\ NoRepeats(Share(n, p[2], nc, TRUE))
    BY <2>1, ShareIsInterval
  <2>3. Cell(n, nr, nc, p) = PickUpper(Share(n, p[1], nr, TRUE), Share(n, p[2], nc, TRUE))
    BY DEF Cell, BlockPairs
  <2>4. /\ Cell(n, nr, nc, p) \in Seq(Nat \X Nat) /\ NoRepeats(Cell(n, nr, nc, p))
        /\ \A i, j \in Nat : <<i, j>> \in Entries(Cell(n, nr, nc, p)) <=>
                  i \in Rows(p[1]) /\ j \in Cols(p[2]) /\ i <= j
    BY <2>2, <2>3, UpperCell
  <2>5. \A s \in Seq(Nat \X Nat) : Entries(s) \subseteq Nat \X Nat
    BY ElementOfSeq, LenProperties DEF Entries
  <2>6. QED
    BY <2>4, <2>5
<1>2. /\ \A r \in 0 .. nr - 1 : Rows(r) \subseteq 0 .. n - 1
      /\ \A r, q \in 0 .. nr - 1 : r # q => Rows(r) \cap Rows(q) = {}
      /\ \A k \in 0 .. n - 1 : \E r \in 0 .. nr - 1 : k \in Rows(r)
  BY ShareOnce
<1>3. /\ \A c \in 0 .. nc - 1 : Cols(c) \subseteq 0 .. n - 1
      /\ \A c, q \in 0 .. nc - 1 : c # q => Cols(c) \cap Cols(q) = {}
      /\ \A k \in 0 .. n - 1 : \E c \in 0 .. nc - 1 : k \in Cols(c)
  BY ShareOnce
<1> HIDE DEF Rows, Cols
<1>4. ASSUME NEW p \in Grid(nr, nc), NEW x \in Entries(Cell(n, nr, nc, p))
      PROVE  x \in Triangle(n) /\ x[1] \in Rows(p[1]) /\ x[2] \in Cols(p[2])
  <2>1. p[1] \in 0 .. nr - 1 /\ p[2] \in 0 .. nc - 1
    BY DEF Grid
  <2>2. PICK i \in Nat, j \in Nat : x = <<i, j>>
    BY <1>1
  <2>3. i \in Rows(p[1]) /\ j \in Cols(p[2]) /\ i <= j
    BY <1>1, <2>2
  <2>4. i \in 0 .. n - 1 /\ j \in 0 .. n - 1
    BY <1>2, <1>3, <2>1, <2>3
  <2>5. QED
    BY <2>2, <2>3, <2>4 DEF Triangle
<1>5. ASSUME NEW p \in Grid(nr, nc), NEW q \in Grid(nr, nc), p # q
      PROVE  Entries(Cell(n, nr, nc, p)) \cap Entries(Cell(n, nr, nc, q)) = {}
  <2>1. /\ p[1] \in 0 .. nr - 1 /\ p[2] \in 0 .. nc - 1 /\ p = <<p[1], p[2]>>
        /\ q[1] \in 0 .. nr - 1 /\ q[2] \in 0 .. nc - 1 /\ q = <<q[1], q[2]>>
    BY DEF Grid
  <2>2. p[1] # q[1] \/ p[2] # q[2]
    BY <1>5, <2>1
  <2>3. Rows(p[1]) \cap Rows(q[1]) = {} \/ Cols(p[2]) \cap Cols(q[2]) = {}
    BY <1>2, <1>3, <2>1, <2>2
  <2>4. QED
    BY <1>4, <2>3
<1>6. ASSUME NEW x \in Triangle(n)
      PROVE  \E p \in Grid(nr, nc) : x \in Entries(Cell(n, nr, nc, p))
  <2>1. x[1] \in 0 .. n - 1 /\ x[2] \in 0 .. n - 1 /\ x[1] <= x[2] /\ x = <<x[1], x[2]>>
    BY DEF Triangle
  <2>2. PICK r \in 0 .. nr - 1, c \in 0 .. nc - 1 : x[1] \in Rows(r) /\ x[2] \in Cols(c)
    BY <1>2, <1>3, <2>1
  <2>3. <<r, c>> \in Grid(nr, nc) /\ <<r, c>>[1] = r /\ <<r, c>>[2] = c
    BY DEF Grid
  <2>4. x[1] \in Nat /\ x[2] \in Nat
    BY <2>1
  <2>5. <<x[1], x[2]>> \in Entries(Cell(n, nr, nc, <<r, c>>))
    BY <1>1, <2>1, <2>2, <2>3, <2>4
  <2>6. QED
    BY <2>1, <2>3, <2>5
<1>7. QED
  BY <1>1, <1>4, <1>5, <1>6

(* A process and its point mirror.                                         *)
LEMMA Mirrored ==
  ASSUME NEW nr \in Nat \ {0}, NEW nc \in Nat \ {0}, NEW p \in Grid(nr, nc)
  PROVE  /\ Mirror(nr, nc, p) \in Grid(nr, nc)
         /\ Mirror(nr, nc, Mirror(nr, nc, p)) = p
         /\ Mirror(nr, nc, p)[1] = nr - 1 - p[1] /\ Mirror(nr, nc, p)[2] = nc - 1 - p[2]
         /\ p = <<p[1], p[2]>> /\ p[1] \in 0 .. nr - 1 /\ p[2] \in 0 .. nc - 1
<1>1. PICK r \in 0 .. nr - 1, c \in 0 .. nc - 1 : p = <<r, c>>
  BY DEF Grid
<1>2. nr - 1 - r \in 0 .. nr - 1 /\ nc - 1 - c \in 0 .. nc - 1
      /\ nr - 1 - (nr - 1 - r) = r /\ nc - 1 - (nc - 1 - c) = c
  OBVIOUS
<1>3. QED
  BY <1>1, <1>2 DEF Grid, Mirror

(* The former of two mirrored processes takes the first half of the list   *)
(* that both work out, the other one the second.                           *)
LEMMA Halves ==
  ASSUME NEW n \in Nat, NEW nr \in Nat \ {0}, NEW nc \in Nat \ {0},
         NEW p \in Grid(nr, nc), NEW q \in Grid(nr, nc), q = Mirror(nr, nc, p), p # q,
         Former(nr, nc, p[1], p[2])
  PROVE  /\ NoRepeats(Tasks(n, nr, nc, p)) /\ NoRepeats(Tasks(n, nr, nc, q))
         /\ Entries(Tasks(n, nr, nc, p)) \cup Entries(Tasks(n, nr, nc, q)) =
              Entries(Cell(n, nr, nc, p)) \cup Entries(Cell(n, nr, nc, q))
         /\ Entries(Tasks(n, nr, nc, p)) \cap Entries(Tasks(n, nr, nc, q)) = {}
<1> DEFINE s == Cell(n, nr, nc, p)
           t == Cell(n, nr, nc, q)
           h == (Len(s) + Len(t)) \div 2
<1>0. PICK r \in 0 .. nr - 1, c \in 0 .. nc - 1, u \in 0 .. nr - 1, v \in 0 .. nc - 1 :
        /\ p = <<r, c>> /\ q = <<u, v>> /\ u = nr - 1 - r /\ v = nc - 1 - c
        /\ r = nr - 1 - u /\ c = nc - 1 - v
  <2>1. p = <<p[1], p[2]>> /\ p[1] \in 0 .. nr - 1 /\ p[2] \in 0 .. nc - 1
    BY Mirrored
  <2>2. q = <<q[1], q[2]>> /\ q[1] \in 0 .. nr - 1 /\ q[2] \in 0 .. nc - 1
    BY Mirrored
  <2>3. q[1] = nr - 1 - p[1] /\ q[2] = nc - 1 - p[2]
    BY Mirrored
  <2>4. p[1] = nr - 1 - q[1] /\ p[2] = nc - 1 - q[2]
    BY <2>1, <2>2, <2>3
  <2>5. QED
    BY <2>1, <2>2, <2>3, <2>4
<1>1. ~ (r = u /\ c = v)
  BY <1>0
<1>2. Former(nr, nc, r, c) /\ ~ Former(nr, nc, u, v)
  <2>1. Former(nr, nc, r, c)
    BY <1>0
  <2>2. QED
    BY <1>0, <1>1, <2>1 DEF Former
<1>3. s = BlockPairs(n, nr, nc, r, c) /\ t = BlockPairs(n, nr, nc, u, v)
  BY <1>0 DEF Cell
<1>4. /\ s \in Seq(Nat \X Nat) /\ t \in Seq(Nat \X Nat) /\ NoRepeats(s) /\ NoRepeats(t)
      /\ Entries(s) \cap Entries(t) = {}
  BY Cells
<1>5. Tasks(n, nr, nc, p) = UpperTasks(n, nr, nc, r, c)
      /\ Tasks(n, nr, nc, q) = UpperTasks(n, nr, nc, u, v)
  BY <1>0 DEF Tasks
<1> HIDE DEF s, t
<1>6. /\ s \o t \in Seq(Nat \X Nat) /\ NoRepeats(s \o t)
      /\ Entries(s \o t) = Entries(s) \cup Entries(t)
      /\ Len(s \o t) = Len(s) + Len(t)
  BY <1>4, EndToEnd
<1>7. PICK a \in Nat, b \in Nat : a = Len(s) /\ b = Len(t)
  BY <1>4, LenProperties
<1>8. UpperTasks(n, nr, nc, r, c) = SubSeq(s \o t, 1, h)
  BY <1>0, <1>1, <1>2, <1>3 DEF UpperTasks
<1>9. UpperTasks(n, nr, nc, u, v) = SubSeq(s \o t, h + 1, Len(s \o t))
  <2>1. Len(t) + Len(s) = Len(s) + Len(t)
    BY <1>7
  <2>2. UpperTasks(n, nr, nc, u, v) =
          SubSeq(s \o t, ((Len(t) + Len(s)) \div 2) + 1, Len(t) + Len(s))
    BY <1>0, <1>1, <1>2, <1>3 DEF UpperTasks
  <2>3. QED
    BY <1>6, <2>1, <2>2
<1>10. h \in 0 .. Len(s \o t)
  <2>1. a + b \in Nat /\ (a + b) \div 2 \in 0 .. a + b
    OBVIOUS
  <2>2. QED
    BY <1>6, <1>7, <2>1
<1>11. /\ NoRepeats(SubSeq(s \o t, 1, h)) /\ NoRepeats(SubSeq(s \o t, h + 1, Len(s \o t)))
       /\ Entries(SubSeq(s \o t, 1, h)) \cup Entries(SubSeq(s \o t, h + 1, Len(s \o t))) =
            Entries(s \o t)
       /\ Entries(SubSeq(s \o t, 1, h)) \cap Entries(SubSeq(s \o t, h + 1, Len(s \o t))) = {}
  <2> HIDE DEF h
  <2>1. QED
    BY <1>6, <1>10, CutInTwo
<1>12. QED
  BY <1>5, <1>6, <1>8, <1>9, <1>11 DEF s, t

(* Two mirrored processes share their cells, whichever is the former; the  *)
(* centre keeps its own.                                                   *)
LEMMA TwoShareTheirCells ==
  ASSUME NEW n \in Nat, NEW nr \in Nat \ {0}, NEW nc \in Nat \ {0},
         NEW p \in Grid(nr, nc), NEW q \in Grid(nr, nc), q = Mirror(nr, nc, p)
  PROVE  /\ NoRepeats(Tasks(n, nr, nc, p))
         /\ Entries(Tasks(n, nr, nc, p)) \cup Entries(Tasks(n, nr, nc, q)) =
              Entries(Cell(n, nr, nc, p)) \cup Entries(Cell(n, nr, nc, q))
         /\ p # q => Entries(Tasks(n, nr, nc, p)) \cap Entries(Tasks(n, nr, nc, q)) = {}
<1>0. /\ p = <<p[1], p[2]>> /\ p[1] \in 0 .. nr - 1 /\ p[2] \in 0 .. nc - 1
      /\ q = <<q[1], q[2]>> /\ q[1] \in 0 .. nr - 1 /\ q[2] \in 0 .. nc - 1
      /\ q[1] = nr - 1 - p[1] /\ q[2] = nc - 1 - p[2] /\ p = Mirror(nr, nc, q)
  BY Mirrored
<1>1. CASE p = q
  <2>1. p[1] = nr - 1 - p[1] /\ p[2] = nc - 1 - p[2]
    BY <1>0, <1>1
  <2>2. Tasks(n, nr, nc, p) = Cell(n, nr, nc, p)
    BY <2>1 DEF Tasks, Cell, UpperTasks
  <2>3. QED
    BY <1>1, <2>2, Cells
<1>2. CASE p # q /\ Former(nr, nc, p[1], p[2])
  BY <1>2, Halves
<1>3. CASE p # q /\ ~ Former(nr, nc, p[1], p[2])
  <2>1. PICK r \in Nat, c \in Nat, u \in Nat, v \in Nat :
          r = p[1] /\ c = p[2] /\ u = q[1] /\ v = q[2]
    BY <1>0
  <2>2. u = nr - 1 - r /\ v = nc - 1 - c
    BY <1>0, <2>1
  <2>3. Former(nr, nc, u, v)
    BY <1>3, <2>1, <2>2 DEF Former
  <2>4. Former(nr, nc, q[1], q[2])
    BY <2>1, <2>3
  <2>5. /\ NoRepeats(Tasks(n, nr, nc, q)) /\ NoRepeats(Tasks(n, nr, nc, p))
         /\ Entries(Tasks(n, nr, nc, q)) \cup Entries(Tasks(n, nr, nc, p)) =
              Entries(Cell(n, nr, nc, q)) \cup Entries(Cell(n, nr, nc, p))
         /\ Entries(Tasks(n, nr, nc, q)) \cap Entries(Tasks(n, nr, nc, p)) = {}
    BY <1>0, <1>3, <2>4, Halves
  <2>6. QED
    BY <2>5
<1>4. QED
  BY <1>1, <1>2, <1>3

(* dispatch_upper_triangular_tasks shares the pairs out: on any grid, for  *)
(* any number of atoms, each pair is in the list of one process, once.     *)
LEMMA UpperShared ==
  ASSUME NEW n \in Nat, NEW nr \in Nat \ {0}, NEW nc \in Nat \ {0}
  PROVE  /\ \A p \in Grid(nr, nc) : /\ NoRepeats(Tasks(n, nr, nc, p))
                                    /\ Entries(Tasks(n, nr, nc, p)) \subseteq Triangle(n)
         /\ \A p, q \in Grid(nr, nc) : p # q =>
              Entries(Tasks(n, nr, nc, p)) \cap Entries(Tasks(n, nr, nc, q)) = {}
         /\ \A x \in Triangle(n) : \E p \in Grid(nr, nc) : x \in Entries(Tasks(n, nr, nc, p))
<1> DEFINE G == Grid(nr, nc)
           M(p) == Mirror(nr, nc, p)
           A(p) == Entries(Cell(n, nr, nc, p))
           B(p) == Entries(Tasks(n, nr, nc, p))
<1>1. /\ \A p \in G : A(p) \subseteq Triangle(n)
      /\ \A p, q \in G : p # q => A(p) \cap A(q) = {}
      /\ \A x \in Triangle(n) : \E p \in G : x \in A(p)
  BY Cells
<1>2. \A p \in G : M(p) \in G /\ M(M(p)) = p
  BY Mirrored
<1>3. \A p \in G : /\ NoRepeats(Tasks(n, nr, nc, p))
                   /\ B(p) \cup B(M(p)) = A(p) \cup A(M(p))
                   /\ p # M(p) => B(p) \cap B(M(p)) = {}
  <2> SUFFICES ASSUME NEW p \in G
               PROVE  /\ NoRepeats(Tasks(n, nr, nc, p))
                      /\ B(p) \cup B(M(p)) = A(p) \cup A(M(p))
                      /\ p # M(p) => B(p) \cap B(M(p)) = {}
    OBVIOUS
  <2>1. M(p) \in G
    BY <1>2
  <2>2. QED
    BY <2>1, TwoShareTheirCells
<1> HIDE DEF G, M, A, B
<1>4. \A p \in G : B(p) \subseteq A(p) \cup A(M(p))
  BY <1>3
<1>5. \A p \in G : B(p) \subseteq Triangle(n)
  BY <1>1, <1>2, <1>4
<1>6. ASSUME NEW p \in G, NEW q \in G, p # q PROVE B(p) \cap B(q) = {}
  <2>1. CASE q = M(p)
    BY <1>3, <1>6, <2>1
  <2>2. CASE q # M(p)
    <3>1. p # M(q) /\ M(p) # M(q) /\ M(p) \in G /\ M(q) \in G
      BY <1>2, <1>6, <2>2
    <3>2. /\ A(p) \cap A(q) = {} /\ A(p) \cap A(M(q)) = {}
          /\ A(M(p)) \cap A(q) = {} /\ A(M(p)) \cap A(M(q)) = {}
      BY <1>1, <1>6, <2>2, <3>1
    <3>3. QED
      BY <1>4, <3>2
  <2>3. QED
    BY <2>1, <2>2
<1>7. ASSUME NEW x \in Triangle(n) PROVE \E p \in G : x \in B(p)
  <2>1. PICK p \in G : x \in A(p)
    BY <1>1
  <2>2. x \in B(p) \/ x \in B(M(p))
    BY <1>3, <2>1
  <2>3. QED
    BY <1>2, <2>2
<1>8. QED
  BY <1>3, <1>5, <1>6, <1>7 DEF G, B
-----------------------------------------------------------------------------
(* The grid and the atoms are chosen once.                                 *)
Chosen == /\ grid \in [rows: 1 .. MaxRow, cols: 1 .. MaxCol] /\ natom \in 1 .. MaxAtom
          /\ given \subseteq Matrix /\ calls \in Seq(Routing)

(* Before the first call nothing has been shared out or moved.             *)
Untouched ==
  calls = <<>> => /\ done = FALSE
                  /\ local = [p \in Proc |-> <<>>] /\ book = [p \in Proc |-> <<>>]
                  /\ held = [m \in Matrix |-> [p \in Proc |-> {}]]

(* From then on, the lists are those of the last call, the entries and the *)
(* blocks those of the first one.                                          *)
FirstAndLast ==
  calls # <<>> =>
    /\ done = (given # {})
    /\ local = [p \in Proc |-> Assigned(calls[Len(calls)], p)]
    /\ book = [p \in Proc |-> [q \in Proc |-> Entries(Assigned(calls[1], q))]]
    /\ held = [m \in Matrix |-> [p \in Proc |->
                 IF m \in given THEN Entries(Assigned(calls[1], p)) ELSE {}]]

IInv == Chosen /\ Untouched /\ FirstAndLast

(* What a routing assigns: shares of the triangle, or all of it to each.   *)
LEMMA Assignments ==
  ASSUME Chosen
  PROVE  /\ <<0, 0>> \in Proc
         /\ \A routing \in Routing : \A p \in Proc :
              /\ NoRepeats(Assigned(routing, p)) /\ Entries(Assigned(routing, p)) \subseteq Pairs
              /\ ~ Triangular(routing) => Entries(Assigned(routing, p)) = Pairs
         /\ \A routing \in Routing : Triangular(routing) =>
              /\ \A p, q \in Proc : p # q =>
                   Entries(Assigned(routing, p)) \cap Entries(Assigned(routing, q)) = {}
              /\ \A x \in Pairs : \E p \in Proc : x \in Entries(Assigned(routing, p))
<1>1. /\ grid.rows \in Nat \ {0} /\ grid.cols \in Nat \ {0} /\ natom \in Nat
      /\ Proc = Grid(grid.rows, grid.cols) /\ Pairs = Triangle(natom)
  BY GridAssumption DEF Chosen, Proc, Grid, Pairs, Triangle
<1>2. <<0, 0>> \in Proc
  BY <1>1 DEF Grid
<1>3. ASSUME NEW routing \in Routing, Triangular(routing)
      PROVE  \A p \in Proc : Assigned(routing, p) = Tasks(natom, grid.rows, grid.cols, p)
  BY <1>3 DEF Assigned, Tasks
<1>4. ASSUME NEW routing \in Routing, ~ Triangular(routing), NEW p \in Proc
      PROVE  NoRepeats(Assigned(routing, p)) /\ Entries(Assigned(routing, p)) = Pairs
  <2>1. Assigned(routing, p) = Cell(natom, 1, 1, <<0, 0>>)
    BY <1>4 DEF Assigned, Cell
  <2>2. /\ \A q \in Grid(1, 1) : /\ NoRepeats(Cell(natom, 1, 1, q))
                                 /\ Entries(Cell(natom, 1, 1, q)) \subseteq Triangle(natom)
        /\ \A x \in Triangle(natom) : \E q \in Grid(1, 1) : x \in Entries(Cell(natom, 1, 1, q))
    <3>1. 1 \in Nat \ {0}
      OBVIOUS
    <3>2. QED
      BY <1>1, <3>1, Cells
  <2>3. Grid(1, 1) = {<<0, 0>>}
    BY DEF Grid
  <2>4. QED
    BY <1>1, <2>1, <2>2, <2>3
<1>5. /\ \A p \in Proc : /\ NoRepeats(Tasks(natom, grid.rows, grid.cols, p))
                         /\ Entries(Tasks(natom, grid.rows, grid.cols, p)) \subseteq Pairs
      /\ \A p, q \in Proc : p # q => Entries(Tasks(natom, grid.rows, grid.cols, p)) \cap
                                     Entries(Tasks(natom, grid.rows, grid.cols, q)) = {}
      /\ \A x \in Pairs : \E p \in Proc : x \in Entries(Tasks(natom, grid.rows, grid.cols, p))
  BY <1>1, UpperShared
<1>6. QED
  BY <1>2, <1>3, <1>4, <1>5

(* The blocks of a matrix arrive where all processes know they belong.     *)
LEMMA MoveByTheBook ==
  ASSUME Chosen, NEW routing \in Routing,
         NEW known, known = [p \in Proc |-> [q \in Proc |-> Entries(Assigned(routing, q))]]
  PROVE  Moved(known) = [m \in Matrix |-> [p \in Proc |->
                           IF m \in given THEN Entries(Assigned(routing, p)) ELSE {}]]
<1>1. ASSUME NEW m \in Matrix, NEW p \in Proc
      PROVE  {pair \in Pairs : m \in given /\ \A q \in Proc : pair \in known[q][p]} =
               IF m \in given THEN Entries(Assigned(routing, p)) ELSE {}
  <2>1. \A q \in Proc : known[q][p] = Entries(Assigned(routing, p))
    OBVIOUS
  <2>2. Entries(Assigned(routing, p)) \subseteq Pairs /\ <<0, 0>> \in Proc
    BY Assignments
  <2>3. QED
    BY <2>1, <2>2
<1>2. QED
  BY <1>1 DEF Moved

(* A call puts in place what FirstAndLast says.                            *)
LEMMA PrepareKeeps ==
  ASSUME IInv, NEW routing \in Routing, Prepare(routing)
  PROVE  IInv'
<1>1. /\ calls' = Append(calls, routing) /\ calls \in Seq(Routing)
      /\ local' = [p \in Proc |-> Assigned(routing, p)] /\ book' = Note(local')
      /\ held' = IF ~ done /\ given # {} THEN Moved(book') ELSE held
      /\ done' = (done \/ (~ done /\ given # {}))
      /\ grid' = grid /\ natom' = natom /\ given' = given
  BY DEF Prepare, IInv, Chosen
<1>2. /\ Proc' = Proc /\ Pairs' = Pairs
      /\ \A r, p : Assigned(r, p)' = Assigned(r, p)
  BY <1>1 DEF Proc, Pairs, Assigned
<1>3. /\ calls' \in Seq(Routing) /\ calls' # <<>> /\ calls'[Len(calls')] = routing
      /\ calls = <<>> => calls'[1] = routing
      /\ calls # <<>> => calls'[1] = calls[1] /\ calls[1] \in Routing
  <2>1. PICK n \in Nat : n = Len(calls)
    BY <1>1, LenProperties
  <2>2. /\ calls' \in Seq(Routing) /\ Len(calls') = n + 1 /\ calls'[n + 1] = routing
        /\ \A i \in 1 .. n : calls'[i] = calls[i]
    BY <1>1, <2>1, AppendProperties
  <2>3. calls = <<>> <=> n = 0
    BY <1>1, <2>1, EmptySeq
  <2>4. calls' # <<>>
    BY <1>1, <2>2, AppendProperties
  <2>5. n # 0 => 1 \in 1 .. n /\ calls[1] \in Routing
    BY <1>1, <2>1, ElementOfSeq
  <2>6. QED
    BY <2>2, <2>3, <2>4, <2>5
<1>4. Chosen'
  BY <1>1, <1>3 DEF IInv, Chosen
<1>5. book' = [p \in Proc |-> [q \in Proc |-> Entries(Assigned(calls'[1], q))]]
  <2>1. CASE calls = <<>>
    <3>1. \A p \in Proc : book[p] = <<>>
      BY <2>1 DEF IInv, Untouched
    <3>2. \A p, q \in Proc : q \notin DOMAIN book[p]
      BY <3>1 DEF Proc
    <3>3. \A q \in Proc : Entries(local'[q]) = Entries(Assigned(calls'[1], q))
      BY <1>1, <1>3, <2>1
    <3>4. QED
      BY <1>1, <3>2, <3>3 DEF Note
  <2>2. CASE calls # <<>>
    <3>1. \A p \in Proc : book[p] = [q \in Proc |-> Entries(Assigned(calls'[1], q))]
      BY <1>3, <2>2 DEF IInv, FirstAndLast
    <3>2. QED
      BY <1>1, <3>1 DEF Note
  <2>3. QED
    BY <2>1, <2>2
<1>6. /\ done' = (given # {})
      /\ held' = [m \in Matrix |-> [p \in Proc |->
                    IF m \in given THEN Entries(Assigned(calls'[1], p)) ELSE {}]]
  <2>1. CASE calls = <<>> /\ given # {}
    <3>1. ~ done /\ calls'[1] = routing
      BY <1>3, <2>1 DEF IInv, Untouched
    <3>2. Moved(book') = [m \in Matrix |-> [p \in Proc |->
                            IF m \in given THEN Entries(Assigned(routing, p)) ELSE {}]]
      BY <1>5, <3>1, MoveByTheBook DEF IInv
    <3>3. QED
      BY <1>1, <2>1, <3>1, <3>2
  <2>2. CASE calls = <<>> /\ given = {}
    BY <1>1, <2>2 DEF IInv, Untouched
  <2>3. CASE calls # <<>>
    <3>1. /\ done = (given # {}) /\ held' = held
          /\ held = [m \in Matrix |-> [p \in Proc |->
                       IF m \in given THEN Entries(Assigned(calls[1], p)) ELSE {}]]
      BY <1>1, <2>3 DEF IInv, FirstAndLast
    <3>2. QED
      BY <1>1, <1>3, <2>3, <3>1
  <2>4. QED
    BY <2>1, <2>2, <2>3
<1>7. FirstAndLast'
  BY <1>1, <1>2, <1>3, <1>5, <1>6 DEF FirstAndLast
<1>8. QED
  BY <1>3, <1>4, <1>7 DEF IInv, Untouched

(* The invariant holds in every reachable state.                           *)
THEOREM Inductive == Spec => []IInv
<1>1. Init => IInv
  <2> SUFFICES ASSUME Init PROVE IInv
    OBVIOUS
  <2>1. Chosen
    BY EmptySeq DEF Init, Chosen
  <2>2. QED
    BY <2>1 DEF Init, IInv, Untouched, FirstAndLast
<1>2. IInv /\ [Next]_vars => IInv'
  <2> SUFFICES ASSUME IInv, [Next]_vars PROVE IInv'
    OBVIOUS
  <2>1. ASSUME NEW m \in Matrix, Give(m) PROVE IInv'
    BY <2>1 DEF Give, IInv, Chosen, Untouched, FirstAndLast, Proc
  <2>2. ASSUME UNCHANGED vars PROVE IInv'
    <3>1. /\ grid' = grid /\ natom' = natom /\ given' = given /\ calls' = calls
          /\ done' = done /\ local' = local /\ book' = book /\ held' = held
      BY <2>2 DEF vars
    <3>2. Proc' = Proc
      BY <3>1 DEF Proc
    <3>3. \A routing, p : Assigned(routing, p)' = Assigned(routing, p)
      BY <3>1 DEF Assigned
    <3>4. Chosen'
      BY <3>1 DEF IInv, Chosen
    <3>5. Untouched'
      BY <3>1, <3>2 DEF IInv, Untouched
    <3>6. FirstAndLast'
      BY <3>1, <3>2, <3>3 DEF IInv, FirstAndLast
    <3>7. QED
      BY <3>4, <3>5, <3>6 DEF IInv
  <2>3. QED
    BY <2>1, <2>2, PrepareKeeps DEF Next
<1>3. QED
  BY <1>1, <1>2, PTL DEF Spec

(* The lists name pairs of this system, each at most once, and so do the   *)
(* entries and the blocks: collect_atpairs_all and the move add none.      *)
THEOREM TypeCorrect == Spec => []TypeOK
<1>1. IInv => TypeOK
  <2> SUFFICES ASSUME IInv PROVE TypeOK
    OBVIOUS
  <2>1. Chosen /\ given \subseteq Matrix /\ calls \in Seq(Routing)
    BY DEF IInv, Chosen
  <2>2. CASE calls = <<>>
    <3>1. /\ done = FALSE /\ \A p \in Proc : local[p] = <<>> /\ book[p] = <<>>
          /\ held = [m \in Matrix |-> [p \in Proc |-> {}]]
      BY <2>2 DEF IInv, Untouched
    <3>2. Entries(<<>>) = {} /\ NoRepeats(<<>>)
      BY DEF Entries, NoRepeats
    <3>3. QED
      BY <2>1, <3>1, <3>2 DEF TypeOK
  <2>3. CASE calls # <<>>
    <3>1. calls[1] \in Routing /\ calls[Len(calls)] \in Routing
      <4>1. Len(calls) \in Nat /\ Len(calls) # 0
        BY <2>1, <2>3, LenProperties, EmptySeq
      <4>2. QED
        BY <2>1, <4>1, ElementOfSeq
    <3>2. \A r \in Routing, p \in Proc : /\ NoRepeats(Assigned(r, p))
                                         /\ Entries(Assigned(r, p)) \subseteq Pairs
      BY <2>1, Assignments
    <3>3. /\ done = (given # {})
          /\ local = [p \in Proc |-> Assigned(calls[Len(calls)], p)]
          /\ book = [p \in Proc |-> [q \in Proc |-> Entries(Assigned(calls[1], q))]]
          /\ held = [m \in Matrix |-> [p \in Proc |->
                       IF m \in given THEN Entries(Assigned(calls[1], p)) ELSE {}]]
      BY <2>3 DEF IInv, FirstAndLast
    <3>4. \A p \in Proc : /\ Entries(local[p]) \subseteq Pairs /\ NoRepeats(local[p])
                          /\ book[p] \in [Proc -> SUBSET Pairs]
      BY <3>1, <3>2, <3>3
    <3>5. held \in [Matrix -> [Proc -> SUBSET Pairs]]
      BY <3>1, <3>2, <3>3
    <3>6. QED
      BY <2>1, <3>3, <3>4, <3>5 DEF TypeOK
  <2>4. QED
    BY <2>2, <2>3
<1>2. QED
  BY <1>1, Inductive, PTL

(* Under a triangular routing no pair is left out and none is worked on    *)
(* twice, on any grid and for any number of atoms.                         *)
THEOREM PairsAreSharedOut == Spec => []PairsSharedOut
<1>1. IInv => PairsSharedOut
  <2> SUFFICES ASSUME IInv, calls # <<>>, Triangular(calls[Len(calls)])
               PROVE  /\ UNION {Entries(local[p]) : p \in Proc} = Pairs
                      /\ \A p, q \in Proc :
                           p # q => Entries(local[p]) \cap Entries(local[q]) = {}
    BY DEF PairsSharedOut, LastIsTriangular
  <2>1. PICK r \in Routing : r = calls[Len(calls)]
    <3>1. calls \in Seq(Routing)
      BY DEF IInv, Chosen
    <3>2. Len(calls) \in Nat /\ Len(calls) # 0
      BY <3>1, LenProperties, EmptySeq
    <3>3. QED
      BY <3>1, <3>2, ElementOfSeq
  <2>2. \A p \in Proc : local[p] = Assigned(r, p)
    BY <2>1 DEF IInv, FirstAndLast
  <2>3. /\ \A p \in Proc : Entries(Assigned(r, p)) \subseteq Pairs
        /\ \A p, q \in Proc : p # q => Entries(Assigned(r, p)) \cap Entries(Assigned(r, q)) = {}
        /\ \A x \in Pairs : \E p \in Proc : x \in Entries(Assigned(r, p))
    BY <2>1, Assignments DEF IInv
  <2>4. QED
    BY <2>2, <2>3
<1>2. QED
  BY <1>1, Inductive, PTL

(* The move from the input layout loses no block of a matrix that was      *)
(* given, and after a triangular call leaves none on two processes.        *)
THEOREM InputIsKept == Spec => []InputSurvives
<1>1. IInv => InputSurvives
  <2> SUFFICES ASSUME IInv, done, NEW m \in given
               PROVE  /\ UNION {held[m][p] : p \in Proc} = Pairs
                      /\ Triangular(Head(calls)) =>
                           \A p, q \in Proc : p # q => held[m][p] \cap held[m][q] = {}
    BY DEF InputSurvives
  <2>1. calls # <<>> /\ calls \in Seq(Routing) /\ Chosen /\ m \in Matrix
    BY DEF IInv, Untouched, Chosen
  <2>2. PICK r \in Routing : r = calls[1] /\ r = Head(calls)
    <3>1. Len(calls) \in Nat /\ Len(calls) # 0
      BY <2>1, LenProperties, EmptySeq
    <3>2. calls[1] \in Routing /\ Head(calls) = calls[1]
      BY <2>1, <3>1, ElementOfSeq
    <3>3. QED
      BY <3>2
  <2>3. \A p \in Proc : held[m][p] = Entries(Assigned(r, p))
    BY <2>1, <2>2 DEF IInv, FirstAndLast
  <2>4. /\ <<0, 0>> \in Proc
        /\ \A p \in Proc : /\ Entries(Assigned(r, p)) \subseteq Pairs
                           /\ ~ Triangular(r) => Entries(Assigned(r, p)) = Pairs
        /\ Triangular(r) =>
             /\ \A p, q \in Proc : p # q => Entries(Assigned(r, p)) \cap Entries(Assigned(r, q)) = {}
             /\ \A x \in Pairs : \E p \in Proc : x \in Entries(Assigned(r, p))
    BY <2>1, Assignments
  <2>5. \A x \in Pairs : \E p \in Proc : x \in Entries(Assigned(r, p))
    BY <2>4
  <2>6. QED
    BY <2>2, <2>3, <2>4, <2>5
<1>2. QED
  BY <1>1, Inductive, PTL

(* A program that stays with triangular or with replicated routings finds  *)
(* the blocks of the pairs it works on, although they move only once.      *)
THEOREM BlocksAreAtHand == Spec => []HoldsWhatItNeeds
<1>1. IInv => HoldsWhatItNeeds
  <2> SUFFICES ASSUME IInv, calls # <<>>,
                      \A i \in DOMAIN calls : Triangular(calls[i]) = Triangular(Head(calls)),
                      NEW m \in given, NEW p \in Proc
               PROVE  Entries(local[p]) \subseteq held[m][p]
    BY DEF HoldsWhatItNeeds
  <2>1. calls \in Seq(Routing) /\ Chosen /\ m \in Matrix
    BY DEF IInv, Chosen
  <2>2. PICK r \in Routing, s \in Routing :
          /\ r = calls[1] /\ s = calls[Len(calls)] /\ Triangular(s) = Triangular(r)
    <3>1. Len(calls) \in Nat /\ Len(calls) # 0 /\ DOMAIN calls = 1 .. Len(calls)
      BY <2>1, LenProperties, EmptySeq
    <3>2. calls[1] \in Routing /\ calls[Len(calls)] \in Routing /\ Head(calls) = calls[1]
      BY <2>1, <3>1, ElementOfSeq
    <3>3. QED
      BY <3>1, <3>2
  <2>3. held[m][p] = Entries(Assigned(r, p)) /\ local[p] = Assigned(s, p)
    BY <2>1, <2>2 DEF IInv, FirstAndLast
  <2>4. Assigned(r, p) = Assigned(s, p)
    BY <2>2 DEF Assigned
  <2>5. QED
    BY <2>3, <2>4
<1>2. QED
  BY <1>1, Inductive, PTL
=============================================================================

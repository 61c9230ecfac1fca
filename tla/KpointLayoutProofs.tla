-------------------------- MODULE KpointLayoutProofs --------------------------
(***************************************************************************)
(* Proofs about KpointLayout for any number of processes and k-points and  *)
(* any request: every k-point is held by one group, as its members and all *)
(* others see it, the root of a k-point holds it, and lists are cut among  *)
(* the groups without gap or overlap.  Nothing is ever agreed upon by a    *)
(* message, so the weight of the proof is in the arithmetic of Dispatch,   *)
(* in lemmas of its own.                                                   *)
(***************************************************************************)
EXTENDS KpointLayout, SequenceTheorems, FiniteSetTheorems, WellFoundedInduction,
        TLAPS

(* Multiplication is monotonic, in the two forms used below.               *)
LEMMA Monotonic ==
  ASSUME NEW a \in Nat, NEW b \in Nat, NEW c \in Nat
  PROVE  /\ a <= b => c * a <= c * b
         /\ a < b => c * a + c <= c * b
         /\ c * a \in Nat
OBVIOUS

(* Quotient and remainder.                                                 *)
LEMMA DivMod ==
  \A n \in Nat, d \in Nat \ {0} :
    /\ n \div d \in Nat /\ n % d \in Nat /\ n % d < d
    /\ n = d * (n \div d) + (n % d)
OBVIOUS

(* They are the only numbers of that kind.                                 *)
LEMMA DivUnique ==
  \A d \in Nat \ {0}, q, r, n \in Nat :
    r < d /\ n = d * q + r => n \div d = q /\ n % d = r
<1> SUFFICES ASSUME NEW d \in Nat \ {0}, NEW q \in Nat, NEW r \in Nat, NEW n \in Nat,
                    r < d, n = d * q + r
             PROVE  n \div d = q /\ n % d = r
  OBVIOUS
<1>1. PICK e \in Nat, s \in Nat : /\ e = n \div d /\ s = n % d /\ s < d
                                  /\ n = d * e + s
  BY DivMod
<1>2. PICK x \in Nat, y \in Nat : x = d * q /\ y = d * e
  BY <1>1, Monotonic
<1>3. ~ (q < e)
  <2> SUFFICES ASSUME q < e PROVE FALSE
    OBVIOUS
  <2>1. x + d <= y
    BY <1>2, Monotonic
  <2>2. QED
    BY <2>1, <1>1, <1>2
<1>4. ~ (e < q)
  <2> SUFFICES ASSUME e < q PROVE FALSE
    OBVIOUS
  <2>1. y + d <= x
    BY <1>2, Monotonic
  <2>2. QED
    BY <2>1, <1>1, <1>2
<1>5. q = e
  BY <1>1, <1>3, <1>4
<1>6. r = s
  BY <1>1, <1>2, <1>5
<1>7. QED
  BY <1>1, <1>5, <1>6

(* A set of numbers has a least element, and a bounded one a greatest.     *)
LEMMA Extremes ==
  ASSUME NEW T \in SUBSET Nat, T # {}
  PROVE  /\ \E x \in T : \A y \in T : x <= y
         /\ \A a \in Nat : (\A y \in T : y <= a) => \E x \in T : \A y \in T : y <= x
<1>1. ASSUME NEW S \in SUBSET Nat, S # {} PROVE \E x \in S : \A y \in S : x <= y
  <2>1. \E x \in S : \A y \in S : ~ (<<y, x>> \in OpToRel(<, Nat))
    BY <1>1, NatLessThanWellFounded, WFMin, Zenon
  <2>2. PICK x \in S : \A y \in S : ~ (y < x)
    BY <2>1 DEF OpToRel
  <2>3. QED
    BY <2>2
<1>2. ASSUME NEW a \in Nat, \A y \in T : y <= a PROVE \E x \in T : \A y \in T : y <= x
  <2> DEFINE S == {a - y : y \in T}
  <2>1. S \in SUBSET Nat /\ S # {}
    <3>1. \A y \in T : a - y \in Nat
      BY <1>2
    <3>2. S \subseteq Nat
      BY <3>1
    <3>3. PICK y \in T : TRUE
      OBVIOUS
    <3>4. a - y \in S
      BY <3>3
    <3>5. QED
      BY <3>2, <3>4
  <2> HIDE DEF S
  <2>2. PICK z \in S : \A y \in S : z <= y
    BY <2>1, <1>1
  <2> USE DEF S
  <2>3. PICK x \in T : z = a - x
    OBVIOUS
  <2>4. \A y \in T : a - x <= a - y
    BY <2>2, <2>3
  <2>5. QED
    BY <2>4, <1>2
<1>3. QED
  BY <1>1, <1>2
-----------------------------------------------------------------------------
(* The entries of a share, by their place in it.                           *)
LEMMA InShare ==
  ASSUME NEW n \in Nat, NEW size \in Nat \ {0}, NEW p \in 0 .. size - 1,
         NEW sequential \in BOOLEAN, NEW k
  PROVE  /\ ShareSize(n, p, size) \in Nat
         /\ k \in Entries(Share(n, p, size, sequential)) <=>
              \E i \in 1 .. ShareSize(n, p, size) :
                k = IF sequential THEN i - 1 + (n \div size) * p + Least(n % size, p)
                                  ELSE size * (i - 1) + p
         /\ Len(Share(n, p, size, sequential)) = ShareSize(n, p, size)
         /\ Share(n, p, size, sequential) \in Seq(Nat)
<1>1. ShareSize(n, p, size) \in Nat
  BY DivMod DEF ShareSize
<1> DEFINE At(i) == IF sequential THEN i - 1 + (n \div size) * p + Least(n % size, p)
                                  ELSE size * (i - 1) + p
           m == ShareSize(n, p, size)
<1>2. Share(n, p, size, sequential) = [i \in 1 .. m |-> At(i)]
  BY DEF Share
<1>3. \A i \in 1 .. m : At(i) \in Nat
  <2> SUFFICES ASSUME NEW i \in 1 .. m PROVE At(i) \in Nat
    OBVIOUS
  <2>1. p \in Nat /\ i - 1 \in Nat /\ n \div size \in Nat /\ n % size \in Nat
    BY <1>1, DivMod
  <2>2. (n \div size) * p \in Nat /\ size * (i - 1) \in Nat
    BY <2>1, Monotonic
  <2>3. QED
    BY <2>1, <2>2 DEF Least
<1> HIDE DEF At, m
<1>4. [i \in 1 .. m |-> At(i)] \in [1 .. m -> Nat]
  BY <1>3
<1>5. m \in Nat
  BY <1>1 DEF m
<1>6. [i \in 1 .. m |-> At(i)] \in Seq(Nat) /\ Len([i \in 1 .. m |-> At(i)]) = m
  BY <1>4, <1>5, SeqDef, LenProperties
<1>7. k \in Entries([i \in 1 .. m |-> At(i)]) <=> \E i \in 1 .. m : k = At(i)
  BY DEF Entries
<1>8. QED
  BY <1>1, <1>2, <1>6, <1>7 DEF At, m

(* Dealt out in turn, an item is where its remainder says.                 *)
LEMMA RoundRobinOwner ==
  ASSUME NEW n \in Nat, NEW size \in Nat \ {0}, NEW p \in 0 .. size - 1,
         NEW k \in 0 .. n - 1
  PROVE  k \in Entries(Share(n, p, size, FALSE)) <=> p = k % size
<1> DEFINE m == ShareSize(n, p, size)
<1>0. m \in Nat /\ k \in Nat /\ p \in Nat /\ p < size /\ k < n
  <2>1. m \in Nat
    BY InShare
  <2>2. QED
    BY <2>1
<1>1. k \in Entries(Share(n, p, size, FALSE)) <=> \E i \in 1 .. m : k = size * (i - 1) + p
  BY DEF Share, Entries
<1>2. ASSUME NEW i \in 1 .. m, k = size * (i - 1) + p PROVE p = k % size
  <2>1. PICK j \in Nat : j = i - 1
    BY <1>0
  <2>2. k = size * j + p
    BY <2>1, <1>2
  <2>3. p \in Nat /\ p < size
    BY <1>0
  <2>4. k % size = p
    BY <2>2, <1>0, DivUnique, Zenon
  <2>5. QED
    BY <2>4
<1>3. ASSUME p = k % size PROVE \E i \in 1 .. m : k = size * (i - 1) + p
  <2>1. PICK a \in Nat, b \in Nat, c \in Nat :
          /\ a = n \div size /\ b = n % size /\ c = k \div size /\ b < size
          /\ n = size * a + b /\ k = size * c + p
    <3>1. /\ n \div size \in Nat /\ n % size \in Nat /\ n % size < size
          /\ n = size * (n \div size) + (n % size)
      BY DivMod
    <3>2. k \div size \in Nat /\ k = size * (k \div size) + p
      BY <1>0, <1>3, DivMod
    <3>3. QED
      BY <3>1, <3>2
  <2>2. PICK x \in Nat, y \in Nat : x = size * a /\ y = size * c
    BY <2>1, Monotonic
  <2>3. m = a + IF p < b THEN 1 ELSE 0
    BY <2>1 DEF ShareSize
  <2>4. c < m
    <3> SUFFICES ASSUME ~ (c < m) PROVE FALSE
      OBVIOUS
    <3>1. CASE p < b
      <4>1. a < c
        BY <3>1, <2>1, <2>3
      <4>2. x + size <= y
        BY <4>1, <2>2, Monotonic
      <4>3. QED
        BY <4>2, <2>1, <2>2, <1>0
    <3>2. CASE ~ (p < b)
      <4>1. a <= c
        BY <3>2, <2>1, <2>3
      <4>2. x <= y
        BY <4>1, <2>2, Monotonic
      <4>3. QED
        BY <4>2, <3>2, <2>1, <2>2, <1>0
    <3>3. QED
      BY <3>1, <3>2
  <2>5. c + 1 \in 1 .. m /\ (c + 1) - 1 = c
    BY <2>1, <2>4, <1>0
  <2>6. k = size * ((c + 1) - 1) + p
    BY <2>1, <2>5
  <2>7. QED
    BY <2>5, <2>6
<1>4. QED
  BY <1>1, <1>2, <1>3

(* In intervals, the share of p begins where that of p - 1 ends.           *)
LEMMA IntervalOfShare ==
  ASSUME NEW n \in Nat, NEW size \in Nat \ {0}, NEW p \in 0 .. size - 1,
         NEW k \in 0 .. n - 1, NEW a \in Nat, NEW b \in Nat,
         a = n \div size, b = n % size
  PROVE  k \in Entries(Share(n, p, size, TRUE)) <=>
           /\ a * p + Least(b, p) <= k
           /\ k < a * (p + 1) + Least(b, p + 1)
<1> DEFINE m == ShareSize(n, p, size)
<1>0. m \in Nat /\ k \in Nat /\ p \in Nat
  <2>1. m \in Nat
    BY InShare
  <2>2. QED
    BY <2>1
<1>1. PICK x \in Nat : x = a * p
  BY <1>0, Monotonic
<1>2. a * (p + 1) = x + a
  BY <1>0, <1>1
<1>3. m = a + IF p < b THEN 1 ELSE 0
  BY DEF ShareSize
<1>4. k \in Entries(Share(n, p, size, TRUE)) <=>
        \E i \in 1 .. m : k = i - 1 + x + Least(b, p)
  <2>1. k \in Entries(Share(n, p, size, TRUE)) <=>
          \E i \in 1 .. m : k = i - 1 + (n \div size) * p + Least(n % size, p)
    BY DEF Share, Entries
  <2>2. QED
    BY <2>1, <1>1
<1>5. PICK l \in Nat : l = Least(b, p)
  BY <1>0 DEF Least
<1>6. Least(b, p + 1) = l + IF p < b THEN 1 ELSE 0
  BY <1>0, <1>5 DEF Least
<1>7. (\E i \in 1 .. m : k = i - 1 + x + l) <=> x + l <= k /\ k < x + l + m
  <2>1. ASSUME x + l <= k, k < x + l + m PROVE \E i \in 1 .. m : k = i - 1 + x + l
    <3>1. (k - (x + l)) + 1 \in 1 .. m /\ k = ((k - (x + l)) + 1) - 1 + x + l
      BY <2>1, <1>0
    <3>2. QED
      BY <3>1
  <2>2. ASSUME NEW i \in 1 .. m, k = i - 1 + x + l PROVE x + l <= k /\ k < x + l + m
    BY <2>2, <1>0
  <2>3. QED
    BY <2>1, <2>2
<1>8. a * (p + 1) + Least(b, p + 1) = x + l + m
  <2>1. CASE p < b
    BY <2>1, <1>0, <1>2, <1>3, <1>6
  <2>2. CASE ~ (p < b)
    BY <2>2, <1>0, <1>2, <1>3, <1>6
  <2>3. QED
    BY <2>1, <2>2
<1>9. QED
  BY <1>1, <1>4, <1>5, <1>7, <1>8

(* Each item is in the share of one process. *)
LEMMA ShareOnce ==
  \A n \in Nat, size \in Nat \ {0}, sequential \in BOOLEAN : \A k \in 0 .. n - 1 :
    \E g \in 0 .. size - 1 : \A p \in 0 .. size - 1 :
      k \in Entries(Share(n, p, size, sequential)) <=> p = g
<1> SUFFICES ASSUME NEW n \in Nat, NEW size \in Nat \ {0}, NEW sequential \in BOOLEAN,
                    NEW k \in 0 .. n - 1
             PROVE  \E g \in 0 .. size - 1 : \A p \in 0 .. size - 1 :
                      k \in Entries(Share(n, p, size, sequential)) <=> p = g
  OBVIOUS
<1>1. CASE sequential = FALSE
  <2>1. k % size \in 0 .. size - 1
    <3>1. k \in Nat
      OBVIOUS
    <3>2. k % size \in Nat /\ k % size < size
      BY <3>1, DivMod
    <3>3. QED
      BY <3>2
  <2>2. \A p \in 0 .. size - 1 : k \in Entries(Share(n, p, size, FALSE)) <=> p = k % size
    BY RoundRobinOwner
  <2>3. QED
    BY <1>1, <2>1, <2>2, Zenon
<1>2. CASE sequential = TRUE
  <2>1. PICK a \in Nat, b \in Nat :
          a = n \div size /\ b = n % size /\ b < size /\ n = size * a + b
    BY DivMod
  <2> DEFINE Start(p) == a * p + Least(b, p)
             T == {p \in 0 .. size - 1 : Start(p) <= k}
  <2>2. \A p \in Nat : Start(p) \in Nat
    <3> SUFFICES ASSUME NEW p \in Nat PROVE Start(p) \in Nat
      OBVIOUS
    <3>1. a * p \in Nat /\ Least(b, p) \in Nat
      BY Monotonic DEF Least
    <3>2. QED
      BY <3>1
  <2>3. \A p, q \in Nat : p <= q => Start(p) <= Start(q)
    <3> SUFFICES ASSUME NEW p \in Nat, NEW q \in Nat, p <= q PROVE Start(p) <= Start(q)
      OBVIOUS
    <3>1. PICK x \in Nat, y \in Nat : x = a * p /\ y = a * q /\ x <= y
      BY Monotonic
    <3>2. Least(b, p) \in Nat /\ Least(b, q) \in Nat /\ Least(b, p) <= Least(b, q)
      BY DEF Least
    <3>3. x + Least(b, p) <= y + Least(b, q)
      BY <3>1, <3>2
    <3>4. QED
      BY <3>1, <3>3
  <2>4. Start(0) = 0 /\ Start(size) = n
    <3>1. a * 0 = 0 /\ Least(b, 0) = 0 /\ Least(b, size) = b
      BY <2>1 DEF Least
    <3>2. a * size = size * a
      OBVIOUS
    <3>3. QED
      BY <2>1, <3>1, <3>2
  <2>5. \A p \in 0 .. size - 1 : k \in Entries(Share(n, p, size, TRUE)) <=>
                                   Start(p) <= k /\ k < Start(p + 1)
    BY <2>1, IntervalOfShare
  <2> HIDE DEF Start
  <2>6. T \subseteq Nat /\ 0 \in T /\ k \in Nat /\ k < n
    BY <2>4
  <2>7. PICK g \in T : \A p \in T : p <= g
    <3>1. size \in Nat /\ \A p \in T : p <= size
      OBVIOUS
    <3>2. QED
      BY <3>1, <2>6, Extremes
  <2>8. g \in 0 .. size - 1 /\ Start(g) <= k
    BY <2>7
  <2>9. k < Start(g + 1)
    <3>1. CASE g + 1 \in 0 .. size - 1
      <4>1. g + 1 \notin T
        BY <2>7, <2>8
      <4>2. Start(g + 1) \in Nat
        BY <2>2, <2>8
      <4>3. QED
        BY <3>1, <4>1, <4>2, <2>6
    <3>2. CASE g + 1 \notin 0 .. size - 1
      <4>1. g + 1 = size
        BY <3>2, <2>8
      <4>2. QED
        BY <4>1, <2>4, <2>6
    <3>3. QED
      BY <3>1, <3>2
  <2>10. ASSUME NEW p \in 0 .. size - 1, Start(p) <= k, k < Start(p + 1) PROVE p = g
    <3>1. p <= g
      BY <2>7, <2>10
    <3>2. ~ (p < g)
      <4> SUFFICES ASSUME p < g PROVE FALSE
        OBVIOUS
      <4>1. p + 1 <= g /\ p + 1 \in Nat /\ g \in Nat
        BY <2>8
      <4>2. Start(p + 1) <= Start(g) /\ Start(p + 1) \in Nat /\ Start(g) \in Nat
        BY <4>1, <2>2, <2>3
      <4>3. QED
        BY <4>2, <2>6, <2>8, <2>10
    <3>3. QED
      BY <3>1, <3>2, <2>8
  <2>11. \A p \in 0 .. size - 1 : k \in Entries(Share(n, p, size, TRUE)) <=> p = g
    BY <2>5, <2>8, <2>9, <2>10
  <2>12. QED
    BY <1>2, <2>8, <2>11, Zenon
<1>3. QED
  BY <1>1, <1>2

(* With no more processes than items, nobody goes without. *)
LEMMA ShareNotEmpty ==
  ASSUME NEW n \in Nat, NEW size \in 1 .. n, NEW p \in 0 .. size - 1,
         NEW sequential \in BOOLEAN
  PROVE  Len(Share(n, p, size, sequential)) > 0
<1>0. size \in Nat \ {0} /\ size <= n
  OBVIOUS
<1>1. PICK a \in Nat, b \in Nat :
        a = n \div size /\ b = n % size /\ b < size /\ n = size * a + b
  BY <1>0, DivMod
<1>2. a # 0
  <2> SUFFICES ASSUME a = 0 PROVE FALSE
    OBVIOUS
  <2>1. size * 0 = 0
    BY <1>0
  <2>2. n = b
    BY <2>1, <1>1
  <2>3. QED
    BY <2>2, <1>0, <1>1
<1>3. ShareSize(n, p, size) \in Nat /\ ShareSize(n, p, size) >= a
  BY <1>1 DEF ShareSize
<1>4. Len(Share(n, p, size, sequential)) = ShareSize(n, p, size)
  BY <1>0, InShare
<1>5. QED
  BY <1>2, <1>3, <1>4
-----------------------------------------------------------------------------
(* A divisor, its cofactor, and what they divide. *)
LEMMA Cofactor ==
  ASSUME NEW n \in Nat \ {0}, NEW d \in Nat \ {0}, Divides(d, n)
  PROVE  /\ n \div d \in Nat \ {0} /\ d * (n \div d) = n /\ d <= n
         /\ Divides(n \div d, n) /\ n \div (n \div d) = d
<1>1. PICK a \in Nat : a = n \div d /\ n = d * a
  <2>1. n \div d \in Nat /\ n = d * (n \div d) + (n % d)
    BY DivMod
  <2>2. d * (n \div d) \in Nat
    BY <2>1, Monotonic
  <2>3. QED
    BY <2>1, <2>2 DEF Divides
<1>2. a # 0
  <2> SUFFICES ASSUME a = 0 PROVE FALSE
    OBVIOUS
  <2>1. d * 0 = 0
    OBVIOUS
  <2>2. QED
    BY <2>1, <1>1
<1>3. 1 <= a /\ d * 1 = d
  BY <1>2
<1>4. d * 1 <= d * a
  BY <1>3, Monotonic
<1>5. n = a * d + 0 /\ 0 < a /\ 0 \in Nat
  BY <1>1, <1>2
<1>6. n \div a = d /\ n % a = 0
  BY <1>2, <1>5, DivUnique, Zenon
<1>7. QED
  BY <1>1, <1>2, <1>3, <1>4, <1>6 DEF Divides

(* A product is divided by its factors. *)
LEMMA Factors ==
  \A a \in Nat \ {0}, b, n \in Nat : n = a * b => Divides(a, n) /\ n \div a = b
<1> SUFFICES ASSUME NEW a \in Nat \ {0}, NEW b \in Nat, NEW n \in Nat, n = a * b
             PROVE  Divides(a, n) /\ n \div a = b
  OBVIOUS
<1>1. n = a * b + 0 /\ 0 < a /\ 0 \in Nat
  OBVIOUS
<1>2. n \div a = b /\ n % a = 0
  BY <1>1, DivUnique, Zenon
<1>3. QED
  BY <1>2 DEF Divides

(* Divisors of a divisor are divisors. *)
LEMMA DividesTwice ==
  ASSUME NEW n \in Nat \ {0}, NEW m \in Nat \ {0}, NEW d \in Nat \ {0},
         Divides(d, m), Divides(m, n)
  PROVE  Divides(d, n)
<1>1. PICK a \in Nat : m = d * a
  BY Cofactor
<1>2. PICK b \in Nat : n = m * b
  BY Cofactor
<1>3. PICK c \in Nat : c = a * b
  BY Monotonic
<1>4. n = d * c
  BY <1>1, <1>2, <1>3
<1>5. QED
  BY <1>4, Factors

(* The greatest common divisor is one.                                     *)
LEMMA GcdDivides ==
  ASSUME NEW a \in Nat \ {0}, NEW b \in Nat \ {0}
  PROVE  /\ Gcd(a, b) \in 1 .. a /\ Gcd(a, b) <= b
         /\ Divides(Gcd(a, b), a) /\ Divides(Gcd(a, b), b)
<1> DEFINE T == {d \in 1 .. a : Divides(d, a) /\ Divides(d, b)}
<1>1. 1 \in T
  <2>1. a = 1 * a /\ b = 1 * b
    OBVIOUS
  <2>2. Divides(1, a) /\ Divides(1, b)
    BY <2>1, Factors
  <2>3. QED
    BY <2>2
<1>2. T \in SUBSET Nat /\ T # {} /\ \A d \in T : d <= a
  BY <1>1
<1>3. PICK d \in T : \A e \in T : e <= d
  <2>1. a \in Nat
    OBVIOUS
  <2>2. QED
    BY <2>1, <1>2, Extremes
<1>4. \A e \in d + 1 .. a : ~ (Divides(e, a) /\ Divides(e, b))
  <2> SUFFICES ASSUME NEW e \in d + 1 .. a, Divides(e, a), Divides(e, b) PROVE FALSE
    OBVIOUS
  <2>1. e \in T /\ ~ (e <= d)
    OBVIOUS
  <2>2. QED
    BY <2>1, <1>3
<1>5. Gcd(a, b) \in 1 .. a /\ Divides(Gcd(a, b), a) /\ Divides(Gcd(a, b), b)
  <2>1. \E x \in 1 .. a : /\ Divides(x, a) /\ Divides(x, b)
                          /\ \A e \in x + 1 .. a : ~ (Divides(e, a) /\ Divides(e, b))
    BY <1>3, <1>4
  <2>2. QED
    BY <2>1 DEF Gcd
<1>6. Gcd(a, b) <= b
  BY <1>5, Cofactor
<1>7. QED
  BY <1>5, <1>6
-----------------------------------------------------------------------------
(* A shape that cuts a communicator of size into the groups of nk k-points.*)
ShapeFits(shape, size, nk) ==
  /\ shape.outer \in 1 .. nk /\ shape.inner \in Nat \ {0}
  /\ shape.outer * shape.inner = size

(* Every request the program accepts ends in such a shape.                 *)
LEMMA ResolvedShapeFits ==
  ASSUME NEW request \in [outer: Nat, inner: Nat], NEW size \in Nat, NEW nk \in Nat,
         NEW favorSquare \in BOOLEAN, RequestFits(request, size, nk)
  PROVE  ShapeFits(ResolvedShape(request, size, nk, favorSquare), size, nk)
<1> DEFINE outer  == ResolvedOuter(request, size, nk, favorSquare)
           most   == Gcd(nk, size)
           square == {d \in 1 .. most : Divides(d, most) /\ IsSquare(size \div d)}
<1>c. /\ request.outer # AUTO => outer = request.outer
      /\ request.outer = AUTO /\ request.inner # AUTO => outer = size \div request.inner
      /\ request.outer = AUTO /\ request.inner = AUTO =>
           /\ nk >= size => outer = size
           /\ ~ (nk >= size) /\ favorSquare /\ square # {} =>
                outer = CHOOSE d \in square : \A e \in square : e <= d
           /\ ~ (nk >= size) /\ ~ (favorSquare /\ square # {}) => outer = most
  BY Zenon DEF ResolvedOuter
<1> HIDE DEF outer
<1>0. /\ size \in Nat \ {0} /\ nk \in Nat \ {0} /\ request.outer <= nk
      /\ request.outer \in Nat /\ request.inner \in Nat
  BY DEF RequestFits
<1>1. outer \in 1 .. nk /\ Divides(outer, size)
  <2>1. CASE request.outer # AUTO
    <3>1. outer = request.outer /\ outer \in Nat \ {0}
      BY <2>1, <1>0, <1>c DEF AUTO
    <3>2. CASE request.inner # AUTO
      <4>1. size = outer * request.inner
        BY <2>1, <3>1, <3>2 DEF RequestFits
      <4>2. Divides(outer, size)
        BY <3>1, <4>1, <1>0, Factors, Zenon
      <4>3. QED
        BY <3>1, <4>2, <1>0
    <3>3. CASE request.inner = AUTO
      BY <2>1, <3>1, <3>3, <1>0 DEF RequestFits
    <3>4. QED
      BY <3>2, <3>3
  <2>2. CASE request.outer = AUTO /\ request.inner # AUTO
    <3>1. /\ outer = size \div request.inner /\ request.inner \in Nat \ {0}
          /\ Divides(request.inner, size) /\ outer <= nk
      BY <2>2, <1>0, <1>c DEF RequestFits, AUTO
    <3>2. QED
      BY <3>1, <1>0, Cofactor
  <2>3. CASE request.outer = AUTO /\ request.inner = AUTO
    <3>1. /\ most \in Nat \ {0} /\ most <= nk /\ most <= size /\ Divides(most, size)
      BY <1>0, GcdDivides
    <3>2. CASE nk >= size
      <4>1. outer = size
        BY <2>3, <3>2, <1>c
      <4>2. size = size * 1
        OBVIOUS
      <4>3. Divides(size, size)
        BY <4>2, <1>0, Factors
      <4>4. QED
        BY <4>1, <4>3, <3>2, <1>0
    <3>3. CASE ~ (nk >= size) /\ favorSquare /\ square # {}
      <4>1. outer = CHOOSE d \in square : \A e \in square : e <= d
        BY <2>3, <3>3, <1>c
      <4>2. square \in SUBSET Nat /\ \A e \in square : e <= most
        BY <3>1
      <4>3. \E d \in square : \A e \in square : e <= d
        <5> HIDE DEF most, square
        <5>1. QED
          BY <4>2, <3>1, <3>3, Extremes
      <4>4. outer \in square
        <5> HIDE DEF square
        <5>1. QED
          BY <4>1, <4>3
      <4>5. outer \in Nat \ {0} /\ outer <= most /\ Divides(outer, most)
        BY <4>4, <3>1
      <4>6. Divides(outer, size)
        BY <4>5, <3>1, <1>0, DividesTwice
      <4>7. QED
        BY <4>5, <4>6, <3>1, <1>0
    <3>4. CASE ~ (nk >= size) /\ ~ (favorSquare /\ square # {})
      <4>1. outer = most
        BY <2>3, <3>4, <1>c
      <4>2. QED
        BY <4>1, <3>1, <1>0
    <3>5. QED
      BY <3>2, <3>3, <3>4
  <2>4. QED
    BY <2>1, <2>2, <2>3
<1>2. size \div outer \in Nat \ {0} /\ outer * (size \div outer) = size
  BY <1>0, <1>1, Cofactor
<1>3. ResolvedShape(request, size, nk, favorSquare) = [outer |-> outer, inner |-> size \div outer]
  BY DEF ResolvedShape, outer
<1>4. QED
  BY <1>1, <1>2, <1>3 DEF ShapeFits

(* Each process has a place in its group, and the first place of a group   *)
(* is some process's.                                                      *)
LEMMA Placed ==
  ASSUME NEW shape \in [outer: Nat, inner: Nat], NEW size \in Nat, NEW nk \in Nat,
         NEW layout \in {"inner", "outer"}, ShapeFits(shape, size, nk)
  PROVE  /\ \A r \in 0 .. size - 1 :
              /\ SplitRank(r, shape, layout).group \in 0 .. shape.outer - 1
              /\ SplitRank(r, shape, layout).rank \in 0 .. shape.inner - 1
         /\ 0 \in 0 .. shape.inner - 1
         /\ \A g \in 0 .. shape.outer - 1, k \in 0 .. shape.inner - 1 :
              /\ GlobalRank(shape, layout, g, k) \in 0 .. size - 1
              /\ SplitRank(GlobalRank(shape, layout, g, k), shape, layout).group = g
              /\ SplitRank(GlobalRank(shape, layout, g, k), shape, layout).rank = k
<1>1. PICK outer \in Nat \ {0}, inner \in Nat \ {0} :
        shape.outer = outer /\ shape.inner = inner /\ outer * inner = size
  BY DEF ShapeFits
<1>2. ASSUME NEW a \in Nat \ {0}, NEW b \in Nat \ {0}, a * b = size, NEW r \in 0 .. size - 1
      PROVE  r \div b \in 0 .. a - 1 /\ r % b \in 0 .. b - 1
  <2>1. r \in Nat /\ r < size
    OBVIOUS
  <2>2. PICK q \in Nat, s \in Nat : q = r \div b /\ s = r % b /\ s < b /\ r = b * q + s
    <3>1. /\ r \div b \in Nat /\ r % b \in Nat /\ r % b < b
          /\ r = b * (r \div b) + (r % b)
      BY <2>1, <1>2, DivMod, Zenon
    <3>2. QED
      BY <3>1, Zenon
  <2>3. PICK x \in Nat, y \in Nat : x = b * q /\ y = b * a
    BY Monotonic
  <2>4. y = size
    BY <1>2, <2>3
  <2>5. ~ (a <= q)
    <3> SUFFICES ASSUME a <= q PROVE FALSE
      OBVIOUS
    <3>1. y <= x
      BY <2>3, Monotonic
    <3>2. QED
      BY <3>1, <2>1, <2>2, <2>3, <2>4
  <2>6. QED
    BY <2>2, <2>5
<1>3. ASSUME NEW r \in 0 .. size - 1
      PROVE  /\ SplitRank(r, shape, layout).group \in 0 .. shape.outer - 1
             /\ SplitRank(r, shape, layout).rank \in 0 .. shape.inner - 1
  <2>1. r \div inner \in 0 .. outer - 1 /\ r % inner \in 0 .. inner - 1
    BY <1>1, <1>2, <1>3
  <2>2. inner * outer = size
    BY <1>1
  <2>3. r \div outer \in 0 .. inner - 1 /\ r % outer \in 0 .. outer - 1
    BY <2>2, <1>2, <1>3
  <2>4. QED
    BY <1>1, <2>1, <2>3 DEF SplitRank
<1>4. ASSUME NEW a \in Nat \ {0}, NEW b \in Nat \ {0}, a * b = size,
             NEW g \in 0 .. a - 1, NEW k \in 0 .. b - 1
      PROVE  /\ b * g + k \in 0 .. size - 1
             /\ (b * g + k) \div b = g /\ (b * g + k) % b = k
  <2>1. g \in Nat /\ g < a /\ k \in Nat /\ k < b
    OBVIOUS
  <2>2. PICK x \in Nat : x = b * g
    BY <2>1, Monotonic
  <2>3. x + b <= size
    <3>1. b * g + b <= b * a
      BY <2>1, Monotonic
    <3>2. b * a = size
      BY <1>4
    <3>3. QED
      BY <2>2, <3>1, <3>2
  <2>4. PICK y \in Nat : y = x + k
    BY <2>1
  <2>5. y \in 0 .. size - 1
    BY <2>1, <2>3, <2>4
  <2>6. y = b * g + k
    BY <2>2, <2>4
  <2>7. y \div b = g /\ y % b = k
    BY <2>1, <2>6, DivUnique, Zenon
  <2>8. QED
    BY <2>5, <2>6, <2>7, Zenon
<1>5. ASSUME NEW g \in 0 .. shape.outer - 1, NEW k \in 0 .. shape.inner - 1
      PROVE  /\ GlobalRank(shape, layout, g, k) \in 0 .. size - 1
             /\ SplitRank(GlobalRank(shape, layout, g, k), shape, layout).group = g
             /\ SplitRank(GlobalRank(shape, layout, g, k), shape, layout).rank = k
  <2>1. g \in 0 .. outer - 1 /\ k \in 0 .. inner - 1 /\ inner * outer = size
    BY <1>1
  <2>2. g * inner = inner * g /\ k * outer = outer * k
    BY <2>1
  <2>3. CASE layout = "inner"
    <3>1. PICK x : x = inner * g + k
      OBVIOUS
    <3>2. x \in 0 .. size - 1 /\ x \div inner = g /\ x % inner = k
      <4>1. outer * inner = size
        BY <1>1
      <4>2. \A i \in 0 .. outer - 1, j \in 0 .. inner - 1 :
              /\ inner * i + j \in 0 .. size - 1
              /\ (inner * i + j) \div inner = i /\ (inner * i + j) % inner = j
        BY <1>4, <4>1, Zenon
      <4>3. QED
        BY <2>1, <3>1, <4>2, Zenon
    <3>3. GlobalRank(shape, layout, g, k) = x
      BY <1>1, <2>2, <2>3, <3>1, Zenon DEF GlobalRank
    <3>4. QED
      BY <1>1, <2>3, <3>2, <3>3 DEF SplitRank
  <2>4. CASE layout # "inner"
    <3>1. PICK x : x = outer * k + g
      OBVIOUS
    <3>2. x \in 0 .. size - 1 /\ x \div outer = k /\ x % outer = g
      <4>1. \A i \in 0 .. inner - 1, j \in 0 .. outer - 1 :
              /\ outer * i + j \in 0 .. size - 1
              /\ (outer * i + j) \div outer = i /\ (outer * i + j) % outer = j
        BY <1>4, <2>1, Zenon
      <4>2. QED
        BY <2>1, <3>1, <4>1, Zenon
    <3>3. GlobalRank(shape, layout, g, k) = x
      BY <1>1, <2>2, <2>4, <3>1, Zenon DEF GlobalRank
    <3>4. QED
      BY <1>1, <2>4, <3>2, <3>3 DEF SplitRank
  <2>5. QED
    BY <2>3, <2>4
<1>6. 0 \in 0 .. shape.inner - 1
  BY <1>1
<1>7. QED
  BY <1>3, <1>5, <1>6
-----------------------------------------------------------------------------
(* Of a set of numbers, those with the least value of a key are not none.  *)
LEMMA LeastKey ==
  ASSUME NEW T \in SUBSET Nat, T # {}, NEW f \in [T -> Nat]
  PROVE  {d \in T : \A e \in T : f[d] <= f[e]} # {}
<1> DEFINE F == {f[d] : d \in T}
<1>1. F \in SUBSET Nat /\ F # {}
  OBVIOUS
<1>2. PICK x \in F : \A y \in F : x <= y
  <2> HIDE DEF F
  <2>1. QED
    BY <1>1, Extremes
<1>3. PICK d \in T : x = f[d]
  OBVIOUS
<1>4. \A e \in T : f[d] <= f[e]
  BY <1>2, <1>3
<1>5. QED
  BY <1>4

(* The grid that is chosen for a group has a place for each of its members.*)
LEMMA GridFits ==
  ASSUME NEW n \in Nat \ {0}, NEW moreRows \in BOOLEAN, NEW favorSquare \in BOOLEAN
  PROVE  LET grid == ChosenGrid(n, n, n, moreRows, favorSquare)
         IN grid.rows \in Nat \ {0} /\ grid.cols \in Nat \ {0} /\ grid.rows * grid.cols = n
<1> DEFINE D      == {d \in 1 .. n : Divides(d, n)}
           Key(d) == GridKey(d, n, n, n, moreRows, favorSquare)
<1>1. 1 \in D /\ D \in SUBSET Nat
  <2>1. n = 1 * n
    OBVIOUS
  <2>2. Divides(1, n)
    BY <2>1, Factors
  <2>3. QED
    BY <2>2
<1>2. \A d \in D : Key(d)[1] \in Nat /\ Key(d)[2] \in Nat /\ Key(d)[3] \in Nat /\ Key(d)[4] \in Nat
  <2> SUFFICES ASSUME NEW d \in D
               PROVE  Key(d)[1] \in Nat /\ Key(d)[2] \in Nat /\ Key(d)[3] \in Nat /\ Key(d)[4] \in Nat
    OBVIOUS
  <2>1. d \in Nat \ {0}
    OBVIOUS
  <2>2. PICK c \in Nat : c = n \div d
    BY <2>1, DivMod
  <2>3. d * n \in Nat /\ c * n \in Nat
    BY <2>1, Monotonic
  <2>4. /\ AtLeastZero(d - n) + AtLeastZero(c - n) \in Nat
        /\ Distance(d * n, c * n) \in Nat /\ Distance(d, c) \in Nat
    BY <2>1, <2>3 DEF AtLeastZero, Distance
  <2>5. QED
    BY <2>2, <2>4 DEF GridKey
<1> HIDE DEF Key, D
<1> DEFINE T1 == {d \in D : \A e \in D : Key(d)[1] <= Key(e)[1]}
           T2 == {d \in T1 : \A e \in T1 : Key(d)[2] <= Key(e)[2]}
           T3 == {d \in T2 : \A e \in T2 : Key(d)[3] <= Key(e)[3]}
           T4 == {d \in T3 : \A e \in T3 : Key(d)[4] <= Key(e)[4]}
<1>3. ASSUME NEW T \in SUBSET D, T # {}, NEW i \in 1 .. 4
      PROVE  {d \in T : \A e \in T : Key(d)[i] <= Key(e)[i]} # {}
  <2> DEFINE f == [d \in T |-> Key(d)[i]]
  <2>1. f \in [T -> Nat] /\ T \in SUBSET Nat
    BY <1>1, <1>2, <1>3
  <2>2. {d \in T : \A e \in T : f[d] <= f[e]} # {}
    <3> HIDE DEF f
    <3>1. QED
      BY <2>1, <1>3, LeastKey
  <2>3. QED
    BY <2>2
<1>4. T1 # {} /\ T1 \in SUBSET D
  BY <1>1, <1>3
<1>5. T2 # {} /\ T2 \in SUBSET D
  <2> HIDE DEF T1
  <2>1. 2 \in 1 .. 4 /\ T2 \in SUBSET D
    BY <1>4
  <2>2. {d \in T1 : \A e \in T1 : Key(d)[2] <= Key(e)[2]} # {}
    BY <2>1, <1>3, <1>4, Zenon
  <2>3. QED
    BY <2>1, <2>2
<1>6. T3 # {} /\ T3 \in SUBSET D
  <2> HIDE DEF T1, T2
  <2>1. 3 \in 1 .. 4 /\ T3 \in SUBSET D
    BY <1>5
  <2>2. {d \in T2 : \A e \in T2 : Key(d)[3] <= Key(e)[3]} # {}
    BY <2>1, <1>3, <1>5, Zenon
  <2>3. QED
    BY <2>1, <2>2
<1>7. T4 # {} /\ T4 \in SUBSET D
  <2> HIDE DEF T1, T2, T3
  <2>1. 4 \in 1 .. 4 /\ T4 \in SUBSET D
    BY <1>6
  <2>2. {d \in T3 : \A e \in T3 : Key(d)[4] <= Key(e)[4]} # {}
    BY <2>1, <1>3, <1>6, Zenon
  <2>3. QED
    BY <2>1, <2>2
<1>8. PICK d \in T4 : \A e \in T4 : d <= e
  <2> HIDE DEF T4
  <2>1. QED
    BY <1>1, <1>7, Extremes
<1>9. d \in D /\ d \in T1 /\ d \in T2 /\ d \in T3
  BY <1>8
<1>10. ASSUME NEW e \in D
       PROVE  ~ Before(Key(e), Key(d)) /\ (Key(e) = Key(d) => d <= e)
  <2>1. /\ Key(d)[1] \in Nat /\ Key(d)[2] \in Nat /\ Key(d)[3] \in Nat /\ Key(d)[4] \in Nat
        /\ Key(e)[1] \in Nat /\ Key(e)[2] \in Nat /\ Key(e)[3] \in Nat /\ Key(e)[4] \in Nat
    BY <1>2, <1>9
  <2>2. Key(d)[1] <= Key(e)[1]
    BY <1>9
  <2>3. Key(e)[1] = Key(d)[1] => e \in T1 /\ Key(d)[2] <= Key(e)[2]
    BY <1>9
  <2>4. Key(e)[1] = Key(d)[1] /\ Key(e)[2] = Key(d)[2] =>
          e \in T2 /\ Key(d)[3] <= Key(e)[3]
    BY <2>3, <1>9
  <2>5. Key(e)[1] = Key(d)[1] /\ Key(e)[2] = Key(d)[2] /\ Key(e)[3] = Key(d)[3] =>
          e \in T3 /\ Key(d)[4] <= Key(e)[4]
    BY <2>4, <1>8, <1>9
  <2>6. Key(e) = Key(d) => d <= e
    BY <2>5, <1>8
  <2> HIDE DEF T1, T2, T3, T4
  <2>7. ASSUME Before(Key(e), Key(d)) PROVE FALSE
    <3>1. PICK i \in 1 .. 4 : /\ Key(e)[i] < Key(d)[i]
                              /\ \A j \in 1 .. i - 1 : Key(e)[j] = Key(d)[j]
      BY <2>7 DEF Before
    <3>2. CASE i = 1
      BY <3>1, <3>2, <2>1, <2>2
    <3>3. CASE i = 2
      <4>1. Key(e)[1] = Key(d)[1]
        BY <3>1, <3>3
      <4>2. QED
        BY <4>1, <3>1, <3>3, <2>1, <2>3
    <3>4. CASE i = 3
      <4>1. Key(e)[1] = Key(d)[1] /\ Key(e)[2] = Key(d)[2]
        BY <3>1, <3>4
      <4>2. QED
        BY <4>1, <3>1, <3>4, <2>1, <2>4
    <3>5. CASE i = 4
      <4>1. Key(e)[1] = Key(d)[1] /\ Key(e)[2] = Key(d)[2] /\ Key(e)[3] = Key(d)[3]
        BY <3>1, <3>5
      <4>2. QED
        BY <4>1, <3>1, <3>5, <2>1, <2>5
    <3>6. QED
      BY <3>2, <3>3, <3>4, <3>5
  <2>8. QED
    BY <2>6, <2>7
<1> DEFINE rows == CHOOSE x \in D : \A e \in D :
                     ~ Before(Key(e), Key(x)) /\ (Key(e) = Key(x) => x <= e)
<1>11. rows \in D
  <2> HIDE DEF T1, T2, T3, T4
  <2>1. \E x \in D : \A e \in D : ~ Before(Key(e), Key(x)) /\ (Key(e) = Key(x) => x <= e)
    BY <1>9, <1>10
  <2>2. QED
    BY <2>1
<1>12. ChosenGrid(n, n, n, moreRows, favorSquare) = [rows |-> rows, cols |-> n \div rows]
  BY DEF ChosenGrid, D, Key
<1> HIDE DEF rows
<1>13. rows \in Nat \ {0} /\ Divides(rows, n)
  BY <1>11 DEF D
<1>14. QED
  BY <1>12, <1>13, Cofactor
-----------------------------------------------------------------------------
(* Induction up to N, over a set instead of a predicate.                   *)
LEMMA UpTo ==
  ASSUME NEW N \in Nat, NEW G, 0 \in G, \A m \in 0 .. N - 1 : m \in G => m + 1 \in G
  PROVE  0 .. N \subseteq G
<1> DEFINE B == {m \in 0 .. N : m \notin G}
<1> SUFFICES ASSUME B # {} PROVE FALSE
  OBVIOUS
<1>1. B \in SUBSET Nat
  OBVIOUS
<1> HIDE DEF B
<1>2. \E x \in B : \A y \in B : ~ (<<y, x>> \in OpToRel(<, Nat))
  BY <1>1, NatLessThanWellFounded, WFMin, Zenon
<1>3. PICK x \in B : \A y \in B : ~ (y < x)
  BY <1>1, <1>2 DEF OpToRel
<1> USE DEF B
<1>4. x \in 0 .. N /\ x # 0 /\ x \notin G
  BY <1>3
<1>5. x - 1 \in 0 .. N - 1 /\ x - 1 < x
  BY <1>4
<1>6. x - 1 \notin B
  BY <1>3, <1>5
<1>7. x - 1 \in G
  BY <1>5, <1>6
<1>8. (x - 1) + 1 = x
  BY <1>4
<1>9. QED
  BY <1>4, <1>5, <1>7, <1>8

(* A list of sums or of products: each from the one before.                *)
After(f, op, i, before) ==
  IF i = 0 THEN IF op = "sum" THEN 0 ELSE 1
  ELSE IF op = "sum" THEN before + f[i - 1] ELSE before * f[i - 1]

Accumulates(f, op, k, s) == s = [i \in 0 .. k |-> After(f, op, i, s[i - 1])]

(* There is such a list.                                                   *)
LEMMA Accumulated ==
  ASSUME NEW f, NEW op, NEW k \in Nat
  PROVE  \E s : Accumulates(f, op, k, s)
<1> DEFINE G == {m \in Nat : \E s : Accumulates(f, op, m, s)}
<1>1. 0 \in G
  <2> DEFINE g == [i \in 0 .. 0 |-> After(f, op, 0, 0)]
  <2>1. \A i \in 0 .. 0 : g[i] = After(f, op, i, g[i - 1])
    BY DEF After
  <2>2. Accumulates(f, op, 0, g)
    BY <2>1 DEF Accumulates
  <2>3. QED
    BY <2>2
<1>2. ASSUME NEW n \in Nat, n \in G PROVE n + 1 \in G
  <2>1. PICK s : Accumulates(f, op, n, s)
    BY <1>2
  <2> DEFINE m == n + 1
             g == [i \in 0 .. m |-> IF i = m THEN After(f, op, m, s[m - 1]) ELSE s[i]]
  <2>2. \A i \in 0 .. m : i # 0 => g[i - 1] = s[i - 1]
    OBVIOUS
  <2>3. \A i \in 0 .. m : g[i] = After(f, op, i, g[i - 1])
    <3> SUFFICES ASSUME NEW i \in 0 .. m PROVE g[i] = After(f, op, i, g[i - 1])
      OBVIOUS
    <3>1. CASE i = m
      BY <3>1, <2>2
    <3>2. CASE i # m
      <4>1. i \in 0 .. n
        BY <3>2
      <4>2. g[i] = After(f, op, i, s[i - 1])
        BY <4>1, <2>1 DEF Accumulates
      <4>3. QED
        BY <4>2, <2>2 DEF After
    <3>3. QED
      BY <3>1, <3>2
  <2>4. Accumulates(f, op, m, g)
    BY <2>3 DEF Accumulates
  <2>5. QED
    BY <2>4
<1> HIDE DEF G
<1>3. 0 .. k \subseteq G
  BY <1>1, <1>2, UpTo
<1> USE DEF G
<1>4. QED
  BY <1>3

(* Two such lists agree as far as both go.                                 *)
LEMMA OneAccumulation ==
  ASSUME NEW f, NEW op, NEW k \in Nat, NEW l \in k .. k + 1, NEW s, NEW t,
         Accumulates(f, op, k, s), Accumulates(f, op, l, t)
  PROVE  \A i \in 0 .. k : s[i] = t[i]
<1> DEFINE G == {i \in Nat : i <= k => s[i] = t[i]}
<1>1. \A i \in 0 .. k : s[i] = After(f, op, i, s[i - 1]) /\ t[i] = After(f, op, i, t[i - 1])
  BY DEF Accumulates
<1>2. 0 \in G
  BY <1>1 DEF After
<1>3. ASSUME NEW m \in 0 .. k - 1, m \in G PROVE m + 1 \in G
  <2>1. PICK n \in 0 .. k : n = m + 1 /\ n - 1 = m
    OBVIOUS
  <2>2. s[n] = After(f, op, n, s[m]) /\ t[n] = After(f, op, n, t[m])
    BY <1>1, <2>1
  <2>3. s[m] = t[m]
    BY <1>3
  <2>4. QED
    BY <2>1, <2>2, <2>3
<1> HIDE DEF G
<1>4. 0 .. k \subseteq G
  BY <1>2, <1>3, UpTo
<1> USE DEF G
<1>5. QED
  BY <1>4

(* The operators of Dispatch pick one.                                     *)
LEMMA Picks ==
  ASSUME NEW f, NEW k \in Nat
  PROVE  /\ \E s : Accumulates(f, "sum", k, s) /\ SumBelow(f, k) = s[k]
         /\ \E s : Accumulates(f, "product", k, s) /\ ProductBelow(f, k) = s[k]
<1>1. ASSUME NEW op PROVE Accumulates(f, op, k, CHOOSE s : Accumulates(f, op, k, s))
  BY Accumulated
<1>2. SumBelow(f, k) = (CHOOSE s : Accumulates(f, "sum", k, s))[k]
  BY DEF SumBelow, Accumulates, After
<1>3. ProductBelow(f, k) = (CHOOSE s : Accumulates(f, "product", k, s))[k]
  BY DEF ProductBelow, Accumulates, After
<1>4. QED
  BY <1>1, <1>2, <1>3

(* From one entry to the next.                                             *)
LEMMA NextEntry ==
  ASSUME NEW f, NEW k \in Nat
  PROVE  /\ SumBelow(f, 0) = 0 /\ ProductBelow(f, 0) = 1
         /\ SumBelow(f, k + 1) = SumBelow(f, k) + f[k]
         /\ ProductBelow(f, k + 1) = ProductBelow(f, k) * f[k]
<1>1. SumBelow(f, 0) = 0 /\ ProductBelow(f, 0) = 1
  BY Picks DEF Accumulates, After
<1>2. ASSUME NEW op, NEW s, NEW t, Accumulates(f, op, k, s), Accumulates(f, op, k + 1, t)
      PROVE  t[k + 1] = After(f, op, k + 1, s[k])
  <2>1. s[k] = t[k]
    BY <1>2, OneAccumulation
  <2>2. PICK n \in Nat : n = k + 1 /\ n - 1 = k
    OBVIOUS
  <2>3. t[n] = After(f, op, n, t[n - 1])
    BY <1>2, <2>2 DEF Accumulates
  <2>4. QED
    BY <2>1, <2>2, <2>3
<1>3. \A b : After(f, "sum", k + 1, b) = b + f[k] /\ After(f, "product", k + 1, b) = b * f[k]
  <2>1. (k + 1) - 1 = k /\ k + 1 # 0
    OBVIOUS
  <2>2. QED
    BY <2>1 DEF After
<1>4. QED
  <2>1. PICK s, t : /\ Accumulates(f, "sum", k, s) /\ SumBelow(f, k) = s[k]
                    /\ Accumulates(f, "sum", k + 1, t) /\ SumBelow(f, k + 1) = t[k + 1]
    BY Picks
  <2>2. PICK s2, t2 : /\ Accumulates(f, "product", k, s2) /\ ProductBelow(f, k) = s2[k]
                      /\ Accumulates(f, "product", k + 1, t2)
                      /\ ProductBelow(f, k + 1) = t2[k + 1]
    BY Picks
  <2>3. QED
    BY <1>1, <1>2, <1>3, <2>1, <2>2
-----------------------------------------------------------------------------
(* Sums of numbers are numbers and grow with every entry.                  *)
Grows(f, size) ==
  /\ SumBelow(f, 0) = 0
  /\ \A k \in 0 .. size : SumBelow(f, k) \in Nat
  /\ \A k \in 0 .. size - 1 :
       f[k] \in Nat /\ SumBelow(f, k + 1) = SumBelow(f, k) + f[k]
  /\ \A k, l \in 0 .. size : k <= l => SumBelow(f, k) <= SumBelow(f, l)

LEMMA SumGrows ==
  ASSUME NEW size \in Nat, NEW f \in [0 .. size - 1 -> Nat]
  PROVE  Grows(f, size)
<1> DEFINE S == {k \in Nat : k <= size => SumBelow(f, k) \in Nat}
           G == {l \in Nat : l <= size => \A k \in 0 .. l : SumBelow(f, k) <= SumBelow(f, l)}
<1>1. \A k \in 0 .. size - 1 : SumBelow(f, k + 1) = SumBelow(f, k) + f[k] /\ f[k] \in Nat
  BY NextEntry
<1>2. 0 \in S
  BY NextEntry
<1>3. \A m \in 0 .. size - 1 : m \in S => m + 1 \in S
  BY <1>1
<1> HIDE DEF S
<1>4. 0 .. size \subseteq S
  BY <1>2, <1>3, UpTo
<1> USE DEF S
<1>5. \A k \in 0 .. size : SumBelow(f, k) \in Nat
  BY <1>4
<1> HIDE DEF S
<1>6. 0 \in G
  BY <1>5
<1>7. ASSUME NEW m \in 0 .. size - 1, m \in G PROVE m + 1 \in G
  <2>1. \A k \in 0 .. m : SumBelow(f, k) \in Nat /\ SumBelow(f, k) <= SumBelow(f, m)
    BY <1>5, <1>7
  <2>2. /\ SumBelow(f, m) \in Nat /\ SumBelow(f, m + 1) \in Nat
        /\ SumBelow(f, m) <= SumBelow(f, m + 1)
    BY <1>1, <1>5
  <2>3. \A k \in 0 .. m : SumBelow(f, k) <= SumBelow(f, m + 1)
    BY <2>1, <2>2
  <2>4. \A k \in 0 .. m + 1 : k \in 0 .. m \/ k = m + 1
    OBVIOUS
  <2>5. QED
    BY <2>2, <2>3, <2>4
<1> HIDE DEF G
<1>8. 0 .. size \subseteq G
  BY <1>6, <1>7, UpTo
<1> USE DEF G
<1>9. \A k, l \in 0 .. size : k <= l => SumBelow(f, k) <= SumBelow(f, l)
  <2> SUFFICES ASSUME NEW k \in 0 .. size, NEW l \in 0 .. size, k <= l
               PROVE  SumBelow(f, k) <= SumBelow(f, l)
    OBVIOUS
  <2>1. l \in G /\ k \in 0 .. l /\ l <= size
    <3> HIDE DEF G
    <3>1. QED
      BY <1>8
  <2>2. QED
    BY <2>1
<1>10. SumBelow(f, 0) = 0
  BY NextEntry
<1>11. QED
  BY <1>1, <1>5, <1>9, <1>10 DEF Grows

(* Lists of which c times one is d times another and the third.            *)
Combine(c, f, d, g, h, p) == c * f[p] = d * g[p] + h[p]

(* So are their sums.                                                      *)
LEMMA SumsCombine ==
  ASSUME NEW size \in Nat, NEW f, NEW g, NEW h, NEW c \in Nat, NEW d \in Nat,
         Grows(f, size), Grows(g, size), Grows(h, size),
         \A p \in 0 .. size - 1 : Combine(c, f, d, g, h, p)
  PROVE  c * SumBelow(f, size) = d * SumBelow(g, size) + SumBelow(h, size)
<1> DEFINE T(k) == c * SumBelow(f, k) = d * SumBelow(g, k) + SumBelow(h, k)
           G == {k \in Nat : k <= size => T(k)}
<1>1. T(0)
  BY DEF Grows
<1>2. ASSUME NEW m \in 0 .. size - 1, T(m) PROVE T(m + 1)
  <2> HIDE DEF T
  <2>0. \A k \in {f, g, h} : SumBelow(k, m) \in Nat
    <3>1. m \in 0 .. size
      OBVIOUS
    <3>2. QED
      BY <3>1 DEF Grows
  <2>1. PICK a \in Nat, b \in Nat, e \in Nat :
          a = SumBelow(f, m) /\ b = SumBelow(g, m) /\ e = SumBelow(h, m)
    BY <2>0, Zenon
  <2>2. PICK u \in Nat, v \in Nat, w \in Nat :
          u = f[m] /\ v = g[m] /\ w = h[m]
    BY DEF Grows
  <2>3. /\ SumBelow(f, m + 1) = a + u /\ SumBelow(g, m + 1) = b + v
        /\ SumBelow(h, m + 1) = e + w
    BY <2>1, <2>2 DEF Grows
  <2>4. c * a = d * b + e
    BY <1>2, <2>1 DEF T
  <2>5. c * u = d * v + w
    BY <2>2 DEF Combine
  <2>6. c * (a + u) = c * a + c * u /\ d * (b + v) = d * b + d * v
    OBVIOUS
  <2>7. c * a \in Nat /\ c * u \in Nat /\ d * b \in Nat /\ d * v \in Nat
    BY Monotonic
  <2>8. c * (a + u) = d * (b + v) + (e + w)
    BY <2>4, <2>5, <2>6, <2>7
  <2>9. QED
    BY <2>3, <2>8 DEF T
<1> HIDE DEF T
<1>3. 0 \in G /\ \A m \in 0 .. size - 1 : m \in G => m + 1 \in G
  BY <1>1, <1>2
<1> HIDE DEF G
<1>4. 0 .. size \subseteq G
  BY <1>3, UpTo
<1> USE DEF G
<1>5. T(size)
  BY <1>4
<1>6. QED
  BY <1>5 DEF T

(* A sum of entries below d.                                               *)
LEMMA SumBounded ==
  ASSUME NEW size \in Nat, NEW f \in [0 .. size - 1 -> Nat], NEW d \in Nat,
         \A p \in 0 .. size - 1 : f[p] < d
  PROVE  SumBelow(f, size) + size <= d * size
<1> DEFINE G == {k \in Nat : k <= size => SumBelow(f, k) + k <= d * k}
<1>0. Grows(f, size)
  BY SumGrows, Zenon
<1>1. 0 \in G
  BY <1>0 DEF Grows
<1>2. ASSUME NEW m \in 0 .. size - 1, m \in G PROVE m + 1 \in G
  <2>1. SumBelow(f, m) \in Nat /\ SumBelow(f, m + 1) = SumBelow(f, m) + f[m] /\ m \in Nat
    BY <1>0 DEF Grows
  <2>2. d * (m + 1) = d * m + d /\ d * m \in Nat
    BY <2>1, Monotonic
  <2>3. f[m] \in Nat /\ f[m] < d /\ SumBelow(f, m) + m <= d * m
    BY <1>2
  <2>4. QED
    BY <2>1, <2>2, <2>3
<1> HIDE DEF G
<1>3. 0 .. size \subseteq G
  BY <1>1, <1>2, UpTo
<1> USE DEF G
<1>4. QED
  BY <1>3

(* Counting the members of A up to k.                                      *)
Below(A, k) == {p \in A : p < k}
One(A, p) == IF p \in A THEN 1 ELSE 0

Counted(A, size) ==
  /\ Cardinality(Below(A, 0)) = 0 /\ Below(A, size) = A
  /\ \A m \in 0 .. size - 1 :
       /\ Cardinality(Below(A, m)) \in Nat /\ One(A, m) \in Nat
       /\ Cardinality(Below(A, m + 1)) = Cardinality(Below(A, m)) + One(A, m)

LEMMA Counting ==
  ASSUME NEW size \in Nat, NEW A, A \subseteq 0 .. size - 1
  PROVE  Counted(A, size)
<1>0. \A p \in A : p \in Nat /\ p < size /\ ~ (p < 0)
  OBVIOUS
<1>1. Below(A, 0) = {} /\ Below(A, size) = A
  BY <1>0, Zenon DEF Below
<1>2. ASSUME NEW m \in 0 .. size - 1
      PROVE  /\ Cardinality(Below(A, m)) \in Nat /\ One(A, m) \in Nat
             /\ Cardinality(Below(A, m + 1)) = Cardinality(Below(A, m)) + One(A, m)
  <2>0. \A p \in A : p < m + 1 <=> p < m \/ p = m
    BY <1>0
  <2>1. IsFiniteSet(Below(A, m))
    <3>1. IsFiniteSet(0 .. size - 1)
      BY FS_Interval
    <3>2. Below(A, m) \subseteq 0 .. size - 1
      BY Zenon DEF Below
    <3>3. QED
      BY <3>1, <3>2, FS_Subset
  <2>2. Cardinality(Below(A, m)) \in Nat
    BY <2>1, FS_CardinalityType
  <2>3. CASE m \in A
    <3>1. Below(A, m + 1) = Below(A, m) \cup {m}
      BY <2>0, <2>3, Zenon DEF Below
    <3>2. m \notin Below(A, m)
      BY DEF Below
    <3>3. QED
      BY <2>1, <2>2, <2>3, <3>1, <3>2, FS_AddElement DEF One
  <2>4. CASE m \notin A
    <3>1. Below(A, m + 1) = Below(A, m)
      BY <2>0, <2>4, Zenon DEF Below
    <3>2. QED
      BY <2>2, <2>4, <3>1 DEF One
  <2>5. QED
    BY <2>2, <2>3, <2>4
<1>3. QED
  BY <1>1, <1>2, FS_EmptySet DEF Counted

(* A list of which the members of A get one more.                          *)
LEMMA SumOfMembers ==
  ASSUME NEW size \in Nat, NEW f \in [0 .. size - 1 -> Nat], NEW A, A \subseteq 0 .. size - 1,
         NEW g \in [0 .. size - 1 -> Nat],
         \A p \in 0 .. size - 1 : g[p] = f[p] + One(A, p)
  PROVE  SumBelow(g, size) = SumBelow(f, size) + Cardinality(A)
<1> DEFINE T(k) == SumBelow(g, k) = SumBelow(f, k) + Cardinality(Below(A, k))
           G == {k \in Nat : k <= size => T(k)}
<1>0. Grows(f, size) /\ Grows(g, size)
  BY SumGrows, Zenon
<1>1. Counted(A, size)
  BY Counting, Zenon
<1>2. T(0)
  BY <1>0, <1>1 DEF Grows, Counted
<1>3. ASSUME NEW m \in 0 .. size - 1, T(m) PROVE T(m + 1)
  <2>1. /\ SumBelow(f, m) \in Nat /\ SumBelow(g, m) \in Nat
        /\ SumBelow(f, m + 1) = SumBelow(f, m) + f[m]
        /\ SumBelow(g, m + 1) = SumBelow(g, m) + g[m]
    BY <1>0 DEF Grows
  <2>2. /\ Cardinality(Below(A, m)) \in Nat /\ One(A, m) \in Nat
        /\ Cardinality(Below(A, m + 1)) = Cardinality(Below(A, m)) + One(A, m)
    BY <1>1 DEF Counted
  <2>3. g[m] = f[m] + One(A, m) /\ f[m] \in Nat
    OBVIOUS
  <2>4. QED
    BY <1>3, <2>1, <2>2, <2>3
<1> HIDE DEF T
<1>4. 0 \in G /\ \A m \in 0 .. size - 1 : m \in G => m + 1 \in G
  BY <1>2, <1>3
<1> HIDE DEF G
<1>5. 0 .. size \subseteq G
  BY <1>4, UpTo
<1> USE DEF G
<1>6. T(size)
  BY <1>5
<1>7. QED
  BY <1>1, <1>6 DEF T, Counted

(* A product of positive numbers is positive and no less than any of them. *)
LEMMA ProductCovers ==
  ASSUME NEW size \in Nat, NEW f \in [0 .. size - 1 -> Nat \ {0}]
  PROVE  /\ ProductBelow(f, size) \in Nat \ {0}
         /\ \A p \in 0 .. size - 1 : f[p] <= ProductBelow(f, size)
<1> DEFINE G == {k \in Nat : k <= size =>
                   /\ ProductBelow(f, k) \in Nat \ {0}
                   /\ \A p \in 0 .. k - 1 : f[p] <= ProductBelow(f, k)}
<1>1. 0 \in G
  BY NextEntry
<1>2. ASSUME NEW m \in 0 .. size - 1, m \in G PROVE m + 1 \in G
  <2>1. PICK a \in Nat \ {0} : /\ a = ProductBelow(f, m) /\ \A p \in 0 .. m - 1 : f[p] <= a
                               /\ ProductBelow(f, m + 1) = a * f[m]
    <3>1. m \in Nat /\ ProductBelow(f, m + 1) = ProductBelow(f, m) * f[m]
      BY NextEntry
    <3>2. /\ ProductBelow(f, m) \in Nat \ {0}
          /\ \A p \in 0 .. m - 1 : f[p] <= ProductBelow(f, m)
      BY <1>2
    <3>3. QED
      BY <3>1, <3>2
  <2>2. PICK u \in Nat \ {0} : u = f[m]
    OBVIOUS
  <2>3. a * u \in Nat \ {0} /\ a <= a * u /\ u <= a * u
    <3>1. 1 <= u /\ 1 <= a
      OBVIOUS
    <3>2. a * 1 <= a * u /\ u * 1 <= u * a /\ a * u \in Nat
      BY <3>1, Monotonic
    <3>3. a * 1 = a /\ u * 1 = u /\ u * a = a * u
      OBVIOUS
    <3>4. QED
      BY <3>1, <3>2, <3>3
  <2>4. ASSUME NEW p \in 0 .. m PROVE f[p] <= a * u
    <3>1. CASE p = m
      BY <3>1, <2>2, <2>3
    <3>2. CASE p \in 0 .. m - 1
      <4>1. f[p] <= a /\ f[p] \in Nat
        BY <3>2, <2>1
      <4>2. PICK y : y = a * u
        OBVIOUS
      <4>3. y \in Nat /\ a <= y
        BY <2>3, <4>2
      <4>4. f[p] <= y
        BY <4>1, <4>3
      <4>5. QED
        BY <4>2, <4>4, Zenon
    <3>3. QED
      BY <3>1, <3>2
  <2>5. ProductBelow(f, m + 1) = a * u
    BY <2>1, <2>2
  <2>6. QED
    BY <2>3, <2>4, <2>5
<1> HIDE DEF G
<1>3. 0 .. size \subseteq G
  BY <1>1, <1>2, UpTo
<1> USE DEF G
<1>4. QED
  BY <1>3
-----------------------------------------------------------------------------
(* Who is ahead of p when leftover items are given away: a larger          *)
(* remainder, or the same and a lower number.                              *)
Ahead(D, rest, p) == {q \in D : rest[q] > rest[p] \/ (rest[q] = rest[p] /\ q < p)}
Leading(D, rest, k) == {p \in D : Cardinality(Ahead(D, rest, p)) < k}

(* One of any processes is ahead of the others.                            *)
LEMMA OneLeads ==
  ASSUME NEW D \in SUBSET Nat, D # {}, NEW rest \in [D -> Nat], NEW bound \in Nat,
         \A p \in D : rest[p] < bound
  PROVE  \E x \in D : \A y \in D \ {x} : x \in Ahead(D, rest, y) /\ y \notin Ahead(D, rest, x)
<1> DEFINE behind == [p \in D |-> bound - rest[p]]
           T == {p \in D : \A q \in D : behind[p] <= behind[q]}
<1>1. behind \in [D -> Nat]
  OBVIOUS
<1>2. T # {}
  <2> HIDE DEF behind
  <2>1. QED
    BY <1>1, LeastKey
<1>3. \A p \in T : p \in D /\ \A q \in D : rest[q] <= rest[p]
  OBVIOUS
<1>4. \A q \in D : (\E p \in T : rest[q] = rest[p]) => q \in T
  OBVIOUS
<1>5. T \in SUBSET Nat
  OBVIOUS
<1> HIDE DEF T, behind
<1> DEFINE number == [p \in T |-> p]
<1>6. number \in [T -> Nat]
  BY <1>5
<1>7. {p \in T : \A q \in T : number[p] <= number[q]} # {}
  <2> HIDE DEF number
  <2>1. QED
    BY <1>2, <1>5, <1>6, LeastKey
<1>8. PICK x \in T : \A q \in T : x <= q
  BY <1>7
<1>9. ASSUME NEW y \in D, y # x
      PROVE  x \in Ahead(D, rest, y) /\ y \notin Ahead(D, rest, x)
  <2>1. /\ x \in D /\ x \in Nat /\ y \in Nat /\ rest[x] \in Nat /\ rest[y] \in Nat
        /\ rest[y] <= rest[x]
    BY <1>3, <1>9
  <2>2. rest[y] = rest[x] => x < y
    BY <1>4, <1>8, <1>9, <2>1
  <2>3. QED
    BY <2>1, <2>2, <1>9 DEF Ahead
<1>10. QED
  BY <1>3, <1>9

(* So that exactly k of them have fewer than k ahead.                      *)
LEMMA LeadingCount ==
  ASSUME NEW size \in Nat, NEW D, D = 0 .. size - 1, NEW rest \in [D -> Nat],
         NEW bound \in Nat, \A p \in D : rest[p] < bound, NEW left \in 0 .. size
  PROVE  Cardinality(Leading(D, rest, left)) = left
<1> DEFINE G == {k \in Nat : k <= size => Cardinality(Leading(D, rest, k)) = k}
<1>1. IsFiniteSet(D) /\ Cardinality(D) = size
  <2>1. 0 - 1 + 1 = 0 /\ (size - 1) - 0 + 1 = size
    OBVIOUS
  <2>2. QED
    BY <2>1, FS_Interval
<1>2. \A p \in D : /\ IsFiniteSet(Ahead(D, rest, p)) /\ Ahead(D, rest, p) \subseteq D
                   /\ Cardinality(Ahead(D, rest, p)) \in Nat
  <2> SUFFICES ASSUME NEW p \in D
               PROVE  /\ IsFiniteSet(Ahead(D, rest, p)) /\ Ahead(D, rest, p) \subseteq D
                      /\ Cardinality(Ahead(D, rest, p)) \in Nat
    OBVIOUS
  <2>1. Ahead(D, rest, p) \subseteq D
    BY Zenon DEF Ahead
  <2>2. QED
    BY <1>1, <2>1, FS_Subset, FS_CardinalityType
<1>3. 0 \in G
  <2>1. Leading(D, rest, 0) = {}
    BY <1>2 DEF Leading
  <2>2. QED
    BY <2>1, FS_EmptySet
<1>4. ASSUME NEW k \in 0 .. size - 1, k \in G PROVE k + 1 \in G
  <2> DEFINE T == Leading(D, rest, k)
             R == D \ T
  <2>1. Cardinality(T) = k /\ k < size /\ k \in Nat
    BY <1>4
  <2>2. T \subseteq D /\ IsFiniteSet(T)
    <3>1. T \subseteq D
      BY Zenon DEF Leading
    <3>2. QED
      BY <3>1, <1>1, FS_Subset
  <2>3. R # {}
    <3>1. D # T
      BY <1>1, <2>1
    <3>2. QED
      BY <2>2, <3>1, Zenon
  <2>4. R \in SUBSET Nat /\ \A p \in R : rest[p] \in Nat /\ rest[p] < bound
    OBVIOUS
  <2> HIDE DEF T
  <2>5. PICK x \in R : \A y \in R \ {x} : x \in Ahead(D, rest, y) /\ y \notin Ahead(D, rest, x)
    <3> DEFINE part == [p \in R |-> rest[p]]
    <3>1. part \in [R -> Nat] /\ \A p \in R : part[p] < bound
      BY <2>4
    <3>2. \A p, q \in R : q \in Ahead(R, part, p) <=> q \in Ahead(D, rest, p)
      BY DEF Ahead
    <3> HIDE DEF part, R
    <3>3. \E x \in R : \A y \in R \ {x} :
             x \in Ahead(R, part, y) /\ y \notin Ahead(R, part, x)
      BY <2>3, <2>4, <3>1, OneLeads
    <3>4. QED
      BY <3>2, <3>3
  <2>6. x \in D /\ x \notin T /\ x \notin Ahead(D, rest, x)
    BY DEF Ahead
  <2>7. \A p \in D : p \in T <=> Cardinality(Ahead(D, rest, p)) < k
    BY DEF T, Leading
  <2>8. \A p, q \in D : p # q => p \in Ahead(D, rest, q) \/ q \in Ahead(D, rest, p)
    BY DEF Ahead
  <2>9. \A p, q \in D : p \in Ahead(D, rest, q) =>
          Ahead(D, rest, p) \subseteq Ahead(D, rest, q) /\ p \notin Ahead(D, rest, p)
    BY DEF Ahead
  <2>10. \A p, q \in D : p \in Ahead(D, rest, q) =>
          Cardinality(Ahead(D, rest, p)) < Cardinality(Ahead(D, rest, q))
    <3> SUFFICES ASSUME NEW p \in D, NEW q \in D, p \in Ahead(D, rest, q)
                 PROVE  Cardinality(Ahead(D, rest, p)) < Cardinality(Ahead(D, rest, q))
      OBVIOUS
    <3> DEFINE A == Ahead(D, rest, p)
               B == Ahead(D, rest, q)
    <3>1. /\ A \subseteq B /\ p \in B /\ p \notin A
          /\ IsFiniteSet(A) /\ IsFiniteSet(B)
          /\ Cardinality(A) \in Nat /\ Cardinality(B) \in Nat
      BY <1>2, <2>9
    <3> HIDE DEF A, B
    <3>2. Cardinality(A) <= Cardinality(B) /\ (Cardinality(A) = Cardinality(B) => A = B)
      BY <3>1, FS_Subset
    <3>3. A # B
      BY <3>1
    <3>4. Cardinality(A) < Cardinality(B)
      BY <3>1, <3>2, <3>3
    <3>5. QED
      BY <3>4 DEF A, B
  <2>11. Ahead(D, rest, x) = T
    <3>1. ASSUME NEW t \in T PROVE t \in Ahead(D, rest, x)
      <4>1. t \in D /\ t # x
        BY <2>2, <2>6
      <4>2. x \notin Ahead(D, rest, t)
        <5>1. SUFFICES ASSUME x \in Ahead(D, rest, t) PROVE FALSE
          OBVIOUS
        <5>2. Cardinality(Ahead(D, rest, x)) < Cardinality(Ahead(D, rest, t))
          BY <2>6, <2>10, <4>1, <5>1
        <5>3. Cardinality(Ahead(D, rest, t)) < k
          BY <2>7, <4>1
        <5>4. Cardinality(Ahead(D, rest, x)) < k
          BY <1>2, <2>1, <2>6, <4>1, <5>2, <5>3
        <5>5. QED
          BY <2>6, <2>7, <5>4
      <4>3. QED
        BY <2>6, <2>8, <4>1, <4>2
    <3>2. ASSUME NEW t \in Ahead(D, rest, x) PROVE t \in T
      <4>1. t \in D /\ t # x
        BY <1>2, <2>6
      <4>2. QED
        BY <2>5, <4>1
    <3>3. QED
      BY <3>1, <3>2
  <2>12. Cardinality(Ahead(D, rest, x)) = k
    BY <2>1, <2>11
  <2>13. ASSUME NEW y \in R, y # x PROVE ~ (Cardinality(Ahead(D, rest, y)) < k + 1)
    <3>1. y \in D /\ x \in Ahead(D, rest, y)
      BY <2>5, <2>13
    <3>2. k < Cardinality(Ahead(D, rest, y))
      BY <2>6, <2>10, <2>12, <3>1
    <3>3. QED
      BY <1>2, <2>1, <3>1, <3>2
  <2>14. Leading(D, rest, k + 1) = T \cup {x}
    <3>1. \A p \in D : p \in T => Cardinality(Ahead(D, rest, p)) < k + 1
      BY <1>2, <2>1, <2>7
    <3>2. Cardinality(Ahead(D, rest, x)) < k + 1
      BY <2>1, <2>12
    <3>3. \A p \in D : Cardinality(Ahead(D, rest, p)) < k + 1 <=> p \in T \/ p = x
      BY <2>13, <3>1, <3>2
    <3>4. QED
      BY <2>2, <2>6, <3>3, Zenon DEF Leading
  <2>15. Cardinality(T \cup {x}) = k + 1
    BY <2>1, <2>2, <2>6, FS_AddElement
  <2>16. QED
    <3>1. Cardinality(Leading(D, rest, k + 1)) = k + 1
      BY <2>14, <2>15, Zenon
    <3>2. QED
      BY <2>1, <3>1
<1> HIDE DEF G
<1>5. 0 .. size \subseteq G
  BY <1>3, <1>4, UpTo
<1> USE DEF G
<1>6. QED
  BY <1>5

(* The counts of dispatcher_balanced_counts add up to n: what rounding     *)
(* down leaves is fewer than there are processes, and each goes to another *)
(* one.                                                                    *)
LEMMA CountsAddUp ==
  ASSUME NEW n \in Nat, NEW size \in Nat \ {0}, NEW w \in [0 .. size - 1 -> Nat \ {0}]
  PROVE  /\ BalancedCounts(n, w) \in [0 .. size - 1 -> Nat]
         /\ SumBelow(BalancedCounts(n, w), size) = n
<1> DEFINE D       == 0 .. size - 1
           m       == ProductBelow(w, size)
           inverse == [p \in D |-> m \div w[p]]
           total   == SumBelow(inverse, size)
           floor   == [p \in D |-> (n * inverse[p]) \div total]
           rest    == [p \in D |-> (n * inverse[p]) % total]
           left    == n - SumBelow(floor, size)
           A       == Leading(D, rest, left)
<1>1. DOMAIN w = D /\ Cardinality(D) = size
  <2>1. Cardinality(0 .. size - 1) = size
    <3>1. 0 \in Int /\ size - 1 \in Int /\ ~ (0 > size - 1) /\ (size - 1) - 0 + 1 = size
      OBVIOUS
    <3>2. QED
      BY <3>1, FS_Interval
  <2>2. QED
    BY <2>1
<1>2. BalancedCounts(n, w) = [p \in D |-> floor[p] + IF p \in A THEN 1 ELSE 0]
  BY <1>1 DEF BalancedCounts, Leading, Ahead
<1>3. m \in Nat \ {0} /\ \A p \in D : w[p] \in Nat \ {0} /\ w[p] <= m
  <2>1. \A p \in D : w[p] \in Nat \ {0}
    OBVIOUS
  <2>2. QED
    BY <2>1, ProductCovers
<1> HIDE DEF m
<1>4. inverse \in [D -> Nat \ {0}]
  <2> SUFFICES ASSUME NEW p \in D PROVE m \div w[p] \in Nat \ {0}
    OBVIOUS
  <2>1. PICK d \in Nat \ {0} : d = w[p] /\ d <= m
    BY <1>3
  <2>2. PICK q \in Nat, r \in Nat : q = m \div d /\ r < d /\ m = d * q + r
    <3>1. m \div d \in Nat /\ m % d \in Nat /\ m % d < d /\ m = d * (m \div d) + (m % d)
      BY <1>3, DivMod, Zenon
    <3>2. QED
      BY <3>1, Zenon
  <2>3. q # 0
    <3>1. q = 0 => d * q = 0
      OBVIOUS
    <3>2. QED
      BY <1>3, <2>1, <2>2, <3>1
  <2>4. QED
    BY <2>1, <2>2, <2>3
<1> HIDE DEF inverse
<1>5. inverse \in [D -> Nat] /\ 0 \in D /\ inverse[0] \in Nat \ {0}
  BY <1>4
<1>6. total \in Nat \ {0}
  <2>1. Grows(inverse, size)
    BY <1>5, SumGrows
  <2>2. SumBelow(inverse, 0) = 0 /\ SumBelow(inverse, 0 + 1) = SumBelow(inverse, 0) + inverse[0]
    BY <1>5, <2>1 DEF Grows
  <2>3. SumBelow(inverse, 1) \in Nat \ {0}
    BY <2>2, <1>5
  <2>4. SumBelow(inverse, 1) <= SumBelow(inverse, size) /\ SumBelow(inverse, size) \in Nat
    BY <2>1 DEF Grows
  <2>5. QED
    BY <2>3, <2>4
<1> HIDE DEF total
<1>7. \A p \in D : /\ floor[p] \in Nat /\ rest[p] \in Nat /\ rest[p] < total
                   /\ Combine(n, inverse, total, floor, rest, p)
  <2> SUFFICES ASSUME NEW p \in D
               PROVE  /\ floor[p] \in Nat /\ rest[p] \in Nat /\ rest[p] < total
                      /\ Combine(n, inverse, total, floor, rest, p)
    OBVIOUS
  <2>1. inverse[p] \in Nat
    BY <1>5
  <2>2. PICK x \in Nat : x = n * inverse[p]
    BY <2>1, Monotonic
  <2>3. /\ x \div total \in Nat /\ x % total \in Nat /\ x % total < total
        /\ x = total * (x \div total) + (x % total)
    BY <1>6, DivMod
  <2>4. floor[p] = x \div total /\ rest[p] = x % total
    BY <2>2
  <2> HIDE DEF floor, rest
  <2>5. QED
    BY <2>2, <2>3, <2>4 DEF Combine
<1>8. floor \in [D -> Nat] /\ rest \in [D -> Nat]
  <2>1. \A p \in D : (n * inverse[p]) \div total \in Nat /\ (n * inverse[p]) % total \in Nat
    BY <1>7
  <2>2. QED
    BY <2>1
<1> HIDE DEF floor, rest
<1>9. Grows(inverse, size) /\ Grows(floor, size) /\ Grows(rest, size)
  BY <1>5, <1>8, SumGrows
<1>10. PICK a \in Nat, b \in Nat : a = SumBelow(floor, size) /\ b = SumBelow(rest, size)
  <2>1. size \in 0 .. size
    OBVIOUS
  <2>2. QED
    BY <1>9, <2>1 DEF Grows
<1>11. n * total = total * a + b
  <2>1. total \in Nat
    BY <1>6
  <2>2. n * SumBelow(inverse, size) = total * SumBelow(floor, size) + SumBelow(rest, size)
    <3>1. \A p \in D : Combine(n, inverse, total, floor, rest, p)
      BY <1>7, Zenon
    <3>2. size \in Nat
      OBVIOUS
    <3>3. QED
      BY <1>9, <2>1, <3>1, <3>2, SumsCombine
  <2>3. QED
    BY <1>10, <2>2 DEF total
<1>12. b + size <= total * size
  BY <1>6, <1>7, <1>8, <1>10, SumBounded
<1>13. left \in 0 .. size
  <2>1. PICK t \in Nat \ {0} : t = total
    BY <1>6
  <2>2. t * n = t * a + b /\ b < t * size
    <3>1. n * t = t * n
      OBVIOUS
    <3>2. t * n \in Nat /\ t * a \in Nat /\ t * size \in Nat
      BY Monotonic
    <3>3. QED
      BY <1>11, <1>12, <2>1, <3>1, <3>2
  <2>3. t * a \in Nat /\ t * n \in Nat /\ t * size \in Nat
    BY Monotonic
  <2>4. ~ (n < a)
    <3>1. n < a => t * n + t <= t * a
      BY Monotonic
    <3>2. QED
      BY <2>1, <2>2, <2>3, <3>1
  <2>5. ~ (a + size < n)
    <3>1. a + size < n => t * (a + size) + t <= t * n
      BY Monotonic
    <3>2. t * (a + size) = t * a + t * size
      OBVIOUS
    <3>3. QED
      BY <2>1, <2>2, <2>3, <3>1, <3>2
  <2>6. QED
    BY <1>10, <2>4, <2>5
<1>14. A \subseteq D /\ Cardinality(A) = left
  <2>1. \A p \in D : rest[p] < total
    BY <1>7
  <2> HIDE DEF left
  <2>2. Cardinality(A) = left
    BY <1>6, <1>8, <1>13, <2>1, LeadingCount
  <2>3. A \subseteq D
    BY Zenon DEF Leading
  <2>4. QED
    BY <2>2, <2>3
<1> DEFINE c == BalancedCounts(n, w)
<1>15. \A p \in D : c[p] = floor[p] + One(A, p) /\ c[p] \in Nat
  <2> HIDE DEF A
  <2>1. \A p \in D : floor[p] \in Nat
    BY <1>7
  <2>2. QED
    BY <1>2, <2>1 DEF One
<1>16. c \in [D -> Nat]
  <2> HIDE DEF A
  <2>1. QED
    BY <1>2, <1>15
<1> HIDE DEF A, c
<1>17. SumBelow(c, size) = SumBelow(floor, size) + Cardinality(A)
  BY <1>8, <1>14, <1>15, <1>16, SumOfMembers
<1>18. SumBelow(c, size) = n
  BY <1>10, <1>14, <1>17
<1>19. QED
  BY <1>16, <1>18 DEF c

(* Every item is in one part, and parts hold items only.                   *)
LEMMA BalancedOnce ==
  ASSUME NEW n \in Nat, NEW size \in Nat \ {0}, NEW w \in [0 .. size - 1 -> Nat \ {0}]
  PROVE  /\ \A p \in 0 .. size - 1 : BalancedShare(n, w, p) \in Seq(0 .. n - 1)
         /\ \A k \in 0 .. n - 1 : \E g \in 0 .. size - 1 : \A p \in 0 .. size - 1 :
              k \in Entries(BalancedShare(n, w, p)) <=> p = g
<1> DEFINE c == BalancedCounts(n, w)
           s(p) == SumBelow(c, p)
<1>1. c \in [0 .. size - 1 -> Nat] /\ s(size) = n
  BY CountsAddUp
<1>2. \A p : BalancedShare(n, w, p) = [i \in 1 .. c[p] |-> s(p) + i - 1]
  BY DEF BalancedShare
<1> HIDE DEF c
<1>3. Grows(c, size)
  BY <1>1, SumGrows
<1>4. /\ s(0) = 0
      /\ \A p \in 0 .. size : s(p) \in Nat /\ s(p) <= n
      /\ \A p \in 0 .. size - 1 : c[p] \in Nat /\ s(p + 1) = s(p) + c[p] /\ s(p + 1) <= n
      /\ \A p, q \in 0 .. size : p <= q => s(p) <= s(q)
  BY <1>1, <1>3 DEF Grows
<1> HIDE DEF s
<1>5. ASSUME NEW p \in 0 .. size - 1, NEW k \in 0 .. n - 1
      PROVE  k \in Entries(BalancedShare(n, w, p)) <=> s(p) <= k /\ k < s(p + 1)
  <2>1. PICK a \in Nat, b \in Nat : a = s(p) /\ b = c[p] /\ s(p + 1) = a + b
    <3>1. p \in 0 .. size
      OBVIOUS
    <3>2. QED
      BY <1>4, <3>1
  <2>2. BalancedShare(n, w, p) = [i \in 1 .. b |-> a + i - 1]
    BY <1>2, <2>1
  <2>3. k \in Entries(BalancedShare(n, w, p)) <=> \E i \in 1 .. b : k = a + i - 1
    BY <2>2 DEF Entries
  <2>4. (\E i \in 1 .. b : k = a + i - 1) <=> a <= k /\ k < a + b
    <3>1. a <= k /\ k < a + b => k - a + 1 \in 1 .. b /\ k = a + (k - a + 1) - 1
      OBVIOUS
    <3>2. QED
      BY <3>1
  <2>5. QED
    BY <2>1, <2>3, <2>4
<1>6. ASSUME NEW p \in 0 .. size - 1 PROVE BalancedShare(n, w, p) \in Seq(0 .. n - 1)
  <2>1. PICK a \in Nat, b \in Nat : a = s(p) /\ b = c[p] /\ a + b <= n
    <3>1. p \in 0 .. size
      OBVIOUS
    <3>2. s(p) \in Nat /\ c[p] \in Nat /\ s(p + 1) = s(p) + c[p] /\ s(p + 1) <= n
      BY <1>4, <3>1, Zenon
    <3>3. QED
      BY <3>2, Zenon
  <2>2. BalancedShare(n, w, p) = [i \in 1 .. b |-> a + i - 1]
    BY <1>2, <2>1
  <2>3. PICK part : part = [i \in 1 .. b |-> a + i - 1]
    OBVIOUS
  <2>4. part \in [1 .. b -> 0 .. n - 1]
    <3>1. \A i \in 1 .. b : a + i - 1 \in 0 .. n - 1
      <4> SUFFICES ASSUME NEW i \in 1 .. b PROVE a + i - 1 \in 0 .. n - 1
        OBVIOUS
      <4>1. i \in Nat /\ 1 <= i /\ i <= b
        OBVIOUS
      <4>2. a + b <= n
        BY <2>1
      <4>3. QED
        BY <4>1, <4>2
    <3>2. QED
      BY <2>3, <3>1, Zenon
  <2>5. part \in Seq(0 .. n - 1)
    BY <2>4, SeqDef
  <2>6. QED
    BY <2>2, <2>3, <2>5
<1>7. ASSUME NEW k \in 0 .. n - 1
      PROVE  \E g \in 0 .. size - 1 : \A p \in 0 .. size - 1 :
               s(p) <= k /\ k < s(p + 1) <=> p = g
  <2> DEFINE T == {p \in Nat : p <= size /\ k < s(p)}
  <2>1. size \in T
    BY <1>1 DEF s
  <2>2. PICK x \in T : \A y \in T : x <= y
    <3> HIDE DEF T
    <3>1. T \in SUBSET Nat
      BY DEF T
    <3>2. QED
      BY <2>1, <3>1, Extremes
  <2>3. x # 0
    BY <1>4
  <2>4. PICK g \in 0 .. size - 1 : g + 1 = x
    BY <2>3
  <2>5. g \notin T
    BY <2>2, <2>4
  <2>6. s(g) <= k /\ k < s(g + 1)
    <3>1. g \in 0 .. size /\ g + 1 \in 0 .. size
      OBVIOUS
    <3>2. s(g) \in Nat /\ k \in Nat
      BY <1>4, <3>1
    <3>3. QED
      BY <2>4, <2>5, <3>1, <3>2
  <2>7. ASSUME NEW p \in 0 .. size - 1, s(p) <= k, k < s(p + 1) PROVE p = g
    <3>1. /\ p \in 0 .. size /\ g \in 0 .. size /\ p + 1 \in 0 .. size /\ g + 1 \in 0 .. size
          /\ k \in Nat
      OBVIOUS
    <3>2. s(p) \in Nat /\ s(g) \in Nat /\ s(p + 1) \in Nat /\ s(g + 1) \in Nat
      BY <1>4, <3>1
    <3>3. ~ (p < g)
      <4>1. p < g => p + 1 <= g
        OBVIOUS
      <4>2. p + 1 <= g => s(p + 1) <= s(g)
        BY <1>4, <3>1
      <4>3. QED
        BY <2>6, <2>7, <3>1, <3>2, <4>1, <4>2
    <3>4. ~ (g < p)
      <4>1. g < p => g + 1 <= p
        OBVIOUS
      <4>2. g + 1 <= p => s(g + 1) <= s(p)
        BY <1>4, <3>1
      <4>3. QED
        BY <2>6, <2>7, <3>1, <3>2, <4>1, <4>2
    <3>5. QED
      BY <3>3, <3>4
  <2>8. QED
    BY <2>6, <2>7
<1>8. QED
  BY <1>5, <1>6, <1>7
-----------------------------------------------------------------------------
(* A context that is not initialized: the settings may be any, the rest is *)
(* as in a new one.                                                        *)
NotReady == [ready: {FALSE}, shape: {NoShape}, group: {0}, rank: {0}, nk: Nat,
             layout: {"inner", "outer"}, sequential: BOOLEAN,
             grid: {[rows |-> 0, cols |-> 0]}, mine: {<<>>}]

Closed == ctx \in [Proc -> NotReady]

(* The contexts are what one and the same call of init made of them.       *)
LaidOut(shape, grid, nk, layout, sequential) ==
  /\ shape \in [outer: Nat, inner: Nat] /\ nk \in Nat
  /\ layout \in {"inner", "outer"} /\ sequential \in BOOLEAN
  /\ ShapeFits(shape, nproc, nk)
  /\ grid.rows * grid.cols = shape.inner
  /\ ctx = [r \in Proc |-> Opened(r, shape, grid, nk, layout, sequential)]

(* What a process has of the list shared last: init and finalize drop it.  *)
Shared ==
  aux = [r \in Proc |-> IF nitem = 0 THEN <<>>
                        ELSE BalancedShare(nitem, Weights(r), ctx[r].group)]

IInv ==
  /\ nproc \in 1 .. MaxProc /\ nitem \in 0 .. MaxItem /\ opens \in 0 .. MaxOpen
  /\ nitem # 0 => Ready
  /\ Shared
  /\ Closed \/ \E shape, grid, nk, layout, sequential :
                  LaidOut(shape, grid, nk, layout, sequential)

(* Process 0 exists. *)
LEMMA Processes ==
  ASSUME IInv
  PROVE  nproc \in Nat \ {0} /\ 0 \in Proc
BY LayoutAssumption DEF IInv, Proc

(* What finalize leaves. *)
LEMMA FinalizedFacts ==
  ASSUME IInv, NEW r \in Proc
  PROVE  Finalized(ctx[r]) \in NotReady
<1>1. Blank \in NotReady
  BY DEF Blank, NotReady
<1>2. CASE Closed
  <2>1. ctx[r] \in NotReady
    BY <1>2 DEF Closed
  <2>2. ~ ctx[r].ready
    BY <2>1 DEF NotReady
  <2>3. QED
    BY <2>1, <2>2 DEF Finalized
<1>3. ASSUME NEW shape, NEW grid, NEW nk, NEW layout, NEW sequential,
             LaidOut(shape, grid, nk, layout, sequential)
      PROVE  Finalized(ctx[r]) \in NotReady
  <2>1. ctx[r] = Opened(r, shape, grid, nk, layout, sequential)
    BY <1>3 DEF LaidOut
  <2>2. ctx[r].ready
    BY <2>1 DEF Opened
  <2>3. QED
    BY <2>2, <1>1 DEF Finalized
<1>4. QED
  BY <1>2, <1>3 DEF IInv

(* init and finalize leave no shared list.                                 *)
LEMMA Dropped ==
  ASSUME nproc' = nproc, nitem' = 0, aux' = [r \in Proc |-> <<>>]
  PROVE  (nitem' # 0 => Ready') /\ Shared'
<1>1. Proc' = Proc
  BY DEF Proc
<1>2. QED
  BY <1>1 DEF Shared

(* init: the contexts it makes are one layout, and a request that does not *)
(* fit leaves none.                                                        *)
LEMMA OpenKeeps ==
  ASSUME IInv, NEW request \in [outer: Nat, inner: Nat], NEW favorSquare \in BOOLEAN,
         NEW nk \in Nat, NEW layout \in {"inner", "outer"}, NEW sequential \in BOOLEAN,
         opens < MaxOpen, Open(request, favorSquare, nk, layout, sequential)
  PROVE  IInv'
<1>1. /\ nproc' = nproc /\ nproc \in 1 .. MaxProc /\ nitem' = 0 /\ nitem' \in 0 .. MaxItem
      /\ opens' \in 0 .. MaxOpen /\ nproc \in Nat \ {0} /\ Proc' = Proc
  <2>1. nproc \in 1 .. MaxProc /\ opens \in 0 .. MaxOpen
    BY DEF IInv
  <2>2. nproc' = nproc /\ nitem' = 0 /\ opens' = opens + 1
    BY Zenon DEF Open
  <2>3. Proc' = Proc
    BY <2>2 DEF Proc
  <2>4. QED
    BY <2>1, <2>2, <2>3, Processes, LayoutAssumption
<1>2. (nitem' # 0 => Ready') /\ Shared'
  <2>1. aux' = [r \in Proc |-> <<>>]
    BY Zenon DEF Open
  <2>2. QED
    BY <1>1, <2>1, Dropped
<1>3. CASE RequestFits(request, nproc, nk)
  <2> DEFINE shape == ResolvedShape(request, nproc, nk, favorSquare)
             grid  == ChosenGrid(shape.inner, shape.inner, shape.inner, TRUE, favorSquare)
  <2>1. ctx' = [r \in Proc |-> Opened(r, shape, grid, nk, layout, sequential)]
    BY <1>3 DEF Open
  <2>2. ShapeFits(shape, nproc, nk)
    BY <1>1, <1>3, ResolvedShapeFits
  <2>3. shape \in [outer: Nat, inner: Nat]
    <3>1. shape = [outer |-> shape.outer, inner |-> shape.inner]
      BY DEF ResolvedShape
    <3>2. shape.outer \in Nat /\ shape.inner \in Nat
      BY <2>2 DEF ShapeFits
    <3> HIDE DEF shape
    <3>3. QED
      BY <3>1, <3>2
  <2>4. grid.rows * grid.cols = shape.inner
    <3> HIDE DEF shape
    <3>1. \A moreRows \in BOOLEAN : LET g == ChosenGrid(shape.inner, shape.inner, shape.inner,
                                                        moreRows, favorSquare)
                                    IN g.rows * g.cols = shape.inner
      BY <2>2, GridFits DEF ShapeFits
    <3>2. QED
      BY <3>1
  <2> HIDE DEF shape, grid
  <2>5. PICK s, g : s = shape /\ g = grid
    OBVIOUS
  <2>6. LaidOut(s, g, nk, layout, sequential)'
    <3>1. ShapeFits(s, nproc', nk)
      BY <1>1, <2>2, <2>5
    <3>2. ctx' = [r \in Proc' |-> Opened(r, s, g, nk, layout, sequential)]
      BY <1>1, <2>1, <2>5
    <3>3. QED
      BY <3>1, <3>2, <2>3, <2>4, <2>5 DEF LaidOut
  <2>7. QED
    BY <1>1, <1>2, <2>6 DEF IInv
<1>4. CASE ~ RequestFits(request, nproc, nk)
  <2>1. ctx' = [r \in Proc |-> [Finalized(ctx[r]) EXCEPT
                 !.nk = nk, !.layout = layout, !.sequential = sequential]]
    BY <1>4, Zenon DEF Open
  <2>2. \A r \in Proc : Finalized(ctx[r]) \in NotReady
    BY FinalizedFacts
  <2>3. \A c \in NotReady : [c EXCEPT !.nk = nk, !.layout = layout,
                                      !.sequential = sequential] \in NotReady
    BY DEF NotReady
  <2>4. ctx' \in [Proc -> NotReady]
    <3>1. \A r \in Proc : [Finalized(ctx[r]) EXCEPT !.nk = nk, !.layout = layout,
                               !.sequential = sequential] \in NotReady
      BY <2>2, <2>3, Zenon
    <3> HIDE DEF NotReady
    <3>2. QED
      BY <2>1, <3>1, Zenon
  <2>5. QED
    <3>1. Closed'
      BY <1>1, <2>4 DEF Closed
    <3>2. QED
      BY <1>1, <1>2, <3>1 DEF IInv
<1>5. QED
  BY <1>3, <1>4

(* The invariant is kept. *)
THEOREM Inductive == Spec => []IInv
<1>1. Init => IInv
  <2> SUFFICES ASSUME Init PROVE IInv
    OBVIOUS
  <2>1. Blank \in NotReady
    BY DEF Blank, NotReady
  <2>2. Closed
    BY <2>1 DEF Init, Closed
  <2>3. Shared
    BY DEF Init, Shared
  <2>4. QED
    BY <2>2, <2>3, LayoutAssumption DEF Init, IInv
<1>2. IInv /\ [Next]_vars => IInv'
  <2> SUFFICES ASSUME IInv, [Next]_vars PROVE IInv'
    OBVIOUS
  <2>1. ASSUME NEW outer \in 0 .. MaxRequest, NEW inner \in 0 .. MaxRequest,
               NEW favorSquare \in BOOLEAN, NEW sequential \in BOOLEAN,
               NEW nk \in 0 .. MaxKpoint, NEW layout \in {"inner", "outer"},
               opens < MaxOpen,
               Open([outer |-> outer, inner |-> inner], favorSquare, nk, layout, sequential)
        PROVE  IInv'
    <3>1. [outer |-> outer, inner |-> inner] \in [outer: Nat, inner: Nat] /\ nk \in Nat
      BY LayoutAssumption
    <3>2. QED
      BY <2>1, <3>1, OpenKeeps
  <2>2. CASE Finalize
    <3>1. ctx' = [r \in Proc |-> Finalized(ctx[r])] /\ Proc' = Proc
      BY <2>2 DEF Finalize, Proc
    <3>2. Closed'
      BY <3>1, FinalizedFacts DEF Closed
    <3>3. /\ nproc' = nproc /\ opens' = opens /\ nitem' = 0
          /\ aux' = [r \in Proc |-> <<>>]
      BY <2>2 DEF Finalize
    <3>4. (nitem' # 0 => Ready') /\ Shared'
      BY <3>3, Dropped
    <3>5. QED
      BY <3>2, <3>3, <3>4, LayoutAssumption DEF IInv
  <2>3. ASSUME NEW n \in 0 .. MaxItem, ShareList(n) PROVE IInv'
    <3>1. nproc' = nproc /\ ctx' = ctx /\ opens' = opens /\ nitem' = n /\ Proc' = Proc
      BY <2>3 DEF ShareList, Proc
    <3>2. Closed' = Closed
      BY <3>1 DEF Closed
    <3>3. \A shape, grid, nk, layout, sequential :
            LaidOut(shape, grid, nk, layout, sequential) =>
              LaidOut(shape, grid, nk, layout, sequential)'
      BY <3>1 DEF LaidOut
    <3>4. Ready'
      BY <2>3, <3>1 DEF ShareList, Ready
    <3>5. \A r : Weights(r)' = Weights(r)
      BY <3>1 DEF Weights
    <3>6. aux' = [r \in Proc |-> IF n = 0 THEN <<>>
                                 ELSE BalancedShare(n, Weights(r), ctx[r].group)]
      BY <2>3 DEF ShareList
    <3>7. Shared'
      BY <3>1, <3>5, <3>6 DEF Shared
    <3>8. nproc' \in 1 .. MaxProc /\ nitem' \in 0 .. MaxItem /\ opens' \in 0 .. MaxOpen
      BY <3>1 DEF IInv
    <3>9. Closed' \/ \E shape, grid, nk, layout, sequential :
                        LaidOut(shape, grid, nk, layout, sequential)'
      BY <3>2, <3>3, Zenon DEF IInv
    <3>10. QED
      BY <3>4, <3>7, <3>8, <3>9, Zenon DEF IInv
  <2>4. CASE UNCHANGED vars
    <3>1. nproc' = nproc /\ ctx' = ctx /\ opens' = opens /\ nitem' = nitem /\ aux' = aux
      BY <2>4 DEF vars
    <3>2. Proc' = Proc
      BY <3>1 DEF Proc
    <3>3. Closed' = Closed /\ Ready' = Ready
      BY <3>1, <3>2 DEF Closed, Ready
    <3>4. \A shape, grid, nk, layout, sequential :
            LaidOut(shape, grid, nk, layout, sequential) =>
              LaidOut(shape, grid, nk, layout, sequential)'
      BY <3>1, <3>2 DEF LaidOut
    <3>5. \A r : Weights(r)' = Weights(r)
      BY <3>1, <3>2 DEF Weights
    <3>6. Shared'
      BY <3>1, <3>2, <3>5 DEF IInv, Shared
    <3>7. nproc' \in 1 .. MaxProc /\ nitem' \in 0 .. MaxItem /\ opens' \in 0 .. MaxOpen
      BY <3>1 DEF IInv
    <3>8. Closed' \/ \E shape, grid, nk, layout, sequential :
                        LaidOut(shape, grid, nk, layout, sequential)'
      BY <3>3, <3>4, Zenon DEF IInv
    <3>9. nitem' # 0 => Ready'
      BY <3>1, <3>3 DEF IInv
    <3>10. QED
      BY <3>6, <3>7, <3>8, <3>9, Zenon DEF IInv
  <2>5. QED
    BY <2>1, <2>2, <2>3, <2>4 DEF Next
<1>3. QED
  BY <1>1, <1>2, PTL DEF Spec
-----------------------------------------------------------------------------
(* What each process finds in its context. *)
LEMMA ContextFacts ==
  ASSUME NEW shape, NEW grid, NEW nk, NEW layout, NEW sequential,
         LaidOut(shape, grid, nk, layout, sequential), nproc \in Nat, NEW r \in Proc
  PROVE  /\ ctx[r].ready /\ ctx[r].shape = shape /\ ctx[r].nk = nk /\ ctx[r].grid = grid
         /\ ctx[r].layout = layout /\ ctx[r].sequential = sequential
         /\ ctx[r].group = SplitRank(r, shape, layout).group
         /\ ctx[r].rank = SplitRank(r, shape, layout).rank
         /\ ctx[r].group \in 0 .. shape.outer - 1 /\ ctx[r].rank \in 0 .. shape.inner - 1
         /\ ctx[r].mine = Share(nk, ctx[r].group, shape.outer, sequential)
<1>1. ctx[r] = Opened(r, shape, grid, nk, layout, sequential)
  BY DEF LaidOut
<1> HIDE DEF SplitRank
<1>2. /\ ctx[r].ready /\ ctx[r].shape = shape /\ ctx[r].nk = nk /\ ctx[r].grid = grid
      /\ ctx[r].layout = layout /\ ctx[r].sequential = sequential
      /\ ctx[r].group = SplitRank(r, shape, layout).group
      /\ ctx[r].rank = SplitRank(r, shape, layout).rank
      /\ ctx[r].mine = Share(nk, SplitRank(r, shape, layout).group, shape.outer, sequential)
  BY <1>1 DEF Opened
<1>3. /\ SplitRank(r, shape, layout).group \in 0 .. shape.outer - 1
      /\ SplitRank(r, shape, layout).rank \in 0 .. shape.inner - 1
  BY Placed DEF LaidOut, Proc
<1>4. QED
  BY <1>2, <1>3

(* While the contexts are laid out, every k-point is one group's and no    *)
(* group is without.                                                       *)
LEMMA PartitionedWhenLaidOut ==
  ASSUME NEW shape, NEW grid, NEW nk, NEW layout, NEW sequential,
         LaidOut(shape, grid, nk, layout, sequential), nproc \in Nat, 0 \in Proc
  PROVE  /\ ctx[0].nk = nk /\ ctx[0].shape = shape
         /\ \A k \in 0 .. nk - 1 : \E g \in 0 .. shape.outer - 1 :
              /\ \A p \in 0 .. shape.outer - 1 :
                   k \in Entries(Share(nk, p, shape.outer, sequential)) <=> p = g
              /\ \A r \in Proc : ctx[r].group = g <=> k \in Entries(ctx[r].mine)
         /\ \A r \in Proc : Len(ctx[r].mine) > 0 /\ ctx[r].mine \in Seq(Nat)
<1>1. /\ nk \in Nat /\ shape.outer \in 1 .. nk /\ shape.outer \in Nat \ {0}
      /\ sequential \in BOOLEAN
  BY DEF LaidOut, ShapeFits
<1>2. \A r \in Proc : /\ ctx[r].group \in 0 .. shape.outer - 1
                      /\ ctx[r].mine = Share(nk, ctx[r].group, shape.outer, sequential)
  BY ContextFacts
<1>3. ASSUME NEW k \in 0 .. nk - 1
      PROVE  \E g \in 0 .. shape.outer - 1 :
              /\ \A p \in 0 .. shape.outer - 1 :
                   k \in Entries(Share(nk, p, shape.outer, sequential)) <=> p = g
              /\ \A r \in Proc : ctx[r].group = g <=> k \in Entries(ctx[r].mine)
  <2>1. PICK g \in 0 .. shape.outer - 1 : \A p \in 0 .. shape.outer - 1 :
          k \in Entries(Share(nk, p, shape.outer, sequential)) <=> p = g
    BY <1>1, ShareOnce, Zenon
  <2>2. \A r \in Proc : ctx[r].group = g <=> k \in Entries(ctx[r].mine)
    BY <2>1, <1>2, Zenon
  <2>3. QED
    BY <2>1, <2>2, Zenon
<1>4. ASSUME NEW r \in Proc PROVE Len(ctx[r].mine) > 0 /\ ctx[r].mine \in Seq(Nat)
  <2>1. PICK g \in 0 .. shape.outer - 1 :
          ctx[r].mine = Share(nk, g, shape.outer, sequential)
    BY <1>2
  <2>2. Len(Share(nk, g, shape.outer, sequential)) > 0
    BY <1>1, ShareNotEmpty
  <2>3. Share(nk, g, shape.outer, sequential) \in Seq(Nat)
    BY <1>1, InShare
  <2>4. QED
    BY <2>1, <2>2, <2>3, Zenon
<1>5. ctx[0].nk = nk /\ ctx[0].shape = shape
  BY ContextFacts
<1>6. QED
  BY <1>3, <1>4, <1>5

(* Ready contexts are laid out. *)
LEMMA ReadyIsLaidOut ==
  ASSUME IInv, NEW r \in Proc, ctx[r].ready
  PROVE  \E shape, grid, nk, layout, sequential :
            LaidOut(shape, grid, nk, layout, sequential)
<1>1. ~ Closed
  BY DEF Closed, NotReady
<1>2. QED
  BY <1>1 DEF IInv

(* Every k-point is held by one group, as all its members see it, and no   *)
(* group goes without (KPointBlacsParallelContext::init and the dispatcher,*)
(* for any request that init accepts).                                     *)
THEOREM KpointsHeldOnce == Spec => []KpointsPartitioned
<1>1. IInv => KpointsPartitioned
  <2> SUFFICES ASSUME IInv, Ready PROVE KpointsPartitioned
    BY DEF KpointsPartitioned
  <2>1. nproc \in Nat /\ 0 \in Proc
    BY Processes
  <2>2. PICK shape, grid, nk, layout, sequential :
          LaidOut(shape, grid, nk, layout, sequential)
    BY <2>1, ReadyIsLaidOut DEF Ready
  <2>3. /\ ctx[0].nk = nk /\ ctx[0].shape = shape
        /\ \A k \in 0 .. nk - 1 : \E g \in 0 .. shape.outer - 1 :
             \A r \in Proc : ctx[r].group = g <=> k \in Entries(ctx[r].mine)
        /\ \A r \in Proc : Len(ctx[r].mine) > 0
    BY <2>1, <2>2, PartitionedWhenLaidOut
  <2>4. QED
    BY <2>3 DEF KpointsPartitioned, Kpoints
<1>2. QED
  BY <1>1, Inductive, PTL

(* The process to which a k-point's wave functions go is there, holds the  *)
(* k-point and is the first of its group (kpoint_blacs_root_global_rank).  *)
THEOREM RootsAreReceivers == Spec => []RootHolds
<1>1. IInv => RootHolds
  <2> SUFFICES ASSUME IInv, Ready, NEW k \in Kpoints, NEW r \in Proc
               PROVE  /\ RootOf(r, k) \in Proc /\ ctx[RootOf(r, k)].rank = 0
                      /\ k \in Entries(ctx[RootOf(r, k)].mine)
    BY DEF RootHolds
  <2>1. nproc \in Nat /\ 0 \in Proc
    BY Processes
  <2>2. PICK shape, grid, nk, layout, sequential :
          LaidOut(shape, grid, nk, layout, sequential)
    BY <2>1, ReadyIsLaidOut DEF Ready
  <2>3. k \in 0 .. nk - 1
    BY <2>1, <2>2, PartitionedWhenLaidOut DEF Kpoints
  <2>4. PICK g \in 0 .. shape.outer - 1 :
          /\ \A p \in 0 .. shape.outer - 1 :
               k \in Entries(Share(nk, p, shape.outer, sequential)) <=> p = g
          /\ \A q \in Proc : ctx[q].group = g <=> k \in Entries(ctx[q].mine)
    BY <2>1, <2>2, <2>3, PartitionedWhenLaidOut
  <2>5. KpointOwner(r, k) = g
    <3>1. /\ ctx[r].shape = shape /\ ctx[r].nk = nk /\ ctx[r].sequential = sequential
      BY <2>1, <2>2, ContextFacts
    <3>2. {h \in 0 .. shape.outer - 1 :
             k \in Entries(Share(nk, h, shape.outer, sequential))} = {g}
      BY <2>4
    <3>3. First({g}) = g
      <4>1. g <= g
        OBVIOUS
      <4>2. QED
        BY <4>1 DEF First
    <3>4. QED
      BY <3>1, <3>2, <3>3, Zenon DEF KpointOwner
  <2>6. RootOf(r, k) = GlobalRank(shape, layout, g, 0)
    <3>1. ctx[r].shape = shape /\ ctx[r].layout = layout
      BY <2>1, <2>2, ContextFacts
    <3>2. QED
      BY <3>1, <2>5, Zenon DEF RootOf
  <2>7. PICK root : root = GlobalRank(shape, layout, g, 0)
    OBVIOUS
  <2>8. /\ root \in Proc /\ SplitRank(root, shape, layout).group = g
        /\ SplitRank(root, shape, layout).rank = 0
    BY <2>1, <2>2, <2>7, Placed DEF LaidOut, Proc
  <2>9. ctx[root].group = g /\ ctx[root].rank = 0
    BY <2>1, <2>2, <2>8, ContextFacts
  <2>10. QED
    BY <2>4, <2>6, <2>7, <2>8, <2>9, Zenon
<1>2. QED
  BY <1>1, Inductive, PTL

(* Along comm_kpoint_h every process gathers the same weights: how many    *)
(* k-points each group has, which is never none.                           *)
LEMMA GatheredWeights ==
  ASSUME NEW shape, NEW grid, NEW nk, NEW layout, NEW sequential,
         LaidOut(shape, grid, nk, layout, sequential), nproc \in Nat, NEW r \in Proc
  PROVE  /\ Weights(r) = [g \in 0 .. shape.outer - 1 |->
                            Len(Share(nk, g, shape.outer, sequential))]
         /\ Weights(r) \in [0 .. shape.outer - 1 -> Nat \ {0}]
<1>1. /\ ctx[r].shape = shape /\ ctx[r].rank \in 0 .. shape.inner - 1
      /\ nk \in Nat /\ shape.outer \in 1 .. nk /\ sequential \in BOOLEAN
  <2>1. ctx[r].shape = shape /\ ctx[r].rank \in 0 .. shape.inner - 1
    BY ContextFacts
  <2>2. nk \in Nat /\ shape.outer \in 1 .. nk /\ sequential \in BOOLEAN
    BY DEF LaidOut, ShapeFits
  <2>3. QED
    BY <2>1, <2>2
<1>2. ASSUME NEW g \in 0 .. shape.outer - 1
      PROVE  Len(ctx[CHOOSE q \in Proc : ctx[q].group = g /\ ctx[q].rank = ctx[r].rank].mine) =
               Len(Share(nk, g, shape.outer, sequential))
  <2>1. PICK q \in Proc : /\ SplitRank(q, shape, layout).group = g
                          /\ SplitRank(q, shape, layout).rank = ctx[r].rank
    <3>1. PICK k \in 0 .. shape.inner - 1 : k = ctx[r].rank
      BY <1>1, Zenon
    <3>2. PICK x : x = GlobalRank(shape, layout, g, k)
      OBVIOUS
    <3>3. x \in Proc /\ SplitRank(x, shape, layout).group = g
          /\ SplitRank(x, shape, layout).rank = k
      <4>1. /\ shape \in [outer: Nat, inner: Nat] /\ nk \in Nat
            /\ layout \in {"inner", "outer"} /\ ShapeFits(shape, nproc, nk)
        BY DEF LaidOut
      <4>2. /\ GlobalRank(shape, layout, g, k) \in 0 .. nproc - 1
            /\ SplitRank(GlobalRank(shape, layout, g, k), shape, layout).group = g
            /\ SplitRank(GlobalRank(shape, layout, g, k), shape, layout).rank = k
        BY <4>1, Placed
      <4>3. QED
        BY <3>2, <4>2, Zenon DEF Proc
    <3>4. QED
      BY <3>1, <3>3, Zenon
  <2>2. ctx[q].group = g /\ ctx[q].rank = ctx[r].rank
    BY <2>1, ContextFacts
  <2>3. PICK p : p = CHOOSE s \in Proc : ctx[s].group = g /\ ctx[s].rank = ctx[r].rank
    OBVIOUS
  <2>4. p \in Proc /\ ctx[p].group = g
    BY <2>2, <2>3, Zenon
  <2>5. ctx[p].mine = Share(nk, g, shape.outer, sequential)
    BY <2>4, ContextFacts
  <2>6. QED
    BY <2>3, <2>5, Zenon
<1>3. Weights(r) = [g \in 0 .. shape.outer - 1 |->
                      Len(Share(nk, g, shape.outer, sequential))]
  BY <1>1, <1>2, Zenon DEF Weights
<1>4. \A g \in 0 .. shape.outer - 1 :
        Len(Share(nk, g, shape.outer, sequential)) \in Nat \ {0}
  <2> SUFFICES ASSUME NEW g \in 0 .. shape.outer - 1
               PROVE  Len(Share(nk, g, shape.outer, sequential)) \in Nat \ {0}
    OBVIOUS
  <2>1. Len(Share(nk, g, shape.outer, sequential)) > 0
    BY <1>1, ShareNotEmpty
  <2>2. shape.outer \in Nat \ {0}
    BY <1>1
  <2>3. Share(nk, g, shape.outer, sequential) \in Seq(Nat)
    BY <1>1, <2>2, InShare
  <2>4. Len(Share(nk, g, shape.outer, sequential)) \in Nat
    BY <2>3
  <2>5. QED
    BY <2>1, <2>4
<1>5. QED
  BY <1>3, <1>4

(* local_aux_indices cuts a list into parts without gap or overlap; all    *)
(* processes of a group have the same, and the owner query finds the group *)
(* from any of them.                                                       *)
THEOREM ListsAreCut == Spec => []ListPartitioned
<1>1. IInv => ListPartitioned
  <2> SUFFICES ASSUME IInv, Ready PROVE ListPartitioned
    BY DEF ListPartitioned
  <2>1. nproc \in Nat /\ 0 \in Proc
    BY Processes
  <2>2. PICK shape, grid, nk, layout, sequential :
          LaidOut(shape, grid, nk, layout, sequential)
    BY <2>1, ReadyIsLaidOut DEF Ready
  <2>3. nitem \in Nat /\ shape.outer \in Nat \ {0}
    BY <2>2, LayoutAssumption DEF IInv, LaidOut, ShapeFits
  <2>4. PICK w : w = [g \in 0 .. shape.outer - 1 |->
                        Len(Share(nk, g, shape.outer, sequential))]
    OBVIOUS
  <2>5. /\ \A r \in Proc : Weights(r) = w
        /\ w \in [0 .. shape.outer - 1 -> Nat \ {0}]
    <3>1. \A r \in Proc : Weights(r) = w /\ Weights(r) \in [0 .. shape.outer - 1 -> Nat \ {0}]
      BY <2>1, <2>2, <2>4, GatheredWeights
    <3>2. QED
      BY <2>1, <3>1
  <2>6. \A r \in Proc : /\ ctx[r].shape = shape /\ ctx[r].group \in 0 .. shape.outer - 1
    BY <2>1, <2>2, ContextFacts
  <2>7. \A r \in Proc : aux[r] = IF nitem = 0 THEN <<>>
                                 ELSE BalancedShare(nitem, w, ctx[r].group)
    BY <2>5 DEF IInv, Shared
  <2>8. \A p \in 0 .. shape.outer - 1 : BalancedShare(nitem, w, p) \in Seq(0 .. nitem - 1)
    BY <2>3, <2>5, BalancedOnce
  <2>9. ASSUME NEW r \in Proc PROVE aux[r] \in Seq(0 .. nitem - 1)
    <3>1. <<>> \in Seq(0 .. nitem - 1)
      OBVIOUS
    <3>2. BalancedShare(nitem, w, ctx[r].group) \in Seq(0 .. nitem - 1)
      BY <2>6, <2>8, Zenon
    <3>3. QED
      BY <2>7, <3>1, <3>2, Zenon
  <2>10. ASSUME NEW i \in 0 .. nitem - 1, NEW r \in Proc, NEW q \in Proc
         PROVE  /\ AuxOwner(r, i) # Nobody
                /\ i \in Entries(aux[q]) <=> AuxOwner(r, i) = ctx[q].group
    <3>1. PICK g \in 0 .. shape.outer - 1 : \A p \in 0 .. shape.outer - 1 :
            i \in Entries(BalancedShare(nitem, w, p)) <=> p = g
      BY <2>3, <2>5, BalancedOnce
    <3>2. {h \in 0 .. ctx[r].shape.outer - 1 :
             i \in Entries(BalancedShare(nitem, Weights(r), h))} = {g}
      BY <2>5, <2>6, <3>1, Zenon
    <3>3. First({g}) = g
      <4>1. g <= g
        OBVIOUS
      <4>2. QED
        BY <4>1 DEF First
    <3>4. AuxOwner(r, i) = g
      BY <3>2, <3>3, Zenon DEF AuxOwner
    <3>5. g # Nobody
      BY <2>3 DEF Nobody
    <3>6. nitem # 0
      BY <2>3
    <3>7. aux[q] = BalancedShare(nitem, w, ctx[q].group)
      BY <2>7, <3>6
    <3>8. i \in Entries(aux[q]) <=> ctx[q].group = g
      BY <2>6, <3>1, <3>7, Zenon
    <3>9. QED
      BY <3>4, <3>5, <3>8
  <2>11. QED
    BY <2>9, <2>10, Zenon DEF ListPartitioned
<1>2. QED
  BY <1>1, Inductive, PTL

(* Group, rank and grid of every context fit its shape, and the shape fits *)
(* the communicator.                                                       *)
THEOREM TypeCorrect == Spec => []TypeOK
<1>1. IInv => TypeOK
  <2> SUFFICES ASSUME IInv, NEW r \in Proc
               PROVE  /\ ctx[r].ready => /\ ctx[r].group \in 0 .. ctx[r].shape.outer - 1
                                         /\ ctx[r].rank \in 0 .. ctx[r].shape.inner - 1
                                         /\ ctx[r].shape.outer * ctx[r].shape.inner = nproc
                                         /\ ctx[r].grid.rows * ctx[r].grid.cols =
                                              ctx[r].shape.inner
                      /\ ctx[r].mine \in Seq(Nat)
    BY DEF TypeOK, IInv
  <2>1. nproc \in Nat /\ 0 \in Proc
    BY Processes
  <2>2. CASE Closed
    <3>1. ctx[r] \in NotReady
      BY <2>2 DEF Closed
    <3>2. ~ ctx[r].ready /\ ctx[r].mine = <<>>
      BY <3>1 DEF NotReady
    <3>3. <<>> \in Seq(Nat)
      OBVIOUS
    <3>4. QED
      BY <3>2, <3>3, Zenon
  <2>3. ASSUME NEW shape, NEW grid, NEW nk, NEW layout, NEW sequential,
               LaidOut(shape, grid, nk, layout, sequential)
        PROVE  /\ ctx[r].group \in 0 .. ctx[r].shape.outer - 1
               /\ ctx[r].rank \in 0 .. ctx[r].shape.inner - 1
               /\ ctx[r].shape.outer * ctx[r].shape.inner = nproc
               /\ ctx[r].grid.rows * ctx[r].grid.cols = ctx[r].shape.inner
               /\ ctx[r].mine \in Seq(Nat)
    <3>1. /\ ctx[r].shape = shape /\ ctx[r].grid = grid
          /\ ctx[r].group \in 0 .. shape.outer - 1 /\ ctx[r].rank \in 0 .. shape.inner - 1
      BY <2>1, <2>3, ContextFacts
    <3>2. ctx[r].mine \in Seq(Nat)
      BY <2>1, <2>3, PartitionedWhenLaidOut
    <3>3. shape.outer * shape.inner = nproc /\ grid.rows * grid.cols = shape.inner
      BY <2>3 DEF LaidOut, ShapeFits
    <3>4. QED
      BY <3>1, <3>2, <3>3, Zenon
  <2>4. QED
    BY <2>2, <2>3, Zenon DEF IInv
<1>2. QED
  BY <1>1, Inductive, PTL
=============================================================================

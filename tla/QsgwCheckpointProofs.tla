------------------------ MODULE QsgwCheckpointProofs ------------------------
(***************************************************************************)
(* Proofs about QsgwCheckpoint for any sets of inputs, settings and states.*)
(* The stream has no tags and no lengths: that a reader never takes one    *)
(* field for another follows from the version number and the first field   *)
(* alone, which fix how many numbers there must be before any is compared. *)
(***************************************************************************)
EXTENDS QsgwCheckpoint, SequenceTheorems, TLAPS

(* A stream passes a pattern. *)
Fits(s, p) == Len(s) = Len(p) /\ \A i \in 1 .. Len(p) : s[i] \in p[i]

Streams  == Seq(Nat)
Patterns == Seq(SUBSET Nat)

(* Two streams one after the other. *)
LEMMA Concat ==
  ASSUME NEW S, NEW s \in Seq(S), NEW t \in Seq(S)
  PROVE  /\ s \o t \in Seq(S) /\ Len(s \o t) = Len(s) + Len(t)
         /\ Len(s) \in Nat /\ Len(t) \in Nat
         /\ \A i \in 1 .. Len(s) : (s \o t)[i] = s[i]
         /\ \A i \in 1 .. Len(t) : (s \o t)[Len(s) + i] = t[i]
<1>1. Len(s) \in Nat /\ Len(t) \in Nat
  BY LenProperties
<1>2. /\ s \o t \in Seq(S) /\ Len(s \o t) = Len(s) + Len(t)
      /\ \A i \in 1 .. Len(s) + Len(t) : (s \o t)[i] =
                     IF i <= Len(s) THEN s[i] ELSE t[i - Len(s)]
  BY ConcatProperties
<1>3. PICK l \in Nat, m \in Nat : l = Len(s) /\ m = Len(t)
  BY <1>1
<1>4. \A i \in 1 .. l : (s \o t)[i] = s[i]
  BY <1>2, <1>3
<1>5. \A i \in 1 .. m : (s \o t)[l + i] = t[i]
  <2> SUFFICES ASSUME NEW i \in 1 .. m PROVE (s \o t)[l + i] = t[i]
    OBVIOUS
  <2>1. l + i \in 1 .. l + m /\ ~ (l + i <= l) /\ (l + i) - l = i
    OBVIOUS
  <2>2. QED
    BY <2>1, <1>2, <1>3
<1>6. QED
  BY <1>1, <1>2, <1>3, <1>4, <1>5

(* Of numbers, and of what is let pass. *)
LEMMA ConcatHere ==
  /\ \A s, t \in Streams :
       /\ s \o t \in Streams /\ Len(s \o t) = Len(s) + Len(t)
       /\ Len(s) \in Nat /\ Len(t) \in Nat
       /\ \A i \in 1 .. Len(s) : (s \o t)[i] = s[i]
       /\ \A i \in 1 .. Len(t) : (s \o t)[Len(s) + i] = t[i]
  /\ \A p, q \in Patterns :
       /\ p \o q \in Patterns /\ Len(p \o q) = Len(p) + Len(q)
       /\ Len(p) \in Nat /\ Len(q) \in Nat
       /\ \A i \in 1 .. Len(p) : (p \o q)[i] = p[i]
       /\ \A i \in 1 .. Len(q) : (p \o q)[Len(p) + i] = q[i]
<1>1. ASSUME NEW s \in Seq(Nat), NEW t \in Seq(Nat)
      PROVE  /\ s \o t \in Seq(Nat) /\ Len(s \o t) = Len(s) + Len(t)
             /\ Len(s) \in Nat /\ Len(t) \in Nat
             /\ \A i \in 1 .. Len(s) : (s \o t)[i] = s[i]
             /\ \A i \in 1 .. Len(t) : (s \o t)[Len(s) + i] = t[i]
  BY Concat
<1>2. ASSUME NEW s \in Seq(SUBSET Nat), NEW t \in Seq(SUBSET Nat)
      PROVE  /\ s \o t \in Seq(SUBSET Nat) /\ Len(s \o t) = Len(s) + Len(t)
             /\ Len(s) \in Nat /\ Len(t) \in Nat
             /\ \A i \in 1 .. Len(s) : (s \o t)[i] = s[i]
             /\ \A i \in 1 .. Len(t) : (s \o t)[Len(s) + i] = t[i]
  BY Concat
<1>3. QED
  BY <1>1, <1>2, Zenon DEF Streams, Patterns

(* Where the first parts have the same length, the parts pass one by one.  *)
LEMMA FitsConcat ==
  \A s, t \in Streams, p, q \in Patterns :
    Len(s) = Len(p) => (Fits(s \o t, p \o q) <=> Fits(s, p) /\ Fits(t, q))
<1> SUFFICES ASSUME NEW s \in Streams, NEW t \in Streams, NEW p \in Patterns,
                    NEW q \in Patterns, Len(s) = Len(p)
             PROVE  Fits(s \o t, p \o q) <=> Fits(s, p) /\ Fits(t, q)
  OBVIOUS
<1>1. PICK l \in Nat, m \in Nat, n \in Nat :
        l = Len(s) /\ m = Len(t) /\ n = Len(q) /\ l = Len(p)
  BY LenProperties DEF Streams, Patterns
<1>a. /\ Len(s \o t) = Len(s) + Len(t)
      /\ \A i \in 1 .. Len(s) : (s \o t)[i] = s[i]
      /\ \A i \in 1 .. Len(t) : (s \o t)[Len(s) + i] = t[i]
  BY ConcatHere, Zenon
<1>b. /\ Len(p \o q) = Len(p) + Len(q)
      /\ \A i \in 1 .. Len(p) : (p \o q)[i] = p[i]
      /\ \A i \in 1 .. Len(q) : (p \o q)[Len(p) + i] = q[i]
  BY ConcatHere, Zenon
<1>2. Len(s \o t) = l + m /\ Len(p \o q) = l + n
  BY <1>1, <1>a, <1>b
<1>3. /\ \A i \in 1 .. l : (s \o t)[i] = s[i] /\ (p \o q)[i] = p[i]
      /\ \A i \in 1 .. m : (s \o t)[l + i] = t[i]
      /\ \A i \in 1 .. n : (p \o q)[l + i] = q[i]
  BY <1>1, <1>a, <1>b
<1>4. \A i \in 1 .. l + n : i \in 1 .. l \/ \E j \in 1 .. n : i = l + j
  <2> SUFFICES ASSUME NEW i \in 1 .. l + n, i \notin 1 .. l PROVE \E j \in 1 .. n : i = l + j
    OBVIOUS
  <2>1. i - l \in 1 .. n /\ i = l + (i - l)
    OBVIOUS
  <2>2. QED
    BY <2>1
<1>5. \A j \in 1 .. n : l + j \in 1 .. l + n
  OBVIOUS
<1>6. \A i \in 1 .. l : i \in 1 .. l + n
  OBVIOUS
<1>7. CASE m # n
  BY <1>1, <1>2, <1>7 DEF Fits
<1>8. CASE m = n
  <2>1. Fits(s \o t, p \o q) <=> \A i \in 1 .. l + n : (s \o t)[i] \in (p \o q)[i]
    BY <1>2, <1>8 DEF Fits
  <2>2. /\ Fits(s, p) <=> \A i \in 1 .. l : s[i] \in p[i]
        /\ Fits(t, q) <=> \A i \in 1 .. n : t[i] \in q[i]
    BY <1>1, <1>8 DEF Fits
  <2>3. ASSUME \A i \in 1 .. l + n : (s \o t)[i] \in (p \o q)[i]
        PROVE  (\A i \in 1 .. l : s[i] \in p[i]) /\ (\A i \in 1 .. n : t[i] \in q[i])
    BY <2>3, <1>3, <1>5, <1>6, <1>8
  <2>4. ASSUME \A i \in 1 .. l : s[i] \in p[i], \A i \in 1 .. n : t[i] \in q[i]
        PROVE  \A i \in 1 .. l + n : (s \o t)[i] \in (p \o q)[i]
    <3> SUFFICES ASSUME NEW i \in 1 .. l + n PROVE (s \o t)[i] \in (p \o q)[i]
      OBVIOUS
    <3>1. CASE i \in 1 .. l
      BY <2>4, <3>1, <1>3
    <3>2. ASSUME NEW j \in 1 .. n, i = l + j PROVE (s \o t)[i] \in (p \o q)[i]
      BY <2>4, <3>2, <1>3, <1>8
    <3>3. QED
      BY <3>1, <3>2, <1>4
  <2>5. QED
    BY <2>1, <2>2, <2>3, <2>4
<1>9. QED
  BY <1>7, <1>8

(* A part that is there or not. *)
LEMMA FitsIf ==
  \A b \in BOOLEAN : \A s \in Streams, p \in Patterns :
    /\ Fits(If(b, s), If(b, p)) <=> (b => Fits(s, p))
    /\ If(b, s) \in Streams /\ If(b, p) \in Patterns
    /\ Len(If(b, s)) = IF b THEN Len(s) ELSE 0
    /\ Len(If(b, p)) = IF b THEN Len(p) ELSE 0
<1> SUFFICES ASSUME NEW b \in BOOLEAN, NEW s \in Streams, NEW p \in Patterns
             PROVE  /\ Fits(If(b, s), If(b, p)) <=> (b => Fits(s, p))
                    /\ If(b, s) \in Streams /\ If(b, p) \in Patterns
                    /\ Len(If(b, s)) = IF b THEN Len(s) ELSE 0
                    /\ Len(If(b, p)) = IF b THEN Len(p) ELSE 0
  OBVIOUS
<1>1. /\ <<>> \in Streams /\ <<>> \in Patterns /\ Len(<<>>) = 0 /\ Fits(<<>>, <<>>)
  BY DEF Streams, Patterns, Fits
<1>2. CASE b
  <2>1. If(b, s) = s /\ If(b, p) = p
    BY <1>2 DEF If
  <2>2. QED
    BY <1>2, <2>1
<1>3. CASE ~ b
  <2>1. If(b, s) = <<>> /\ If(b, p) = <<>>
    BY <1>3 DEF If
  <2>2. QED
    BY <1>1, <1>3, <2>1
<1>4. QED
  BY <1>2, <1>3
-----------------------------------------------------------------------------
(* Everything about two parts at once, the first of them not empty. *)
Joined(s, t, p, q) ==
  /\ s \o t \in Streams /\ Len(s \o t) = Len(s) + Len(t)
  /\ p \o q \in Patterns /\ Len(p \o q) = Len(p) + Len(q)
  /\ 0 < Len(s \o t) /\ 0 < Len(p \o q)
  /\ (s \o t)[1] = s[1] /\ (p \o q)[1] = p[1]
  /\ \A i \in 1 .. Len(t) : (s \o t)[Len(s) + i] = t[i]
  /\ Len(s) = Len(p) => (Fits(s \o t, p \o q) <=> Fits(s, p) /\ Fits(t, q))

(* It holds of any two. *)
LEMMA Join ==
  \A s, t \in Streams, p, q \in Patterns :
    0 < Len(s) /\ 0 < Len(p) => Joined(s, t, p, q)
<1> SUFFICES ASSUME NEW s \in Streams, NEW t \in Streams, NEW p \in Patterns,
                    NEW q \in Patterns, 0 < Len(s), 0 < Len(p)
             PROVE  Joined(s, t, p, q)
  OBVIOUS
<1>1. /\ s \o t \in Streams /\ Len(s \o t) = Len(s) + Len(t)
      /\ Len(s) \in Nat /\ Len(t) \in Nat
      /\ \A i \in 1 .. Len(s) : (s \o t)[i] = s[i]
      /\ \A i \in 1 .. Len(t) : (s \o t)[Len(s) + i] = t[i]
  BY ConcatHere, Zenon
<1>2. /\ p \o q \in Patterns /\ Len(p \o q) = Len(p) + Len(q)
      /\ Len(p) \in Nat /\ Len(q) \in Nat
      /\ \A i \in 1 .. Len(p) : (p \o q)[i] = p[i]
  BY ConcatHere, Zenon
<1>3. PICK l \in Nat, m \in Nat, k \in Nat, n \in Nat :
        l = Len(s) /\ m = Len(t) /\ k = Len(p) /\ n = Len(q)
  BY <1>1, <1>2
<1>4. 1 \in 1 .. l /\ 1 \in 1 .. k /\ 0 < l + m /\ 0 < k + n
  BY <1>3
<1>5. Len(s) = Len(p) => (Fits(s \o t, p \o q) <=> Fits(s, p) /\ Fits(t, q))
  BY FitsConcat, Zenon
<1>6. QED
  BY <1>1, <1>2, <1>3, <1>4, <1>5, Zenon DEF Joined

(* How many numbers the settings take, and the first of them. *)
ContextLength(c, version) ==
  5 + (IF version >= 2 THEN 1 ELSE 0) + (IF version >= 3 THEN 1 ELSE 0) + Bit(c.band)

(* The domains of the settings. *)
LEMMA Settings ==
  \A c \in Context :
    /\ c.input \in Nat /\ c.setting \in Nat /\ c.head \in Nat /\ c.cut \in Nat
    /\ c.head \in {0, 3} /\ c.cut \in {0, 1}
    /\ c.band \in BOOLEAN /\ c.hartree \in BOOLEAN /\ Live(c) \in BOOLEAN
    /\ c.mode \in {"reference", "rotate_reference", "current_hr"}
    /\ Bit(c.band) \in Nat /\ Bit(c.band) = (IF c.band THEN 1 ELSE 0)
<1> SUFFICES ASSUME NEW c \in Context
             PROVE  /\ c.input \in Nat /\ c.setting \in Nat /\ c.head \in Nat /\ c.cut \in Nat
                    /\ c.head \in {0, 3} /\ c.cut \in {0, 1}
                    /\ c.band \in BOOLEAN /\ c.hartree \in BOOLEAN /\ Live(c) \in BOOLEAN
                    /\ c.mode \in {"reference", "rotate_reference", "current_hr"}
                    /\ Bit(c.band) \in Nat /\ Bit(c.band) = (IF c.band THEN 1 ELSE 0)
  OBVIOUS
<1>1. /\ c.input \in Input /\ c.setting \in Setting /\ c.head \in {0, 3} /\ c.cut \in {0, 1}
      /\ c.band \in BOOLEAN /\ c.hartree \in BOOLEAN
      /\ c.mode \in {"reference", "rotate_reference", "current_hr"}
  BY DEF Context
<1>2. c.input \in Nat /\ c.setting \in Nat
  BY <1>1, FormatAssumption
<1>3. c.head \in Nat /\ c.cut \in Nat
  BY <1>1
<1>4. Live(c) \in BOOLEAN
  BY DEF Live
<1>5. Bit(c.band) = (IF c.band THEN 1 ELSE 0) /\ Bit(c.band) \in Nat
  BY <1>1 DEF Bit
<1>6. QED
  BY <1>1, <1>2, <1>3, <1>4, <1>5, Zenon

(* The settings are let through only if they are the reader's own. *)
ContextMatches(o, c, cut, v, w) ==
  /\ ContextPart(o, cut, v) \in Streams /\ ContextPattern(c, w) \in Patterns
  /\ Len(ContextPart(o, cut, v)) = ContextLength(o, v)
  /\ Len(ContextPattern(c, w)) = ContextLength(c, w)
  /\ ContextPart(o, cut, v)[1] = Bit(o.band) /\ ContextPattern(c, w)[1] = {Bit(c.band)}
  /\ o.band = c.band =>
       (Fits(ContextPart(o, cut, v), ContextPattern(c, w)) <=>
          /\ cut = c.cut /\ o.setting = c.setting /\ o.head = c.head
          /\ o.input = c.input)

(* That is so for any two jobs and any two versions with the same codes. *)
LEMMA ContextMatch ==
  \A o, c \in Context, cut, v, w \in Nat :
    (v >= 2 <=> w >= 2) /\ (v >= 3 <=> w >= 3) => ContextMatches(o, c, cut, v, w)
<1> SUFFICES ASSUME NEW o \in Context, NEW c \in Context, NEW cut \in Nat, NEW v \in Nat, NEW w \in Nat,
                       v >= 2 <=> w >= 2, v >= 3 <=> w >= 3
             PROVE  ContextMatches(o, c, cut, v, w)
  OBVIOUS
<1> DEFINE a1 == <<Bit(o.band), cut, o.setting, o.head>>
           a2 == If(v >= 2, <<0>>)
           a3 == If(v >= 3, <<0>>)
           a4 == <<o.input>>
           a5 == If(o.band, <<o.input>>)
           p1 == <<{Bit(c.band)}, {c.cut}, {c.setting}, {c.head}>>
           p2 == If(w >= 2, <<{0}>>)
           p3 == If(w >= 3, <<{0}>>)
           p4 == <<{c.input}>>
           p5 == If(c.band, <<{c.input}>>)
<1>a. /\ c.input \in Nat /\ c.setting \in Nat /\ c.head \in Nat /\ c.cut \in Nat
      /\ o.input \in Nat /\ o.setting \in Nat /\ o.head \in Nat
      /\ o.band \in BOOLEAN /\ c.band \in BOOLEAN
      /\ Bit(c.band) \in Nat /\ Bit(c.band) = (IF c.band THEN 1 ELSE 0)
      /\ Bit(o.band) \in Nat /\ Bit(o.band) = (IF o.band THEN 1 ELSE 0)
  BY Settings
<1>1. /\ a1 \in Streams /\ Len(a1) = 4 /\ a1[1] = Bit(o.band)
      /\ p1 \in Patterns /\ Len(p1) = 4 /\ p1[1] = {Bit(c.band)}
      /\ Fits(a1, p1) <=> /\ Bit(o.band) = Bit(c.band)
                          /\ cut = c.cut /\ o.setting = c.setting /\ o.head = c.head
  BY <1>a DEF Streams, Patterns, Fits
<1>2. /\ a4 \in Streams /\ Len(a4) = 1 /\ p4 \in Patterns /\ Len(p4) = 1
      /\ Fits(a4, p4) <=> o.input = c.input
  BY <1>a DEF Streams, Patterns, Fits
<1>3. /\ <<0>> \in Streams /\ Len(<<0>>) = 1 /\ <<{0}>> \in Patterns /\ Len(<<{0}>>) = 1
      /\ Fits(<<0>>, <<{0}>>)
  BY DEF Streams, Patterns, Fits
<1>4. <<>> \in Streams /\ <<>> \in Patterns /\ Len(<<>>) = 0 /\ Fits(<<>>, <<>>)
  BY DEF Streams, Patterns, Fits
<1>5. /\ a2 \in Streams /\ p2 \in Patterns /\ Fits(a2, p2)
      /\ Len(a2) = (IF v >= 2 THEN 1 ELSE 0) /\ Len(p2) = (IF v >= 2 THEN 1 ELSE 0)
  <2>1. CASE v >= 2
    <3>1. a2 = <<0>> /\ p2 = <<{0}>>
      BY <2>1 DEF If
    <3>2. QED
      BY <1>3, <2>1, <3>1
  <2>2. CASE ~ (v >= 2)
    <3>1. a2 = <<>> /\ p2 = <<>>
      BY <2>2 DEF If
    <3>2. QED
      BY <1>4, <2>2, <3>1
  <2>3. QED
    BY <2>1, <2>2
<1>6. /\ a3 \in Streams /\ p3 \in Patterns /\ Fits(a3, p3)
      /\ Len(a3) = (IF v >= 3 THEN 1 ELSE 0) /\ Len(p3) = (IF v >= 3 THEN 1 ELSE 0)
  <2>1. CASE v >= 3
    <3>1. a3 = <<0>> /\ p3 = <<{0}>>
      BY <2>1 DEF If
    <3>2. QED
      BY <1>3, <2>1, <3>1
  <2>2. CASE ~ (v >= 3)
    <3>1. a3 = <<>> /\ p3 = <<>>
      BY <2>2 DEF If
    <3>2. QED
      BY <1>4, <2>2, <3>1
  <2>3. QED
    BY <2>1, <2>2
<1>7. /\ a5 \in Streams /\ Len(a5) = Bit(o.band)
      /\ p5 \in Patterns /\ Len(p5) = Bit(c.band)
      /\ o.band = c.band => (Fits(a5, p5) <=> (o.band => o.input = c.input))
  <2>1. /\ a5 \in Streams /\ Len(a5) = (IF o.band THEN 1 ELSE 0)
        /\ o.band = c.band => (Fits(a5, p5) <=> (o.band => Fits(a4, p4)))
    BY <1>a, <1>2, FitsIf, Zenon
  <2>2. p5 \in Patterns /\ Len(p5) = (IF c.band THEN 1 ELSE 0)
    BY <1>a, <1>2, FitsIf, Zenon
  <2>3. QED
    BY <1>a, <1>2, <2>1, <2>2, Zenon
<1>8. /\ ContextPart(o, cut, v) = a1 \o a2 \o a3 \o a4 \o a5
      /\ ContextPattern(c, w) = p1 \o p2 \o p3 \o p4 \o p5
  BY DEF ContextPart, ContextPattern
<1> HIDE DEF a1, a2, a3, a4, a5, p1, p2, p3, p4, p5
<1>9. PICK s2, q2 : s2 = a1 \o a2 /\ q2 = p1 \o p2
  OBVIOUS
<1>10. /\ s2 \in Streams /\ Len(s2) = Len(a1) + Len(a2) /\ s2[1] = a1[1]
       /\ q2 \in Patterns /\ Len(q2) = Len(p1) + Len(p2) /\ q2[1] = p1[1]
       /\ 0 < Len(s2) /\ 0 < Len(q2) /\ Len(s2) = Len(q2)
       /\ Fits(s2, q2) <=> Fits(a1, p1)
  <2>1. Len(a1) = Len(p1) /\ 0 < Len(a1) /\ 0 < Len(p1)
    BY <1>1
  <2>2. Len(a2) = Len(p2)
    BY <1>5
  <2>3. Joined(a1, a2, p1, p2)
    BY <1>1, <1>5, <2>1, Join, Zenon
  <2>4. QED
    BY <1>5, <1>9, <2>1, <2>2, <2>3, Zenon DEF Joined
<1>11. PICK s3, q3 : s3 = s2 \o a3 /\ q3 = q2 \o p3
  OBVIOUS
<1>12. /\ s3 \in Streams /\ Len(s3) = Len(s2) + Len(a3) /\ s3[1] = s2[1]
       /\ q3 \in Patterns /\ Len(q3) = Len(q2) + Len(p3) /\ q3[1] = q2[1]
       /\ 0 < Len(s3) /\ 0 < Len(q3) /\ Len(s3) = Len(q3)
       /\ Fits(s3, q3) <=> Fits(s2, q2)
  <2>1. Len(a3) = Len(p3)
    BY <1>6
  <2>2. Joined(s2, a3, q2, p3)
    BY <1>6, <1>10, Join, Zenon
  <2>3. QED
    BY <1>6, <1>10, <1>11, <2>1, <2>2, Zenon DEF Joined
<1>13. PICK s4, q4 : s4 = s3 \o a4 /\ q4 = q3 \o p4
  OBVIOUS
<1>14. /\ s4 \in Streams /\ Len(s4) = Len(s3) + Len(a4) /\ s4[1] = s3[1]
       /\ q4 \in Patterns /\ Len(q4) = Len(q3) + Len(p4) /\ q4[1] = q3[1]
       /\ 0 < Len(s4) /\ 0 < Len(q4) /\ Len(s4) = Len(q4)
       /\ Fits(s4, q4) <=> Fits(s3, q3) /\ Fits(a4, p4)
  <2>1. Len(a4) = Len(p4)
    BY <1>2
  <2>2. Joined(s3, a4, q3, p4)
    BY <1>2, <1>12, Join, Zenon
  <2>3. QED
    BY <1>12, <1>13, <2>1, <2>2, Zenon DEF Joined
<1>15. /\ s4 \o a5 \in Streams /\ Len(s4 \o a5) = Len(s4) + Len(a5) /\ (s4 \o a5)[1] = s4[1]
       /\ q4 \o p5 \in Patterns /\ Len(q4 \o p5) = Len(q4) + Len(p5) /\ (q4 \o p5)[1] = q4[1]
       /\ Fits(s4 \o a5, q4 \o p5) <=> Fits(s4, q4) /\ Fits(a5, p5)
  <2>1. Joined(s4, a5, q4, p5)
    BY <1>7, <1>14, Join, Zenon
  <2>2. QED
    BY <1>14, <2>1, Zenon DEF Joined
<1>16. ContextPart(o, cut, v) = s4 \o a5 /\ ContextPattern(c, w) = q4 \o p5
  BY <1>8, <1>9, <1>11, <1>13
<1>17. Len(s4 \o a5) = ContextLength(o, v) /\ Len(q4 \o p5) = ContextLength(c, w)
  BY <1>a, <1>1, <1>2, <1>5, <1>6, <1>7, <1>10, <1>12, <1>14, <1>15 DEF ContextLength
<1>18. o.band = c.band =>
         (Fits(s4 \o a5, q4 \o p5) <=> /\ cut = c.cut /\ o.setting = c.setting
                                       /\ o.head = c.head /\ o.input = c.input)
  BY <1>1, <1>2, <1>7, <1>10, <1>12, <1>14, <1>15, Zenon
<1>19. QED
  BY <1>1, <1>10, <1>12, <1>14, <1>15, <1>16, <1>17, <1>18, Zenon DEF ContextMatches

(* A saved state passes wherever a state is expected. *)
StateMatches(o, c, s) ==
  /\ StatePart(o, s) \in Streams /\ StatePattern(c) \in Patterns
  /\ Len(StatePart(o, s)) = 3 + Bit(o.band)
  /\ Len(StatePattern(c)) = 3 + Bit(c.band)
  /\ StatePart(o, s)[1] = s.iter /\ StatePart(o, s)[2] = s.conv
  /\ StatePart(o, s)[3] = s.data
  /\ o.band = c.band => Fits(StatePart(o, s), StatePattern(c))

(* That is so for any two jobs. *)
LEMMA StateMatch ==
  \A o, c \in Context, s \in Saved : StateMatches(o, c, s)
<1> SUFFICES ASSUME NEW o \in Context, NEW c \in Context, NEW s \in Saved
             PROVE  StateMatches(o, c, s)
  OBVIOUS
<1> DEFINE a1 == <<s.iter, s.conv, s.data>>
           a2 == If(o.band, <<s.data>>)
           p1 == <<1 .. MaxSaved, {0, 1}, Data>>
           p2 == If(c.band, <<Data>>)
<1>1. /\ s.iter \in 1 .. MaxSaved /\ s.conv \in {0, 1} /\ s.data \in Data
      /\ Data \in SUBSET Nat /\ 1 .. MaxSaved \in SUBSET Nat /\ {0, 1} \in SUBSET Nat
  BY FormatAssumption DEF Saved
<1>2. s.iter \in Nat /\ s.conv \in Nat /\ s.data \in Nat
  BY <1>1
<1>3. /\ o.band \in BOOLEAN /\ c.band \in BOOLEAN
      /\ Bit(c.band) \in Nat /\ Bit(c.band) = (IF c.band THEN 1 ELSE 0)
      /\ Bit(o.band) \in Nat /\ Bit(o.band) = (IF o.band THEN 1 ELSE 0)
  BY Settings
<1>4. /\ a1 \in Streams /\ Len(a1) = 3 /\ p1 \in Patterns /\ Len(p1) = 3 /\ Fits(a1, p1)
  <2>1. a1 \in Streams /\ Len(a1) = 3
    BY <1>2 DEF Streams
  <2>2. p1 \in Patterns /\ Len(p1) = 3
    <3>1. PICK x, y, z \in SUBSET Nat : x = 1 .. MaxSaved /\ y = {0, 1} /\ z = Data
      BY <1>1, Zenon
    <3>2. <<x, y, z>> \in Seq(SUBSET Nat) /\ Len(<<x, y, z>>) = 3
      OBVIOUS
    <3>3. QED
      BY <3>1, <3>2, Zenon DEF Patterns
  <2>3. \A i \in 1 .. 3 : i = 1 \/ i = 2 \/ i = 3
    OBVIOUS
  <2>4. a1[1] \in p1[1] /\ a1[2] \in p1[2] /\ a1[3] \in p1[3]
    BY <1>1
  <2>5. QED
    BY <2>1, <2>2, <2>3, <2>4, Zenon DEF Fits
<1>5. a1[1] = s.iter /\ a1[2] = s.conv /\ a1[3] = s.data
  OBVIOUS
<1>6. /\ <<s.data>> \in Streams /\ Len(<<s.data>>) = 1
      /\ <<Data>> \in Patterns /\ Len(<<Data>>) = 1 /\ Fits(<<s.data>>, <<Data>>)
  BY <1>1, <1>2 DEF Streams, Patterns, Fits
<1>7. /\ a2 \in Streams /\ Len(a2) = Bit(o.band) /\ p2 \in Patterns /\ Len(p2) = Bit(c.band)
      /\ o.band = c.band => Fits(a2, p2)
  BY <1>3, <1>6, FitsIf, Zenon
<1>8. StatePart(o, s) = a1 \o a2 /\ StatePattern(c) = p1 \o p2
  BY DEF StatePart, StatePattern
<1> HIDE DEF a1, a2, p1, p2
<1>9. Joined(a1, a2, p1, p2)
  <2>1. Len(a1) = Len(p1) /\ 0 < Len(a1) /\ 0 < Len(p1)
    BY <1>4
  <2>2. QED
    BY <2>1, <1>4, <1>7, Join, Zenon
<1>10. \A i \in 1 .. Len(a1) : (a1 \o a2)[i] = a1[i]
  BY <1>4, <1>7, ConcatHere, Zenon
<1>11. (a1 \o a2)[1] = a1[1] /\ (a1 \o a2)[2] = a1[2] /\ (a1 \o a2)[3] = a1[3]
  <2>1. 1 \in 1 .. Len(a1) /\ 2 \in 1 .. Len(a1) /\ 3 \in 1 .. Len(a1)
    BY <1>4
  <2>2. QED
    BY <2>1, <1>10, Zenon
<1>12. QED
  <2>1. /\ a1 \o a2 \in Streams /\ Len(a1 \o a2) = Len(a1) + Len(a2)
        /\ p1 \o p2 \in Patterns /\ Len(p1 \o p2) = Len(p1) + Len(p2)
        /\ Fits(a1 \o a2, p1 \o p2) <=> Fits(a1, p1) /\ Fits(a2, p2)
    <3>1. Len(a1) = Len(p1)
      BY <1>4
    <3>2. QED
      BY <3>1, <1>9, Zenon DEF Joined
  <2>2. Len(a1 \o a2) = 3 + Bit(o.band) /\ Len(p1 \o p2) = 3 + Bit(c.band)
    BY <2>1, <1>4, <1>7
  <2>3. QED
    BY <2>1, <2>2, <1>4, <1>5, <1>7, <1>8, <1>11, Zenon DEF StateMatches

(* What follows the version and the byte order. *)
Body(o, cut, v, l, tag, s) ==
  ContextPart(o, cut, v) \o If(o.hartree, HartreePart(o))
  \o If(l, VelocityPart(o, tag)) \o StatePart(o, s)

(* How many numbers that are. *)
BodyLength(c, v) ==
  ContextLength(c, v) + (IF c.hartree THEN 3 ELSE 0) + (IF Live(c) THEN 3 ELSE 0)
  + (3 + Bit(c.band))

(* The number that stands for what the velocity is made of. *)
ModeCode(c) == IF c.mode = "current_hr" THEN 1 ELSE 2

(* Where the envelopes agree, a body passes if it is as long as it must be *)
(* for the reader and every value in it is the reader's own.               *)
BodyMatches(o, c, s, cut, v, w, tag, l) ==
  /\ Body(o, cut, v, l, tag, s) \in Streams /\ Pattern(c, w) \in Patterns
  /\ Len(Body(o, cut, v, l, tag, s)) = BodyLength(o, v)
  /\ Len(Pattern(c, w)) = BodyLength(c, w)
  /\ Body(o, cut, v, l, tag, s)[1] = Bit(o.band) /\ Pattern(c, w)[1] = {Bit(c.band)}
  /\ LET b == BodyLength(o, v) - (3 + Bit(o.band))
     IN  /\ Body(o, cut, v, l, tag, s)[b + 1] = s.iter
         /\ Body(o, cut, v, l, tag, s)[b + 2] = s.conv
         /\ Body(o, cut, v, l, tag, s)[b + 3] = s.data
  /\ o.band = c.band =>
       (Fits(Body(o, cut, v, l, tag, s), Pattern(c, w)) <=>
          /\ cut = c.cut /\ o.setting = c.setting /\ o.head = c.head
          /\ o.input = c.input
          /\ Live(c) => /\ tag = IF Native(c) THEN NativeTag ELSE RefTag
                        /\ ModeCode(o) = ModeCode(c))

(* That is so for any two jobs that agree on the envelopes. *)
LEMMA BodyMatch ==
  \A o, c \in Context, s \in Saved, cut, v, w, tag \in Nat, l \in BOOLEAN :
    /\ (v >= 2 <=> w >= 2) /\ (v >= 3 <=> w >= 3)
    /\ o.hartree = c.hartree /\ l = Live(c) /\ Live(o) = Live(c)
    => BodyMatches(o, c, s, cut, v, w, tag, l)
<1> SUFFICES ASSUME NEW o \in Context, NEW c \in Context, NEW s \in Saved, NEW cut \in Nat,
                       NEW v \in Nat, NEW w \in Nat, NEW tag \in Nat, NEW l \in BOOLEAN,
                       v >= 2 <=> w >= 2, v >= 3 <=> w >= 3,
                       o.hartree = c.hartree, l = Live(c), Live(o) = Live(c)
             PROVE  BodyMatches(o, c, s, cut, v, w, tag, l)
  OBVIOUS
<1> DEFINE a1 == ContextPart(o, cut, v)
           a2 == If(o.hartree, HartreePart(o))
           a3 == If(l, VelocityPart(o, tag))
           a4 == StatePart(o, s)
           p1 == ContextPattern(c, w)
           p2 == If(c.hartree, HartreePattern(c))
           p3 == If(Live(c), VelocityPattern(c))
           p4 == StatePattern(c)
           want == IF Native(c) THEN NativeTag ELSE RefTag
<1>a. /\ o.input \in Nat /\ c.input \in Nat /\ o.hartree \in BOOLEAN /\ c.hartree \in BOOLEAN
      /\ Bit(c.band) \in Nat /\ Bit(o.band) \in Nat
  BY Settings
<1>b. /\ ModeCode(o) \in Nat /\ ModeCode(c) \in Nat /\ want \in Nat /\ HartreeTag \in Nat
  BY DEF ModeCode, NativeTag, RefTag, HartreeTag
<1>1. /\ a1 \in Streams /\ p1 \in Patterns
      /\ Len(a1) = ContextLength(o, v) /\ Len(p1) = ContextLength(c, w)
      /\ a1[1] = Bit(o.band) /\ p1[1] = {Bit(c.band)}
      /\ o.band = c.band =>
           (Fits(a1, p1) <=> /\ cut = c.cut /\ o.setting = c.setting /\ o.head = c.head
                             /\ o.input = c.input)
  <2>1. ContextMatches(o, c, cut, v, w)
    BY ContextMatch
  <2>2. QED
    BY <2>1, Zenon DEF ContextMatches
<1>2. /\ HartreePart(o) \in Streams /\ HartreePattern(c) \in Patterns
      /\ Len(HartreePart(o)) = 3 /\ Len(HartreePattern(c)) = 3
      /\ Fits(HartreePart(o), HartreePattern(c)) <=> o.input = c.input
  BY <1>a, <1>b DEF HartreePart, HartreePattern, Streams, Patterns, Fits
<1>3. /\ VelocityPart(o, tag) \in Streams /\ VelocityPattern(c) \in Patterns
      /\ Len(VelocityPart(o, tag)) = 3 /\ Len(VelocityPattern(c)) = 3
      /\ Fits(VelocityPart(o, tag), VelocityPattern(c)) <=>
           tag = want /\ ModeCode(o) = ModeCode(c) /\ o.input = c.input
  BY <1>a, <1>b DEF VelocityPart, VelocityPattern, ModeCode, Streams, Patterns, Fits
<1>4. /\ a2 \in Streams /\ p2 \in Patterns
      /\ Len(a2) = (IF o.hartree THEN 3 ELSE 0) /\ Len(p2) = (IF c.hartree THEN 3 ELSE 0)
      /\ Fits(a2, p2) <=> (c.hartree => o.input = c.input)
  BY <1>a, <1>2, FitsIf, Zenon
<1>5. /\ a3 \in Streams /\ p3 \in Patterns
      /\ Len(a3) = (IF Live(o) THEN 3 ELSE 0) /\ Len(p3) = (IF Live(c) THEN 3 ELSE 0)
      /\ Fits(a3, p3) <=>
           (Live(c) => tag = want /\ ModeCode(o) = ModeCode(c) /\ o.input = c.input)
  BY <1>3, FitsIf, Zenon
<1>6. /\ a4 \in Streams /\ p4 \in Patterns
      /\ Len(a4) = 3 + Bit(o.band) /\ Len(p4) = 3 + Bit(c.band)
      /\ a4[1] = s.iter /\ a4[2] = s.conv /\ a4[3] = s.data
      /\ o.band = c.band => Fits(a4, p4)
  BY StateMatch, Zenon DEF StateMatches
<1>7. /\ Body(o, cut, v, l, tag, s) = a1 \o a2 \o a3 \o a4
      /\ Pattern(c, w) = p1 \o p2 \o p3 \o p4
  BY DEF Body, Pattern
<1> HIDE DEF a1, a2, a3, a4, p1, p2, p3, p4, want
<1>8. PICK s2, q2 : s2 = a1 \o a2 /\ q2 = p1 \o p2
  OBVIOUS
<1>9. PICK s3, q3 : s3 = s2 \o a3 /\ q3 = q2 \o p3
  OBVIOUS
<1>10. /\ s2 \in Streams /\ Len(s2) = Len(a1) + Len(a2) /\ s2[1] = a1[1] /\ 0 < Len(s2)
       /\ q2 \in Patterns /\ Len(q2) = Len(p1) + Len(p2) /\ q2[1] = p1[1] /\ 0 < Len(q2)
       /\ Len(a1) = Len(p1) => (Fits(s2, q2) <=> Fits(a1, p1) /\ Fits(a2, p2))
  <2>1. 0 < Len(a1) /\ 0 < Len(p1)
    BY <1>1, <1>a DEF ContextLength
  <2>2. Joined(a1, a2, p1, p2)
    BY <1>1, <1>4, <2>1, Join, Zenon
  <2>3. QED
    BY <1>8, <2>2, Zenon DEF Joined
<1>11. /\ s3 \in Streams /\ Len(s3) = Len(s2) + Len(a3) /\ s3[1] = s2[1] /\ 0 < Len(s3)
       /\ q3 \in Patterns /\ Len(q3) = Len(q2) + Len(p3) /\ q3[1] = q2[1] /\ 0 < Len(q3)
       /\ Len(s2) = Len(q2) => (Fits(s3, q3) <=> Fits(s2, q2) /\ Fits(a3, p3))
  <2>1. Joined(s2, a3, q2, p3)
    BY <1>5, <1>10, Join, Zenon
  <2>2. QED
    BY <1>9, <2>1, Zenon DEF Joined
<1>12. /\ s3 \o a4 \in Streams /\ Len(s3 \o a4) = Len(s3) + Len(a4) /\ (s3 \o a4)[1] = s3[1]
       /\ q3 \o p4 \in Patterns /\ Len(q3 \o p4) = Len(q3) + Len(p4) /\ (q3 \o p4)[1] = q3[1]
       /\ \A i \in 1 .. Len(a4) : (s3 \o a4)[Len(s3) + i] = a4[i]
       /\ Len(s3) = Len(q3) => (Fits(s3 \o a4, q3 \o p4) <=> Fits(s3, q3) /\ Fits(a4, p4))
  <2>1. Joined(s3, a4, q3, p4)
    BY <1>6, <1>11, Join, Zenon
  <2>2. QED
    BY <2>1, Zenon DEF Joined
<1>13. Body(o, cut, v, l, tag, s) = s3 \o a4 /\ Pattern(c, w) = q3 \o p4
  BY <1>7, <1>8, <1>9
<1>14. Len(s3 \o a4) = BodyLength(o, v) /\ Len(q3 \o p4) = BodyLength(c, w)
  BY <1>1, <1>4, <1>5, <1>6, <1>10, <1>11, <1>12 DEF BodyLength
<1>15. /\ (s3 \o a4)[BodyLength(o, v) - (3 + Bit(o.band)) + 1] = s.iter
       /\ (s3 \o a4)[BodyLength(o, v) - (3 + Bit(o.band)) + 2] = s.conv
       /\ (s3 \o a4)[BodyLength(o, v) - (3 + Bit(o.band)) + 3] = s.data
  <2>1. 1 \in 1 .. Len(a4) /\ 2 \in 1 .. Len(a4) /\ 3 \in 1 .. Len(a4)
    BY <1>6, <1>a
  <2>2. /\ (s3 \o a4)[Len(s3) + 1] = s.iter /\ (s3 \o a4)[Len(s3) + 2] = s.conv
        /\ (s3 \o a4)[Len(s3) + 3] = s.data
    BY <2>1, <1>6, <1>12, Zenon
  <2>3. Len(s3) \in Nat
    BY <1>11, LenProperties DEF Streams
  <2>4. Len(s3) = BodyLength(o, v) - (3 + Bit(o.band))
    <3>1. PICK m \in Nat, n \in Nat : m = Len(s3) /\ n = 3 + Bit(o.band)
      BY <2>3, <1>a
    <3>2. BodyLength(o, v) = m + n
      BY <3>1, <1>6, <1>12, <1>14, Zenon
    <3>3. m = (m + n) - n
      OBVIOUS
    <3>4. QED
      BY <3>1, <3>2, <3>3, Zenon
  <2>5. QED
    BY <2>2, <2>4, Zenon
<1>16. ASSUME o.band = c.band
       PROVE  Fits(s3 \o a4, q3 \o p4) <=>
                /\ cut = c.cut /\ o.setting = c.setting /\ o.head = c.head
                /\ o.input = c.input
                /\ Live(c) => tag = want /\ ModeCode(o) = ModeCode(c)
  <2>1. Len(a1) = Len(p1) /\ Len(a2) = Len(p2) /\ Len(a3) = Len(p3)
    <3>1. ContextLength(o, v) = ContextLength(c, w)
      BY <1>16 DEF ContextLength
    <3>2. Len(a2) = Len(p2)
      BY <1>4
    <3>3. Len(a3) = Len(p3)
      BY <1>5
    <3>4. QED
      BY <3>1, <3>2, <3>3, <1>1, Zenon
  <2>2. Len(s2) = Len(q2)
    BY <2>1, <1>10, Zenon
  <2>3. Len(s3) = Len(q3)
    BY <2>1, <2>2, <1>11, Zenon
  <2>4. Fits(s3 \o a4, q3 \o p4) <=> Fits(a1, p1) /\ Fits(a2, p2) /\ Fits(a3, p3)
    BY <2>1, <2>2, <2>3, <1>6, <1>10, <1>11, <1>12, <1>16, Zenon
  <2>5. QED
    BY <2>4, <1>1, <1>4, <1>5, <1>16, Zenon
<1>17. QED
  <2>1. want = IF Native(c) THEN NativeTag ELSE RefTag
    BY DEF want
  <2>2. (s3 \o a4)[1] = Bit(o.band) /\ (q3 \o p4)[1] = {Bit(c.band)}
    BY <1>1, <1>10, <1>11, <1>12, Zenon
  <2>3. QED
    BY <2>1, <2>2, <1>12, <1>13, <1>14, <1>15, <1>16, Zenon DEF BodyMatches
-----------------------------------------------------------------------------
(* The version number and the byte order in front of the rest. *)
Grouped(x, y, z) == (x \o y) \o z = x \o (y \o z)

Regrouped(h, a, b, c, d) == h \o a \o b \o c \o d = h \o (a \o b \o c \o d)

(* The header may be split off. *)
LEMMA Regroup ==
  \A h, a, b, c, d \in Streams : Regrouped(h, a, b, c, d)
<1> SUFFICES ASSUME NEW h \in Streams, NEW a \in Streams, NEW b \in Streams,
                    NEW c \in Streams, NEW d \in Streams
             PROVE  Regrouped(h, a, b, c, d)
  OBVIOUS
<1>a. \A x, y, z \in Streams : Grouped(x, y, z)
  <2>1. ASSUME NEW x \in Seq(Nat), NEW y \in Seq(Nat), NEW z \in Seq(Nat)
        PROVE  (x \o y) \o z = x \o (y \o z)
    OBVIOUS
  <2>2. QED
    BY <2>1, Zenon DEF Streams, Grouped
<1>1. PICK ab \in Streams : ab = a \o b
  BY ConcatHere, Zenon
<1>2. PICK abc \in Streams : abc = ab \o c
  BY ConcatHere, Zenon
<1>3. Grouped(h, a, b) /\ Grouped(h, ab, c) /\ Grouped(h, abc, d)
  BY <1>a, Zenon
<1>4. h \o a \o b = h \o ab
  BY <1>1, <1>3, Zenon DEF Grouped
<1>5. h \o a \o b \o c = h \o abc
  BY <1>2, <1>3, <1>4, Zenon DEF Grouped
<1>6. h \o a \o b \o c \o d = h \o (abc \o d)
  BY <1>3, <1>5, Zenon DEF Grouped
<1>7. QED
  BY <1>1, <1>2, <1>6, Zenon DEF Regrouped

(* The parts of a body are numbers. *)
LEMMA Parts ==
  \A o \in Context, s \in Saved, cut, v, tag \in Nat, l \in BOOLEAN :
    /\ ContextPart(o, cut, v) \in Streams
    /\ If(o.hartree, HartreePart(o)) \in Streams
    /\ If(l, VelocityPart(o, tag)) \in Streams
    /\ StatePart(o, s) \in Streams
<1> SUFFICES ASSUME NEW o \in Context, NEW s \in Saved, NEW cut \in Nat, NEW v \in Nat,
                    NEW tag \in Nat, NEW l \in BOOLEAN
             PROVE  /\ ContextPart(o, cut, v) \in Streams
                    /\ If(o.hartree, HartreePart(o)) \in Streams
                    /\ If(l, VelocityPart(o, tag)) \in Streams
                    /\ StatePart(o, s) \in Streams
  OBVIOUS
<1>1. ContextPart(o, cut, v) \in Streams
  <2>1. ContextMatches(o, o, cut, v, v)
    BY ContextMatch
  <2>2. QED
    BY <2>1, Zenon DEF ContextMatches
<1>2. StatePart(o, s) \in Streams
  BY StateMatch, Zenon DEF StateMatches
<1>3. o.input \in Nat /\ o.hartree \in BOOLEAN
  BY Settings
<1>4. HartreePart(o) \in Streams /\ VelocityPart(o, tag) \in Streams
  BY <1>3 DEF HartreePart, VelocityPart, HartreeTag, Streams
<1>5. <<>> \in Streams /\ <<>> \in Patterns
  BY DEF Streams, Patterns
<1>6. QED
  BY <1>1, <1>2, <1>3, <1>4, <1>5, FitsIf, Zenon

(* The versions a file of an earlier program may have. *)
OldVersions == {1, 2, 3, 5, 6, 7, 9, 103}

WantedTag(c) == IF Native(c) THEN NativeTag ELSE RefTag

OldCut(v, o) == IF v \in {6, 7} THEN 2 ELSE o.cut

OldLive(v, o) == Live(o) /\ v \in {5, 7, 9}

(* Every file is a version, the byte order and a body. *)
LEMMA Layout ==
  ASSUME NEW o \in Context, NEW s \in Saved
  PROVE  /\ Written(o, s) = <<Version(o), ByteOrder>>
                              \o Body(o, o.cut, 3, Live(o), WantedTag(o), s)
         /\ \A v \in OldVersions : OldVersion(v, o) =>
              OldWritten(v, o, s) = <<v, ByteOrder>>
                              \o Body(o, OldCut(v, o), v, OldLive(v, o), RefTag, s)
<1>1. /\ Version(o) \in Nat /\ ByteOrder \in Nat /\ RefTag \in Nat /\ WantedTag(o) \in Nat
      /\ o.cut \in Nat /\ Live(o) \in BOOLEAN
  BY Settings DEF Version, ByteOrder, RefTag, NativeTag, WantedTag
<1>a. \A x, y \in Nat : <<x, y>> \in Streams
  BY DEF Streams
<1>2. Written(o, s) = <<Version(o), ByteOrder>>
                        \o Body(o, o.cut, 3, Live(o), WantedTag(o), s)
  <2>1. /\ ContextPart(o, o.cut, 3) \in Streams
        /\ If(o.hartree, HartreePart(o)) \in Streams
        /\ If(Live(o), VelocityPart(o, WantedTag(o))) \in Streams
        /\ StatePart(o, s) \in Streams
    BY <1>1, Parts
  <2>2. Written(o, s) =
          <<Version(o), ByteOrder>> \o ContextPart(o, o.cut, 3)
          \o If(o.hartree, HartreePart(o))
          \o If(Live(o), VelocityPart(o, WantedTag(o))) \o StatePart(o, s)
    BY Zenon DEF Written, WantedTag
  <2>3. QED
    <3>1. Regrouped(<<Version(o), ByteOrder>>, ContextPart(o, o.cut, 3),
                    If(o.hartree, HartreePart(o)),
                    If(Live(o), VelocityPart(o, WantedTag(o))), StatePart(o, s))
      BY <1>1, <1>a, <2>1, Regroup, Zenon
    <3>2. QED
      BY <2>2, <3>1, Zenon DEF Body, Regrouped
<1>3. ASSUME NEW v \in OldVersions, OldVersion(v, o)
      PROVE  OldWritten(v, o, s) = <<v, ByteOrder>>
                              \o Body(o, OldCut(v, o), v, OldLive(v, o), RefTag, s)
  <2>1. v \in Nat /\ OldCut(v, o) \in Nat /\ OldLive(v, o) \in BOOLEAN
    BY <1>1 DEF OldVersions, OldCut, OldLive
  <2>2. /\ ContextPart(o, OldCut(v, o), v) \in Streams
        /\ If(o.hartree, HartreePart(o)) \in Streams
        /\ If(OldLive(v, o), VelocityPart(o, RefTag)) \in Streams
        /\ StatePart(o, s) \in Streams
    BY <1>1, <2>1, Parts
  <2>3. If(o.hartree, HartreePart(o)) = If(v = 103, HartreePart(o))
    BY <1>3 DEF OldVersion, If
  <2>4. OldWritten(v, o, s) =
          <<v, ByteOrder>> \o ContextPart(o, OldCut(v, o), v)
          \o If(o.hartree, HartreePart(o))
          \o If(OldLive(v, o), VelocityPart(o, RefTag)) \o StatePart(o, s)
    BY <2>3, Zenon DEF OldWritten, OldCut, OldLive
  <2>5. QED
    <3>1. Regrouped(<<v, ByteOrder>>, ContextPart(o, OldCut(v, o), v),
                    If(o.hartree, HartreePart(o)),
                    If(OldLive(v, o), VelocityPart(o, RefTag)), StatePart(o, s))
      BY <1>1, <1>a, <2>1, <2>2, Regroup, Zenon
    <3>2. QED
      BY <2>4, <3>1, Zenon DEF Body, Regrouped
<1>4. QED
  BY <1>2, <1>3, Zenon

(* The envelope of a file of this program says which equations it is from. *)
LEMMA HeaderOfThis ==
  \A o, c \in Context : \A f \in Streams :
    Len(f) >= 2 /\ f[1] = Version(o) /\ f[2] = ByteOrder =>
      /\ HeaderFits(f, c) <=> /\ o.hartree = c.hartree /\ Native(o) = Native(c)
                              /\ Shifted(o) = Shifted(c) /\ Live(o) = Live(c)
      /\ Number(f) \in Nat /\ Number(f) >= 3
<1> SUFFICES ASSUME NEW o \in Context, NEW c \in Context, NEW f \in Streams,
                    Len(f) >= 2, f[1] = Version(o), f[2] = ByteOrder
             PROVE  /\ HeaderFits(f, c) <=> /\ o.hartree = c.hartree /\ Native(o) = Native(c)
                                            /\ Shifted(o) = Shifted(c) /\ Live(o) = Live(c)
                    /\ Number(f) \in Nat /\ Number(f) >= 3
  OBVIOUS
<1>1. PICK n \in {3, 5, 8, 9, 10, 11} :
        /\ Version(o) = n + IF o.hartree THEN 200 ELSE 0
        /\ n \in {10, 11} <=> Native(o)
        /\ n \in {8, 9, 11} <=> Shifted(o)
        /\ n \in {5, 9, 10, 11} <=> Live(o)
  BY DEF Version, Native
<1>2. o.hartree \in BOOLEAN /\ c.hartree \in BOOLEAN
  BY Settings
<1>3. f[1] = IF o.hartree THEN n + 200 ELSE n
  BY <1>1, <1>2
<1>4. Number(f) = n /\ (f[1] >= 200 <=> o.hartree) /\ f[1] \notin 100 .. 199
  <2>1. \A m \in {3, 5, 8, 9, 10, 11} :
          ~ (m >= 200) /\ m + 200 >= 200 /\ (m + 200) - 200 = m
          /\ m \notin 100 .. 199 /\ m + 200 \notin 100 .. 199
    OBVIOUS
  <2>2. CASE o.hartree
    BY <1>3, <2>1, <2>2 DEF Number
  <2>3. CASE ~ o.hartree
    BY <1>3, <2>1, <2>3 DEF Number
  <2>4. QED
    BY <1>2, <2>2, <2>3
<1>5. HeaderFits(f, c) <=>
        /\ (f[1] >= 200) = c.hartree
        /\ (n \in {10, 11}) = Native(c)
        /\ (n \in {8, 9, 11}) = Shifted(c)
        /\ (n \in {5, 9, 10, 11}) = Live(c)
  BY <1>1, <1>4 DEF HeaderFits
<1>6. QED
  BY <1>1, <1>2, <1>4, <1>5 DEF Native, Shifted, Live

(* Of the earlier versions five are still let through. *)
LEMMA HeaderOfOld ==
  \A o, c \in Context : \A v \in OldVersions, f \in Streams :
    OldVersion(v, o) /\ Len(f) >= 2 /\ f[1] = v /\ HeaderFits(f, c) =>
      /\ v \in {1, 2, 3, 5, 9} /\ Number(f) = v
      /\ ~ o.hartree /\ ~ c.hartree /\ ~ Native(c)
      /\ v = 9 <=> Shifted(c)
      /\ v \in {5, 9} <=> Live(c)
      /\ v \in {5, 9} <=> Live(o)
      /\ v = 9 => Shifted(o)
<1> SUFFICES ASSUME NEW o \in Context, NEW c \in Context, NEW v \in OldVersions,
                    NEW f \in Streams,
                    OldVersion(v, o), Len(f) >= 2, f[1] = v, HeaderFits(f, c)
             PROVE  /\ v \in {1, 2, 3, 5, 9} /\ Number(f) = v
                    /\ ~ o.hartree /\ ~ c.hartree /\ ~ Native(c)
                    /\ v = 9 <=> Shifted(c)
                    /\ v \in {5, 9} <=> Live(c)
                    /\ v \in {5, 9} <=> Live(o)
                    /\ v = 9 => Shifted(o)
  OBVIOUS
<1>1. Number(f) = v /\ ~ (f[1] >= 200) /\ v # 103
  BY DEF Number, OldVersions, HeaderFits
<1>2. v \in {1, 2, 3, 5, 9}
  BY <1>1 DEF OldVersions, HeaderFits
<1>3. QED
  BY <1>1, <1>2, Settings DEF HeaderFits, OldVersion, Native, Shifted, Live
-----------------------------------------------------------------------------
(* Copies of a stream: the whole of it, a part, or all and something more. *)
Copies(W) ==
  {f \in Streams : /\ 1 <= Len(f)
                   /\ \A i \in 1 .. Len(f) : i <= Len(W) => f[i] = W[i]}

(* A stream of which the header has been read. *)
HeadedBy(W, x, b) ==
  /\ W \in Streams /\ Len(W) = 2 + Len(b)
  /\ W[1] = x /\ W[2] = ByteOrder
  /\ \A i \in 1 .. Len(b) : W[i + 2] = b[i]

(* What a version and the byte order in front of a body make. *)
LEMMA Headed ==
  \A x \in Nat, b \in Streams : HeadedBy(<<x, ByteOrder>> \o b, x, b)
<1> SUFFICES ASSUME NEW x \in Nat, NEW b \in Streams
             PROVE  HeadedBy(<<x, ByteOrder>> \o b, x, b)
  OBVIOUS
<1> DEFINE h == <<x, ByteOrder>>
<1>1. h \in Streams /\ Len(h) = 2 /\ h[1] = x /\ h[2] = ByteOrder
  BY DEF Streams, ByteOrder
<1> HIDE DEF h
<1>2. /\ h \o b \in Streams /\ Len(h \o b) = Len(h) + Len(b) /\ Len(b) \in Nat
      /\ \A i \in 1 .. Len(h) : (h \o b)[i] = h[i]
      /\ \A i \in 1 .. Len(b) : (h \o b)[Len(h) + i] = b[i]
  <2>1. h \in Streams
    BY <1>1
  <2>2. QED
    BY <2>1, ConcatHere, Zenon
<1>3. Len(h \o b) = 2 + Len(b) /\ \A i \in 1 .. Len(b) : (h \o b)[2 + i] = b[i]
  BY <1>1, <1>2, Zenon
<1>4. (h \o b)[1] = x /\ (h \o b)[2] = ByteOrder
  <2>1. 1 \in 1 .. Len(h) /\ 2 \in 1 .. Len(h)
    BY <1>1
  <2>2. QED
    BY <2>1, <1>1, <1>2, Zenon
<1>5. \A i \in 1 .. Len(b) : (h \o b)[i + 2] = b[i]
  <2>1. \A i \in 1 .. Len(b) : 2 + i = i + 2
    BY <1>2
  <2>2. QED
    BY <2>1, <1>3, Zenon
<1>6. QED
  BY <1>2, <1>3, <1>4, <1>5, Zenon DEF h, HeadedBy

(* What a cut or extended copy has in common with the stream. *)
LEMMA Copied ==
  ASSUME NEW W \in Streams, 2 <= Len(W)
  PROVE  /\ W \in Copies(W)
         /\ \A n \in 1 .. Len(W) - 1 : /\ SubSeq(W, 1, n) \in Copies(W)
                                       /\ Len(SubSeq(W, 1, n)) # Len(W)
         /\ Append(W, 0) \in Copies(W) /\ Len(Append(W, 0)) # Len(W)
<1>1. W \in Seq(Nat) /\ Len(W) \in Nat
  BY LenProperties DEF Streams
<1>2. W \in Copies(W)
  BY <1>1 DEF Copies, Streams
<1>3. ASSUME NEW n \in 1 .. Len(W) - 1
      PROVE  SubSeq(W, 1, n) \in Copies(W) /\ Len(SubSeq(W, 1, n)) # Len(W)
  <2>1. n \in Nat /\ 1 <= n /\ n <= Len(W) /\ n # Len(W)
    BY <1>1
  <2>2. /\ SubSeq(W, 1, n) \in Seq(Nat) /\ Len(SubSeq(W, 1, n)) = n
        /\ \A i \in 1 .. n : SubSeq(W, 1, n)[i] = W[i]
    BY <1>1, <2>1
  <2>3. PICK f \in Streams : f = SubSeq(W, 1, n)
    BY <2>2, Zenon DEF Streams
  <2>4. f \in Copies(W) /\ Len(f) # Len(W)
    <3>1. Len(f) = n /\ \A i \in 1 .. n : f[i] = W[i]
      BY <2>2, <2>3, Zenon
    <3>2. 1 <= Len(f) /\ Len(f) # Len(W)
      BY <3>1, <2>1, Zenon
    <3>3. \A i \in 1 .. Len(f) : f[i] = W[i]
      BY <3>1, Zenon
    <3>4. QED
      BY <3>2, <3>3, Zenon DEF Copies
  <2>5. QED
    BY <2>3, <2>4
<1>4. Append(W, 0) \in Copies(W) /\ Len(Append(W, 0)) # Len(W)
  <2>1. /\ Append(W, 0) \in Seq(Nat) /\ Len(Append(W, 0)) = Len(W) + 1
        /\ \A i \in 1 .. Len(W) : Append(W, 0)[i] = W[i]
    BY <1>1, AppendProperties
  <2>2. PICK f \in Streams : f = Append(W, 0)
    BY <2>1, Zenon DEF Streams
  <2>3. PICK w \in Nat : w = Len(W)
    BY <1>1
  <2>4. 1 <= w + 1 /\ w + 1 # w /\ \A i \in 1 .. w + 1 : i <= w => i \in 1 .. w
    OBVIOUS
  <2>5. Len(f) = w + 1 /\ \A i \in 1 .. w : f[i] = W[i]
    BY <2>1, <2>2, <2>3, Zenon
  <2>6. f \in Copies(W) /\ Len(f) # Len(W)
    BY <2>3, <2>4, <2>5, Zenon DEF Copies
  <2>7. QED
    BY <2>2, <2>6
<1>5. QED
  BY <1>2, <1>3, <1>4

(* What a reader takes out of a file. *)
Fields(f, c) ==
  LET i == StateAt(f, c) IN [iter |-> f[i], conv |-> f[i + 1], data |-> f[i + 2]]

(* The values of the reader's own settings are in the body. *)
SameValues(o, c, cut, tag) ==
  /\ o.band = c.band /\ cut = c.cut /\ o.setting = c.setting /\ o.head = c.head
  /\ o.input = c.input
  /\ Live(c) => tag = WantedTag(c) /\ ModeCode(o) = ModeCode(c)

(* Lengths of bodies are numbers, and equal if versions and bands agree. *)
LEMMA Lengths ==
  \A o, c \in Context, v, w \in Nat :
    /\ (v >= 2 <=> w >= 2) /\ (v >= 3 <=> w >= 3)
    /\ o.hartree = c.hartree /\ Live(o) = Live(c)
    => /\ BodyLength(o, v) \in Nat /\ BodyLength(o, v) - (3 + Bit(o.band)) \in Nat
       /\ BodyLength(o, v) >= 1
       /\ o.band = c.band => BodyLength(o, v) = BodyLength(c, w)
<1> SUFFICES ASSUME NEW o \in Context, NEW c \in Context, NEW v \in Nat, NEW w \in Nat,
                    v >= 2 <=> w >= 2, v >= 3 <=> w >= 3,
                    o.hartree = c.hartree, Live(o) = Live(c)
             PROVE  /\ BodyLength(o, v) \in Nat
                    /\ BodyLength(o, v) - (3 + Bit(o.band)) \in Nat
                    /\ BodyLength(o, v) >= 1
                    /\ o.band = c.band => BodyLength(o, v) = BodyLength(c, w)
  OBVIOUS
<1>1. Bit(o.band) \in Nat /\ Bit(c.band) \in Nat
  BY Settings
<1>2. /\ ContextLength(o, v) \in Nat /\ ContextLength(o, v) >= 5
      /\ o.band = c.band => ContextLength(o, v) = ContextLength(c, w)
  BY <1>1 DEF ContextLength
<1>3. PICK h \in Nat, k \in Nat :
        /\ h = (IF o.hartree THEN 3 ELSE 0) /\ k = (IF Live(o) THEN 3 ELSE 0)
        /\ h = (IF c.hartree THEN 3 ELSE 0) /\ k = (IF Live(c) THEN 3 ELSE 0)
  OBVIOUS
<1>4. /\ BodyLength(o, v) = ContextLength(o, v) + h + k + (3 + Bit(o.band))
      /\ BodyLength(c, w) = ContextLength(c, w) + h + k + (3 + Bit(c.band))
  BY <1>3, Zenon DEF BodyLength
<1>5. PICK m \in Nat, n \in Nat : m = ContextLength(o, v) /\ n = Bit(o.band) /\ m >= 5
  BY <1>1, <1>2
<1>6. /\ m + h + k + (3 + n) \in Nat /\ (m + h + k + (3 + n)) - (3 + n) \in Nat
      /\ m + h + k + (3 + n) >= 1
  BY <1>5
<1>7. QED
  BY <1>2, <1>4, <1>5, <1>6, Zenon

(* A job takes a stream only if it is a whole file with its own values in  *)
(* it, never a part of one or one with something behind it, and what it    *)
(* takes from it is the state that was saved.                              *)
TakenAs(W, f, s, o, c, cut, tag) ==
  /\ BodyFits(f, c) => f = W /\ Fields(f, c) = s
  /\ f = W => (BodyFits(f, c) <=> SameValues(o, c, cut, tag))

(* That is so for every copy of a stream of that shape. *)
LEMMA Taken ==
  \A o, c \in Context, s \in Saved, cut, v, w, tag, x \in Nat, l \in BOOLEAN :
    \A W : \A f \in Copies(W) :
      /\ (v >= 2 <=> w >= 2) /\ (v >= 3 <=> w >= 3)
      /\ o.hartree = c.hartree /\ l = Live(c) /\ Live(o) = Live(c)
      /\ HeadedBy(W, x, Body(o, cut, v, l, tag, s)) /\ Number(f) = w
      => TakenAs(W, f, s, o, c, cut, tag)
<1> SUFFICES ASSUME NEW o \in Context, NEW c \in Context, NEW s \in Saved, NEW cut \in Nat,
                    NEW v \in Nat, NEW w \in Nat, NEW tag \in Nat, NEW x \in Nat,
                    NEW l \in BOOLEAN, NEW W, NEW f \in Copies(W)
             PROVE  /\ (v >= 2 <=> w >= 2) /\ (v >= 3 <=> w >= 3)
                    /\ o.hartree = c.hartree /\ l = Live(c) /\ Live(o) = Live(c)
                    /\ HeadedBy(W, x, Body(o, cut, v, l, tag, s)) /\ Number(f) = w
                    => TakenAs(W, f, s, o, c, cut, tag)
  BY Zenon
<1> SUFFICES ASSUME v >= 2 <=> w >= 2, v >= 3 <=> w >= 3,
                    o.hartree = c.hartree, l = Live(c), Live(o) = Live(c),
                    HeadedBy(W, x, Body(o, cut, v, l, tag, s)), Number(f) = w
             PROVE  TakenAs(W, f, s, o, c, cut, tag)
  BY Zenon
<1> DEFINE b == Body(o, cut, v, l, tag, s)
           p == Pattern(c, w)
<1>1. BodyMatches(o, c, s, cut, v, w, tag, l)
  BY BodyMatch
<1>2. PICK m \in Nat, n \in Nat, k \in Nat :
        /\ m = BodyLength(o, v) /\ n = BodyLength(c, w) /\ m >= 1 /\ n >= 1
        /\ k = 3 + Bit(o.band) /\ m - k \in Nat /\ k >= 3
        /\ o.band = c.band => m = n
  <2>1. /\ BodyLength(o, v) \in Nat /\ BodyLength(o, v) - (3 + Bit(o.band)) \in Nat
        /\ BodyLength(o, v) >= 1
        /\ o.band = c.band => BodyLength(o, v) = BodyLength(c, w)
    BY Lengths
  <2>2. BodyLength(c, w) \in Nat /\ BodyLength(c, w) >= 1
    BY Lengths
  <2>3. 3 + Bit(o.band) \in Nat /\ 3 + Bit(o.band) >= 3
    <3>1. Bit(o.band) \in Nat
      BY Settings
    <3>2. QED
      BY <3>1
  <2>4. QED
    BY <2>1, <2>2, <2>3, Zenon
<1>3. /\ b \in Streams /\ Len(b) = m /\ b[1] = Bit(o.band)
      /\ p \in Patterns /\ Len(p) = n /\ p[1] = {Bit(c.band)}
      /\ b[m - k + 1] = s.iter /\ b[m - k + 2] = s.conv /\ b[m - k + 3] = s.data
  BY <1>1, <1>2, Zenon DEF BodyMatches
<1>4. o.band = c.band => (Fits(b, p) <=> SameValues(o, c, cut, tag))
  BY <1>1, Zenon DEF BodyMatches, SameValues, WantedTag
<1> HIDE DEF b, p
<1>5. /\ W \in Streams /\ Len(W) = 2 + m
      /\ \A i \in 1 .. m : W[i + 2] = b[i]
  <2>1. HeadedBy(W, x, b)
    BY DEF b
  <2>2. QED
    BY <2>1, <1>3, Zenon DEF HeadedBy
<1>6. f \in Streams /\ \A i \in 1 .. Len(f) : i <= Len(W) => f[i] = W[i]
  BY DEF Copies
<1>7. BodyFits(f, c) <=> Len(f) - 2 = n /\ \A i \in 1 .. n : f[i + 2] \in p[i]
  BY <1>3, Zenon DEF BodyFits, p
<1>8. ASSUME BodyFits(f, c) PROVE o.band = c.band /\ f = W
  <2>1. Len(f) = 2 + n
    BY <1>6, <1>7, <1>8, LenProperties DEF Streams
  <2>2. o.band = c.band
    <3>1. 3 \in 1 .. 2 + n /\ 3 <= 2 + m /\ 1 \in 1 .. n /\ 1 \in 1 .. m /\ 1 + 2 = 3
      BY <1>2
    <3>2. f[3] = b[1]
      BY <2>1, <3>1, <1>5, <1>6, Zenon
    <3>3. f[3] \in p[1]
      BY <3>1, <1>7, <1>8, Zenon
    <3>4. Bit(o.band) = Bit(c.band)
      BY <3>2, <3>3, <1>3
    <3>5. QED
      BY <3>4, Settings DEF Bit
  <2>3. Len(f) = Len(W)
    BY <2>1, <2>2, <1>2, <1>5, Zenon
  <2>4. \A i \in 1 .. Len(f) : f[i] = W[i]
    <3>1. \A i \in 1 .. 2 + n : i <= 2 + n
      OBVIOUS
    <3>2. QED
      BY <3>1, <1>6, <2>1, <2>3, Zenon
  <2>5. f = W
    BY <1>5, <1>6, <2>3, <2>4, SeqEqual DEF Streams
  <2>6. QED
    BY <2>2, <2>5
<1>9. ASSUME f = W PROVE BodyFits(f, c) <=> SameValues(o, c, cut, tag)
  <2>1. CASE o.band # c.band
    BY <1>8, <2>1, Zenon DEF SameValues
  <2>2. CASE o.band = c.band
    <3>1. Len(f) - 2 = n
      <4>1. Len(f) = 2 + n
        BY <1>2, <1>5, <1>9, <2>2, Zenon
      <4>2. QED
        BY <4>1
    <3>2. BodyFits(f, c) <=> \A i \in 1 .. n : b[i] \in p[i]
      BY <1>2, <1>5, <1>7, <1>9, <2>2, <3>1, Zenon
    <3>3. BodyFits(f, c) <=> Fits(b, p)
      BY <3>2, <1>2, <1>3, <2>2, Zenon DEF Fits
    <3>4. QED
      BY <3>3, <1>4, <2>2, Zenon
  <2>3. QED
    BY <2>1, <2>2
<1>10. ASSUME BodyFits(f, c) PROVE Fields(f, c) = s
  <2>1. StateAt(f, c) = Len(f) - k + 1
    <3>1. StateMatches(o, c, s)
      BY StateMatch
    <3>2. Len(StatePattern(c)) = k
      BY <3>1, <1>2, <1>8, <1>10, Zenon DEF StateMatches
    <3>3. QED
      BY <3>2, Zenon DEF StateAt
  <2>2. PICK j \in Nat : j = m - k /\ j + 1 \in 1 .. m /\ j + 2 \in 1 .. m /\ j + 3 \in 1 .. m
    BY <1>2
  <2>3. StateAt(f, c) = (j + 1) + 2
    <3>1. Len(f) = 2 + m
      BY <1>5, <1>8, <1>10, Zenon
    <3>2. (2 + m) - k + 1 = (j + 1) + 2
      BY <2>2
    <3>3. QED
      BY <3>1, <3>2, <2>1, Zenon
  <2>4. /\ StateAt(f, c) + 1 = (j + 2) + 2 /\ StateAt(f, c) + 2 = (j + 3) + 2
    BY <2>3
  <2>5. f[(j + 1) + 2] = s.iter /\ f[(j + 2) + 2] = s.conv /\ f[(j + 3) + 2] = s.data
    BY <2>2, <1>3, <1>5, <1>8, <1>10, Zenon
  <2>6. Fields(f, c) = [iter |-> s.iter, conv |-> s.conv, data |-> s.data]
    BY <2>3, <2>4, <2>5, Zenon DEF Fields
  <2>7. QED
    BY <2>6 DEF Saved
<1>11. QED
  BY <1>8, <1>9, <1>10, Zenon DEF TakenAs
-----------------------------------------------------------------------------
(* Two jobs of this program compute the same when all of this agrees. *)
LEMMA SameEquations ==
  \A o, c \in Context :
    Equations("this", o, Version(o)) = Equations("this", c, Version(c)) <=>
      /\ o.cut = c.cut /\ o.hartree = c.hartree
      /\ Live(o) = Live(c) /\ (Live(c) => ModeCode(o) = ModeCode(c))
      /\ o.band = c.band /\ o.head = c.head /\ o.input = c.input /\ o.setting = c.setting
<1> SUFFICES ASSUME NEW o \in Context, NEW c \in Context
             PROVE  Equations("this", o, Version(o)) = Equations("this", c, Version(c)) <=>
                      /\ o.cut = c.cut /\ o.hartree = c.hartree
                      /\ Live(o) = Live(c) /\ (Live(c) => ModeCode(o) = ModeCode(c))
                      /\ o.band = c.band /\ o.head = c.head /\ o.input = c.input
                      /\ o.setting = c.setting
  OBVIOUS
<1> DEFINE cut(x) == IF x.cut = 0 THEN "uncut" ELSE "shifted"
           vel(x) == IF ~ Live(x) THEN "frozen"
                     ELSE IF x.mode = "rotate_reference" THEN "rotated" ELSE "native"
           hart(x) == IF ~ x.hartree THEN "none" ELSE "mesh"
           inp(x) == <<x.band, x.head, x.input, x.setting>>
<1>1. \A x \in Context : Equations("this", x, Version(x)) =
        [cut |-> cut(x), velocity |-> vel(x), hartree |-> hart(x), inputs |-> inp(x)]
  <2>1. \A x : Version(x) \notin {6, 7}
    BY DEF Version
  <2>2. QED
    BY <2>1 DEF Equations
<1>2. Equations("this", o, Version(o)) = Equations("this", c, Version(c)) <=>
        cut(o) = cut(c) /\ vel(o) = vel(c) /\ hart(o) = hart(c) /\ inp(o) = inp(c)
  BY <1>1
<1>3. cut(o) = cut(c) <=> o.cut = c.cut
  BY Settings
<1>4. hart(o) = hart(c) <=> o.hartree = c.hartree
  BY Settings
<1>5. inp(o) = inp(c) <=>
        o.band = c.band /\ o.head = c.head /\ o.input = c.input /\ o.setting = c.setting
  OBVIOUS
<1>6. vel(o) = vel(c) <=> Live(o) = Live(c) /\ (Live(c) => ModeCode(o) = ModeCode(c))
  <2>1. /\ Live(o) => o.mode \in {"rotate_reference", "current_hr"}
        /\ Live(c) => c.mode \in {"rotate_reference", "current_hr"}
        /\ Live(o) \in BOOLEAN /\ Live(c) \in BOOLEAN
    BY Settings DEF Live
  <2>2. QED
    BY <2>1 DEF ModeCode
<1>7. QED
  BY <1>2, <1>3, <1>4, <1>5, <1>6, Zenon

(* A file of this program: what a job makes of it or of a damaged copy. *)
LEMMA ThisTaken ==
  ASSUME NEW o \in Context, NEW s \in Saved
  PROVE  /\ Written(o, s) \in Streams /\ 2 <= Len(Written(o, s))
         /\ \A c \in Context, f \in Copies(Written(o, s)) :
              /\ Accepts(f, c) => f = Written(o, s) /\ Fields(f, c) = s
              /\ f = Written(o, s) =>
                   (Accepts(f, c) <=> Equations("this", o, Version(o))
                                        = Equations("this", c, Version(c)))
<1> DEFINE b == Body(o, o.cut, 3, Live(o), WantedTag(o), s)
           W == Written(o, s)
<1>1. /\ Version(o) \in Nat /\ WantedTag(o) \in Nat /\ o.cut \in Nat /\ Live(o) \in BOOLEAN
  BY Settings DEF Version, RefTag, NativeTag, WantedTag
<1>2. BodyMatches(o, o, s, o.cut, 3, 3, WantedTag(o), Live(o))
  BY <1>1, BodyMatch
<1>3. b \in Streams /\ Len(b) \in Nat
  BY <1>2, LenProperties DEF BodyMatches, Streams
<1>4. HeadedBy(W, Version(o), b)
  BY <1>1, <1>3, Layout, Headed, Zenon
<1>5. W \in Streams /\ 2 <= Len(W) /\ W[1] = Version(o) /\ W[2] = ByteOrder
  BY <1>3, <1>4 DEF HeadedBy
<1> HIDE DEF W, b
<1>6. ASSUME NEW c \in Context, NEW f \in Copies(W)
      PROVE  /\ Accepts(f, c) => f = W /\ Fields(f, c) = s
             /\ f = W => (Accepts(f, c) <=> Equations("this", o, Version(o))
                                              = Equations("this", c, Version(c)))
  <2> DEFINE agree == /\ o.hartree = c.hartree /\ Native(o) = Native(c)
                      /\ Shifted(o) = Shifted(c) /\ Live(o) = Live(c)
  <2>1. f \in Streams /\ (Len(f) >= 2 => f[1] = Version(o) /\ f[2] = ByteOrder)
    <3>1. f \in Streams /\ \A i \in 1 .. Len(f) : i <= Len(W) => f[i] = W[i]
      BY DEF Copies
    <3>2. Len(f) \in Nat
      BY <3>1, LenProperties DEF Streams
    <3>3. Len(f) >= 2 => 1 \in 1 .. Len(f) /\ 2 \in 1 .. Len(f)
      BY <3>2
    <3>4. 1 <= Len(W)
      BY <1>5
    <3>5. QED
      BY <3>1, <3>3, <3>4, <1>5, Zenon
  <2>2. HeaderFits(f, c) => Len(f) >= 2
    BY DEF HeaderFits
  <2>3. ASSUME Len(f) >= 2, agree
        PROVE  /\ BodyFits(f, c) => f = W /\ Fields(f, c) = s
               /\ f = W => (BodyFits(f, c) <=> SameValues(o, c, o.cut, WantedTag(o)))
    <3>1. Number(f) \in Nat /\ Number(f) >= 3
      BY <2>1, <2>3, HeaderOfThis, Zenon
    <3>2. PICK w \in Nat : w = Number(f) /\ w >= 3
      BY <3>1
    <3>3. (3 >= 2 <=> w >= 2) /\ (3 >= 3 <=> w >= 3)
      BY <3>2
    <3>4. HeadedBy(W, Version(o), Body(o, o.cut, 3, Live(o), WantedTag(o), s))
      BY <1>4 DEF b
    <3>5. TakenAs(W, f, s, o, c, o.cut, WantedTag(o))
      BY <3>2, <3>3, <3>4, <2>3, <1>1, Taken
    <3>6. QED
      BY <3>5, Zenon DEF TakenAs
  <2>4. Len(f) >= 2 => (HeaderFits(f, c) <=> agree)
    BY <2>1, HeaderOfThis, Zenon
  <2>5. Equations("this", o, Version(o)) = Equations("this", c, Version(c)) <=>
          agree /\ SameValues(o, c, o.cut, WantedTag(o))
    <3>1. /\ o.cut \in {0, 1} /\ c.cut \in {0, 1}
          /\ Live(o) => o.mode \in {"rotate_reference", "current_hr"}
          /\ Live(c) => c.mode \in {"rotate_reference", "current_hr"}
          /\ Live(o) \in BOOLEAN /\ Live(c) \in BOOLEAN
          /\ o.hartree \in BOOLEAN /\ c.hartree \in BOOLEAN
      BY Settings DEF Live
    <3>2. Shifted(o) = Shifted(c) <=> o.cut = c.cut
      BY <3>1 DEF Shifted
    <3>3. Live(o) = Live(c) =>
            ((Native(o) = Native(c)) <=> (Live(c) => ModeCode(o) = ModeCode(c)))
      BY <3>1 DEF Native, ModeCode
    <3>4. Native(o) = Native(c) => WantedTag(o) = WantedTag(c)
      BY DEF WantedTag
    <3>5. QED
      BY <3>2, <3>3, <3>4, SameEquations, Zenon DEF SameValues
  <2>6. QED
    BY <1>5, <2>2, <2>3, <2>4, <2>5, Zenon DEF Accepts
<1>7. QED
  BY <1>5, <1>6 DEF W

(* A file of an earlier program is taken only under its own equations. *)
LEMMA OldTaken ==
  ASSUME NEW o \in Context, NEW s \in Saved, NEW v \in OldVersions, OldVersion(v, o)
  PROVE  /\ OldWritten(v, o, s) \in Streams /\ 2 <= Len(OldWritten(v, o, s))
         /\ \A c \in Context, f \in Copies(OldWritten(v, o, s)) : Accepts(f, c) =>
              /\ f = OldWritten(v, o, s) /\ Fields(f, c) = s
              /\ Equations("old", o, v) = Equations("this", c, Version(c))
<1> DEFINE b == Body(o, OldCut(v, o), v, OldLive(v, o), RefTag, s)
           W == OldWritten(v, o, s)
<1>1. /\ v \in Nat /\ RefTag \in Nat /\ OldCut(v, o) \in Nat /\ OldLive(v, o) \in BOOLEAN
      /\ o.cut \in Nat /\ Live(o) \in BOOLEAN
  BY Settings DEF OldVersions, RefTag, OldCut, OldLive
<1>2. b \in Streams /\ Len(b) \in Nat
  <2>1. /\ ContextPart(o, OldCut(v, o), v) \in Streams
        /\ If(o.hartree, HartreePart(o)) \in Streams
        /\ If(OldLive(v, o), VelocityPart(o, RefTag)) \in Streams
        /\ StatePart(o, s) \in Streams
    BY <1>1, Parts
  <2>2. b \in Streams
    <3>1. PICK x \in Streams : x = ContextPart(o, OldCut(v, o), v)
                                     \o If(o.hartree, HartreePart(o))
      BY <2>1, ConcatHere, Zenon
    <3>2. PICK y \in Streams : y = x \o If(OldLive(v, o), VelocityPart(o, RefTag))
      BY <2>1, ConcatHere, Zenon
    <3>3. y \o StatePart(o, s) \in Streams
      BY <2>1, ConcatHere, Zenon
    <3>4. QED
      BY <3>1, <3>2, <3>3, Zenon DEF Body
  <2>3. QED
    BY <2>2, LenProperties DEF Streams
<1>3. HeadedBy(W, v, b)
  BY <1>1, <1>2, Layout, Headed, Zenon
<1>4. W \in Streams /\ 2 <= Len(W) /\ W[1] = v
  BY <1>2, <1>3 DEF HeadedBy
<1> HIDE DEF W, b
<1>5. ASSUME NEW c \in Context, NEW f \in Copies(W), Accepts(f, c)
      PROVE  /\ f = W /\ Fields(f, c) = s
             /\ Equations("old", o, v) = Equations("this", c, Version(c))
  <2>1. HeaderFits(f, c) /\ BodyFits(f, c)
    BY <1>5 DEF Accepts
  <2>2. f \in Streams /\ Len(f) >= 2 /\ f[1] = v
    <3>1. f \in Streams /\ \A i \in 1 .. Len(f) : i <= Len(W) => f[i] = W[i]
      BY DEF Copies
    <3>2. Len(f) \in Nat /\ Len(f) >= 2
      BY <2>1, <3>1, LenProperties DEF Streams, HeaderFits
    <3>3. 1 \in 1 .. Len(f)
      BY <3>2
    <3>4. 1 <= Len(W)
      BY <1>4
    <3>5. QED
      BY <3>1, <3>2, <3>3, <3>4, <1>4, Zenon
  <2>3. /\ v \in {1, 2, 3, 5, 9} /\ Number(f) = v
        /\ ~ o.hartree /\ ~ c.hartree /\ ~ Native(c)
        /\ v = 9 <=> Shifted(c)
        /\ v \in {5, 9} <=> Live(c)
        /\ v \in {5, 9} <=> Live(o)
        /\ v = 9 => Shifted(o)
    BY <1>5, <2>1, <2>2, HeaderOfOld
  <2>4. /\ OldCut(v, o) = o.cut /\ OldLive(v, o) = Live(c) /\ Live(o) = Live(c)
        /\ o.hartree = c.hartree
    <3>1. o.hartree \in BOOLEAN /\ c.hartree \in BOOLEAN /\ Live(c) \in BOOLEAN
      BY Settings
    <3>2. QED
      BY <1>1, <2>3, <3>1 DEF OldCut, OldLive
  <2>5. HeadedBy(W, v, Body(o, OldCut(v, o), v, OldLive(v, o), RefTag, s))
    BY <1>3 DEF b
  <2>6. TakenAs(W, f, s, o, c, OldCut(v, o), RefTag)
    BY <1>1, <2>3, <2>4, <2>5, Taken
  <2>7. f = W /\ Fields(f, c) = s /\ SameValues(o, c, OldCut(v, o), RefTag)
    BY <2>1, <2>6, Zenon DEF TakenAs
  <2>8. /\ o.cut = c.cut /\ o.band = c.band /\ o.head = c.head /\ o.input = c.input
        /\ o.setting = c.setting /\ (Live(c) => ModeCode(o) = ModeCode(c))
    BY <2>4, <2>7, Zenon DEF SameValues
  <2>9. Live(c) => o.mode = "rotate_reference" /\ c.mode = "rotate_reference"
    <3>1. /\ o.mode \in {"reference", "rotate_reference", "current_hr"}
          /\ c.mode \in {"reference", "rotate_reference", "current_hr"}
      BY Settings
    <3>2. QED
      BY <2>3, <2>4, <2>8, <3>1 DEF Live, Native, ModeCode
  <2>10. o.cut \in {0, 1} /\ (c.cut = 1 <=> v = 9) /\ v \notin {6, 7}
    BY <2>3, Settings DEF Shifted
  <2>11. Version(c) \notin {6, 7}
    BY DEF Version
  <2>12. Equations("old", o, v) =
           [cut |-> IF c.cut = 0 THEN "uncut" ELSE "shifted",
            velocity |-> IF ~ Live(c) THEN "frozen" ELSE "rotated",
            hartree |-> "none", inputs |-> <<c.band, c.head, c.input, c.setting>>]
    BY <2>3, <2>4, <2>8, <2>9, <2>10 DEF Equations
  <2>13. Equations("this", c, Version(c)) =
           [cut |-> IF c.cut = 0 THEN "uncut" ELSE "shifted",
            velocity |-> IF ~ Live(c) THEN "frozen" ELSE "rotated",
            hartree |-> "none", inputs |-> <<c.band, c.head, c.input, c.setting>>]
    BY <2>3, <2>9, <2>11 DEF Equations
  <2>14. QED
    BY <2>7, <2>12, <2>13
<1>6. QED
  BY <1>4, <1>5 DEF W
-----------------------------------------------------------------------------
(* What is known of the file of a run: nothing yet, or what wrote it and   *)
(* that it is that stream or a damaged copy.                               *)
Wrote(W, o, s) ==
  \/ origin.by = "this" /\ origin.version = Version(o) /\ W = Written(o, s)
  \/ /\ origin.by = "old"
     /\ \E v \in OldVersions :
          OldVersion(v, o) /\ origin.version = v /\ W = OldWritten(v, o, s)

FileIs(W, o, s) ==
  /\ Wrote(W, o, s) /\ origin.ctx = o /\ origin.state = s
  /\ file \in Copies(W)
  /\ origin.whole \in BOOLEAN /\ (origin.whole <=> file = W)

FileInv ==
  \/ file = <<>> /\ origin = NoOne
  \/ /\ file # <<>> /\ origin # NoOne
     /\ \E o \in Context, s \in Saved : \E W \in Streams : 2 <= Len(W) /\ FileIs(W, o, s)

(* And of the reader: it holds what it took from that file, or nothing. *)
ReadInv ==
  \/ reader = NoOne /\ live = Unread
  \/ /\ file # <<>> /\ reader # NoOne
     /\ reader.ctx \in Context
     /\ live = IF Accepts(file, reader.ctx) THEN Fields(file, reader.ctx) ELSE Unread

Inv == FileInv /\ ReadInv

(* Both hold of every state. *)
LEMMA Inductive == Spec => []Inv
<1>1. Init => Inv
  BY DEF Init, Inv, FileInv, ReadInv
<1>2. Inv /\ [Next]_vars => Inv'
  <2> SUFFICES ASSUME Inv, [Next]_vars PROVE Inv'
    OBVIOUS
  <2>1. ASSUME file = <<>>, NEW c \in Context, NEW s \in Saved, Write(c, s)
        PROVE  Inv'
    <3>1. PICK W \in Streams : W = Written(c, s) /\ 2 <= Len(W)
      BY ThisTaken, Zenon
    <3>2. W \in Copies(W) /\ W # <<>>
      BY <3>1, Copied
    <3>3. /\ file' = W /\ reader' = NoOne /\ live' = Unread
          /\ origin' = [by |-> "this", ctx |-> c, state |-> s, whole |-> TRUE,
                        version |-> Version(c)]
      BY <2>1, <3>1 DEF Write, Inv, ReadInv
    <3>4. origin' # NoOne /\ FileIs(W, c, s)'
      BY <3>1, <3>2, <3>3 DEF NoOne, FileIs, Wrote
    <3>5. QED
      BY <3>1, <3>2, <3>3, <3>4 DEF Inv, FileInv, ReadInv
  <2>2. ASSUME file = <<>>, NEW c \in Context, NEW s \in Saved, NEW v \in OldVersions,
               WriteOld(v, c, s)
        PROVE  Inv'
    <3>0. OldVersion(v, c)
      BY <2>2 DEF WriteOld
    <3>1. PICK W \in Streams : W = OldWritten(v, c, s) /\ 2 <= Len(W)
      BY <3>0, OldTaken
    <3>2. W \in Copies(W) /\ W # <<>>
      BY <3>1, Copied
    <3>3. /\ file' = W /\ reader' = NoOne /\ live' = Unread
          /\ origin' = [by |-> "old", ctx |-> c, state |-> s, whole |-> TRUE,
                        version |-> v]
      BY <2>2, <3>1 DEF WriteOld, Inv, ReadInv
    <3>4. origin' # NoOne /\ FileIs(W, c, s)'
      BY <3>0, <3>1, <3>2, <3>3 DEF NoOne, FileIs, Wrote
    <3>5. QED
      BY <3>1, <3>2, <3>3, <3>4 DEF Inv, FileInv, ReadInv
  <2>3. ASSUME reader = NoOne, origin # NoOne, origin.whole, NEW f, Damage(f),
               \/ \E n \in 1 .. Len(file) - 1 : f = SubSeq(file, 1, n)
               \/ f = Append(file, 0)
        PROVE  Inv'
    <3>1. PICK o \in Context, s \in Saved, W \in Streams : 2 <= Len(W) /\ FileIs(W, o, s)
      BY <2>3 DEF Inv, FileInv
    <3>2. file = W
      BY <2>3, <3>1 DEF FileIs
    <3>3. f \in Copies(W) /\ Len(f) # Len(W)
      BY <2>3, <3>1, <3>2, Copied
    <3>4. f # W /\ f # <<>>
      BY <3>3 DEF Copies
    <3>5. /\ file' = f /\ reader' = NoOne /\ live' = Unread
          /\ origin' = [origin EXCEPT !.whole = FALSE]
      BY <2>3 DEF Damage, Inv, ReadInv
    <3>6. FileIs(W, o, s)' /\ origin' # NoOne
      BY <3>1, <3>3, <3>4, <3>5 DEF NoOne, FileIs, Wrote
    <3>7. QED
      BY <3>1, <3>4, <3>5, <3>6 DEF Inv, FileInv, ReadInv
  <2>4. ASSUME reader = NoOne, NEW c \in Context, Read(c) PROVE Inv'
    <3>1. /\ reader' = [by |-> "job", ctx |-> c] /\ file # <<>>
          /\ UNCHANGED <<file, origin>>
          /\ live' = IF Accepts(file, c) THEN Fields(file, c) ELSE Unread
      BY <2>4 DEF Read, Fields, Inv, ReadInv
    <3>2. reader' # NoOne /\ reader'.ctx = c
      BY <3>1 DEF NoOne
    <3>3. FileInv'
      BY <3>1 DEF Inv, FileInv, FileIs, Wrote
    <3>4. ReadInv'
      BY <3>1, <3>2 DEF ReadInv
    <3>5. QED
      BY <3>3, <3>4 DEF Inv
  <2>5. CASE UNCHANGED vars
    BY <2>5 DEF vars, Inv, FileInv, ReadInv, FileIs, Wrote
  <2>6. QED
    BY <2>1, <2>2, <2>3, <2>4, <2>5 DEF Next, OldVersions
<1>3. QED
  BY <1>1, <1>2, PTL DEF Spec

(* What a reader holds after it looked at a file. *)
LEMMA WhatIsRead ==
  ASSUME Inv, reader # NoOne
  PROVE  /\ live \in Saved \cup {Unread}
         /\ live # Unread =>
              /\ origin.whole /\ live = origin.state
              /\ Equations(origin.by, origin.ctx, origin.version)
                   = Equations("this", reader.ctx, Version(reader.ctx))
         /\ origin.by = "this" /\ origin.whole
            /\ Equations("this", origin.ctx, Version(origin.ctx))
                 = Equations("this", reader.ctx, Version(reader.ctx))
            => live # Unread
<1>1. /\ file # <<>> /\ reader.ctx \in Context
      /\ live = IF Accepts(file, reader.ctx) THEN Fields(file, reader.ctx) ELSE Unread
  BY DEF Inv, ReadInv
<1>2. PICK o \in Context, s \in Saved, W \in Streams : FileIs(W, o, s)
  BY <1>1 DEF Inv, FileInv
<1>3. s # Unread
  BY DEF Saved, Unread
<1>4. PICK c \in Context : c = reader.ctx
  BY <1>1
<1>5. CASE origin.by = "this"
  <2>1. W = Written(o, s) /\ origin.version = Version(o) /\ origin.ctx = o /\ origin.state = s
    BY <1>2, <1>5 DEF FileIs, Wrote
  <2>2. file \in Copies(Written(o, s)) /\ (origin.whole <=> file = Written(o, s))
    BY <1>2, <2>1 DEF FileIs
  <2>3. /\ Accepts(file, c) => file = Written(o, s) /\ Fields(file, c) = s
        /\ file = Written(o, s) =>
             (Accepts(file, c) <=> Equations("this", o, Version(o))
                                     = Equations("this", c, Version(c)))
    BY <2>2, ThisTaken
  <2>4. CASE Accepts(file, c)
    <3>1. live = s /\ origin.whole
      BY <1>1, <1>4, <2>2, <2>3, <2>4, Zenon
    <3>2. QED
      BY <1>3, <1>4, <1>5, <2>1, <2>3, <2>4, <3>1, Zenon
  <2>5. CASE ~ Accepts(file, c)
    BY <1>1, <1>4, <2>1, <2>2, <2>3, <2>5, Zenon
  <2>6. QED
    BY <2>4, <2>5
<1>6. CASE origin.by # "this"
  <2>1. PICK v \in OldVersions :
          /\ OldVersion(v, o) /\ origin.version = v /\ W = OldWritten(v, o, s)
          /\ origin.by = "old" /\ origin.ctx = o /\ origin.state = s
    BY <1>2, <1>6 DEF FileIs, Wrote
  <2>2. file \in Copies(OldWritten(v, o, s)) /\ (origin.whole <=> file = OldWritten(v, o, s))
    BY <1>2, <2>1 DEF FileIs
  <2>3. Accepts(file, c) =>
          /\ file = OldWritten(v, o, s) /\ Fields(file, c) = s
          /\ Equations("old", o, v) = Equations("this", c, Version(c))
    BY <2>1, <2>2, OldTaken
  <2>4. CASE Accepts(file, c)
    <3>1. live = s /\ origin.whole
      BY <1>1, <1>4, <2>2, <2>3, <2>4, Zenon
    <3>2. QED
      BY <1>3, <1>4, <1>6, <2>1, <2>3, <2>4, <3>1, Zenon
  <2>5. CASE ~ Accepts(file, c)
    BY <1>1, <1>4, <1>6, <2>5, Zenon
  <2>6. QED
    BY <2>4, <2>5
<1>7. QED
  BY <1>5, <1>6

(* Whatever reads whatever file: it holds a state that can be saved, or    *)
(* nothing, and never a field of the header or of a context.               *)
THEOREM TypeCorrect == Spec => []TypeOK
<1>1. Inv => TypeOK
  <2> SUFFICES ASSUME Inv PROVE TypeOK
    OBVIOUS
  <2>1. file \in Seq(Nat)
    <3>1. <<>> \in Seq(Nat)
      OBVIOUS
    <3>2. ASSUME NEW W, file \in Copies(W) PROVE file \in Seq(Nat)
      BY <3>2 DEF Copies, Streams
    <3>3. QED
      BY <3>1, <3>2 DEF Inv, FileInv, FileIs
  <2>2. CASE reader = NoOne
    BY <2>1, <2>2 DEF Inv, ReadInv, TypeOK
  <2>3. CASE reader # NoOne
    BY <2>1, <2>3, WhatIsRead DEF Inv, ReadInv, TypeOK
  <2>4. QED
    BY <2>2, <2>3
<1>2. QED
  BY <1>1, Inductive, PTL

(* A job continues only a file written under the same equations for the    *)
(* same inputs, by whichever version, and holds exactly what was saved.    *)
THEOREM SameRunContinued == Spec => []ContinuesTheSameRun
<1>1. Inv => ContinuesTheSameRun
  BY WhatIsRead DEF ContinuesTheSameRun, Accepted
<1>2. QED
  BY <1>1, Inductive, PTL

(* No part of a file and nothing longer than one is ever taken, and a      *)
(* whole file of this program is taken by every job it is meant for.       *)
THEOREM WholeFilesAccepted == Spec => []AcceptsWholeFiles
<1>1. Inv => AcceptsWholeFiles
  BY WhatIsRead DEF AcceptsWholeFiles, Accepted
<1>2. QED
  BY <1>1, Inductive, PTL
=============================================================================

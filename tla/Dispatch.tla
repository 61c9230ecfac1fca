------------------------------ MODULE Dispatch ------------------------------
(***************************************************************************)
(* The rules by which LibRPA's processes share work (mpi/base_mpi.cpp and  *)
(* the two context files beside it).  No message is exchanged: every       *)
(* process evaluates the same formula for itself, so that the shares fit   *)
(* together is a property of the arithmetic.  Ranges start at 0, processes *)
(* and groups count from 0.                                                *)
(***************************************************************************)
EXTENDS Integers, Sequences, FiniteSets

Least(a, b) == IF a < b THEN a ELSE b
AtLeastZero(a) == IF a < 0 THEN 0 ELSE a
Distance(a, b) == IF a < b THEN b - a ELSE a - b

Entries(s) == {s[i] : i \in DOMAIN s}
-----------------------------------------------------------------------------
(* dispatcher: n items over size processes, the first n % size of which    *)
(* take one more.  Sequential shares are intervals, the others round-robin.*)
ShareSize(n, p, size) == n \div size + IF p < n % size THEN 1 ELSE 0

(* Mutant: the surplus of the processes before p is not skipped. *)
ShareIgnoringSurplus(n, p, size, sequential) ==
  [i \in 1 .. ShareSize(n, p, size) |->
     IF sequential THEN i - 1 + (n \div size) * p ELSE size * (i - 1) + p]

Share(n, p, size, sequential) ==
  [i \in 1 .. ShareSize(n, p, size) |->
     IF sequential THEN i - 1 + (n \div size) * p + Least(n % size, p)
                   ELSE size * (i - 1) + p]

(* Sum and product of the first k entries, counted from 0, of a list f:    *)
(* loops, as functions that can be reasoned about.                         *)
SumBelow(f, k) ==
  LET sum[i \in 0 .. k] == IF i = 0 THEN 0 ELSE sum[i - 1] + f[i - 1]
  IN sum[k]

ProductBelow(f, k) ==
  LET product[i \in 0 .. k] == IF i = 0 THEN 1 ELSE product[i - 1] * f[i - 1]
  IN product[k]

(* dispatcher_balanced_counts: n items in proportion to the inverse of the *)
(* weights w[0], w[1], ...; what rounding down leaves goes to the largest  *)
(* remainders.  Target and remainder are kept as integers over the common  *)
(* denominator; equal remainders are ordered by process, as in the code.   *)
BalancedCounts(n, w) ==
  LET size     == Cardinality(DOMAIN w)
      m        == ProductBelow(w, size)
      inverse  == [p \in DOMAIN w |-> m \div w[p]]
      total    == SumBelow(inverse, size)
      floor    == [p \in DOMAIN w |-> (n * inverse[p]) \div total]
      rest     == [p \in DOMAIN w |-> (n * inverse[p]) % total]
      left     == n - SumBelow(floor, size)
      Ahead(p) == {q \in DOMAIN w : \/ rest[q] > rest[p]
                                    \/ rest[q] = rest[p] /\ q < p}
  IN [p \in DOMAIN w |->
        floor[p] + IF Cardinality(Ahead(p)) < left THEN 1 ELSE 0]

(* Mutant: every earlier process is taken to have as many items as p. *)
BalancedShareOwnSize(n, w, p) ==
  LET counts == BalancedCounts(n, w)
  IN [i \in 1 .. counts[p] |-> counts[p] * p + i - 1]

(* dispatcher_balanced with sequential = true, the only mode in use.       *)
BalancedShare(n, w, p) ==
  LET counts == BalancedCounts(n, w)
      start  == SumBelow(counts, p)
  IN [i \in 1 .. counts[p] |-> start + i - 1]
-----------------------------------------------------------------------------
(* Mutant: the pairs of the lower triangle are kept too. *)
PickAll(rows, cols) ==
  [k \in 1 .. Len(rows) * Len(cols) |->
     <<rows[((k - 1) \div Len(cols)) + 1], cols[((k - 1) % Len(cols)) + 1]>>]

(* The entries of s that are in T, in order: SelectSeq, as a function that *)
(* can be reasoned about.                                                  *)
Picked(s, T) ==
  LET picked[k \in 0 .. Len(s)] ==
        IF k = 0 THEN <<>>
        ELSE IF s[k] \in T THEN Append(picked[k - 1], s[k]) ELSE picked[k - 1]
  IN picked[Len(s)]

(* The pairs (i, j), i <= j, of the rows and columns a grid process holds. *)
PickUpper(rows, cols) ==
  LET pairs == [k \in 1 .. Len(rows) * Len(cols) |->
                  <<rows[((k - 1) \div Len(cols)) + 1],
                    cols[((k - 1) % Len(cols)) + 1]>>]
  IN Picked(pairs, {pair \in Nat \X Nat : pair[1] <= pair[2]})

BlockPairs(n, nr, nc, r, c) ==
  PickUpper(Share(n, r, nr, TRUE), Share(n, c, nc, TRUE))

(* The process comes before its point mirror, row by row.                  *)
Former(nr, nc, r, c) ==
  \/ r < nr - 1 - r
  \/ r = nr - 1 - r /\ c <= nc - 1 - c

(* Mutant: mirrored processes keep the order of their own point of view.   *)
UpperTasksOwnFirst(n, nr, nc, r, c) ==
  LET own    == BlockPairs(n, nr, nc, r, c)
      mirror == BlockPairs(n, nr, nc, nr - 1 - r, nc - 1 - c)
      half   == (Len(own) + Len(mirror)) \div 2
  IN IF r = nr - 1 - r /\ c = nc - 1 - c THEN own
     ELSE IF Former(nr, nc, r, c) THEN SubSeq(own \o mirror, 1, half)
     ELSE SubSeq(own \o mirror, half + 1, Len(own) + Len(mirror))

(* dispatch_upper_triangular_tasks: a process and its point mirror in the  *)
(* grid lay their pairs end to end, the former process first, and take a   *)
(* half each; the centre of the grid has no partner.                       *)
UpperTasks(n, nr, nc, r, c) ==
  LET own    == BlockPairs(n, nr, nc, r, c)
      mirror == BlockPairs(n, nr, nc, nr - 1 - r, nc - 1 - c)
      half   == (Len(own) + Len(mirror)) \div 2
  IN IF r = nr - 1 - r /\ c = nc - 1 - c THEN own
     ELSE IF Former(nr, nc, r, c) THEN SubSeq(own \o mirror, 1, half)
     ELSE SubSeq(mirror \o own, half + 1, Len(own) + Len(mirror))
-----------------------------------------------------------------------------
(* resolve_two_level_process_shape: the shape [outer, inner] for a request *)
(* in which 0 stands for AUTO.                                             *)
AUTO == 0
NoShape == [outer |-> AUTO, inner |-> AUTO]

Divides(d, n) == n % d = 0
IsSquare(n) == \E root \in 1 .. n : root * root = n

Gcd(a, b) == CHOOSE d \in 1 .. a :
  /\ Divides(d, a) /\ Divides(d, b)
  /\ \A e \in d + 1 .. a : ~ (Divides(e, a) /\ Divides(e, b))

(* Mutant: the bound by the work is not checked for a fixed inner size.    *)
UnboundedRequestFits(request, nproc, nitem) ==
  /\ nproc > 0 /\ nitem > 0
  /\ request.outer <= nitem
  /\ IF request.outer # AUTO
       THEN IF request.inner # AUTO THEN request.outer * request.inner = nproc
                                    ELSE Divides(request.outer, nproc)
       ELSE request.inner # AUTO => Divides(request.inner, nproc)

(* The request is one the program accepts; it throws otherwise.            *)
RequestFits(request, nproc, nitem) ==
  /\ nproc > 0 /\ nitem > 0
  /\ request.outer <= nitem
  /\ IF request.outer # AUTO
       THEN IF request.inner # AUTO THEN request.outer * request.inner = nproc
                                    ELSE Divides(request.outer, nproc)
       ELSE request.inner # AUTO =>
              /\ Divides(request.inner, nproc)
              /\ nproc \div request.inner <= nitem

ResolvedOuter(request, nproc, nitem, favorSquare) ==
  LET most   == Gcd(nitem, nproc)
      square == {d \in 1 .. most : Divides(d, most) /\ IsSquare(nproc \div d)}
  IN IF request.outer # AUTO THEN request.outer
     ELSE IF request.inner # AUTO THEN nproc \div request.inner
     ELSE IF nitem >= nproc THEN nproc
     ELSE IF favorSquare /\ square # {}
            THEN CHOOSE d \in square : \A e \in square : e <= d
     ELSE most

ResolvedShape(request, nproc, nitem, favorSquare) ==
  LET outer == ResolvedOuter(request, nproc, nitem, favorSquare)
  IN [outer |-> outer, inner |-> nproc \div outer]

(* Mutant: divides by the number of groups in both layouts. *)
SplitRankByOuter(rank, shape, layout) ==
  IF layout = "inner"
    THEN [group |-> rank \div shape.outer, rank |-> rank % shape.outer]
    ELSE [group |-> rank % shape.outer, rank |-> rank \div shape.outer]

(* split_two_level_rank and its inverse two_level_global_rank.             *)
SplitRank(rank, shape, layout) ==
  IF layout = "inner"
    THEN [group |-> rank \div shape.inner, rank |-> rank % shape.inner]
    ELSE [group |-> rank % shape.outer, rank |-> rank \div shape.outer]

(* Mutant: one layout for both. *)
GlobalRankInner(shape, layout, group, rank) == group * shape.inner + rank

GlobalRank(shape, layout, group, rank) ==
  IF layout = "inner" THEN group * shape.inner + rank
                      ELSE rank * shape.outer + group

(* choose_kpoint_blacs_grid: the first number of rows with the least key.  *)
GridKey(rows, nproc, m, n, moreRows, favorSquare) ==
  LET cols     == nproc \div rows
      overflow == AtLeastZero(rows - m) + AtLeastZero(cols - n)
      mismatch == Distance(rows * n, cols * m)
      balance  == Distance(rows, cols)
      turned   == IF (moreRows /\ rows < cols) \/ (~ moreRows /\ cols < rows)
                    THEN 1 ELSE 0
  IN IF favorSquare THEN <<balance, overflow, mismatch, turned>>
                    ELSE <<overflow, mismatch, balance, turned>>

Before(k, l) == \E i \in 1 .. 4 : k[i] < l[i] /\ \A j \in 1 .. i - 1 : k[j] = l[j]

ChosenGrid(nproc, m, n, moreRows, favorSquare) ==
  LET D      == {d \in 1 .. nproc : Divides(d, nproc)}
      Key(d) == GridKey(d, nproc, m, n, moreRows, favorSquare)
      rows   == CHOOSE d \in D :
                  \A e \in D : ~ Before(Key(e), Key(d)) /\ (Key(e) = Key(d) => d <= e)
  IN [rows |-> rows, cols |-> nproc \div rows]
=============================================================================

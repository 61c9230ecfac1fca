--------------------------- MODULE MCIndexSchedule ---------------------------
(***************************************************************************)
(* Two atoms with one and two basis functions: on two processes with every *)
(* distribution of the pairs, and on a grid of two by two with some.       *)
(***************************************************************************)
EXTENDS IndexSchedule

Blocking(n, nprocs, cyclic) == IF cyclic THEN 1 ELSE (n + nprocs - 1) \div nprocs

Desc(rows, cols, grid, cyclic, src, rowMajor) ==
  [rows |-> rows, cols |-> cols, nprows |-> grid[1], npcols |-> grid[2],
   mb |-> Blocking(Total(rows), grid[1], cyclic),
   nb |-> Blocking(Total(cols), grid[2], cyclic),
   irsrc |-> src % grid[1], icsrc |-> src % grid[2], rowMajor |-> rowMajor]

RoundRobin(d) ==
  [IJ \in Pairs(d) |-> (IJ[1] + 2 * IJ[2]) % Cardinality(Procs(d))]

(* Two distributions to convert with, one after the other. *)
With(d, owner) ==
  [d |-> d, owners |-> <<owner, IF IsConsecutive(d) THEN BalancedOwner(d)
                                                    ELSE RoundRobin(d)>>]

AnyOwner(d) == [Pairs(d) -> Procs(d) \cup {Nobody}]

(* One basis for rows and columns, as all callers have it, in both orders; *)
(* two bases in row-major order.                                           *)
OnTwo ==
  {Desc(<<1, 2>>, <<1, 2>>, g, c, 0, major) :
     g \in {<<1, 2>>, <<2, 1>>}, c \in BOOLEAN, major \in BOOLEAN} \cup
  {Desc(<<1, 2>>, <<2, 1>>, <<1, 2>>, TRUE, 1, TRUE)}

OnFour ==
  {Desc(<<2, 1>>, <<2, 1>>, <<2, 2>>, c, 1, major) : c \in BOOLEAN, major \in BOOLEAN}

MCLayout ==
  UNION {{With(d, o) : o \in AnyOwner(d)} : d \in OnTwo} \cup
  UNION {{With(d, o) : o \in {[IJ \in Pairs(d) |-> 0],
                              [RoundRobin(d) EXCEPT ![1, 2] = Nobody]}} : d \in OnFour}

(* Row and column bases that differ, in column-major order. *)
TwoBases ==
  {With(d, RoundRobin(d)) :
     d \in {Desc(<<1, 2>>, <<2, 1>>, g, TRUE, 0, FALSE) : g \in {<<1, 2>>, <<2, 1>>}}}

Do(op, owners) == [op |-> op, owners |-> owners]

MCScript == {<<Do("init", 1), Do("to ap", 1), Do("to blacs", 1),
               Do("init", 2), Do("to blacs", 2)>>}
=============================================================================

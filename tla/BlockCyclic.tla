----------------------------- MODULE BlockCyclic -----------------------------
(***************************************************************************)
(* Where an element of a distributed matrix lives.  A matrix over atomic   *)
(* bases exists in two forms: as blocks of atom pairs, each whole on one   *)
(* process (core/atomic_basis), and as ScaLAPACK's block-cyclic pieces of  *)
(* a process grid (mpi/base_blacs, math/scalapack_connector.h).            *)
(*                                                                         *)
(* A descriptor d has rows and cols, the basis sizes of the atoms; nprows, *)
(* npcols, mb, nb, irsrc, icsrc as in ArrayDesc; and rowMajor, the storage *)
(* order of both forms.  Matrix indices start at 0, atoms at 1.            *)
(***************************************************************************)
EXTENDS Integers, Sequences, FiniteSets

Descriptor ==
  [rows: Seq(Nat), cols: Seq(Nat), nprows: Nat \ {0}, npcols: Nat \ {0},
   mb: Nat \ {0}, nb: Nat \ {0}, irsrc: Nat, icsrc: Nat, rowMajor: BOOLEAN]

(* The first row and column are on a process of the grid.                  *)
SourceInGrid(d) == d.irsrc < d.nprows /\ d.icsrc < d.npcols

(* The index of the first function of an atom, and the number of all.      *)
PartRange(sizes, a) ==
  LET first[b \in 1 .. Len(sizes) + 1] ==
        IF b = 1 THEN 0 ELSE first[b - 1] + sizes[b - 1]
  IN first[a]
Total(sizes)        == PartRange(sizes, Len(sizes) + 1)

GetIAtom(sizes, g) ==
  CHOOSE a \in DOMAIN sizes : /\ PartRange(sizes, a) <= g
                              /\ g < PartRange(sizes, a + 1)
GetLocalIndex(sizes, g) == g - PartRange(sizes, GetIAtom(sizes, g))
-----------------------------------------------------------------------------
indxg2p(g, nb, src, nprocs) == (src + g \div nb) % nprocs
indxg2l(g, nb, nprocs)      == (nb * (g \div (nb * nprocs))) + (g % nb)
indxl2g(l, nb, me, src, nprocs) ==
  nprocs * nb * (l \div nb) + (l % nb) + ((nprocs + me - src) % nprocs) * nb

Procs(d) == 0 .. d.nprows * d.npcols - 1
Rows(d)  == 0 .. Total(d.rows) - 1
Cols(d)  == 0 .. Total(d.cols) - 1

(* The grid is filled row by row (CTXT_LAYOUT::R). *)
GetPnum(d, prow, pcol) == prow * d.npcols + pcol
MyPRow(d, p) == p \div d.npcols
MyPCol(d, p) == p % d.npcols

RowProc(d, i) == indxg2p(i, d.mb, d.irsrc, d.nprows)
ColProc(d, j) == indxg2p(j, d.nb, d.icsrc, d.npcols)
ProcBlacs(d, i, j) == GetPnum(d, RowProc(d, i), ColProc(d, j))

(* numroc: the rows and columns of the local piece. *)
MLoc(d, p) == Cardinality({i \in Rows(d) : RowProc(d, i) = MyPRow(d, p)})
NLoc(d, p) == Cardinality({j \in Cols(d) : ColProc(d, j) = MyPCol(d, p)})

(* Mutant: as if the columns were not dealt out. *)
ColumnItself(d, j) == j

(* The global row and column of a local one, and back. *)
L2GRow(d, p, ir) == indxl2g(ir, d.mb, MyPRow(d, p), d.irsrc, d.nprows)
L2GCol(d, p, ic) == indxl2g(ic, d.nb, MyPCol(d, p), d.icsrc, d.npcols)
G2LRow(d, i) == indxg2l(i, d.mb, d.nprows)
G2LCol(d, j) == indxg2l(j, d.nb, d.npcols)

(* The place of an element in the array of an nr by nc matrix, and the     *)
(* element at a place.                                                     *)
Flat(d, nr, nc, i, j) == IF d.rowMajor THEN i * nc + j ELSE j * nr + i
Unflat(d, nr, nc, slot) == IF d.rowMajor THEN <<slot \div nc, slot % nc>>
                                         ELSE <<slot % nr, slot \div nr>>

Pairs(d) == (DOMAIN d.rows) \X (DOMAIN d.cols)
PairOf(d, e) == <<GetIAtom(d.rows, e[1]), GetIAtom(d.cols, e[2])>>

(* All elements, the column or the row index faster.                       *)
Elements(d) ==
  [k \in 1 .. Total(d.rows) * Total(d.cols) |->
     Unflat(d, Total(d.rows), Total(d.cols), k - 1)]

(* The elements a process's piece, and a block, have in their arrays.      *)
Piece(d, p) ==
  [slot \in 0 .. MLoc(d, p) * NLoc(d, p) - 1 |->
     LET at == Unflat(d, MLoc(d, p), NLoc(d, p), slot)
     IN <<L2GRow(d, p, at[1]), L2GCol(d, p, at[2])>>]

Block(d, IJ) ==
  [slot \in 0 .. d.rows[IJ[1]] * d.cols[IJ[2]] - 1 |->
     LET at == Unflat(d, d.rows[IJ[1]], d.cols[IJ[2]], slot)
     IN <<PartRange(d.rows, IJ[1]) + at[1], PartRange(d.cols, IJ[2]) + at[2]>>]

(* The place of an element in its process's piece, by the descriptor; and  *)
(* by counting the rows and columns before it that live there as well.     *)
SlotInPiece(d, p, e) ==
  Flat(d, MLoc(d, p), NLoc(d, p), G2LRow(d, e[1]), G2LCol(d, e[2]))
CountedSlot(d, p, e) ==
  Flat(d, MLoc(d, p), NLoc(d, p),
       Cardinality({h \in 0 .. e[1] - 1 : RowProc(d, h) = MyPRow(d, p)}),
       Cardinality({h \in 0 .. e[2] - 1 : ColProc(d, h) = MyPCol(d, p)}))
-----------------------------------------------------------------------------
(* get_balanced_ap_distribution_for_consec_descriptor: a pair goes to the  *)
(* process that holds the middle of its block, so most of it need not move.*)
IsConsecutive(d) ==
  d.mb * d.nprows >= Total(d.rows) /\ d.nb * d.npcols >= Total(d.cols)

Centre(sizes, a) == (PartRange(sizes, a) + PartRange(sizes, a + 1)) \div 2

BalancedOwner(d) ==
  [IJ \in Pairs(d) |-> ProcBlacs(d, Centre(d.rows, IJ[1]), Centre(d.cols, IJ[2]))]
=============================================================================

----------------------------- MODULE HalfSchedule -----------------------------
(***************************************************************************)
(* fill_local_mat_from_ap_dist_sy (math/utils_matrix_m_mpi.h) fills the    *)
(* ScaLAPACK pieces of a Hermitian matrix of which only the atom pairs of  *)
(* one half exist.  Sender and receiver each list the elements they        *)
(* exchange by a walk of their own (core/utils_atomic_basis_blacs): the    *)
(* owner of a pair through its blocks, the holder of a piece through the   *)
(* piece.  Rows and columns have the same basis.                           *)
(***************************************************************************)
EXTENDS BlockCyclic, SequencesExt

CONSTANT Layout   \* [d: descriptor, uplo: "U" or "L", pairs: Proc -> Seq of pairs]

VARIABLES layout, stage, local, chan

vars == <<layout, stage, local, chan>>

d    == layout.d
Proc == Procs(d)

(* get_conj: an element of a Hermitian matrix read as the one opposite it. *)
Opposite(e) == <<e[2], e[1]>>
Unknown     == <<-1, -1>>

Has(p, IJ) == Contains(layout.pairs[p], IJ)
InHalf(e)  == IF layout.uplo = "U" THEN e[1] <= e[2] ELSE e[1] > e[2]
Holder(e)  == ProcBlacs(d, e[1], e[2])
-----------------------------------------------------------------------------
(* The part that is here: the element (i, j) of the opposite block is read *)
(* for the element (i, j) of a block that is not stored.                   *)
OwnElement(p, e) ==
  LET IJ == PairOf(d, e)
      JI == Opposite(IJ)
      at == Flat(d, d.rows[JI[1]], d.cols[JI[2]],
                 GetLocalIndex(d.rows, e[1]), GetLocalIndex(d.cols, e[2]))
  IN IF Has(p, IJ) THEN e
     ELSE IF ~ Has(p, JI) \/ at \notin DOMAIN Block(d, JI) THEN Unknown
     ELSE Opposite(Block(d, JI)[at])

OwnPart(p) ==
  [slot \in DOMAIN Piece(d, p) |-> OwnElement(p, Piece(d, p)[slot])]

AsSeq(array) == [k \in 1 .. Cardinality(DOMAIN array) |-> array[k - 1]]

(* _get_communicate_ids_list_ap_to_blacs_sy, the sending side: pair after  *)
(* pair, in each the elements in storage order, one for its own place and  *)
(* one for the place opposite.                                             *)
Sent(p, q) ==
  LET mine == FlattenSeq([k \in DOMAIN layout.pairs[p] |->
                            AsSeq(Block(d, layout.pairs[p][k]))])
      half == SelectSeq(mine, LAMBDA e :
                IF layout.uplo = "U" THEN e[1] <= e[2] ELSE e[1] >= e[2])
      for(e) == (IF Holder(e) = q THEN <<e>> ELSE <<>>) \o
                (IF e[1] # e[2] /\ Holder(Opposite(e)) = q THEN <<e>> ELSE <<>>)
  IN IF p = q THEN <<>> ELSE FlattenSeq([k \in DOMAIN half |-> for(half[k])])

(* The receiving side: through the piece in storage order.                 *)
Expected(p, q) ==
  LET stored(e) == IF InHalf(e) THEN e ELSE Opposite(e)
      slots == [k \in 1 .. Cardinality(DOMAIN Piece(d, p)) |-> k - 1]
  IN IF p = q THEN <<>>
     ELSE SelectSeq(slots, LAMBDA s : Has(q, PairOf(d, stored(Piece(d, p)[s]))))

Taken(p, q, slot) ==
  LET k == CHOOSE i \in DOMAIN Expected(p, q) : Expected(p, q)[i] = slot
      v == IF k \in DOMAIN chan[q, p] THEN chan[q, p][k] ELSE Unknown
  IN IF InHalf(Piece(d, p)[slot]) THEN v ELSE Opposite(v)

Start(p) ==
  /\ stage[p] = "called"
  /\ local' = [local EXCEPT ![p] = OwnPart(p)]
  /\ chan' = [pq \in DOMAIN chan |->
                IF pq[1] = p THEN Sent(p, pq[2]) ELSE chan[pq]]
  /\ stage' = [stage EXCEPT ![p] = "waiting"]
  /\ UNCHANGED layout

Finish(p) ==
  /\ stage[p] = "waiting"
  /\ \A q \in Proc : Expected(p, q) # <<>> => chan[q, p] # <<>>
  /\ local' = [local EXCEPT ![p] = [slot \in DOMAIN @ |->
       LET from == {q \in Proc : Contains(Expected(p, q), slot)}
       IN IF from = {} THEN @[slot]
          ELSE Taken(p, CHOOSE q \in from : TRUE, slot)]]
  /\ stage' = [stage EXCEPT ![p] = "returned"]
  /\ UNCHANGED <<layout, chan>>

Init ==
  /\ layout \in Layout
  /\ stage = [p \in Proc |-> "called"]
  /\ local = [p \in Proc |-> <<>>]
  /\ chan = [pq \in Proc \X Proc |-> <<>>]

Next == \/ \E p \in Proc : Start(p) \/ Finish(p)
        \/ (\A p \in Proc : stage[p] = "returned") /\ UNCHANGED vars

Spec == Init /\ [][Next]_vars
-----------------------------------------------------------------------------
(* The documentation: the local matrix on each process is filled, from     *)
(* input on one half only.  Each place of a piece has its element.         *)
HalfIsCompleted ==
  \A p \in Proc : stage[p] = "returned" => local[p] = Piece(d, p)
=============================================================================

------------------------ MODULE MCEigvecRedistribution ------------------------
(***************************************************************************)
(* Four processes in two teams of two, as in test/test_dataset.cpp, by the *)
(* formulas of Dispatch: round-robin k-points, inner_is_contiguous.        *)
(***************************************************************************)
EXTENDS EigvecRedistribution

CONSTANTS Outer, Inner

D == INSTANCE Dispatch

Shape == [outer |-> Outer, inner |-> Inner]

MCRank == 0 .. (Outer * Inner - 1)
Owner(k) == CHOOSE g \in 0 .. Outer - 1 :
              k - 1 \in D!Entries(D!Share(NKpoint, g, Outer, FALSE))
MCRoot == [k \in Kpoint |-> D!GlobalRank(Shape, "inner", Owner(k), 0)]
MCTeam == [k \in Kpoint |-> {r \in MCRank : D!SplitRank(r, Shape, "inner").group = Owner(k)}]

(* One process reads everything, and another one reads a k-point as well.  *)
MCReads == {<<3, k>> : k \in Kpoint} \cup {<<0, 2>>}
=============================================================================

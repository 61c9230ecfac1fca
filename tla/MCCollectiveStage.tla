-------------------------- MODULE MCCollectiveStage -------------------------
(* Three ranks through root and all stages in both orders. *)
EXTENDS CollectiveStage

MCKind == <<"root", "all", "root", "root", "all">>
=============================================================================
